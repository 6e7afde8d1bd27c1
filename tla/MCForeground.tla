----------------------------- MODULE MCForeground -----------------------------
(* The tasks of the foreground worker on small instances: two flag tasks of   *)
(* MessageSync, or a multi-send with two recipients. A behaviour chooses one   *)
(* of them at its start.                                                       *)
EXTENDS ForegroundTasks, Sequences

CONSTANTS Order, MaxAttempts, MaxKills

VARIABLES part, row, taken, at, next, multisend, draftAt, sentBox, synced, gateway, owed,
          attempts, got, handed, early, mishap, kills

sendVars == <<row, taken, at, next, multisend, draftAt, sentBox, synced, gateway, owed,
              attempts, got, handed, early, mishap, kills>>
queueVars == <<sendVars, waking, locked>>
foregroundVars == <<tasksVars, queueVars, part>>

Recipients == <<"a", "b">>

Sending == INSTANCE SendQueue

ForegroundInit ==
    /\ part \in {"flags", "send"}
    /\ TasksInit /\ Sending!QueueInit
    /\ part = "flags" => ~multisend /\ draftAt = {"local"} /\ gateway = "never"

ForegroundNext ==
    /\ UNCHANGED part
    /\ \/ part = "flags" /\ TasksNext /\ UNCHANGED sendVars
       \/ part = "send" /\ Sending!QueueNext /\ UNCHANGED vars

\* The foreground worker goes on unless it is parked, and those who are about to
\* wake it do so, or fail to. That it can connect in the end is assumed; the user
\* and whatever else may end the wait owe nothing.
ForegroundSpec ==
    /\ ForegroundInit
    /\ [][ForegroundNext]_foregroundVars
    /\ WF_tasksVars(part = "flags" /\ Unlocked /\ Foreground)
    /\ WF_queueVars(part = "send" /\ Sending!Unlocked /\ Sending!Sender)
    /\ WF_tasksVars(part = "flags" /\ Unlocked /\ Announce)
    /\ WF_queueVars(part = "send" /\ Sending!Unlocked /\ Sending!Announce)

\* Every send that was handed to the worker ends: SendQueue says what is excepted.
SendEnds == Sending!SendEnds
=============================================================================
