------------------------------ MODULE SendQueue ------------------------------
(***************************************************************************)
(* SendDraft, and the foreground worker that may not be awake to send: each *)
(* action that has to do with waking it is taken together with one of       *)
(* Wakeup, which ForegroundIdle implements. All threads may stop for good   *)
(* when two mutexes are taken in opposite orders (DeltaStream).             *)
(***************************************************************************)
EXTENDS SendDraft

VARIABLES
    worker,     \* where the foreground worker is, as in Wakeup
    bell,       \* whether somebody is about to wake it
    missed,     \* history: whether a wake-up was lost since it looked for tasks
    locked      \* whether the threads have locked each other out in DeltaStream

waking == <<worker, bell, missed>>
queueVars == <<sendVars, waking, locked>>

Bell == INSTANCE Wakeup WITH work <- row.status = "remote"

QueueInit ==
    /\ SendInit
    /\ worker = "cycle" /\ bell = FALSE /\ missed = FALSE
    /\ locked = FALSE

-----------------------------------------------------------------------------
\* Faulty variant: the main thread wakes nobody.
CommitSilently == LocalSend /\ UNCHANGED waking

\* The task is saved as "remote", and the main thread announces it.
CommitSend == LocalSend /\ Bell!Commit

\* The worker, which is at the task or looks for one, in the order of its steps.
RunSend == worker = "cycle" /\ WorkerStep /\ Bell!Perform

LookForSend == at = "idle" /\ UNCHANGED sendVars /\ Bell!Look
ParkSender == UNCHANGED sendVars /\ Bell!Park

Sender == RunSend \/ LookForSend \/ ParkSender

\* What becomes of a bell, and what else ends the wait.
Announce == UNCHANGED sendVars /\ (Bell!Ring \/ Bell!Lose)
WakeUp == UNCHANGED sendVars /\ Bell!Again

\* The client, and the gateway.
Ask == (QueueSend \/ CancelSend \/ FileLate) /\ UNCHANGED waking

\* DeltaStream.flushWithin and the flush thread: whoever emits waits for ever.
LockOut ==
    /\ ~locked /\ locked' = TRUE
    /\ UNCHANGED <<sendVars, waking>>

\* The new process begins with the task that the old one has left.
RelaunchSender ==
    /\ KillSend
    /\ worker' = "cycle" /\ bell' = FALSE /\ missed' = FALSE
    /\ locked' = FALSE

Unlocked == ~locked /\ UNCHANGED locked

QueueNext ==
    \/ Unlocked /\ (CommitSend \/ Sender \/ Announce \/ WakeUp \/ Ask)
    \/ LockOut
    \/ RelaunchSender

QueueSpec == QueueInit /\ [][QueueNext]_queueVars

-----------------------------------------------------------------------------
\* The worker waits, and a wake-up was lost since it last looked for tasks.
ParkedInVain == worker = "parked" /\ missed

\* A send that was handed over ends, whatever the gateway does and however often
\* the process is killed, unless the worker waits for good after a wake-up that was
\* lost in one of the two ways of ForegroundIdle, or the threads have locked each
\* other out in DeltaStream.
SendEnds ==
    \/ <>[](locked \/ ParkedInVain)
    \/ row.status = "remote" ~> row.status \in {"complete", "cancelled"}
=============================================================================
