----------------------------- MODULE ForegroundIdle -----------------------------
(***************************************************************************)
(* How the main thread wakes the foreground worker.                        *)
(*                                                                         *)
(* The foreground worker serves requests for bodies, then tasks, then looks*)
(* at the inbox and parks: in IDLE, which ends after 28 minutes, or on a   *)
(* condition variable without a predicate. The main thread raises the plain*)
(* flag idleShouldReloop and rings; after a task it leaves this to a       *)
(* detached thread 300 ms later, at most one by queuedForegroundWake. Bodies*)
(* go through a vector that both threads use without a lock.               *)
(***************************************************************************)
EXTENDS Integers, Sequences

CONSTANTS
    Job,        \* tasks that the client queues
    Body,       \* bodies that it asks for
    MaxPackets, \* bound on packets of the client
    MaxFaults   \* bound on requests that fail

ASSUME ForegroundIdleAssumption == MaxPackets \in Nat /\ MaxFaults \in Nat

VARIABLES
    jobs,       \* what has become of each task
    bodies,     \* what has become of each request for a body
    queue,      \* idleFetchBodyIDs
    holding,    \* the id that the worker read with back(), before pop_back()
    fg,         \* where the foreground worker is
    reloop,     \* idleShouldReloop
    rung,       \* whether the stream has been told to leave IDLE
    canIdle,    \* mIdleEnabled
    asking,     \* where the main thread is
    woke,       \* queuedForegroundWake
    waker,      \* the detached thread
    ringer,     \* who is in idleInterrupt, with idleMtx
    lost,       \* history: how a wake-up was lost since the worker last looked
                \* for tasks
    packets,
    faults

idleVars == <<jobs, bodies, queue, holding, fg, reloop, rung, canIdle, asking,
              woke, waker, ringer, lost, packets, faults>>
mainVars == <<asking, woke, waker, ringer, jobs, packets>>
bodyVars == <<bodies, queue, holding>>

JobState == {"new", "remote", "done"}
BodyState == {"new", "ignored", "queued", "overtaken", "failed", "served"}
FgState == {"none", "bodies", "pop", "fetch", "tasks", "inbox", "set", "idling",
            "waiting", "asleep"}

-----------------------------------------------------------------------------
IdleInit ==
    /\ jobs = [t \in Job |-> "new"]
    /\ bodies = [b \in Body |-> "new"]
    /\ queue = <<>> /\ holding = <<>>
    /\ fg = "none"
    /\ reloop = FALSE /\ rung = FALSE
    /\ canIdle \in BOOLEAN
    /\ asking = "ready"
    /\ woke = FALSE /\ waker = "none" /\ ringer = "none"
    /\ lost = {}
    /\ packets = 0 /\ faults = 0

\* The main thread reads one packet after the other.
Packet ==
    /\ asking = "ready"
    /\ packets < MaxPackets
    /\ packets' = packets + 1

\* The packet queue-task: performLocal commits the task.
QueueJob(t) ==
    /\ Packet
    /\ jobs[t] = "new"
    /\ jobs' = [jobs EXCEPT ![t] = "remote"]
    /\ asking' = "queued"
    /\ UNCHANGED <<bodyVars, fg, reloop, rung, canIdle, woke, waker, ringer, lost,
                   faults>>

\* The thread is started before the flag is set. A wake-up is lost if there is
\* no thread, or if it has already rung.
SpawnWaker ==
    /\ asking = "queued"
    /\ IF woke
       THEN /\ asking' = "ready"
            /\ lost' = IF waker = "sleeping" /\ ringer # "waker" THEN lost
                       ELSE lost \cup {"flag"}
            /\ UNCHANGED waker
       ELSE /\ asking' = "spawned"
            /\ waker' = "sleeping"
            /\ UNCHANGED lost
    /\ UNCHANGED <<jobs, bodyVars, fg, reloop, rung, canIdle, woke, ringer,
                   packets, faults>>

SetWoke ==
    /\ asking = "spawned"
    /\ woke' = TRUE
    /\ asking' = "ready"
    /\ UNCHANGED <<jobs, bodyVars, fg, reloop, rung, canIdle, waker, ringer, lost,
                   packets, faults>>

\* The packet need-bodies: it is dropped if there is no foreground worker. What
\* pop_back removes while another id is being read is the new one.
NeedBody(b) ==
    /\ Packet
    /\ bodies[b] = "new"
    /\ IF fg = "none"
       THEN bodies' = [bodies EXCEPT ![b] = "ignored"] /\ UNCHANGED <<queue, asking>>
       ELSE /\ bodies' = [bodies EXCEPT ![b] = "queued"]
            /\ queue' = Append(queue, b)
            /\ asking' = "interrupt"
    /\ UNCHANGED <<holding, jobs, fg, reloop, rung, canIdle, woke, waker, ringer,
                   lost, faults>>

\* The packet wake-workers ends the sleep of the workers, and interrupts.
WakeWorkers ==
    /\ Packet
    /\ fg # "none"
    /\ fg' = IF fg = "asleep" THEN "bodies" ELSE fg
    /\ asking' = "interrupt"
    /\ UNCHANGED <<bodyVars, jobs, reloop, rung, canIdle, woke, waker, ringer, lost,
                   faults>>

\* idleInterrupt, on the main thread or the detached one: first the flag ...
MayRaise(who) ==
    /\ ringer = "none"
    /\ \/ who = "main" /\ asking = "interrupt"
       \/ who = "waker" /\ waker = "sleeping" /\ fg # "none"

Raise(who) ==
    /\ MayRaise(who)
    /\ reloop' = TRUE
    /\ ringer' = who
    /\ UNCHANGED <<bodyVars, jobs, fg, rung, canIdle, asking, woke, waker, lost,
                   packets, faults>>

\* ... then interruptIdle and notify_one. A stream that does not idle yet is
\* not told, and a worker that does not wait yet is not notified.
Ring(who) ==
    /\ ringer = who
    /\ ringer' = "none"
    /\ rung' = (rung \/ fg = "idling")
    /\ fg' = IF fg = "waiting" THEN "bodies" ELSE fg
    /\ lost' = IF fg = "set" /\ reloop THEN lost \cup {"window"} ELSE lost
    /\ IF who = "main" THEN asking' = "ready" /\ UNCHANGED waker
       ELSE waker' = "clearing" /\ UNCHANGED asking
    /\ UNCHANGED <<bodyVars, jobs, reloop, canIdle, woke, packets, faults>>

\* Without a worker there is nobody to interrupt.
WakerFindsNone ==
    /\ waker = "sleeping"
    /\ fg = "none"
    /\ waker' = "clearing"
    /\ UNCHANGED <<bodyVars, jobs, fg, reloop, rung, canIdle, asking, woke, ringer,
                   lost, packets, faults>>

ClearWoke ==
    /\ waker = "clearing"
    /\ woke' = FALSE
    /\ waker' = "none"
    /\ UNCHANGED <<bodyVars, jobs, fg, reloop, rung, canIdle, asking, ringer, lost,
                   packets, faults>>

-----------------------------------------------------------------------------
(* runForegroundSyncWorker and idleCycleIteration                          *)

\* The background worker starts it after its first pass over the folders.
StartForeground ==
    /\ fg = "none"
    /\ fg' = "bodies"
    /\ UNCHANGED <<mainVars, bodyVars, reloop, rung, canIdle, lost, faults>>

\* An exception: the worker sleeps for 120 seconds.
Throw ==
    /\ faults < MaxFaults
    /\ faults' = faults + 1
    /\ fg' = "asleep"

Awake ==
    /\ fg = "asleep"
    /\ fg' = "bodies"
    /\ UNCHANGED <<mainVars, bodyVars, reloop, rung, canIdle, lost, faults>>

Back(q) == <<q[Len(q)]>>

ReadBody ==
    /\ fg = "bodies"
    /\ queue # <<>>
    /\ holding' = Back(queue)
    /\ fg' = "pop"
    /\ UNCHANGED <<mainVars, bodies, queue, reloop, rung, canIdle, lost, faults>>

\* The last id is not the one that was read if another was pushed meanwhile.
PopBody ==
    /\ fg = "pop"
    /\ queue' = SubSeq(queue, 1, Len(queue) - 1)
    /\ LET last == queue[Len(queue)]
       IN bodies' = IF last = holding[1] THEN bodies
                    ELSE [bodies EXCEPT ![last] = "overtaken"]
    /\ fg' = "fetch"
    /\ UNCHANGED <<mainVars, holding, reloop, rung, canIdle, lost, faults>>

\* syncMessageBody; a request that throws is not queued again.
FetchBody ==
    /\ fg = "fetch"
    /\ holding' = <<>>
    /\ \/ /\ bodies' = [bodies EXCEPT ![holding[1]] = "served"]
          /\ fg' = "bodies"
          /\ UNCHANGED faults
       \/ /\ bodies' = [bodies EXCEPT ![holding[1]] = IF @ = "served" THEN @ ELSE "failed"]
          /\ Throw
    /\ UNCHANGED <<mainVars, queue, reloop, rung, canIdle, lost>>

\* Faulty variant: the flag is cleared and the iteration goes on.
ClearAndGo(from, to) ==
    /\ fg = from
    /\ reloop' = FALSE
    /\ fg' = to
    /\ UNCHANGED <<mainVars, bodyVars, rung, canIdle, lost, faults>>

\* `if (idleShouldReloop) { idleShouldReloop = false; return; }`
Check(from, to) ==
    /\ fg = from
    /\ reloop' = FALSE
    /\ fg' = IF reloop THEN "bodies" ELSE to
    /\ UNCHANGED <<mainVars, bodyVars, rung, canIdle, lost, faults>>

\* connectIfNeeded and loginIfNeeded, each after a check; a return at any of
\* them begins the iteration again.
Connect ==
    /\ queue = <<>>
    /\ \/ Check("bodies", "tasks")
       \/ /\ fg = "bodies"
          /\ Throw
          /\ UNCHANGED <<mainVars, bodyVars, reloop, rung, canIdle, lost>>

Remote == {t \in Job : jobs[t] = "remote"}

\* The loop over the tasks that are ready, until a query finds none.
RunTasks ==
    /\ fg = "tasks"
    /\ jobs' = [t \in Job |-> IF t \in Remote THEN "done" ELSE jobs[t]]
    /\ fg' = IF Remote = {} THEN "inbox" ELSE "tasks"
    /\ lost' = {}
    /\ UNCHANGED <<bodyVars, reloop, rung, canIdle, asking, woke, waker, ringer,
                   packets, faults>>

\* The status and the new messages of the inbox, and the last check
SyncInbox ==
    \/ Check("inbox", "set")
    \/ /\ fg = "inbox"
       /\ Throw
       /\ UNCHANGED <<mainVars, bodyVars, reloop, rung, canIdle, lost>>

\* setupIdle and idle, or the wait on the condition with idleMtx
Park ==
    /\ fg = "set"
    /\ \/ canIdle /\ fg' = "idling"
       \/ ~canIdle /\ ringer = "none" /\ fg' = "waiting"
    /\ rung' = FALSE
    /\ UNCHANGED <<mainVars, bodyVars, reloop, canIdle, lost, faults>>

\* Faulty variant: IDLE ends only when the stream is told.
LeaveIdleRung ==
    /\ fg = "idling"
    /\ rung
    /\ fg' = "bodies"
    /\ UNCHANGED <<mainVars, bodyVars, reloop, rung, canIdle, lost, faults>>

\* The stream was told, the server had news, or 28 minutes have passed.
LeaveIdle ==
    /\ fg = "idling"
    /\ fg' = "bodies"
    /\ UNCHANGED <<mainVars, bodyVars, reloop, rung, canIdle, lost, faults>>

-----------------------------------------------------------------------------
ForegroundStep ==
    \/ StartForeground \/ ReadBody \/ PopBody \/ FetchBody \/ Connect
    \/ RunTasks \/ SyncInbox \/ Park \/ LeaveIdle \/ Awake

MainStep == SpawnWaker \/ SetWoke \/ Raise("main") \/ Ring("main")
WakerStep == Raise("waker") \/ Ring("waker") \/ WakerFindsNone \/ ClearWoke

ClientStep ==
    \/ \E t \in Job : QueueJob(t)
    \/ \E b \in Body : NeedBody(b)
    \/ WakeWorkers

IdleNext == ForegroundStep \/ MainStep \/ WakerStep \/ ClientStep

IdleSpec == IdleInit /\ [][IdleNext]_idleVars

-----------------------------------------------------------------------------
\* Types of the variables of this module.
IdleTypeOK ==
    /\ jobs \in [Job -> JobState]
    /\ bodies \in [Body -> BodyState]
    /\ queue \in Seq(Body)
    /\ holding \in {<<>>} \cup {<<b>> : b \in Body}
    /\ fg \in FgState
    /\ reloop \in BOOLEAN /\ rung \in BOOLEAN /\ canIdle \in BOOLEAN
    /\ asking \in {"ready", "queued", "spawned", "interrupt"}
    /\ woke \in BOOLEAN
    /\ waker \in {"none", "sleeping", "clearing"}
    /\ ringer \in {"none", "main", "waker"}
    /\ lost \in SUBSET {"flag", "window"}
    /\ packets \in 0 .. MaxPackets /\ faults \in 0 .. MaxFaults

Parked == fg = "waiting" \/ (fg = "idling" /\ ~rung)
Silent == asking = "ready" /\ waker = "none" /\ ringer = "none"

\* When nobody is about to wake the worker, it is not parked with work to do,
\* except for a wake-up lost in one of two known ways: it came between the
\* last check and the wait, or queuedForegroundWake kept it from being sent.
NotLeftParked ==
    Parked /\ Silent => (Remote = {} /\ queue = <<>>) \/ lost # {}

\* The worker, as those see it who wait for a task to be run.
Position ==
    CASE fg = "set" \/ (fg = "inbox" /\ ~reloop) -> "looked"
      [] fg = "waiting" \/ (fg = "idling" /\ ~rung) -> "parked"
      [] OTHER -> "cycle"

Doorbell ==
    INSTANCE Wakeup WITH work <- Remote # {}, worker <- Position,
                         bell <- asking = "queued" \/ waker = "sleeping",
                         missed <- lost # {}

\* Flag, stream, condition and the debounced thread together do what Wakeup
\* promises: a worker that has looked, or waits, is sent back to its tasks by
\* every bell but those that are missed.
WakeupKept == Doorbell!Spec

\* Somebody waits for a task or a body that he asked for.
Unserved == Remote # {} \/ (\E b \in Body : bodies[b] = "queued")

\* With IDLE, the worker gets to the end of what it was asked: every task is run
\* and every request that was accepted and not overtaken is answered, since IDLE
\* does not last for ever and only MaxPackets packets come.
IdleServes == canIdle /\ Unserved ~> ~Unserved
=============================================================================
