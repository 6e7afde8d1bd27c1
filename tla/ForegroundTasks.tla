--------------------------- MODULE ForegroundTasks ---------------------------
(***************************************************************************)
(* The tasks of MessageSync and the foreground worker that may not be awake *)
(* to run them. What wakes it is Wakeup, which ForegroundIdle implements:   *)
(* each action of MessageSync that has to do with it is taken together with *)
(* one of Wakeup. All threads may stop for good when two mutexes are taken  *)
(* in opposite orders (DeltaStream). The worker "fg" is the only one here:  *)
(* what the background worker and other clients do, for which no task       *)
(* waits, stays in MessageSync.                                             *)
(***************************************************************************)
EXTENDS MessageSync

VARIABLES
    worker,     \* where the foreground worker is, as in Wakeup
    bell,       \* whether somebody is about to wake it
    missed,     \* history: whether a wake-up was lost since it looked for tasks
    locked      \* whether the threads have locked each other out in DeltaStream

waking == <<worker, bell, missed>>
tasksVars == <<vars, waking, locked>>

Doorbell == INSTANCE Wakeup WITH work <- Pending # {}

TasksInit ==
    /\ Init
    /\ worker = "cycle" /\ bell = FALSE /\ missed = FALSE
    /\ locked = FALSE

-----------------------------------------------------------------------------
\* Faulty variant: the main thread wakes nobody.
CommitSilently == \E t \in Task : MarkRemote(t) /\ UNCHANGED waking

\* performLocal saves the task as "remote", and the main thread announces it.
CommitTask == \E t \in Task : MarkRemote(t) /\ Doorbell!Commit

\* The loop over the tasks that are ready, and performRemote of each.
RunTasks == worker = "cycle" /\ RemoteStep /\ Doorbell!Perform

\* The last query for tasks finds none: on to the inbox, or, when the worker has
\* been told meanwhile (idleShouldReloop), back to the start.
LookAround ==
    \/ LoadFolder("fg") /\ Doorbell!Look /\ worker' = "looked"
    \/ /\ RemoteIdle /\ SyncIdle("fg")
       /\ UNCHANGED vars
       /\ Doorbell!Look /\ worker' = "cycle"

\* An exception of the inbox sync: the thread sleeps, and begins again.
Thrown == sync'["fg"].pc = "idle" /\ sync["fg"].pc # "apply"

SyncInbox ==
    /\ sync["fg"].pc # "idle"
    /\ SyncStep("fg")
    /\ IF Thrown /\ worker # "cycle" THEN Doorbell!Again ELSE UNCHANGED waking

\* IDLE, or the wait on idleCv.
ParkWorker == SyncIdle("fg") /\ UNCHANGED vars /\ Doorbell!Park

Foreground == RunTasks \/ LookAround \/ SyncInbox \/ ParkWorker

\* What becomes of a bell, and what else ends the wait.
Announce == UNCHANGED vars /\ (Doorbell!Ring \/ Doorbell!Lose)
WakeUp == UNCHANGED vars /\ Doorbell!Again

\* The client, and the main thread up to its last save.
MainThread ==
    /\ \E t \in Task : \/ \E c \in ClientChange : SaveTask(t, c)
                       \/ PerformLocal(t) \/ Cancel(t)
    /\ UNCHANGED waking

\* DeltaStream.flushWithin and the flush thread: whoever emits waits for ever.
LockOut ==
    /\ ~locked /\ locked' = TRUE
    /\ UNCHANGED <<vars, waking>>

\* The new process begins with the tasks that the old one has left.
Relaunch ==
    /\ Crash
    /\ worker' = "cycle" /\ bell' = FALSE /\ missed' = FALSE
    /\ locked' = FALSE

Unlocked == ~locked /\ UNCHANGED locked

TasksNext ==
    \/ Unlocked /\ (CommitTask \/ Foreground \/ Announce \/ WakeUp \/ MainThread)
    \/ LockOut
    \/ Relaunch

TasksSpec == TasksInit /\ [][TasksNext]_tasksVars

-----------------------------------------------------------------------------
\* The worker waits, and a wake-up was lost since it last looked for tasks.
ParkedInVain == worker = "parked" /\ missed

\* Every task that performLocal has handed over ends, complete or cancelled,
\* whatever fails or is killed and however often the worker goes to wait, unless
\* it waits for good after a wake-up that was lost in one of the two ways of
\* ForegroundIdle, or the threads have locked each other out in DeltaStream.
TasksFinish ==
    \/ <>[](locked \/ ParkedInVain)
    \/ \A t \in Task :
         task[t].status = "remote" ~> task[t].status \in {"complete", "cancelled"}
=============================================================================
