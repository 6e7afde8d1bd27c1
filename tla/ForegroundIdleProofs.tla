-------------------------- MODULE ForegroundIdleProofs --------------------------
(***************************************************************************)
(* Proofs about ForegroundIdle, for any tasks, bodies, packets and faults. *)
(***************************************************************************)
EXTENDS ForegroundIdle, SequenceTheorems, TLAPS

-----------------------------------------------------------------------------
(* The inductive invariant: as long as there is work, the worker is about  *)
(* to look for it, or somebody is about to wake it, or has left the flag   *)
(* reloop where the worker will see it, or a wake-up was lost.             *)

\* From here the worker looks for bodies before it looks for tasks.
Looking == {"none", "bodies", "pop", "fetch", "asleep"}

Handles ==
    /\ ringer = "main" => asking = "interrupt"
    /\ ringer = "waker" => waker = "sleeping" /\ fg # "none"
    /\ waker = "none" \/ woke \/ asking = "spawned"
    /\ fg = "pop" => queue # <<>>
    /\ fg \in {"pop", "fetch"} => holding # <<>>

\* The flag that the main thread raised is there when it rings, unless the
\* worker has looked since.
RingFollows ==
    (ringer = "main" /\ queue # <<>> /\ fg \in {"tasks", "inbox", "set"}) => reloop

BodiesSeen ==
    \/ queue = <<>>
    \/ fg \in Looking
    \/ asking = "interrupt"
    \/ reloop /\ fg \in {"tasks", "inbox"}
    \/ lost # {} /\ fg \in {"set", "idling", "waiting"}
    \/ rung /\ fg = "idling"

TasksSeen ==
    \/ Remote = {}
    \/ fg \in Looking \cup {"tasks"}
    \/ asking = "queued"
    \/ waker = "sleeping" /\ ringer # "waker"
    \/ ringer = "waker" /\ (reloop \/ fg \in {"idling", "waiting"})
    \/ reloop /\ fg = "inbox"
    \/ lost # {}
    \/ rung /\ fg = "idling"

IdleInv == IdleTypeOK /\ Handles /\ RingFollows /\ BodiesSeen /\ TasksSeen

-----------------------------------------------------------------------------
(* Types, one group of variables at a time                                 *)

InBounds == packets \in 0 .. MaxPackets /\ faults \in 0 .. MaxFaults
FlagsTyped == reloop \in BOOLEAN /\ rung \in BOOLEAN /\ canIdle \in BOOLEAN /\ woke \in BOOLEAN
StagesTyped ==
    /\ fg \in FgState
    /\ asking \in {"ready", "queued", "spawned", "interrupt"}
    /\ waker \in {"none", "sleeping", "clearing"}
    /\ ringer \in {"none", "main", "waker"}
    /\ lost \in SUBSET {"flag", "window"}
WorkTyped ==
    /\ jobs \in [Job -> JobState]
    /\ bodies \in [Body -> BodyState]
    /\ queue \in Seq(Body)
    /\ holding \in {<<>>} \cup {<<b>> : b \in Body}

LEMMA TypeParts == IdleTypeOK <=> InBounds /\ FlagsTyped /\ StagesTyped /\ WorkTyped
BY DEF IdleTypeOK, InBounds, FlagsTyped, StagesTyped, WorkTyped

LEMMA InBoundsStep ==
    ASSUME InBounds, IdleNext
    PROVE  InBounds'
<1>1. packets' = packets \/ (packets < MaxPackets /\ packets' = packets + 1)
  BY Zenon DEF IdleNext, ForegroundStep, MainStep, WakerStep, ClientStep, Packet, QueueJob,
             SpawnWaker, SetWoke, NeedBody, WakeWorkers, MayRaise, Raise, Ring, WakerFindsNone,
             ClearWoke, StartForeground, Throw, Awake, ReadBody, PopBody, FetchBody, Check,
             Connect, RunTasks, SyncInbox, Park, LeaveIdle, mainVars, bodyVars
<1>2. faults' = faults \/ (faults < MaxFaults /\ faults' = faults + 1)
  BY Zenon DEF IdleNext, ForegroundStep, MainStep, WakerStep, ClientStep, Packet, QueueJob,
             SpawnWaker, SetWoke, NeedBody, WakeWorkers, MayRaise, Raise, Ring, WakerFindsNone,
             ClearWoke, StartForeground, Throw, Awake, ReadBody, PopBody, FetchBody, Check,
             Connect, RunTasks, SyncInbox, Park, LeaveIdle, mainVars, bodyVars
<1> QED
  BY <1>1, <1>2, ForegroundIdleAssumption DEF InBounds

LEMMA FlagsTypedStep ==
    ASSUME FlagsTyped, IdleNext
    PROVE  FlagsTyped'
<1>1. reloop' \in BOOLEAN /\ canIdle' \in BOOLEAN
  BY Zenon DEF FlagsTyped, IdleNext, ForegroundStep, MainStep, WakerStep, ClientStep, Packet, QueueJob,
             SpawnWaker, SetWoke, NeedBody, WakeWorkers, MayRaise, Raise, Ring, WakerFindsNone,
             ClearWoke, StartForeground, Throw, Awake, ReadBody, PopBody, FetchBody, Check,
             Connect, RunTasks, SyncInbox, Park, LeaveIdle, mainVars, bodyVars
<1>2. rung' \in BOOLEAN /\ woke' \in BOOLEAN
  BY Zenon DEF FlagsTyped, IdleNext, ForegroundStep, MainStep, WakerStep, ClientStep, Packet, QueueJob,
             SpawnWaker, SetWoke, NeedBody, WakeWorkers, MayRaise, Raise, Ring, WakerFindsNone,
             ClearWoke, StartForeground, Throw, Awake, ReadBody, PopBody, FetchBody, Check,
             Connect, RunTasks, SyncInbox, Park, LeaveIdle, mainVars, bodyVars
<1> QED
  BY <1>1, <1>2 DEF FlagsTyped

LEMMA StagesTypedStep ==
    ASSUME StagesTyped, IdleNext
    PROVE  StagesTyped'
<1>1. fg' \in FgState
  BY DEF FgState, StagesTyped, IdleNext, ForegroundStep, MainStep, WakerStep, ClientStep, Packet, QueueJob,
             SpawnWaker, SetWoke, NeedBody, WakeWorkers, MayRaise, Raise, Ring, WakerFindsNone,
             ClearWoke, StartForeground, Throw, Awake, ReadBody, PopBody, FetchBody, Check,
             Connect, RunTasks, SyncInbox, Park, LeaveIdle, mainVars, bodyVars
<1>2. asking' \in {"ready", "queued", "spawned", "interrupt"}
  BY DEF StagesTyped, IdleNext, ForegroundStep, MainStep, WakerStep, ClientStep, Packet, QueueJob,
             SpawnWaker, SetWoke, NeedBody, WakeWorkers, MayRaise, Raise, Ring, WakerFindsNone,
             ClearWoke, StartForeground, Throw, Awake, ReadBody, PopBody, FetchBody, Check,
             Connect, RunTasks, SyncInbox, Park, LeaveIdle, mainVars, bodyVars
<1>3. waker' \in {"none", "sleeping", "clearing"}
  BY DEF StagesTyped, IdleNext, ForegroundStep, MainStep, WakerStep, ClientStep, Packet, QueueJob,
             SpawnWaker, SetWoke, NeedBody, WakeWorkers, MayRaise, Raise, Ring, WakerFindsNone,
             ClearWoke, StartForeground, Throw, Awake, ReadBody, PopBody, FetchBody, Check,
             Connect, RunTasks, SyncInbox, Park, LeaveIdle, mainVars, bodyVars
<1>4. ringer' \in {"none", "main", "waker"}
  BY DEF StagesTyped, IdleNext, ForegroundStep, MainStep, WakerStep, ClientStep, Packet, QueueJob,
             SpawnWaker, SetWoke, NeedBody, WakeWorkers, MayRaise, Raise, Ring, WakerFindsNone,
             ClearWoke, StartForeground, Throw, Awake, ReadBody, PopBody, FetchBody, Check,
             Connect, RunTasks, SyncInbox, Park, LeaveIdle, mainVars, bodyVars
<1>5. lost' \in SUBSET {"flag", "window"}
  BY DEF StagesTyped, IdleNext, ForegroundStep, MainStep, WakerStep, ClientStep, Packet, QueueJob,
             SpawnWaker, SetWoke, NeedBody, WakeWorkers, MayRaise, Raise, Ring, WakerFindsNone,
             ClearWoke, StartForeground, Throw, Awake, ReadBody, PopBody, FetchBody, Check,
             Connect, RunTasks, SyncInbox, Park, LeaveIdle, mainVars, bodyVars
<1> QED
  BY <1>1, <1>2, <1>3, <1>4, <1>5 DEF StagesTyped

LEMMA WorkTypedStep ==
    ASSUME WorkTyped, Handles, IdleNext
    PROVE  WorkTyped'
<1>1. jobs' \in [Job -> JobState]
  BY DEF JobState, WorkTyped, IdleNext, ForegroundStep, MainStep, WakerStep, ClientStep, Packet, QueueJob,
             SpawnWaker, SetWoke, NeedBody, WakeWorkers, MayRaise, Raise, Ring, WakerFindsNone,
             ClearWoke, StartForeground, Throw, Awake, ReadBody, PopBody, FetchBody, Check,
             Connect, RunTasks, SyncInbox, Park, LeaveIdle, mainVars, bodyVars
<1>2. CASE UNCHANGED <<bodies, queue, holding>>
  BY <1>1, <1>2 DEF WorkTyped
<1>3. ASSUME NEW b \in Body, NeedBody(b) PROVE WorkTyped'
  <2>1. holding' = holding /\ bodies' \in [Body -> BodyState]
    BY <1>3 DEF NeedBody, BodyState, WorkTyped
  <2>2. queue' = queue \/ queue' = Append(queue, b)
    BY <1>3 DEF NeedBody
  <2> QED
    BY <1>1, <2>1, <2>2 DEF WorkTyped
<1>4. CASE ReadBody
  <2>1. queue[Len(queue)] \in Body
    BY <1>4 DEF ReadBody, WorkTyped
  <2>2. UNCHANGED <<bodies, queue>> /\ holding' = <<queue[Len(queue)]>>
    BY <1>4 DEF ReadBody, Back
  <2> QED
    BY <1>1, <2>1, <2>2 DEF WorkTyped
<1>5. CASE PopBody
  <2>1. queue # <<>> /\ queue \in Seq(Body)
    BY <1>5 DEF PopBody, Handles, WorkTyped
  <2>2. queue[Len(queue)] \in Body /\ SubSeq(queue, 1, Len(queue) - 1) \in Seq(Body)
    BY <2>1
  <2>3. /\ queue' = SubSeq(queue, 1, Len(queue) - 1) /\ holding' = holding
        /\ bodies' = bodies \/ bodies' = [bodies EXCEPT ![queue[Len(queue)]] = "overtaken"]
    BY <1>5 DEF PopBody
  <2>4. bodies' \in [Body -> BodyState]
    BY <2>2, <2>3 DEF BodyState, WorkTyped
  <2> QED
    BY <1>1, <2>2, <2>3, <2>4 DEF WorkTyped
<1>6. CASE FetchBody
  <2>1. bodies' \in [Body -> BodyState] /\ queue' = queue /\ holding' = <<>>
    BY <1>6 DEF FetchBody, BodyState, WorkTyped
  <2> QED
    BY <1>1, <2>1 DEF WorkTyped
<1>7. \/ UNCHANGED <<bodies, queue, holding>> \/ \E b \in Body : NeedBody(b)
      \/ ReadBody \/ PopBody \/ FetchBody
  BY Zenon DEF IdleNext, ForegroundStep, MainStep, WakerStep, ClientStep, QueueJob,
             SpawnWaker, SetWoke, WakeWorkers, Raise, Ring, WakerFindsNone, ClearWoke,
             StartForeground, Awake, Check, Connect, RunTasks, SyncInbox, Park, LeaveIdle,
             bodyVars
<1> QED
  BY <1>2, <1>3, <1>4, <1>5, <1>6, <1>7

LEMMA IdleTypeStep ==
    ASSUME IdleInv, IdleNext
    PROVE  IdleTypeOK'
<1>1. InBounds' /\ FlagsTyped' /\ StagesTyped' /\ WorkTyped'
  BY TypeParts, InBoundsStep, FlagsTypedStep, StagesTypedStep, WorkTypedStep DEF IdleInv
<1> QED
  BY <1>1 DEF IdleTypeOK, InBounds, FlagsTyped, StagesTyped, WorkTyped

-----------------------------------------------------------------------------
(* The four parts of the invariant, action by action                       *)

LEMMA HandlesStep ==
    ASSUME FlagsTyped, StagesTyped, WorkTyped, Handles, IdleNext
    PROVE  Handles'
<1>1. ASSUME NEW t \in Job, QueueJob(t) PROVE Handles'
  BY <1>1 DEF Handles, FlagsTyped, StagesTyped, QueueJob, Packet, mainVars, bodyVars
<1>2. ASSUME NEW b \in Body, NeedBody(b) PROVE Handles'
  BY <1>2 DEF Handles, FlagsTyped, StagesTyped, NeedBody, Packet, mainVars, bodyVars
<1>3. CASE WakeWorkers
  BY <1>3 DEF Handles, FlagsTyped, StagesTyped, WakeWorkers, Packet, mainVars, bodyVars
<1>4. CASE SpawnWaker \/ SetWoke
  BY <1>4 DEF Handles, FlagsTyped, StagesTyped, SpawnWaker, SetWoke, mainVars, bodyVars
<1>5. ASSUME NEW who \in {"main", "waker"}, Raise(who) PROVE Handles'
  BY <1>5 DEF Handles, FlagsTyped, StagesTyped, Raise, MayRaise, mainVars, bodyVars
<1>6. ASSUME NEW who \in {"main", "waker"}, Ring(who) PROVE Handles'
  BY <1>6 DEF Handles, FlagsTyped, StagesTyped, Ring, mainVars, bodyVars
<1>7. CASE WakerFindsNone \/ ClearWoke
  BY <1>7 DEF Handles, FlagsTyped, StagesTyped, WakerFindsNone, ClearWoke, mainVars, bodyVars
<1>8. CASE StartForeground \/ LeaveIdle \/ Awake
  BY <1>8 DEF Handles, FlagsTyped, StagesTyped, StartForeground, LeaveIdle, Awake, mainVars, bodyVars
<1>9. CASE ReadBody
  BY <1>9 DEF Handles, FlagsTyped, StagesTyped, ReadBody, Back, mainVars, bodyVars
<1>10. CASE PopBody
  BY <1>10 DEF Handles, FlagsTyped, StagesTyped, PopBody, mainVars, bodyVars
<1>11. CASE FetchBody
  BY <1>11 DEF Handles, FlagsTyped, StagesTyped, FetchBody, Throw, mainVars, bodyVars
<1>12. CASE Connect \/ SyncInbox
  BY <1>12 DEF Handles, FlagsTyped, StagesTyped, Connect, Check, Throw, SyncInbox, mainVars, bodyVars
<1>13. CASE RunTasks
  BY <1>13 DEF Handles, FlagsTyped, StagesTyped, RunTasks, mainVars, bodyVars
<1>14. CASE Park
  BY <1>14 DEF Handles, FlagsTyped, StagesTyped, Park, mainVars, bodyVars
<1> QED
  BY <1>1, <1>2, <1>3, <1>4, <1>5, <1>6, <1>7, <1>8, <1>9, <1>10, <1>11, <1>12, <1>13, <1>14 DEF IdleNext, ForegroundStep, MainStep, WakerStep, ClientStep

LEMMA RingFollowsStep ==
    ASSUME FlagsTyped, StagesTyped, WorkTyped, Handles, RingFollows, IdleNext
    PROVE  RingFollows'
<1>1. ASSUME NEW t \in Job, QueueJob(t) PROVE RingFollows'
  BY <1>1 DEF RingFollows, Handles, FlagsTyped, StagesTyped, QueueJob, Packet, mainVars, bodyVars
<1>2. ASSUME NEW b \in Body, NeedBody(b) PROVE RingFollows'
  BY <1>2 DEF RingFollows, Handles, FlagsTyped, StagesTyped, NeedBody, Packet, mainVars, bodyVars
<1>3. CASE WakeWorkers
  BY <1>3 DEF RingFollows, Handles, FlagsTyped, StagesTyped, WakeWorkers, Packet, mainVars, bodyVars
<1>4. CASE SpawnWaker \/ SetWoke
  BY <1>4 DEF RingFollows, Handles, FlagsTyped, StagesTyped, SpawnWaker, SetWoke, mainVars, bodyVars
<1>5. ASSUME NEW who \in {"main", "waker"}, Raise(who) PROVE RingFollows'
  BY <1>5 DEF RingFollows, Handles, FlagsTyped, StagesTyped, Raise, MayRaise, mainVars, bodyVars
<1>6. ASSUME NEW who \in {"main", "waker"}, Ring(who) PROVE RingFollows'
  BY <1>6 DEF RingFollows, Handles, FlagsTyped, StagesTyped, Ring, mainVars, bodyVars
<1>7. CASE WakerFindsNone \/ ClearWoke
  BY <1>7 DEF RingFollows, Handles, FlagsTyped, StagesTyped, WakerFindsNone, ClearWoke, mainVars, bodyVars
<1>8. CASE StartForeground \/ LeaveIdle \/ Awake
  BY <1>8 DEF RingFollows, Handles, FlagsTyped, StagesTyped, StartForeground, LeaveIdle, Awake, mainVars, bodyVars
<1>9. CASE ReadBody
  BY <1>9 DEF RingFollows, Handles, FlagsTyped, StagesTyped, ReadBody, Back, mainVars, bodyVars
<1>10. CASE PopBody
  BY <1>10 DEF RingFollows, Handles, FlagsTyped, StagesTyped, PopBody, mainVars, bodyVars
<1>11. CASE FetchBody
  BY <1>11 DEF RingFollows, Handles, FlagsTyped, StagesTyped, FetchBody, Throw, mainVars, bodyVars
<1>12. CASE Connect \/ SyncInbox
  BY <1>12 DEF RingFollows, Handles, FlagsTyped, StagesTyped, Connect, Check, Throw, SyncInbox, mainVars, bodyVars
<1>13. CASE RunTasks
  BY <1>13 DEF RingFollows, Handles, FlagsTyped, StagesTyped, RunTasks, mainVars, bodyVars
<1>14. CASE Park
  BY <1>14 DEF RingFollows, Handles, FlagsTyped, StagesTyped, Park, mainVars, bodyVars
<1> QED
  BY <1>1, <1>2, <1>3, <1>4, <1>5, <1>6, <1>7, <1>8, <1>9, <1>10, <1>11, <1>12, <1>13, <1>14 DEF IdleNext, ForegroundStep, MainStep, WakerStep, ClientStep

LEMMA BodiesSeenStep ==
    ASSUME FlagsTyped, StagesTyped, WorkTyped, Handles, RingFollows, BodiesSeen, IdleNext
    PROVE  BodiesSeen'
<1>1. ASSUME NEW t \in Job, QueueJob(t) PROVE BodiesSeen'
  BY <1>1 DEF BodiesSeen, RingFollows, Looking, Handles, FlagsTyped, StagesTyped, QueueJob, Packet, mainVars, bodyVars
<1>2. ASSUME NEW b \in Body, NeedBody(b) PROVE BodiesSeen'
  BY <1>2 DEF BodiesSeen, RingFollows, Looking, Handles, FlagsTyped, StagesTyped, NeedBody, Packet, mainVars, bodyVars
<1>3. CASE WakeWorkers
  BY <1>3 DEF BodiesSeen, RingFollows, Looking, Handles, FlagsTyped, StagesTyped, WakeWorkers, Packet, mainVars, bodyVars
<1>4. CASE SpawnWaker \/ SetWoke
  BY <1>4 DEF BodiesSeen, RingFollows, Looking, Handles, FlagsTyped, StagesTyped, SpawnWaker, SetWoke, mainVars, bodyVars
<1>5. ASSUME NEW who \in {"main", "waker"}, Raise(who) PROVE BodiesSeen'
  BY <1>5 DEF BodiesSeen, RingFollows, Looking, Handles, FlagsTyped, StagesTyped, Raise, MayRaise, mainVars, bodyVars
<1>6. ASSUME NEW who \in {"main", "waker"}, Ring(who) PROVE BodiesSeen'
  <2>1. rung \/ fg = "idling" => rung'
    BY <1>6, Zenon DEF Ring
  <2>2. lost \subseteq lost' /\ (fg = "set" /\ reloop => lost' # {})
    BY <1>6 DEF Ring
  <2>3. fg' = (IF fg = "waiting" THEN "bodies" ELSE fg) /\ ringer = who /\ ringer' = "none"
    BY <1>6 DEF Ring
  <2>4. reloop' = reloop
    BY <1>6, Zenon DEF Ring
  <2>5. UNCHANGED <<jobs, queue>>
    BY <1>6 DEF Ring, bodyVars
  <2>6. /\ who = "main" => waker' = waker
        /\ who # "main" => asking' = asking
        /\ asking = "queued" => who # "main"
    BY <1>6 DEF Ring, Handles
  <2> QED
    BY <2>1, <2>2, <2>3, <2>4, <2>5, <2>6 DEF BodiesSeen, RingFollows, Looking, FlagsTyped, StagesTyped, FgState
<1>7. CASE WakerFindsNone \/ ClearWoke
  BY <1>7 DEF BodiesSeen, RingFollows, Looking, Handles, FlagsTyped, StagesTyped, WakerFindsNone, ClearWoke, mainVars, bodyVars
<1>8. CASE StartForeground \/ LeaveIdle \/ Awake
  BY <1>8 DEF BodiesSeen, RingFollows, Looking, Handles, FlagsTyped, StagesTyped, StartForeground, LeaveIdle, Awake, mainVars, bodyVars
<1>9. CASE ReadBody
  BY <1>9 DEF BodiesSeen, RingFollows, Looking, Handles, FlagsTyped, StagesTyped, ReadBody, Back, mainVars, bodyVars
<1>10. CASE PopBody
  BY <1>10 DEF BodiesSeen, RingFollows, Looking, Handles, FlagsTyped, StagesTyped, PopBody, mainVars, bodyVars
<1>11. CASE FetchBody
  BY <1>11 DEF BodiesSeen, RingFollows, Looking, Handles, FlagsTyped, StagesTyped, FetchBody, Throw, mainVars, bodyVars
<1>12. CASE Connect \/ SyncInbox
  BY <1>12 DEF BodiesSeen, RingFollows, Looking, Handles, FlagsTyped, StagesTyped, Connect, Check, Throw, SyncInbox, mainVars, bodyVars
<1>13. CASE RunTasks
  BY <1>13 DEF BodiesSeen, RingFollows, Looking, Handles, FlagsTyped, StagesTyped, RunTasks, mainVars, bodyVars
<1>14. CASE Park
  BY <1>14 DEF BodiesSeen, RingFollows, Looking, Handles, FlagsTyped, StagesTyped, Park, mainVars, bodyVars
<1> QED
  BY <1>1, <1>2, <1>3, <1>4, <1>5, <1>6, <1>7, <1>8, <1>9, <1>10, <1>11, <1>12, <1>13, <1>14 DEF IdleNext, ForegroundStep, MainStep, WakerStep, ClientStep

LEMMA TasksSeenStep ==
    ASSUME FlagsTyped, StagesTyped, WorkTyped, Handles, TasksSeen, IdleNext
    PROVE  TasksSeen'
<1>1. ASSUME NEW t \in Job, QueueJob(t) PROVE TasksSeen'
  BY <1>1 DEF TasksSeen, Remote, Looking, Handles, FlagsTyped, StagesTyped, QueueJob, Packet, mainVars, bodyVars
<1>2. ASSUME NEW b \in Body, NeedBody(b) PROVE TasksSeen'
  BY <1>2 DEF TasksSeen, Remote, Looking, Handles, FlagsTyped, StagesTyped, NeedBody, Packet, mainVars, bodyVars
<1>3. CASE WakeWorkers
  BY <1>3 DEF TasksSeen, Remote, Looking, Handles, FlagsTyped, StagesTyped, WakeWorkers, Packet, mainVars, bodyVars
<1>4. CASE SpawnWaker \/ SetWoke
  BY <1>4 DEF TasksSeen, Remote, Looking, Handles, FlagsTyped, StagesTyped, SpawnWaker, SetWoke, mainVars, bodyVars
<1>5. ASSUME NEW who \in {"main", "waker"}, Raise(who) PROVE TasksSeen'
  BY <1>5 DEF TasksSeen, Remote, Looking, Handles, FlagsTyped, StagesTyped, Raise, MayRaise, mainVars, bodyVars
<1>6. ASSUME NEW who \in {"main", "waker"}, Ring(who) PROVE TasksSeen'
  <2>1. rung \/ fg = "idling" => rung'
    BY <1>6, Zenon DEF Ring
  <2>2. lost \subseteq lost' /\ (fg = "set" /\ reloop => lost' # {})
    BY <1>6 DEF Ring
  <2>3. fg' = (IF fg = "waiting" THEN "bodies" ELSE fg) /\ ringer = who /\ ringer' = "none"
    BY <1>6 DEF Ring
  <2>4. reloop' = reloop
    BY <1>6, Zenon DEF Ring
  <2>5. UNCHANGED <<jobs, queue>>
    BY <1>6 DEF Ring, bodyVars
  <2>6. /\ who = "main" => waker' = waker
        /\ who # "main" => asking' = asking
        /\ asking = "queued" => who # "main"
    BY <1>6 DEF Ring, Handles
  <2> QED
    BY <2>1, <2>2, <2>3, <2>4, <2>5, <2>6 DEF TasksSeen, Remote, Looking, Handles, StagesTyped, FgState
<1>7. CASE WakerFindsNone \/ ClearWoke
  BY <1>7 DEF TasksSeen, Remote, Looking, Handles, FlagsTyped, StagesTyped, WakerFindsNone, ClearWoke, mainVars, bodyVars
<1>8. CASE StartForeground \/ LeaveIdle \/ Awake
  BY <1>8 DEF TasksSeen, Remote, Looking, Handles, FlagsTyped, StagesTyped, StartForeground, LeaveIdle, Awake, mainVars, bodyVars
<1>9. CASE ReadBody
  BY <1>9 DEF TasksSeen, Remote, Looking, Handles, FlagsTyped, StagesTyped, ReadBody, Back, mainVars, bodyVars
<1>10. CASE PopBody
  BY <1>10 DEF TasksSeen, Remote, Looking, Handles, FlagsTyped, StagesTyped, PopBody, mainVars, bodyVars
<1>11. CASE FetchBody
  BY <1>11 DEF TasksSeen, Remote, Looking, Handles, FlagsTyped, StagesTyped, FetchBody, Throw, mainVars, bodyVars
<1>12. CASE Connect \/ SyncInbox
  BY <1>12 DEF TasksSeen, Remote, Looking, Handles, FlagsTyped, StagesTyped, Connect, Check, Throw, SyncInbox, mainVars, bodyVars
<1>13. CASE RunTasks
  BY <1>13 DEF TasksSeen, Remote, Looking, Handles, FlagsTyped, StagesTyped, RunTasks, mainVars, bodyVars
<1>14. CASE Park
  BY <1>14 DEF TasksSeen, Remote, Looking, Handles, FlagsTyped, StagesTyped, Park, mainVars, bodyVars
<1> QED
  BY <1>1, <1>2, <1>3, <1>4, <1>5, <1>6, <1>7, <1>8, <1>9, <1>10, <1>11, <1>12, <1>13, <1>14 DEF IdleNext, ForegroundStep, MainStep, WakerStep, ClientStep

LEMMA IdleInitInv == IdleInit => IdleInv
<1> SUFFICES ASSUME IdleInit PROVE IdleInv
  OBVIOUS
<1>1. InBounds
  BY ForegroundIdleAssumption DEF IdleInit, InBounds
<1>2. FlagsTyped
  BY Zenon DEF IdleInit, FlagsTyped
<1>3. StagesTyped /\ WorkTyped
  BY DEF IdleInit, StagesTyped, WorkTyped, FgState, JobState, BodyState
<1>4. Handles /\ RingFollows /\ BodiesSeen /\ TasksSeen
  BY DEF IdleInit, Handles, RingFollows, BodiesSeen, TasksSeen, Looking
<1> QED
  BY <1>1, <1>2, <1>3, <1>4, TypeParts DEF IdleInv

LEMMA IdleStepInv == IdleInv /\ [IdleNext]_idleVars => IdleInv'
<1> SUFFICES ASSUME IdleInv, [IdleNext]_idleVars PROVE IdleInv'
  OBVIOUS
<1>0. FlagsTyped /\ StagesTyped /\ WorkTyped /\ Handles /\ RingFollows /\ BodiesSeen /\ TasksSeen
  BY TypeParts DEF IdleInv
<1>1. CASE IdleNext
  BY <1>0, <1>1, IdleTypeStep, HandlesStep, RingFollowsStep, BodiesSeenStep, TasksSeenStep
     DEF IdleInv
<1>2. CASE UNCHANGED idleVars
  BY <1>2 DEF idleVars, IdleInv, IdleTypeOK, Handles, RingFollows, BodiesSeen, TasksSeen,
              Remote
<1> QED
  BY <1>1, <1>2

-----------------------------------------------------------------------------
\* Every variable keeps its type, for any tasks and bodies.
THEOREM IdleTypeCorrect == IdleSpec => []IdleTypeOK
<1>1. IdleInv => IdleTypeOK
  BY DEF IdleInv
<1> QED
  BY <1>1, IdleInitInv, IdleStepInv, PTL DEF IdleSpec

\* The worker is not parked with tasks or bodies that nobody is about to tell it
\* of, unless a wake-up was lost in one of the two known ways, for any number of
\* packets and failures.
THEOREM NotLeftParkedHolds == IdleSpec => []NotLeftParked
<1>1. IdleInv => NotLeftParked
  <2> SUFFICES ASSUME IdleInv, Parked, Silent, lost = {}
               PROVE  Remote = {} /\ queue = <<>>
    BY DEF NotLeftParked
  <2>1. asking = "ready" /\ waker = "none" /\ ringer = "none"
    BY DEF Silent
  <2>2. fg = "waiting" \/ (fg = "idling" /\ ~rung)
    BY DEF Parked
  <2>3. queue = <<>>
    BY <2>1, <2>2 DEF IdleInv, BodiesSeen, Looking
  <2>4. Remote = {}
    BY <2>1, <2>2 DEF IdleInv, TasksSeen, Looking
  <2> QED
    BY <2>3, <2>4
<1> QED
  BY <1>1, IdleInitInv, IdleStepInv, PTL DEF IdleSpec
-----------------------------------------------------------------------------
(* ForegroundIdle implements Wakeup.                                       *)

Ringing == asking = "queued" \/ waker = "sleeping"
Settled == fg = "set" \/ (fg = "inbox" /\ ~reloop)

LEMMA PositionIs ==
    /\ Settled => Position = "looked"
    /\ Parked => Position = "parked"
    /\ ~Settled /\ ~Parked => Position = "cycle"
BY DEF Position, Settled, Parked

LEMMA PositionNext ==
    /\ Settled' => Position' = "looked"
    /\ Parked' => Position' = "parked"
    /\ ~Settled' /\ ~Parked' => Position' = "cycle"
BY DEF Position, Settled, Parked

\* The state of Wakeup does not change.
Unseen ==
    /\ (Remote' # {}) = (Remote # {})
    /\ Position' = Position
    /\ Ringing' = Ringing
    /\ (lost' # {}) = (lost # {})

\* The actions of Wakeup, in the words of ForegroundIdle
WorkKept == (Remote' # {}) = (Remote # {})
BellKept == Ringing' = Ringing
MissedKept == (lost' # {}) = (lost # {})

Steps ==
    \/ Remote' # {} /\ Ringing' /\ Position' = Position /\ MissedKept
    \/ Position = "cycle" /\ Position' = Position /\ BellKept /\ (MissedKept \/ lost' = {})
    \/ /\ Position = "cycle" /\ Position' \in {"looked", "cycle"}
       /\ Remote = {} /\ WorkKept /\ BellKept /\ lost' = {}
    \/ Position = "looked" /\ Position' = "parked" /\ WorkKept /\ BellKept /\ MissedKept
    \/ /\ Ringing /\ WorkKept /\ MissedKept
       /\ \/ Position' = "cycle"
          \/ Position' = Position /\ (Ringing' \/ lost # {} \/ Remote = {})
    \/ /\ Ringing \/ Position = "looked"
       /\ BellKept \/ ~Ringing'
       /\ lost' # {} /\ WorkKept /\ Position' = Position
    \/ Position # "cycle" /\ Position' = "cycle" /\ WorkKept /\ BellKept /\ MissedKept

LEMMA StepsAreWakeup ==
    /\ Steps => Doorbell!Next
    /\ Unseen => UNCHANGED Doorbell!wakeVars
<1>1. Steps => Doorbell!Next
  BY DEF Steps, WorkKept, BellKept, MissedKept, Ringing, Doorbell!Next, Doorbell!Commit, Doorbell!Perform,
         Doorbell!Look, Doorbell!Park, Doorbell!Ring, Doorbell!Lose, Doorbell!Again
<1>2. Unseen => UNCHANGED Doorbell!wakeVars
  BY DEF Unseen, Ringing, Doorbell!wakeVars
<1> QED
  BY <1>1, <1>2

Mapped == Steps \/ Unseen

LEMMA WakeupStep ==
    ASSUME IdleInv, IdleInv', IdleNext
    PROVE  Mapped
<1>0. FlagsTyped /\ StagesTyped /\ Handles /\ TasksSeen /\ FlagsTyped' /\ StagesTyped' /\ TasksSeen'
  BY TypeParts DEF IdleInv, IdleTypeOK, FlagsTyped, StagesTyped
<1>1. ASSUME NEW t \in Job, QueueJob(t) PROVE Mapped
  <2>1. t \in Remote' /\ asking' = "queued" /\ UNCHANGED <<fg, reloop, rung, lost>>
    BY <1>1 DEF QueueJob, Remote, IdleInv, IdleTypeOK
  <2>2. Position' = Position
    BY <2>1 DEF Position
  <2> QED
    BY <2>1, <2>2 DEF Mapped, Steps, Ringing, MissedKept
<1>2. ASSUME NEW b \in Body, NeedBody(b) PROVE Mapped
  <2>1. UNCHANGED <<jobs, fg, reloop, rung, waker, lost>> /\ asking # "queued" /\ asking' # "queued"
    BY <1>2 DEF NeedBody, Packet
  <2> QED
    BY <2>1 DEF Mapped, Unseen, Ringing, Remote, Position
<1>3. CASE WakeWorkers
  <2>1. UNCHANGED <<jobs, reloop, rung, waker, lost>> /\ asking # "queued" /\ asking' # "queued"
    BY <1>3 DEF WakeWorkers, Packet
  <2>2. fg' = fg \/ (fg = "asleep" /\ fg' = "bodies")
    BY <1>3 DEF WakeWorkers
  <2>3. Position' = Position
    BY <2>1, <2>2 DEF Position
  <2> QED
    BY <2>1, <2>3 DEF Mapped, Unseen, Ringing, Remote
<1>4. CASE SpawnWaker
  <2>1. UNCHANGED <<jobs, fg, reloop, rung, ringer>> /\ asking = "queued" /\ Position' = Position
    BY <1>4, Zenon DEF SpawnWaker, bodyVars, Position
  <2>2. WorkKept
    BY <2>1 DEF WorkKept, Remote
  <2>3. CASE woke
    <3>1. /\ asking' = "ready" /\ waker' = waker
          /\ (lost' = lost /\ waker = "sleeping") \/ lost' # {}
      BY <1>4, <2>3 DEF SpawnWaker
    <3> QED
      BY <2>1, <2>2, <3>1 DEF Mapped, Steps, Unseen, Ringing, WorkKept, BellKept, MissedKept
  <2>4. CASE ~woke
    <3>1. asking' = "spawned" /\ waker' = "sleeping" /\ lost' = lost
      BY <1>4, <2>4 DEF SpawnWaker
    <3> QED
      BY <2>1, <2>2, <3>1 DEF Mapped, Unseen, Ringing, WorkKept
  <2> QED
    BY <2>3, <2>4
<1>5. CASE SetWoke \/ ClearWoke
  <2>1. /\ UNCHANGED <<jobs, fg, reloop, rung, lost>>
        /\ (asking' = "queued") = (asking = "queued") /\ (waker' = "sleeping") = (waker = "sleeping")
    BY <1>5 DEF SetWoke, ClearWoke
  <2> QED
    BY <2>1 DEF Mapped, Unseen, Ringing, Remote, Position
<1>6. ASSUME NEW who \in {"main", "waker"}, Raise(who) PROVE Mapped
  <2>1. UNCHANGED <<jobs, fg, rung, asking, waker, lost>> /\ reloop' = TRUE
    BY <1>6 DEF Raise, bodyVars
  <2>2. Position' = Position \/ (Position # "cycle" /\ Position' = "cycle")
    BY <2>1, PositionIs, PositionNext DEF Settled, Parked
  <2> QED
    BY <2>1, <2>2 DEF Mapped, Steps, Unseen, Ringing, Remote, WorkKept, BellKept, MissedKept
<1>7. ASSUME NEW who \in {"main", "waker"}, Ring(who) PROVE Mapped
  <2>0. jobs' = jobs /\ reloop' = reloop
    BY <1>7 DEF Ring, bodyVars
  <2>1. rung' = (rung \/ fg = "idling")
    BY <1>7 DEF Ring
  <2>2. lost' = IF fg = "set" /\ reloop THEN lost \cup {"window"} ELSE lost
    BY <1>7 DEF Ring
  <2>3. fg' = (IF fg = "waiting" THEN "bodies" ELSE fg) /\ ringer = who /\ ringer' = "none"
    BY <1>7 DEF Ring
  <2>4. /\ who = "main" => waker' = waker /\ asking = "interrupt" /\ asking' = "ready"
        /\ who = "waker" => waker = "sleeping" /\ waker' = "clearing" /\ asking' = asking
    BY <1>0, <1>7 DEF Ring, Handles
  <2>5. WorkKept
    BY <2>0 DEF WorkKept, Remote
  <2>6. fg \in {"idling", "waiting"} => Position' = "cycle"
    BY <2>0, <2>1, <2>3, PositionNext DEF Settled, Parked
  <2>7. fg \notin {"idling", "waiting"} => Position' = Position
    BY <2>0, <2>1, <2>3 DEF Position
  <2>8. MissedKept \/ (fg = "set" /\ lost' # {})
    BY <2>2 DEF MissedKept
  <2>9. fg = "set" => Position = "looked" /\ Position' = Position
    BY <2>7, PositionIs DEF Settled
  <2>10. fg \in {"idling", "waiting"} => MissedKept
    BY <2>2 DEF MissedKept
  <2>11. Position \in {"cycle", "looked", "parked"}
    BY PositionIs
  <2>12. CASE who = "main"
    <3>1. BellKept
      BY <2>4, <2>12 DEF BellKept, Ringing
    <3> QED
      BY <2>5, <2>6, <2>7, <2>8, <2>9, <2>10, <2>11, <3>1 DEF Mapped, Steps, Unseen, WorkKept, BellKept, MissedKept
  <2>13. CASE who = "waker"
    <3>1. Ringing /\ (BellKept \/ ~Ringing')
      BY <2>4, <2>13 DEF Ringing, BellKept
    <3>2. MissedKept /\ Position' # "cycle" => Ringing' \/ lost # {} \/ Remote = {}
      <4> SUFFICES ASSUME MissedKept, Position' # "cycle", Remote # {}, lost = {}
                   PROVE  Ringing'
        OBVIOUS
      <4>1. lost' = {} /\ Remote' # {}
        BY <2>0 DEF MissedKept, Remote
      <4>2. Settled' \/ Parked'
        BY PositionNext
      <4>3. fg' \in {"set", "inbox"} /\ (fg' = "inbox" => ~reloop')
        BY <2>0, <2>1, <2>3, <4>2 DEF Settled, Parked
      <4>4. asking' = "queued" \/ (waker' = "sleeping" /\ ringer' # "waker")
        BY <1>0, <2>3, <4>1, <4>3 DEF TasksSeen, Looking
      <4> QED
        BY <4>4 DEF Ringing
    <3> QED
      BY <2>5, <2>6, <2>7, <2>8, <2>9, <2>10, <3>1, <3>2 DEF Mapped, Steps, WorkKept, BellKept, MissedKept
  <2> QED
    BY <2>12, <2>13
<1>8. CASE WakerFindsNone
  <2>1. UNCHANGED <<jobs, fg, reloop, rung, asking, lost>> /\ waker = "sleeping" /\ fg = "none"
    BY <1>8 DEF WakerFindsNone
  <2>2. Position = "cycle" /\ Position' = "cycle"
    BY <2>1 DEF Position
  <2> QED
    BY <2>1, <2>2 DEF Mapped, Steps, Ringing, Remote, WorkKept, MissedKept
<1>9. CASE StartForeground \/ LeaveIdle \/ Awake
  <2>1. UNCHANGED <<jobs, asking, waker, lost>> /\ fg' = "bodies"
    BY <1>9 DEF StartForeground, LeaveIdle, Awake, mainVars
  <2>2. Position' = "cycle"
    BY <2>1 DEF Position
  <2> QED
    BY <2>1, <2>2 DEF Mapped, Steps, Unseen, Ringing, Remote, WorkKept, BellKept, MissedKept
<1>10. CASE ReadBody \/ PopBody \/ FetchBody \/ Connect
  <2>1. UNCHANGED <<jobs, asking, waker, lost>>
    BY <1>10, Zenon DEF ReadBody, PopBody, FetchBody, Connect, Check, mainVars
  <2>2. fg \in {"bodies", "pop", "fetch"} /\ fg' \in {"bodies", "pop", "fetch", "tasks", "asleep"}
    BY <1>10 DEF ReadBody, PopBody, FetchBody, Connect, Check, Throw
  <2>3. Position' = Position
    BY <2>2 DEF Position
  <2> QED
    BY <2>1, <2>3 DEF Mapped, Unseen, Ringing, Remote
<1>11. CASE RunTasks
  <2>1. UNCHANGED <<reloop, asking, waker>> /\ lost' = {} /\ fg = "tasks"
    BY <1>11 DEF RunTasks
  <2>2. Position = "cycle" /\ BellKept
    BY <2>1 DEF Position, BellKept, Ringing
  <2>3. CASE Remote = {}
    <3>1. fg' = "inbox" /\ \A t \in Job : jobs'[t] = jobs[t]
      BY <1>11, <2>3 DEF RunTasks
    <3>2. Position' \in {"looked", "cycle"} /\ WorkKept
      BY <2>3, <3>1 DEF Position, WorkKept, Remote
    <3> QED
      BY <2>1, <2>2, <2>3, <3>2 DEF Mapped, Steps
  <2>4. CASE Remote # {}
    <3>1. Position' = "cycle"
      BY <1>11, <2>4 DEF RunTasks, Position
    <3> QED
      BY <2>1, <2>2, <3>1 DEF Mapped, Steps
  <2> QED
    BY <2>3, <2>4
<1>12. CASE SyncInbox
  <2>1. UNCHANGED <<jobs, asking, waker, lost>> /\ fg = "inbox"
    BY <1>12, Zenon DEF SyncInbox, Check, mainVars
  <2>2. \/ fg' = "asleep" /\ reloop' = reloop
        \/ reloop' = FALSE /\ fg' = IF reloop THEN "bodies" ELSE "set"
    BY <1>12 DEF SyncInbox, Check, Throw
  <2>3. Position' = Position \/ (Position # "cycle" /\ Position' = "cycle")
    BY <2>1, <2>2, PositionIs, PositionNext DEF Settled, Parked
  <2> QED
    BY <2>1, <2>3 DEF Mapped, Steps, Unseen, Ringing, Remote, WorkKept, BellKept, MissedKept
<1>13. CASE Park
  <2>1. UNCHANGED <<jobs, asking, waker, lost>> /\ fg = "set" /\ rung' = FALSE /\ fg' \in {"idling", "waiting"}
    BY <1>13 DEF Park, mainVars
  <2>2. Position = "looked" /\ Position' = "parked"
    BY <2>1 DEF Position
  <2> QED
    BY <2>1, <2>2 DEF Mapped, Steps, Ringing, Remote, WorkKept, BellKept, MissedKept
<1> QED
  BY <1>1, <1>2, <1>3, <1>4, <1>5, <1>6, <1>7, <1>8, <1>9, <1>10, <1>11, <1>12, <1>13
     DEF IdleNext, ForegroundStep, MainStep, WakerStep, ClientStep

\* The flag, the stream, the condition and the debounced thread implement Wakeup:
\* whoever waits for a task may reason as if a bell sent the worker back to its
\* work, unless it is missed in one of the two known ways.
THEOREM WakeupImplemented == IdleSpec => WakeupKept
<1>1. IdleInit => Doorbell!Init
  BY DEF IdleInit, Doorbell!Init, Remote, Position
<1>2. IdleInv /\ IdleInv' /\ [IdleNext]_idleVars => [Doorbell!Next]_(Doorbell!wakeVars)
  <2> SUFFICES ASSUME IdleInv, IdleInv', [IdleNext]_idleVars
               PROVE  [Doorbell!Next]_(Doorbell!wakeVars)
    OBVIOUS
  <2>1. CASE IdleNext
    BY <2>1, WakeupStep, StepsAreWakeup DEF Mapped
  <2>2. CASE UNCHANGED idleVars
    BY <2>2 DEF idleVars, Doorbell!wakeVars, Remote, Position
  <2> QED
    BY <2>1, <2>2
<1> QED
  BY <1>1, <1>2, IdleInitInv, IdleStepInv, PTL DEF IdleSpec, WakeupKept, Doorbell!Spec
=============================================================================
