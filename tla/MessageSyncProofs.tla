-------------------------- MODULE MessageSyncProofs --------------------------
(***************************************************************************)
(* Proofs about MessageSync, for any set of messages and flags, any finite *)
(* set of tasks, any workers and faults, and any number of crashes.        *)
(***************************************************************************)
EXTENDS ForegroundTasks, FiniteSetTheorems, TLAPS

LEMMA RowTypes ==
    /\ NoFlags \in Flags /\ NoRow \in Row
    /\ IdleSync \in SyncState /\ IdleRemote \in RemoteState
    /\ NoChange \in Change /\ NoTask \in TaskRow
<1>1. NoFlags \in Flags
  BY DEF NoFlags, Flags
<1>2. NoRow \in Row
  BY <1>1 DEF NoRow, Row
<1>3. IdleSync \in SyncState
  BY <1>1, <1>2 DEF IdleSync, SyncState
<1>4. IdleRemote \in RemoteState
  BY DEF IdleRemote, RemoteState
<1>5. (CHOOSE a \in Attr : TRUE) \in Attr
  BY MessageSyncAssumption
<1>6. NoChange \in Change
  BY <1>5 DEF NoChange, Change
<1>7. NoTask \in TaskRow
  BY <1>6 DEF NoTask, TaskRow, Status
<1> QED
  BY <1>1, <1>2, <1>3, <1>4, <1>6, <1>7

LEMMA ApplyType ==
    ASSUME NEW f \in Flags, NEW c \in Change
    PROVE  /\ Apply(f, c) \in Flags
           /\ Apply(f, c)[c.attr] = c.val
           /\ \A a \in Attr : a # c.attr => Apply(f, c)[a] = f[a]
BY DEF Apply, Flags, Change

-----------------------------------------------------------------------------
(* Type correctness, one step per action.                                  *)

LEMMA TypeInit == Init => TypeOK
BY MessageSyncAssumption, RowTypes DEF Init, TypeOK

LEMMA MainType ==
    ASSUME TypeOK, NEW t \in Task
    PROVE  /\ \A c \in Change : SaveTask(t, c) => TypeOK'
           /\ PerformLocal(t) => TypeOK'
           /\ MarkRemote(t) => TypeOK'
           /\ Cancel(t) => TypeOK'
<1>1. ASSUME NEW c \in Change, SaveTask(t, c) PROVE TypeOK'
  <2>1. Cardinality(Queued) + 1 \in Nat
    <3>1. IsFiniteSet(Queued)
      BY MessageSyncAssumption, FS_Subset DEF Queued
    <3> QED
      BY <3>1, FS_CardinalityType
  <2>2. task' \in [Task -> TaskRow]
    BY <1>1, <2>1 DEF SaveTask, TypeOK, TaskRow, Status
  <2> QED
    BY <1>1, <2>2 DEF SaveTask, TypeOK, history
<1>2. ASSUME PerformLocal(t) PROVE TypeOK'
  <2>1. task[t].change \in Change
    BY DEF TypeOK, TaskRow
  <2>2. db' \in [Message -> Row]
    <3>1. \A m \in Message : /\ Apply(db[m].flags, task[t].change) \in Flags
                             /\ db[m].suc + 1 \in Int
      BY <2>1, ApplyType DEF TypeOK, Row
    <3>2. now + LockSpan \in Nat
      BY MessageSyncAssumption DEF TypeOK
    <3> QED
      BY <1>2, <3>1, <3>2 DEF PerformLocal, TypeOK, Row
  <2>3. holders' \in [Message -> SUBSET Task]
    BY <1>2 DEF PerformLocal, TypeOK
  <2>4. latest' \in [Message -> [Attr -> SUBSET Task]]
    BY <1>2, <2>1 DEF PerformLocal, TypeOK, Change
  <2> QED
    BY <1>2, <2>2, <2>3, <2>4 DEF PerformLocal, TypeOK
<1>3. ASSUME MarkRemote(t) PROVE TypeOK'
  <2>1. task' \in [Task -> TaskRow]
    BY <1>3 DEF MarkRemote, TypeOK, TaskRow, Status
  <2> QED
    BY <1>3, <2>1 DEF MarkRemote, TypeOK, history
<1>4. ASSUME Cancel(t) PROVE TypeOK'
  <2>1. task' \in [Task -> TaskRow]
    BY <1>4 DEF Cancel, TypeOK, TaskRow
  <2> QED
    BY <1>4, <2>1 DEF Cancel, TypeOK, history
<1> QED
  BY <1>1, <1>2, <1>3, <1>4

LEMMA SaveDoneType ==
    ASSUME TypeOK, NEW t \in Task, NEW s \in Status, NEW e \in BOOLEAN, SaveDone(t, s, e)
    PROVE  task' \in [Task -> TaskRow] /\ remote' \in RemoteState
<1> DEFINE c == t \in remote.cancelled
<1>1. task' \in [Task -> TaskRow]
  <2>1. c \in BOOLEAN
    OBVIOUS
  <2>2. task' = [task EXCEPT ![t] =
                   [@ EXCEPT !.status = s, !.error = e, !.cancel = c]]
    BY DEF SaveDone
  <2> HIDE DEF c
  <2>3. [task[t] EXCEPT !.status = s, !.error = e, !.cancel = c] \in TaskRow
    <3>1. task[t] \in TaskRow
      BY DEF TypeOK
    <3> QED
      BY <2>1, <3>1 DEF TaskRow
  <2> QED
    BY <2>2, <2>3 DEF TypeOK
<1>2. remote' \in RemoteState
  BY DEF SaveDone, TypeOK, RemoteState
<1> QED
  BY <1>1, <1>2

LEMMA ApplyOnServerType ==
    ASSUME TypeOK, NEW t \in Task, ApplyOnServer(t)
    PROVE  /\ server' \in [modseq: Nat, flags: [Message -> Flags], changed: [Message -> Nat]]
           /\ lastRow' \in Nat
<1> DEFINE ms == inflateMessages(t)
           new(m) == Apply(server.flags[m], task[t].change)
           hit == {m \in ms : new(m) # server.flags[m]}
           seq == IF hit = {} THEN server.modseq ELSE server.modseq + 1
<1>1. task[t].change \in Change
  BY DEF TypeOK, TaskRow
<1>2. \A m \in Message : new(m) \in Flags
  BY <1>1, ApplyType DEF TypeOK
<1>3. seq \in Nat
  BY DEF TypeOK
<1>4. server' = [modseq |-> seq,
                 flags |-> [m \in Message |-> IF m \in hit THEN new(m)
                                              ELSE server.flags[m]],
                 changed |-> [m \in Message |-> IF m \in hit THEN seq
                                                ELSE server.changed[m]]]
  BY DEF ApplyOnServer
<1>5. server' \in [modseq: Nat, flags: [Message -> Flags], changed: [Message -> Nat]]
  <2> HIDE DEF new, hit, seq
  <2> QED
    BY <1>2, <1>3, <1>4 DEF TypeOK
<1>6. lastRow' \in Nat
  BY DEF ApplyOnServer, TypeOK, TaskRow
<1> QED
  BY <1>5, <1>6

LEMMA RemoteType ==
    ASSUME TypeOK, RemoteStep
    PROVE  TypeOK'
<1>1. CASE LoadTasks
  <2>1. remote' \in RemoteState
    BY <1>1 DEF LoadTasks, Pending, IdleRemote, RemoteState
  <2> QED
    BY <1>1, <2>1 DEF LoadTasks, TypeOK, history
<1>2. ASSUME NEW t \in Task, PerformCancelled(t) PROVE TypeOK'
  <2>1. task' \in [Task -> TaskRow] /\ remote' \in RemoteState
    BY <1>2, SaveDoneType DEF PerformCancelled, Status
  <2> QED
    BY <1>2, <2>1 DEF PerformCancelled, TypeOK, history
<1>3. ASSUME NEW t \in Task, StoreOnServer(t) PROVE TypeOK'
  <2>1. inflateMessages(t) \subseteq Message
    BY DEF inflateMessages, TypeOK
  <2>2. remote' \in RemoteState
    BY <1>3, <2>1 DEF StoreOnServer, TypeOK, RemoteState
  <2> QED
    BY <1>3, <2>2, ApplyOnServerType DEF StoreOnServer, TypeOK
<1>4. ASSUME NEW t \in Task, StoreFails(t) PROVE TypeOK'
  <2>1. task' \in [Task -> TaskRow] /\ remote' \in RemoteState
    BY <1>4, SaveDoneType DEF StoreFails, Status
  <2>2. /\ server' \in [modseq: Nat, flags: [Message -> Flags], changed: [Message -> Nat]]
        /\ lastRow' \in Nat
    BY <1>4, ApplyOnServerType DEF StoreFails, TypeOK
  <2> QED
    BY <1>4, <2>1, <2>2 DEF StoreFails, TypeOK
<1>5. ASSUME NEW t \in Task, ReleaseLocks(t) PROVE TypeOK'
  <2>1. db' \in [Message -> Row]
    <3>1. now \in Nat
      BY DEF TypeOK
    <3> QED
      BY <1>5, <3>1 DEF ReleaseLocks, TypeOK, Row
  <2>2. holders' \in [Message -> SUBSET Task]
    BY <1>5 DEF ReleaseLocks, TypeOK
  <2>3. miscounted' \subseteq Message
    BY <1>5 DEF ReleaseLocks, TypeOK, inflateMessages
  <2>4. remote' \in RemoteState
    BY <1>5 DEF ReleaseLocks, TypeOK, RemoteState
  <2> QED
    BY <1>5, <2>1, <2>2, <2>3, <2>4 DEF ReleaseLocks, TypeOK
<1>6. ASSUME NEW t \in Task, SaveComplete(t) PROVE TypeOK'
  <2>1. task' \in [Task -> TaskRow] /\ remote' \in RemoteState
    BY <1>6, SaveDoneType DEF SaveComplete, Status
  <2> QED
    BY <1>6, <2>1 DEF SaveComplete, TypeOK, history
<1> QED
  BY <1>1, <1>2, <1>3, <1>4, <1>5, <1>6 DEF RemoteStep

LEMMA ApplyStepType ==
    ASSUME TypeOK, NEW w \in Worker, ApplyStep(w)
    PROVE  TypeOK'
<1> SUFFICES ASSUME NEW m \in Message,
                    \/ InsertMessage(w, m) \/ FindLocal(w, m) \/ UpdateIgnored(w, m)
                    \/ UpdateSame(w, m) \/ UpdateMessage(w, m)
             PROVE  TypeOK'
  BY DEF ApplyStep
<1>1. /\ sync[w] \in SyncState /\ db[m] \in Row /\ NoRow \in Row
      /\ sync[w].seen[m] \in Flags
  BY RowTypes DEF TypeOK, SyncState
<1>2. NextMessage(w, m) => sync' \in [Worker -> SyncState]
  <2>1. [sync[w] EXCEPT !.pc = "apply", !.todo = sync[w].todo \ {m},
                   !.found = {}, !.copy = NoRow]
          \in SyncState
    BY <1>1 DEF SyncState
  <2> QED
    BY <2>1 DEF NextMessage, TypeOK
<1>3. CASE InsertMessage(w, m)
  <2>1. db' \in [Message -> Row]
    BY <1>1, <1>3 DEF InsertMessage, TypeOK, Row, SyncState
  <2>2. sync' \in [Worker -> SyncState]
    <3>1. [sync[w] EXCEPT !.todo = @ \ {m}] \in SyncState
      BY <1>1 DEF SyncState
    <3>2. sync' = [sync EXCEPT ![w] = [sync[w] EXCEPT !.todo = @ \ {m}]]
      BY <1>3 DEF InsertMessage
    <3> QED
      BY <3>1, <3>2 DEF TypeOK
  <2> QED
    BY <1>3, <2>1, <2>2 DEF InsertMessage, TypeOK, history
<1>4. CASE FindLocal(w, m)
  <2>1. sync' \in [Worker -> SyncState]
    BY <1>1, <1>4 DEF FindLocal, TypeOK, SyncState
  <2> QED
    BY <1>4, <2>1 DEF FindLocal, TypeOK, history
<1>5. CASE UpdateIgnored(w, m)
  BY <1>2, <1>5 DEF UpdateIgnored, TypeOK
<1>6. CASE UpdateSame(w, m)
  BY <1>2, <1>6 DEF UpdateSame, TypeOK
<1>7. CASE UpdateMessage(w, m)
  <2>1. db' \in [Message -> Row]
    BY <1>1, <1>7 DEF UpdateMessage, TypeOK, Row, SyncState
  <2> QED
    BY <1>2, <1>7, <2>1 DEF UpdateMessage, TypeOK
<1> QED
  BY <1>3, <1>4, <1>5, <1>6, <1>7

\* What BodyFails, StoreBody, ReserveBody and WantBody do to the worker.
LEMMA BodyState ==
    ASSUME TypeOK, NEW w \in Worker
    PROVE  /\ AfterBody(w) \/ sync' = [sync EXCEPT ![w] = IdleSync] =>
                /\ sync' \in [Worker -> SyncState]
                /\ sync'[w].ts \in {0, sync[w].ts}
                /\ \A v \in Worker \ {w} : sync'[v] = sync[v]
           /\ \A m \in Message, pc \in {"body", "wanted"} :
                sync' = [sync EXCEPT ![w] = [sync[w] EXCEPT !.pc = pc, !.found = {m},
                                                            !.copy = db[m]]] =>
                /\ sync' \in [Worker -> SyncState]
                /\ sync'[w].ts = sync[w].ts
                /\ \A v \in Worker \ {w} : sync'[v] = sync[v]
<1>1. /\ sync \in [Worker -> SyncState] /\ sync[w] \in SyncState
      /\ NoRow \in Row /\ IdleSync \in SyncState /\ IdleSync.ts = 0
  BY RowTypes DEF TypeOK, IdleSync
<1>2. ASSUME sync' = [sync EXCEPT ![w] = IdleSync]
      PROVE  /\ sync' \in [Worker -> SyncState] /\ sync'[w].ts = 0
             /\ \A v \in Worker \ {w} : sync'[v] = sync[v]
  BY <1>1, <1>2
<1>3. ASSUME NEW s \in SyncState, s.ts = sync[w].ts, sync' = [sync EXCEPT ![w] = s]
      PROVE  /\ sync' \in [Worker -> SyncState] /\ sync'[w].ts = sync[w].ts
             /\ \A v \in Worker \ {w} : sync'[v] = sync[v]
  BY <1>1, <1>3
<1>4. ASSUME AfterBody(w), sync[w].pc # "wanted"
      PROVE  /\ sync' \in [Worker -> SyncState] /\ sync'[w].ts = sync[w].ts
             /\ \A v \in Worker \ {w} : sync'[v] = sync[v]
  <2> DEFINE s == [sync[w] EXCEPT !.pc = "apply", !.found = {}, !.copy = NoRow]
  <2>1. s \in SyncState /\ s.ts = sync[w].ts
    BY <1>1 DEF SyncState
  <2>2. sync' = [sync EXCEPT ![w] = s]
    BY <1>4 DEF AfterBody
  <2> HIDE DEF s
  <2> QED
    BY <1>3, <2>1, <2>2
<1>5. ASSUME AfterBody(w), sync[w].pc = "wanted"
      PROVE  sync' = [sync EXCEPT ![w] = IdleSync]
  BY <1>5 DEF AfterBody
<1>6. ASSUME NEW m \in Message, NEW pc \in {"body", "wanted"},
             sync' = [sync EXCEPT ![w] = [sync[w] EXCEPT !.pc = pc, !.found = {m},
                                                         !.copy = db[m]]]
      PROVE  /\ sync' \in [Worker -> SyncState] /\ sync'[w].ts = sync[w].ts
             /\ \A v \in Worker \ {w} : sync'[v] = sync[v]
  <2> DEFINE s == [sync[w] EXCEPT !.pc = pc, !.found = {m}, !.copy = db[m]]
  <2>1. db[m] \in Row
    BY DEF TypeOK
  <2>2. s \in SyncState /\ s.ts = sync[w].ts
    BY <1>1, <2>1 DEF SyncState
  <2>3. sync' = [sync EXCEPT ![w] = s]
    BY <1>6
  <2> HIDE DEF s
  <2> QED
    BY <1>3, <2>2, <2>3
<1> QED
  BY <1>2, <1>4, <1>5, <1>6

LEMMA BodyType ==
    ASSUME TypeOK, NEW w \in Worker
    PROVE  /\ BodyStep(w) => TypeOK'
           /\ \A m \in Message : WantBody(m) => TypeOK'
<1>1. ASSUME BodyFails(w) PROVE TypeOK'
  BY <1>1, BodyState DEF BodyFails, TypeOK, history
<1>2. ASSUME NEW m \in Message, ReserveBody(w, m) PROVE TypeOK'
  <2>1. sync' \in [Worker -> SyncState]
    BY <1>2, BodyState DEF ReserveBody
  <2> QED
    BY <1>2, <2>1 DEF ReserveBody, TypeOK, history
<1>3. ASSUME NEW m \in Message, StoreBody(w, m) PROVE TypeOK'
  <2>1. sync[w].copy \in Row
    BY DEF TypeOK, SyncState
  <2>2. db' \in [Message -> Row] /\ bodies' \subseteq Message /\ miscounted' \subseteq Message
    BY <1>3, <2>1 DEF StoreBody, TypeOK
  <2>3. sync' \in [Worker -> SyncState]
    BY <1>3, BodyState DEF StoreBody
  <2> QED
    BY <1>3, <2>2, <2>3 DEF StoreBody, TypeOK
<1>4. ASSUME NEW m \in Message, WantBody(m) PROVE TypeOK'
  <2>1. sync' \in [Worker -> SyncState]
    BY <1>4, BodyState DEF WantBody
  <2> QED
    BY <1>4, <2>1 DEF WantBody, TypeOK, history
<1> QED
  BY <1>1, <1>2, <1>3, <1>4 DEF BodyStep

\* What a worker knows after the answer to folderStatus
LEMMA AnsweredFields ==
    ASSUME sync \in [Worker -> SyncState], now \in Nat, NEW w \in Worker, NEW n \in Nat,
           Answered(w, n)
    PROVE  /\ sync' \in [Worker -> SyncState]
           /\ sync'[w].pc = IF n = sync[w].base THEN "apply" ELSE "status"
           /\ sync'[w].goal = n /\ sync'[w].ts = now
           /\ sync'[w].base = sync[w].base /\ sync'[w].todo = sync[w].todo
           /\ \A v \in Worker \ {w} : sync'[v] = sync[v]
<1> DEFINE at == IF n = sync[w].base THEN "apply" ELSE "status"
<1>1. at \in {"apply", "status"}
  OBVIOUS
<1> HIDE DEF at
<1> DEFINE r == [sync[w] EXCEPT !.pc = at, !.goal = n, !.ts = now]
<1>2. sync' = [sync EXCEPT ![w] = r]
  BY DEF Answered, at
<1>3. sync[w] \in SyncState
  OBVIOUS
<1>4. /\ r \in SyncState /\ r.pc = at /\ r.goal = n /\ r.ts = now
      /\ r.base = sync[w].base /\ r.todo = sync[w].todo
  BY <1>1, <1>3 DEF SyncState
<1> HIDE DEF r
<1>5. sync'[w] = r /\ \A v \in Worker \ {w} : sync'[v] = sync[v]
  BY <1>2
<1> QED
  BY <1>2, <1>4, <1>5 DEF at

LEMMA SyncType ==
    ASSUME TypeOK, NEW w \in Worker, SyncStep(w)
    PROVE  TypeOK'
<1>1. sync[w] \in SyncState /\ IdleSync \in SyncState /\ cursor \in Nat
  BY RowTypes DEF TypeOK
<1>2. CASE LoadFolder(w)
  <2>1. [IdleSync EXCEPT !.pc = "folder", !.base = cursor] \in SyncState
    BY <1>1 DEF SyncState
  <2> QED
    BY <1>2, <2>1 DEF LoadFolder, TypeOK, history
<1>3. CASE QueryStatus(w)
  <2>1. PICK n \in Nat : Answered(w, n)
    BY <1>3 DEF QueryStatus, StatusOf, TypeOK
  <2>2. sync' \in [Worker -> SyncState]
    BY <2>1, AnsweredFields DEF TypeOK
  <2> QED
    BY <1>3, <2>2 DEF QueryStatus, StatusOf, TypeOK, history
<1>4. CASE Fetch(w)
  <2> DEFINE got == {m \in Asked(w) : server.changed[m] > sync[w].base}
             seen == [m \in Message |-> IF m \in got THEN server.flags[m] ELSE NoFlags]
  <2>1. got \subseteq Message
    BY MessageSyncAssumption DEF Asked
  <2>2. seen \in [Message -> Flags]
    BY RowTypes DEF TypeOK
  <2>3. sync' = [sync EXCEPT ![w] =
                   [sync[w] EXCEPT !.pc = "apply", !.todo = got, !.seen = seen]]
    BY <1>4 DEF Fetch
  <2>4. [sync[w] EXCEPT !.pc = "apply", !.todo = got, !.seen = seen] \in SyncState
    <3> HIDE DEF got, seen
    <3> QED
      BY <1>1, <2>1, <2>2 DEF SyncState
  <2>5. sync' \in [Worker -> SyncState]
    BY <2>3, <2>4 DEF TypeOK
  <2> QED
    BY <1>4, <2>5 DEF Fetch, TypeOK, history
<1>5. CASE ApplyStep(w)
  BY <1>5, ApplyStepType
<1>6. CASE SaveCursor(w)
  <2>1. cursor' \in Nat
    BY <1>1, <1>6 DEF SaveCursor, SyncState
  <2> QED
    BY <1>1, <1>6, <2>1 DEF SaveCursor, TypeOK, history
<1>7. CASE SyncThrows(w)
  BY <1>1, <1>7 DEF SyncThrows, TypeOK, history
<1>9. CASE BodyStep(w)
  BY <1>9, BodyType
<1> QED
  BY <1>2, <1>3, <1>4, <1>5, <1>6, <1>7, <1>9 DEF SyncStep

LEMMA EnvironmentType ==
    ASSUME TypeOK
    PROVE  /\ \A m \in Message, a \in Attr : OtherClient(m, a) => TypeOK'
           /\ \A m \in Message : Deliver(m) => TypeOK'
           /\ Tick => TypeOK'
           /\ Crash => TypeOK'
<1> DEFINE T == [modseq: Nat, flags: [Message -> Flags], changed: [Message -> Nat]]
<1>0. ASSUME NEW m \in Message, NEW f \in Flags, Touch(m, f) PROVE TypeOK'
  <2>1. server \in T
    BY DEF TypeOK
  <2>2. server' \in T
    BY <1>0, <2>1 DEF Touch
  <2> QED
    BY <1>0, <2>2 DEF Touch, TypeOK, history
<1>1. ASSUME NEW m \in Message, NEW a \in Attr, OtherClient(m, a) PROVE TypeOK'
  <2> DEFINE f == [server.flags[m] EXCEPT ![a] = ~@]
  <2>1. f \in Flags
    BY DEF TypeOK, Flags
  <2> HIDE DEF f
  <2>2. Touch(m, f)
    BY <1>1 DEF OtherClient, f
  <2> QED
    BY <1>0, <2>1, <2>2
<1>2. ASSUME NEW m \in Message, Deliver(m) PROVE TypeOK'
  <2>1. server.flags[m] \in Flags
    BY DEF TypeOK
  <2> QED
    BY <1>0, <1>2, <2>1 DEF Deliver
<1>3. ASSUME Tick PROVE TypeOK'
  <2>1. now' \in 0..MaxTime
    BY <1>3, MessageSyncAssumption DEF Tick, TypeOK
  <2> QED
    BY <1>3, <2>1 DEF Tick, TypeOK, history
<1>4. ASSUME Crash PROVE TypeOK'
  <2>1. crashes' \in 0..MaxCrashes
    BY <1>4, MessageSyncAssumption DEF Crash, TypeOK
  <2>2. task' \in [Task -> TaskRow]
    <3>1. task \in [Task -> TaskRow]
      BY DEF TypeOK
    <3>2. \A t \in Task : [task[t] EXCEPT !.status = "removed"] \in TaskRow
      BY <3>1 DEF TaskRow, Status
    <3> QED
      BY <1>4, <3>1, <3>2 DEF Crash
  <2>3. main' \in {"idle", "saved", "applied"} /\ remote' \in RemoteState
    BY <1>4, RowTypes DEF Crash
  <2>4. sync' \in [Worker -> SyncState]
    BY <1>4, RowTypes DEF Crash
  <2> QED
    BY <1>4, <2>1, <2>2, <2>3, <2>4 DEF Crash, TypeOK, history
<1> QED
  BY <1>1, <1>2, <1>3, <1>4

LEMMA TypeStep == TypeOK /\ [Next]_vars => TypeOK'
<1> SUFFICES ASSUME TypeOK, [Next]_vars PROVE TypeOK'
  OBVIOUS
<1>1. CASE Next
  <2>1. \A c \in ClientChange : c \in Change
    BY DEF ClientChange
  <2>2. ASSUME NEW m \in Message, WantBody(m) PROVE TypeOK'
    BY <2>2, BodyType DEF WantBody
  <2> QED
    BY <1>1, <2>1, <2>2, MainType, RemoteType, SyncType, EnvironmentType
       DEF Next, MainStep
<1>2. CASE UNCHANGED vars
  BY <1>2 DEF vars, TypeOK
<1> QED
  BY <1>1, <1>2

\* Every variable keeps its type: the rows, the tasks, the workers' copies.
THEOREM TypeCorrect == Spec => []TypeOK
BY TypeInit, TypeStep, PTL DEF Spec
-----------------------------------------------------------------------------
(* The lock. LockCount and PendingChangeVisible are not inductive: that a  *)
(* worker overwrites a row only when nobody holds it depends on how the    *)
(* time stamps of the row and of the fetch relate (LockHeld, FetchedBefore)*)
(* and on a task locking its messages exactly once (HoldersKnown,          *)
(* OneLocalTask).                                                          *)

\* A row that is held carries a time stamp no fetch can reach.
LockHeld ==
    \A m \in Message \ miscounted : holders[m] # {} => db[m].syncedAt > MaxTime

\* The time stamp of a fetch is in the past.
FetchedBefore == \A w \in Worker : sync[w].ts <= now

\* Only messages with a row are locked, only by tasks that were queued.
HoldersKnown ==
    \A m \in Message :
        /\ holders[m] # {} => m \in stored
        /\ \A t \in holders[m] : task[t].status # "none"
        /\ \A a \in Attr : \A t \in latest[m][a] : task[t].status # "none"

\* The main thread has at most one task in its hands, and before the
\* transaction of performLocal that task has locked nothing.
OneLocalTask ==
    \A t \in Task : task[t].status = "local" =>
        /\ main # "idle"
        /\ \A u \in Task : task[u].status = "local" => u = t
        /\ main = "saved" => \A m \in Message :
               t \notin holders[m] /\ \A a \in Attr : t \notin latest[m][a]

LockInv == /\ TypeOK /\ LockCount /\ PendingChangeVisible
           /\ LockHeld /\ FetchedBefore /\ HoldersKnown /\ OneLocalTask

LEMMA LockInit == Init => LockInv
<1> SUFFICES ASSUME Init PROVE LockInv
  OBVIOUS
<1>1. TypeOK
  BY TypeInit
<1>2. LockCount
  BY FS_EmptySet DEF Init, LockCount, NoRow
<1>3. PendingChangeVisible /\ LockHeld /\ HoldersKnown
  BY DEF Init, PendingChangeVisible, LockHeld, HoldersKnown
<1>4. FetchedBefore
  BY DEF Init, FetchedBefore, IdleSync
<1>5. OneLocalTask
  BY DEF Init, OneLocalTask, NoTask
<1> QED
  BY <1>1, <1>2, <1>3, <1>4, <1>5 DEF LockInv

LEMMA FiniteHolders ==
    ASSUME TypeOK, NEW m \in Message
    PROVE  IsFiniteSet(holders[m])
BY MessageSyncAssumption, FS_Subset DEF TypeOK

\* A step that leaves the rows and the history of the lock alone, and the
\* change of every queued task, keeps what is said about them.
LEMMA LockFrame ==
    ASSUME LockInv, UNCHANGED <<stored, db, holders, latest, miscounted>>,
           \A t \in Task : task[t].status # "none" =>
               task'[t].status # "none" /\ task'[t].change = task[t].change
    PROVE  LockCount' /\ PendingChangeVisible' /\ LockHeld' /\ HoldersKnown'
<1>1. \A m \in Message : /\ holders[m] \subseteq Task
                         /\ \A a \in Attr : latest[m][a] \subseteq Task
  BY DEF LockInv, TypeOK
<1>2. LockCount' /\ LockHeld'
  BY DEF LockInv, LockCount, LockHeld
<1>3. HoldersKnown'
  BY <1>1 DEF LockInv, HoldersKnown
<1>4. PendingChangeVisible'
  BY <1>1 DEF LockInv, HoldersKnown, PendingChangeVisible
<1> QED
  BY <1>2, <1>3, <1>4

\* The same for the task in the hands of the main thread.
LEMMA LocalFrame ==
    ASSUME LockInv, UNCHANGED <<main, latest>>,
           \A m \in Message : holders'[m] \subseteq holders[m],
           \A t \in Task : task'[t].status = "local" => task[t].status = "local"
    PROVE  OneLocalTask'
BY DEF LockInv, OneLocalTask

LEMMA LockMain ==
    ASSUME LockInv, NEW t \in Task
    PROVE  /\ \A c \in Change : SaveTask(t, c) => LockInv'
           /\ PerformLocal(t) => LockInv'
           /\ MarkRemote(t) => LockInv'
           /\ Cancel(t) => LockInv'
<1>t. TypeOK /\ task \in [Task -> TaskRow]
  BY DEF LockInv, TypeOK
<1>1. ASSUME NEW c \in Change, SaveTask(t, c) PROVE LockInv'
  <2>1. TypeOK'
    BY <1>1, <1>t, MainType
  <2>2. \A u \in Task : u # t => task'[u] = task[u]
    BY <1>1, <1>t DEF SaveTask
  <2>3. task'[t].status = "local" /\ task[t].status = "none"
    BY <1>1, <1>t DEF SaveTask
  <2>4. LockCount' /\ PendingChangeVisible' /\ LockHeld' /\ HoldersKnown'
    BY <1>1, <2>2, <2>3, LockFrame DEF SaveTask, history
  <2>5. FetchedBefore'
    BY <1>1 DEF SaveTask, LockInv, FetchedBefore
  <2>6. OneLocalTask'
    <3>1. \A u \in Task : task[u].status # "local"
      BY <1>1 DEF SaveTask, LockInv, OneLocalTask
    <3>2. \A m \in Message : t \notin holders[m] /\ \A a \in Attr : t \notin latest[m][a]
      BY <2>3 DEF LockInv, HoldersKnown
    <3> QED
      BY <1>1, <2>2, <3>1, <3>2 DEF SaveTask, history, OneLocalTask
  <2> QED
    BY <2>1, <2>4, <2>5, <2>6 DEF LockInv
<1>2. ASSUME PerformLocal(t) PROVE LockInv'
  <2> DEFINE ms == inflateMessages(t)
             c == task[t].change
  <2>1. TypeOK'
    BY <1>2, <1>t, MainType
  <2>2. /\ c \in Change /\ ms \subseteq stored /\ ms \subseteq Message
    BY <1>t DEF inflateMessages, TypeOK, TaskRow
  <2>3. \A m \in Message : t \notin holders[m] /\ \A a \in Attr : t \notin latest[m][a]
    BY <1>2 DEF PerformLocal, LockInv, OneLocalTask
  <2>4. UNCHANGED <<now, stored, task, sync, miscounted>> /\ main' = "applied"
    BY <1>2 DEF PerformLocal
  <2>5. ASSUME NEW m \in ms
        PROVE  /\ db'[m].flags = Apply(db[m].flags, c)
               /\ db'[m].suc = db[m].suc + 1 /\ db'[m].syncedAt = now + LockSpan
               /\ holders'[m] = holders[m] \cup {t}
               /\ latest'[m][c.attr] = {t}
               /\ \A a \in Attr \ {c.attr} : latest'[m][a] = latest[m][a]
    <3>1. latest'[m] = [latest[m] EXCEPT ![c.attr] = {t}] /\ c.attr \in Attr
      BY <1>2, <2>2, <2>5 DEF PerformLocal, Change
    <3>2. latest[m] \in [Attr -> SUBSET Task]
      BY <1>t, <2>2, <2>5 DEF TypeOK
    <3>3. /\ latest'[m][c.attr] = {t}
          /\ \A a \in Attr \ {c.attr} : latest'[m][a] = latest[m][a]
      BY <3>1, <3>2
    <3>4. m \in Message
      BY <2>2, <2>5
    <3> QED
      BY <1>2, <2>5, <3>3, <3>4 DEF PerformLocal
  <2>6. ASSUME NEW m \in Message, m \notin ms
        PROVE  db'[m] = db[m] /\ holders'[m] = holders[m] /\ latest'[m] = latest[m]
    BY <1>2, <2>6 DEF PerformLocal
  <2> HIDE DEF ms, c
  <2>7. LockCount'
    <3> SUFFICES ASSUME NEW m \in Message, m \notin miscounted
                 PROVE  db'[m].suc = Cardinality(holders'[m])
      BY <2>4 DEF LockCount
    <3>1. db[m].suc = Cardinality(holders[m])
      BY DEF LockInv, LockCount
    <3>2. Cardinality(holders[m] \cup {t}) = Cardinality(holders[m]) + 1
      BY <1>t, <2>3, FiniteHolders, FS_AddElement
    <3> QED
      BY <2>5, <2>6, <3>1, <3>2
  <2>8. PendingChangeVisible'
    <3> SUFFICES ASSUME NEW m \in Message, m \notin miscounted, NEW a \in Attr,
                        NEW u \in latest'[m][a], u \in holders'[m]
                 PROVE  db'[m].flags[a] = task[u].change.val
      BY <2>4 DEF PendingChangeVisible
    <3>0. db[m].flags \in Flags
      BY <1>t DEF TypeOK, Row
    <3>1. CASE m \in ms /\ a = c.attr
      <4>1. u = t
        BY <2>5, <3>1
      <4> QED
        BY <2>2, <2>5, <3>0, <3>1, <4>1, ApplyType DEF c
    <3>2. CASE m \in ms /\ a # c.attr
      <4>1. u \in latest[m][a] /\ db'[m].flags[a] = db[m].flags[a]
        BY <2>2, <2>5, <3>0, <3>2, ApplyType
      <4>2. u # t /\ u \in holders[m]
        BY <2>3, <2>5, <3>2, <4>1
      <4> QED
        BY <4>1, <4>2 DEF LockInv, PendingChangeVisible
    <3>3. CASE m \notin ms
      BY <2>6, <3>3 DEF LockInv, PendingChangeVisible
    <3> QED
      BY <3>1, <3>2, <3>3
  <2>9. LockHeld'
    <3>1. now + LockSpan > MaxTime
      BY <1>t, MessageSyncAssumption DEF TypeOK
    <3> QED
      BY <2>4, <2>5, <2>6, <3>1 DEF LockInv, LockHeld
  <2>10. HoldersKnown'
    <3> SUFFICES ASSUME NEW m \in Message
                 PROVE  /\ holders'[m] # {} => m \in stored
                        /\ \A u \in holders'[m] : task[u].status # "none"
                        /\ \A a \in Attr : \A u \in latest'[m][a] :
                                                task[u].status # "none"
      BY <2>4 DEF HoldersKnown
    <3>1. task[t].status # "none"
      BY <1>2 DEF PerformLocal
    <3>2. /\ holders[m] # {} => m \in stored
          /\ \A u \in holders[m] : task[u].status # "none"
          /\ \A a \in Attr : \A u \in latest[m][a] : task[u].status # "none"
      BY DEF LockInv, HoldersKnown
    <3>3. CASE m \in ms
      <4>1. \A a \in Attr : latest'[m][a] \subseteq latest[m][a] \cup {t}
        BY <2>5, <3>3
      <4>2. m \in stored /\ holders'[m] = holders[m] \cup {t}
        BY <2>2, <2>5, <3>3
      <4> QED
        BY <3>1, <3>2, <4>1, <4>2
    <3>4. CASE m \notin ms
      BY <2>6, <3>2, <3>4
    <3> QED
      BY <3>3, <3>4
  <2>11. FetchedBefore'
    BY <2>4 DEF LockInv, FetchedBefore
  <2>12. OneLocalTask'
    BY <2>4 DEF LockInv, OneLocalTask
  <2> QED
    BY <2>1, <2>7, <2>8, <2>9, <2>10, <2>11, <2>12 DEF LockInv
<1>3. ASSUME MarkRemote(t) PROVE LockInv'
  <2>1. TypeOK'
    BY <1>3, <1>t, MainType
  <2>2. /\ \A u \in Task : u # t => task'[u] = task[u]
        /\ task'[t].status = "remote" /\ task'[t].change = task[t].change
        /\ task[t].status = "local"
    BY <1>3, <1>t DEF MarkRemote, TaskRow
  <2>3. LockCount' /\ PendingChangeVisible' /\ LockHeld' /\ HoldersKnown'
    BY <1>3, <2>2, LockFrame DEF MarkRemote, history
  <2>4. FetchedBefore' /\ OneLocalTask'
    BY <1>3, <2>2 DEF MarkRemote, LockInv, FetchedBefore, OneLocalTask
  <2> QED
    BY <2>1, <2>3, <2>4 DEF LockInv
<1>4. ASSUME Cancel(t) PROVE LockInv'
  <2>1. TypeOK'
    BY <1>4, <1>t, MainType
  <2>2. \A u \in Task : /\ task'[u].status = task[u].status
                        /\ task'[u].change = task[u].change
    BY <1>4, <1>t DEF Cancel, TaskRow
  <2>3. LockCount' /\ PendingChangeVisible' /\ LockHeld' /\ HoldersKnown'
    BY <1>4, <2>2, LockFrame DEF Cancel, history
  <2>4. FetchedBefore' /\ OneLocalTask'
    BY <1>4, <2>2 DEF Cancel, history, LockInv, FetchedBefore, OneLocalTask
  <2> QED
    BY <2>1, <2>3, <2>4 DEF LockInv
<1> QED
  BY <1>1, <1>2, <1>3, <1>4

LEMMA LockRemote ==
    ASSUME LockInv, RemoteStep
    PROVE  LockInv'
<1>t. TypeOK /\ task \in [Task -> TaskRow] /\ TypeOK'
  BY RemoteType DEF LockInv, TypeOK
<1>1. ASSUME NEW t \in Task, NEW s \in {"complete", "cancelled"}, NEW e \in BOOLEAN,
             SaveDone(t, s, e),
             UNCHANGED <<now, stored, db, main, sync, holders, latest, miscounted>>
      PROVE  LockInv'
  <2>1. \A u \in Task : /\ u # t => task'[u] = task[u]
                        /\ task'[u].change = task[u].change
    BY <1>1, <1>t DEF SaveDone, TaskRow
  <2>2. task'[t].status = s
    BY <1>1, <1>t DEF SaveDone, TaskRow
  <2>3. LockCount' /\ PendingChangeVisible' /\ LockHeld' /\ HoldersKnown'
    <3>1. \A u \in Task : task[u].status # "none" => task'[u].status # "none"
      BY <2>1, <2>2
    <3> QED
      BY <1>1, <2>1, <3>1, LockFrame
  <2>4. FetchedBefore'
    BY <1>1 DEF LockInv, FetchedBefore
  <2>5. OneLocalTask'
    <3>1. \A u \in Task : task'[u].status = "local" => task[u].status = "local"
      BY <2>1, <2>2
    <3> QED
      BY <1>1, <3>1, LocalFrame
  <2> QED
    BY <1>t, <2>3, <2>4, <2>5 DEF LockInv
<1>2. ASSUME UNCHANGED <<now, stored, db, task, main, sync, holders, latest, miscounted>>
      PROVE  LockInv'
  <2>1. LockCount' /\ PendingChangeVisible' /\ LockHeld' /\ HoldersKnown'
    BY <1>2, LockFrame
  <2>2. FetchedBefore' /\ OneLocalTask'
    BY <1>2 DEF LockInv, FetchedBefore, OneLocalTask
  <2> QED
    BY <1>t, <2>1, <2>2 DEF LockInv
<1>3. ASSUME NEW t \in Task, ReleaseLocks(t) PROVE LockInv'
  <2> DEFINE ms == inflateMessages(t) \cap remote.msgs
  <2>1. UNCHANGED <<now, stored, task, main, sync, latest>>
    BY <1>3 DEF ReleaseLocks
  <2>2. ms \subseteq Message
    BY <1>t DEF inflateMessages, TypeOK
  <2>3. ASSUME NEW m \in ms
        PROVE  /\ db'[m].flags = db[m].flags /\ db'[m].suc = db[m].suc - 1
               /\ db[m].suc # 1 => db'[m].syncedAt = db[m].syncedAt
               /\ holders'[m] = holders[m] \ {t}
               /\ m \notin miscounted' => t \in holders[m]
    BY <1>3, <2>2 DEF ReleaseLocks
  <2>4. ASSUME NEW m \in Message, m \notin ms
        PROVE  db'[m] = db[m] /\ holders'[m] = holders[m]
    BY <1>3, <2>4 DEF ReleaseLocks
  <2>5. miscounted \subseteq miscounted'
    BY <1>3 DEF ReleaseLocks
  <2> HIDE DEF ms
  <2>6. ASSUME NEW m \in Message, m \notin miscounted'
        PROVE  /\ db[m].suc = Cardinality(holders[m])
               /\ m \in ms => Cardinality(holders'[m]) = Cardinality(holders[m]) - 1
    <3>1. db[m].suc = Cardinality(holders[m])
      BY <2>5, <2>6 DEF LockInv, LockCount
    <3>2. IsFiniteSet(holders[m])
      BY <1>t, FiniteHolders
    <3>3. ASSUME m \in ms
          PROVE  Cardinality(holders'[m]) = Cardinality(holders[m]) - 1
      BY <2>3, <2>6, <3>2, <3>3, FS_RemoveElement
    <3> QED
      BY <3>1, <3>3
  <2>7. LockCount'
    BY <2>3, <2>4, <2>6 DEF LockCount
  <2>8. PendingChangeVisible'
    BY <2>1, <2>3, <2>4, <2>5 DEF LockInv, PendingChangeVisible
  <2>9. LockHeld'
    <3> SUFFICES ASSUME NEW m \in Message, m \notin miscounted', holders'[m] # {}
                 PROVE  db'[m].syncedAt > MaxTime
      BY DEF LockHeld
    <3>1. db[m].syncedAt > MaxTime
      BY <2>3, <2>4, <2>5 DEF LockInv, LockHeld
    <3>2. m \in ms => db[m].suc # 1
      <4>1. Cardinality(holders'[m]) # 0
        BY <1>t, FiniteHolders, FS_EmptySet, FS_Subset, <2>3, <2>4
      <4> QED
        BY <1>t, <2>6, <4>1, FiniteHolders, FS_CardinalityType
    <3> QED
      BY <2>3, <2>4, <3>1, <3>2
  <2>10. HoldersKnown'
    BY <2>1, <2>3, <2>4 DEF LockInv, HoldersKnown
  <2>11. FetchedBefore'
    BY <2>1 DEF LockInv, FetchedBefore
  <2>12. OneLocalTask'
    BY <2>1, <2>3, <2>4, LocalFrame
  <2> QED
    BY <1>t, <2>7, <2>8, <2>9, <2>10, <2>11, <2>12 DEF LockInv
<1>4. CASE LoadTasks
  BY <1>2, <1>4 DEF LoadTasks, history
<1>5. ASSUME NEW t \in Task, PerformCancelled(t) PROVE LockInv'
  BY <1>1, <1>5 DEF PerformCancelled, history
<1>6. ASSUME NEW t \in Task, StoreOnServer(t) PROVE LockInv'
  BY <1>2, <1>6 DEF StoreOnServer
<1>7. ASSUME NEW t \in Task, StoreFails(t) PROVE LockInv'
  BY <1>1, <1>7 DEF StoreFails
<1>8. ASSUME NEW t \in Task, SaveComplete(t) PROVE LockInv'
  BY <1>1, <1>8 DEF SaveComplete, history
<1> QED
  BY <1>3, <1>4, <1>5, <1>6, <1>7, <1>8 DEF RemoteStep

LEMMA LockSync ==
    ASSUME LockInv, NEW w \in Worker, SyncStep(w)
    PROVE  LockInv'
<1>t. /\ TypeOK /\ TypeOK' /\ sync \in [Worker -> SyncState]
      /\ now \in Nat /\ sync[w].ts <= now
  BY SyncType DEF LockInv, TypeOK, FetchedBefore
<1>0. ASSUME UNCHANGED <<now, task, main, latest, holders>>,
             sync'[w].ts \in {0, now, sync[w].ts}, \A v \in Worker \ {w} : sync'[v] = sync[v]
      PROVE  FetchedBefore' /\ OneLocalTask'
  <2>1. OneLocalTask'
    BY <1>0, LocalFrame
  <2>2. FetchedBefore'
    BY <1>0, <1>t DEF LockInv, FetchedBefore
  <2> QED
    BY <2>1, <2>2
<1>1. ASSUME UNCHANGED <<now, stored, db, task, main, latest, holders, miscounted>>,
             sync'[w].ts \in {0, now, sync[w].ts}, \A v \in Worker \ {w} : sync'[v] = sync[v]
      PROVE  LockInv'
  BY <1>0, <1>1, <1>t, LockFrame DEF LockInv
<1>2. CASE LoadFolder(w)
  <2>1. sync'[w].ts = 0 /\ \A v \in Worker \ {w} : sync'[v] = sync[v]
    BY <1>2, <1>t DEF LoadFolder, IdleSync
  <2> QED
    BY <1>1, <1>2, <2>1 DEF LoadFolder, history
<1>3. CASE QueryStatus(w)
  <2>1. PICK n \in Nat : Answered(w, n)
    BY <1>0, <1>3 DEF QueryStatus, StatusOf, LockInv, TypeOK
  <2>2. sync'[w].ts = now /\ \A v \in Worker \ {w} : sync'[v] = sync[v]
    BY <1>0, <2>1, AnsweredFields DEF LockInv, TypeOK
  <2> QED
    BY <1>1, <1>3, <2>2 DEF QueryStatus, StatusOf, history
<1>4. CASE Fetch(w)
  <2>1. sync'[w].ts = sync[w].ts /\ \A v \in Worker \ {w} : sync'[v] = sync[v]
    BY <1>4, <1>t DEF Fetch, SyncState
  <2> QED
    BY <1>1, <1>4, <2>1 DEF Fetch, history
<1>5. CASE SaveCursor(w)
  <2>1. sync'[w].ts = 0 /\ \A v \in Worker \ {w} : sync'[v] = sync[v]
    BY <1>5, <1>t DEF SaveCursor, IdleSync
  <2> QED
    BY <1>1, <1>5, <2>1 DEF SaveCursor, history
<1>6. CASE SyncThrows(w)
  <2>1. sync'[w].ts = 0 /\ \A v \in Worker \ {w} : sync'[v] = sync[v]
    BY <1>6, <1>t DEF SyncThrows, IdleSync
  <2> QED
    BY <1>1, <1>6, <2>1 DEF SyncThrows, history
<1>7. ASSUME NEW m \in Message, InsertMessage(w, m) PROVE LockInv'
  <2>1. /\ UNCHANGED <<now, task, main, latest, holders, miscounted>>
        /\ stored' = stored \cup {m} /\ holders[m] = {}
        /\ db'[m].suc = 0 /\ \A k \in Message \ {m} : db'[k] = db[k]
    BY <1>7, <1>t DEF InsertMessage, history, LockInv, HoldersKnown, TypeOK
  <2>2. LockCount'
    BY <2>1, FS_EmptySet DEF LockInv, LockCount
  <2>3. PendingChangeVisible' /\ LockHeld' /\ HoldersKnown'
    BY <2>1 DEF LockInv, PendingChangeVisible, LockHeld, HoldersKnown
  <2>4. sync'[w].ts = sync[w].ts /\ \A v \in Worker \ {w} : sync'[v] = sync[v]
    <3>1. sync' = [sync EXCEPT ![w] = [sync[w] EXCEPT !.todo = sync[w].todo \ {m}]]
      BY <1>7 DEF InsertMessage
    <3> QED
      BY <1>t, <3>1 DEF SyncState
  <2> QED
    BY <1>0, <1>t, <2>1, <2>2, <2>3, <2>4 DEF LockInv
<1>8. ASSUME NEW m \in Message, FindLocal(w, m) PROVE LockInv'
  <2>1. sync'[w].ts = sync[w].ts /\ \A v \in Worker \ {w} : sync'[v] = sync[v]
    BY <1>8, <1>t DEF FindLocal, SyncState
  <2> QED
    BY <1>1, <1>8, <2>1 DEF FindLocal, history
<1>9. ASSUME NEW m \in Message, NextMessage(w, m)
      PROVE  sync'[w].ts = sync[w].ts /\ \A v \in Worker \ {w} : sync'[v] = sync[v]
  BY <1>9, <1>t DEF NextMessage, SyncState
<1>10. ASSUME NEW m \in Message, UpdateIgnored(w, m) \/ UpdateSame(w, m) PROVE LockInv'
  BY <1>1, <1>9, <1>10 DEF UpdateIgnored, UpdateSame
<1>11. ASSUME NEW m \in Message, UpdateMessage(w, m) PROVE LockInv'
  <2>1. /\ UNCHANGED <<now, stored, task, main, latest, holders>>
        /\ \A k \in Message \ {m} : db'[k] = db[k]
        /\ db'[m].suc = sync[w].copy.suc
        /\ miscounted \subseteq miscounted'
    BY <1>11, <1>t DEF UpdateMessage, TypeOK
  <2>2. ASSUME m \notin miscounted'
        PROVE  holders[m] = {} /\ db'[m].suc = db[m].suc
    <3>1. db[m] = sync[w].copy /\ sync[w].copy.syncedAt <= sync[w].ts
      BY <1>11, <2>2 DEF UpdateMessage
    <3>2. db[m].syncedAt <= MaxTime
      BY <1>t, <3>1, MessageSyncAssumption DEF TypeOK, Row, SyncState
    <3>3. ~(db[m].syncedAt > MaxTime)
      BY <1>t, <3>2, MessageSyncAssumption DEF TypeOK, Row
    <3> QED
      BY <2>1, <2>2, <3>1, <3>3 DEF LockInv, LockHeld
  <2>3. LockCount' /\ PendingChangeVisible' /\ LockHeld' /\ HoldersKnown'
    BY <2>1, <2>2 DEF LockInv, LockCount, PendingChangeVisible, LockHeld, HoldersKnown
  <2> QED
    BY <1>0, <1>9, <1>11, <1>t, <2>1, <2>3 DEF LockInv, UpdateMessage
<1>13. CASE BodyFails(w)
  BY <1>1, <1>13, <1>t, BodyState DEF BodyFails, history
<1>14. ASSUME NEW m \in Message, ReserveBody(w, m) PROVE LockInv'
  BY <1>1, <1>14, <1>t, BodyState DEF ReserveBody, history
<1>15. ASSUME NEW m \in Message, StoreBody(w, m) PROVE LockInv'
  <2>1. /\ UNCHANGED <<now, stored, task, main, latest, holders>>
        /\ \A k \in Message \ {m} : db'[k] = db[k]
        /\ miscounted \subseteq miscounted'
        /\ m \notin miscounted' => db'[m] = db[m]
    BY <1>15, <1>t DEF StoreBody, TypeOK
  <2>2. LockCount' /\ PendingChangeVisible' /\ LockHeld' /\ HoldersKnown'
    BY <2>1 DEF LockInv, LockCount, PendingChangeVisible, LockHeld, HoldersKnown
  <2>3. sync'[w].ts \in {0, sync[w].ts} /\ \A v \in Worker \ {w} : sync'[v] = sync[v]
    BY <1>15, <1>t, BodyState DEF StoreBody
  <2> QED
    BY <1>0, <1>t, <2>1, <2>2, <2>3 DEF LockInv
<1> QED
  BY <1>2, <1>3, <1>4, <1>5, <1>6, <1>7, <1>8, <1>10, <1>11, <1>13, <1>14, <1>15
     DEF SyncStep, ApplyStep, BodyStep

LEMMA LockWanted ==
    ASSUME LockInv, NEW m \in Message, WantBody(m)
    PROVE  LockInv'
<1>t. TypeOK /\ TypeOK' /\ "fg" \in Worker
  BY BodyType DEF LockInv, WantBody
<1>1. sync'["fg"].ts = sync["fg"].ts /\ \A v \in Worker \ {"fg"} : sync'[v] = sync[v]
  BY <1>t, BodyState DEF WantBody
<1>2. FetchedBefore' /\ OneLocalTask'
  BY <1>1 DEF WantBody, history, LockInv, FetchedBefore, OneLocalTask
<1>3. LockCount' /\ PendingChangeVisible' /\ LockHeld' /\ HoldersKnown'
  BY LockFrame DEF WantBody, history
<1> QED
  BY <1>t, <1>2, <1>3 DEF LockInv

LEMMA LockEnvironment ==
    ASSUME LockInv
    PROVE  /\ \A m \in Message, a \in Attr : OtherClient(m, a) => LockInv'
           /\ \A m \in Message : Deliver(m) => LockInv'
           /\ Tick => LockInv'
           /\ Crash => LockInv'
<1>t. TypeOK /\ task \in [Task -> TaskRow]
  BY DEF LockInv, TypeOK
<1>1. ASSUME NEW m \in Message, NEW f, Touch(m, f), TypeOK' PROVE LockInv'
  <2>1. LockCount' /\ PendingChangeVisible' /\ LockHeld' /\ HoldersKnown'
    BY <1>1, LockFrame DEF Touch, history
  <2>2. FetchedBefore' /\ OneLocalTask'
    BY <1>1 DEF Touch, history, LockInv, FetchedBefore, OneLocalTask
  <2> QED
    BY <1>1, <2>1, <2>2 DEF LockInv
<1>2. ASSUME NEW m \in Message, NEW a \in Attr, OtherClient(m, a) PROVE LockInv'
  BY <1>1, <1>2, <1>t, EnvironmentType DEF OtherClient
<1>3. ASSUME NEW m \in Message, Deliver(m) PROVE LockInv'
  BY <1>1, <1>3, <1>t, EnvironmentType DEF Deliver
<1>4. ASSUME Tick PROVE LockInv'
  <2>1. LockCount' /\ PendingChangeVisible' /\ LockHeld' /\ HoldersKnown'
    BY <1>4, LockFrame DEF Tick, history
  <2>2. FetchedBefore'
    BY <1>4 DEF Tick, LockInv, FetchedBefore, TypeOK, SyncState
  <2>3. OneLocalTask'
    BY <1>4 DEF Tick, history, LockInv, OneLocalTask
  <2> QED
    BY <1>4, <1>t, <2>1, <2>2, <2>3, EnvironmentType DEF LockInv
<1>5. ASSUME Crash PROVE LockInv'
  <2>1. \A t \in Task : /\ task'[t].change = task[t].change
                        /\ task'[t].status # "local"
                        /\ task[t].status # "none" => task'[t].status # "none"
    BY <1>5, <1>t DEF Crash, TaskRow
  <2>2. LockCount' /\ PendingChangeVisible' /\ LockHeld' /\ HoldersKnown'
    BY <1>5, <2>1, LockFrame DEF Crash, history
  <2>3. FetchedBefore'
    BY <1>5, <1>t DEF Crash, FetchedBefore, IdleSync, TypeOK
  <2>4. OneLocalTask'
    <3> SUFFICES ASSUME NEW t \in Task, task'[t].status = "local" PROVE FALSE
      BY DEF OneLocalTask
    <3> QED
      BY <2>1
  <2> QED
    BY <1>5, <1>t, <2>2, <2>3, <2>4, EnvironmentType DEF LockInv
<1> QED
  BY <1>2, <1>3, <1>4, <1>5

LEMMA LockStep == LockInv /\ [Next]_vars => LockInv'
<1> SUFFICES ASSUME LockInv, [Next]_vars PROVE LockInv'
  OBVIOUS
<1>1. CASE Next
  <2>1. \A c \in ClientChange : c \in Change
    BY DEF ClientChange
  <2> QED
    BY <1>1, <2>1, LockMain, LockRemote, LockSync, LockWanted, LockEnvironment
       DEF Next, MainStep
<1>2. CASE UNCHANGED vars
  <2>1. LockCount' /\ PendingChangeVisible' /\ LockHeld' /\ HoldersKnown'
    BY <1>2, LockFrame DEF vars
  <2>2. TypeOK' /\ FetchedBefore' /\ OneLocalTask'
    BY <1>2, TypeStep DEF vars, LockInv, FetchedBefore, OneLocalTask
  <2> QED
    BY <2>1, <2>2 DEF LockInv
<1> QED
  BY <1>1, <1>2

\* The inductive invariant behind the two theorems that follow.
THEOREM LockInvariant == Spec => []LockInv
BY LockInit, LockStep, PTL DEF Spec

\* The lock counter of a row counts the tasks that hold it, however the main
\* thread, the foreground worker and the workers that sync interleave.
THEOREM LockCounted == Spec => []LockCount
<1>1. LockInv => LockCount
  BY DEF LockInv
<1> QED
  BY <1>1, LockInvariant, PTL

\* While a task holds the lock of a row, sync does not revert its change.
THEOREM ChangeKept == Spec => []PendingChangeVisible
<1>1. LockInv => PendingChangeVisible
  BY DEF LockInv
<1> QED
  BY <1>1, LockInvariant, PTL
-----------------------------------------------------------------------------
(* The order of the STOREs. The rowid of a task is larger than that of any *)
(* task queued before it, and the batch the worker holds is older than any *)
(* unfinished task outside of it, whatever crashed in between.             *)

Unfinished == {t \in Task : task[t].status \in {"local", "remote"}}

OrderInv ==
    /\ TypeOK /\ OneLocalTask
    /\ lastRow <= Cardinality(Queued)
    /\ \A t \in Queued : task[t].rowid <= Cardinality(Queued)
    /\ \A t, u \in Queued : task[t].status = "local" => task[u].rowid <= task[t].rowid
    /\ \A t \in Unfinished : lastRow <= task[t].rowid
    /\ remote.batch \subseteq Pending
    /\ \A t \in remote.batch, u \in Unfinished \ remote.batch :
          task[t].rowid <= task[u].rowid

LEMMA QueuedFinite ==
    /\ IsFiniteSet(Queued) /\ Cardinality(Queued) \in Nat
    /\ \A t \in Task \ Queued :
          Cardinality(Queued \cup {t}) = Cardinality(Queued) + 1
<1>1. IsFiniteSet(Queued)
  BY MessageSyncAssumption, FS_Subset DEF Queued
<1> QED
  BY <1>1, FS_CardinalityType, FS_AddElement

LEMMA OrderInit == Init => OrderInv
<1> SUFFICES ASSUME Init PROVE OrderInv
  OBVIOUS
<1>1. TypeOK /\ OneLocalTask
  BY LockInit DEF LockInv
<1>2. Queued = {} /\ Unfinished = {} /\ remote.batch = {} /\ lastRow = 0
  BY DEF Init, Queued, Unfinished, NoTask, IdleRemote
<1> QED
  BY <1>1, <1>2, FS_EmptySet DEF OrderInv

\* The task whose turn it is was queued before every other unfinished one.
LEMMA NextIsOldest ==
    ASSUME OrderInv, NEW t \in Task, IsNext(t)
    PROVE  /\ task[t].status = "remote"
           /\ task[t].rowid >= lastRow /\ task[t].rowid <= Cardinality(Queued)
           /\ \A u \in Unfinished : task[t].rowid <= task[u].rowid
<1>1. t \in Pending /\ t \in remote.batch
  BY DEF OrderInv, IsNext
<1>2. t \in Unfinished /\ t \in Queued
  BY <1>1 DEF Pending, Unfinished, Queued
<1>3. lastRow \in Nat /\ task[t].rowid \in Nat
  BY DEF OrderInv, TypeOK, TaskRow
<1> QED
  BY <1>1, <1>2, <1>3 DEF OrderInv, IsNext, Pending

\* A step that queues no task and moves no task back.
LEMMA OrderFrame ==
    ASSUME OrderInv, TypeOK', OneLocalTask',
           lastRow' <= Cardinality(Queued),
           \A t \in Unfinished : lastRow' <= task[t].rowid,
           \A t \in Task :
               /\ task'[t].rowid = task[t].rowid
               /\ task[t].status = "none" <=> task'[t].status = "none"
               /\ task'[t].status = "local" => task[t].status = "local"
               /\ task'[t].status = "remote" => task[t].status \in {"local", "remote"},
           remote'.batch \subseteq remote.batch,
           \A t \in remote'.batch : task'[t].status = "remote",
           \A t \in remote.batch \ remote'.batch :
               remote'.batch = {} \/ task'[t].status \notin {"local", "remote"}
    PROVE  OrderInv'
<1>1. Queued' = Queued /\ Unfinished' \subseteq Unfinished /\ Unfinished \subseteq Task
  BY DEF Queued, Unfinished
<1>2. remote'.batch \subseteq Pending'
  BY DEF Pending, OrderInv
<1>3. \A t \in remote'.batch, u \in Unfinished' \ remote'.batch :
         task'[t].rowid <= task'[u].rowid
  <2> SUFFICES ASSUME NEW t \in remote'.batch, NEW u \in Unfinished', u \notin remote'.batch
               PROVE  task'[t].rowid <= task'[u].rowid
    OBVIOUS
  <2>1. u \notin remote.batch
    BY DEF Unfinished
  <2>2. t \in remote.batch /\ u \in Unfinished \ remote.batch /\ t \in Task /\ u \in Task
    BY <1>1, <2>1 DEF OrderInv, Pending
  <2> QED
    BY <2>2 DEF OrderInv
<1>4. \A t, u \in Queued' : task'[t].status = "local" => task'[u].rowid <= task'[t].rowid
  BY <1>1 DEF OrderInv, Queued
<1>5. \A t \in Unfinished' : lastRow' <= task'[t].rowid
  BY <1>1 DEF OrderInv
<1>6. \A t \in Queued' : task'[t].rowid <= Cardinality(Queued')
  BY <1>1 DEF OrderInv, Queued
<1> QED
  BY <1>1, <1>2, <1>3, <1>4, <1>5, <1>6 DEF OrderInv

LEMMA OrderSaveTask ==
    ASSUME OrderInv, TypeOK', OneLocalTask', NEW t \in Task, NEW c \in Change,
           SaveTask(t, c)
    PROVE  OrderInv'
<1>1. /\ task \in [Task -> TaskRow] /\ lastRow \in Nat /\ t \in Task \ Queued
      /\ \A u \in Task : task[u].rowid \in Nat
  BY DEF OrderInv, TypeOK, SaveTask, Queued, TaskRow
<1>2. /\ \A u \in Task \ {t} : task'[u] = task[u]
      /\ task'[t].status = "local" /\ task'[t].rowid = Cardinality(Queued) + 1
      /\ UNCHANGED <<remote, lastRow>>
  BY <1>1 DEF SaveTask, history
<1>3. Queued' = Queued \cup {t} /\ Unfinished' = Unfinished \cup {t}
  BY <1>1, <1>2 DEF Queued, Unfinished
<1>4. Cardinality(Queued') = Cardinality(Queued) + 1 /\ Cardinality(Queued) \in Nat
  BY <1>1, <1>3, QueuedFinite
<1>5. \A u \in Queued : u \in Task /\ u # t
  BY <1>1 DEF Queued
<1>6. Unfinished \subseteq Queued /\ Pending \subseteq Queued
  BY DEF Unfinished, Queued, Pending
<1>7. \A u \in Task \ {t} : task'[u].status # "local"
  BY <1>2 DEF OneLocalTask
<1>8. \A u \in Queued' : task'[u].rowid <= Cardinality(Queued')
  BY <1>1, <1>2, <1>3, <1>4, <1>5 DEF OrderInv
<1>9. \A u, v \in Queued' : task'[u].status = "local" => task'[v].rowid <= task'[u].rowid
  <2> SUFFICES ASSUME NEW u \in Queued', NEW v \in Queued', task'[u].status = "local"
               PROVE  task'[v].rowid <= task'[u].rowid
    OBVIOUS
  <2>1. u = t
    BY <1>3, <1>5, <1>7
  <2> QED
    BY <1>2, <1>4, <1>8, <2>1
<1>10. \A u \in Unfinished' : lastRow' <= task'[u].rowid
  BY <1>1, <1>2, <1>3, <1>4, <1>5, <1>6 DEF OrderInv
<1>11. remote'.batch \subseteq Pending'
  BY <1>1, <1>2, <1>5, <1>6 DEF OrderInv, Pending
<1>12. \A u \in remote'.batch, v \in Unfinished' \ remote'.batch :
          task'[u].rowid <= task'[v].rowid
  BY <1>1, <1>2, <1>3, <1>4, <1>5, <1>6 DEF OrderInv
<1>13. lastRow' <= Cardinality(Queued')
  BY <1>1, <1>2, <1>4 DEF OrderInv
<1> QED
  BY <1>8, <1>9, <1>10, <1>11, <1>12, <1>13 DEF OrderInv

LEMMA OrderRemote ==
    ASSUME OrderInv, TypeOK', OneLocalTask', RemoteStep
    PROVE  OrderInv' /\ lastRow' >= lastRow
<1>t. /\ task \in [Task -> TaskRow] /\ lastRow \in Nat /\ remote \in RemoteState
      /\ \A u \in Task : task[u].rowid \in Nat
  BY DEF OrderInv, TypeOK, TaskRow
<1>1. CASE LoadTasks
  <2>1. remote'.batch = Pending /\ UNCHANGED <<task, lastRow>>
    BY <1>1 DEF LoadTasks, IdleRemote, history
  <2>2. \A t \in Pending, u \in Unfinished \ Pending : task[t].rowid <= task[u].rowid
    BY DEF OrderInv, Pending, Unfinished, Queued
  <2> QED
    BY <1>t, <2>1, <2>2 DEF OrderInv, Pending, Unfinished, Queued
<1>2. ASSUME NEW t \in Task, NEW s \in {"complete", "cancelled"}, NEW e \in BOOLEAN,
             IsNext(t), SaveDone(t, s, e), lastRow' \in {lastRow, task[t].rowid}
      PROVE  OrderInv' /\ lastRow' >= lastRow
  <2>1. \A u \in Task : /\ u # t => task'[u] = task[u]
                        /\ task'[u].rowid = task[u].rowid
    BY <1>2, <1>t DEF SaveDone, TaskRow
  <2>2. task'[t].status \in {"complete", "cancelled"} /\ task[t].status = "remote"
    BY <1>2, <1>t, NextIsOldest DEF SaveDone, TaskRow
  <2>3. remote'.batch = remote.batch \ {t}
    BY <1>2, <1>t DEF SaveDone, RemoteState
  <2>4. \A u \in remote'.batch : task'[u].status = "remote"
    BY <2>1, <2>3 DEF OrderInv, Pending
  <2>5. \A u \in Task : /\ task[u].status = "none" <=> task'[u].status = "none"
                        /\ task'[u].status \in {"local", "remote"} => task'[u] = task[u]
    BY <2>1, <2>2
  <2>6. \A u \in remote.batch \ remote'.batch : task'[u].status \notin {"local", "remote"}
    BY <2>2, <2>3
  <2>7. /\ lastRow' <= Cardinality(Queued) /\ lastRow' >= lastRow
        /\ \A u \in Unfinished : lastRow' <= task[u].rowid
    BY <1>2, <1>t, NextIsOldest DEF OrderInv
  <2>8. OrderInv'
    BY <2>1, <2>3, <2>4, <2>5, <2>6, <2>7, OrderFrame
  <2> QED
    BY <2>7, <2>8
<1>3. ASSUME UNCHANGED <<task, lastRow>>, remote'.batch = remote.batch
      PROVE  OrderInv' /\ lastRow' >= lastRow
  BY <1>3, <1>t DEF OrderInv, Queued, Unfinished, Pending
<1>4. ASSUME NEW t \in Task, StoreOnServer(t) PROVE OrderInv' /\ lastRow' >= lastRow
  <2>1. /\ lastRow' = task[t].rowid /\ task' = task /\ remote'.batch = remote.batch
        /\ IsNext(t)
    BY <1>4, <1>t DEF StoreOnServer, ApplyOnServer, RemoteState
  <2>2. \A u \in remote.batch : u \in Task /\ task[u].status = "remote"
    BY DEF OrderInv, Pending
  <2>3. OrderInv'
    BY <2>1, <2>2, NextIsOldest, OrderFrame
  <2> QED
    BY <2>1, <2>3, NextIsOldest
<1>5. ASSUME NEW t \in Task, ReleaseLocks(t) PROVE OrderInv' /\ lastRow' >= lastRow
  BY <1>3, <1>5, <1>t DEF ReleaseLocks, RemoteState
<1>6. ASSUME NEW t \in Task, PerformCancelled(t) PROVE OrderInv' /\ lastRow' >= lastRow
  BY <1>2, <1>6 DEF PerformCancelled, history
<1>7. ASSUME NEW t \in Task, StoreFails(t) PROVE OrderInv' /\ lastRow' >= lastRow
  BY <1>2, <1>7 DEF StoreFails, ApplyOnServer
<1>8. ASSUME NEW t \in Task, SaveComplete(t) PROVE OrderInv' /\ lastRow' >= lastRow
  BY <1>2, <1>8 DEF SaveComplete, history
<1> QED
  BY <1>1, <1>4, <1>5, <1>6, <1>7, <1>8 DEF RemoteStep

LEMMA OrderStep ==
    ASSUME OrderInv, TypeOK', OneLocalTask', [Next]_vars
    PROVE  OrderInv' /\ lastRow' >= lastRow
<1>t. /\ task \in [Task -> TaskRow] /\ lastRow \in Nat
      /\ \A u \in remote.batch : task[u].status = "remote"
  BY DEF OrderInv, TypeOK, Pending
<1>1. ASSUME UNCHANGED <<task, remote, lastRow>> PROVE OrderInv' /\ lastRow' >= lastRow
  BY <1>1, <1>t DEF OrderInv, Queued, Unfinished, Pending
<1>2. ASSUME NEW t \in Task, NEW c \in ClientChange, SaveTask(t, c)
      PROVE  OrderInv' /\ lastRow' >= lastRow
  <2>1. c \in Change
    BY DEF ClientChange
  <2>2. OrderInv'
    BY <1>2, <2>1, OrderSaveTask
  <2>3. lastRow' = lastRow
    BY <1>2 DEF SaveTask, history
  <2> QED
    BY <1>t, <2>2, <2>3
<1>3. ASSUME NEW t \in Task, PerformLocal(t) PROVE OrderInv' /\ lastRow' >= lastRow
  BY <1>1, <1>3 DEF PerformLocal
<1>4. ASSUME NEW t \in Task, MarkRemote(t) \/ Cancel(t)
      PROVE  OrderInv' /\ lastRow' >= lastRow
  <2>1. /\ \A u \in Task \ {t} : task'[u] = task[u]
        /\ task'[t].rowid = task[t].rowid /\ task'[t].status = "remote"
        /\ task[t].status \in {"local", "remote"}
        /\ UNCHANGED <<remote, lastRow>>
    BY <1>4, <1>t DEF MarkRemote, Cancel, TaskRow, history
  <2>2. \A u \in remote.batch : u \in Task /\ task'[u].status = "remote"
    BY <1>t, <2>1 DEF OrderInv, Pending
  <2>3. \A u \in Task :
           /\ task'[u].rowid = task[u].rowid
           /\ task[u].status = "none" <=> task'[u].status = "none"
           /\ task'[u].status = "local" => task[u].status = "local"
           /\ task'[u].status = "remote" => task[u].status \in {"local", "remote"}
    BY <2>1
  <2>4. OrderInv'
    BY <2>1, <2>2, <2>3, OrderFrame DEF OrderInv
  <2> QED
    BY <1>t, <2>1, <2>4
<1>5. CASE RemoteStep
  BY <1>5, OrderRemote
<1>6. ASSUME NEW w \in Worker, SyncStep(w) PROVE OrderInv' /\ lastRow' >= lastRow
  BY <1>1, <1>6 DEF SyncStep, ApplyStep, LoadFolder, QueryStatus, StatusOf, Fetch, InsertMessage,
     FindLocal, UpdateIgnored, UpdateSame, UpdateMessage, SaveCursor, SyncThrows, BodyStep,
     BodyFails, ReserveBody, StoreBody, history
<1>7. ASSUME NEW m \in Message, Deliver(m) \/ \E a \in Attr : OtherClient(m, a)
      PROVE  OrderInv' /\ lastRow' >= lastRow
  BY <1>1, <1>7 DEF Deliver, OtherClient, Touch, history
<1>8. CASE Tick
  BY <1>1, <1>8 DEF Tick, history
<1>9. CASE Crash
  <2>1. \A u \in Task :
           /\ task'[u].rowid = task[u].rowid
           /\ task[u].status = "none" <=> task'[u].status = "none"
           /\ task'[u].status = "local" => task[u].status = "local"
           /\ task'[u].status = "remote" => task[u].status \in {"local", "remote"}
    BY <1>9, <1>t DEF Crash, TaskRow
  <2>2. lastRow' = lastRow /\ remote'.batch = {}
    BY <1>9 DEF Crash, IdleRemote, history
  <2>3. OrderInv'
    BY <2>1, <2>2, OrderFrame DEF OrderInv
  <2> QED
    BY <1>t, <2>2, <2>3
<1>10. CASE UNCHANGED vars
  BY <1>1, <1>10 DEF vars
<1>11. ASSUME NEW m \in Message, WantBody(m) PROVE OrderInv' /\ lastRow' >= lastRow
  BY <1>1, <1>11 DEF WantBody, history
<1> QED
  BY <1>2, <1>3, <1>4, <1>5, <1>6, <1>7, <1>8, <1>9, <1>10, <1>11 DEF Next, MainStep

\* STOREs reach the server in the order in which the user acted, whatever
\* tasks are cancelled or fail and wherever the process is killed.
THEOREM StoresOrdered == Spec => StoredInOrder
<1>1. LockInv => TypeOK /\ OneLocalTask
  BY DEF LockInv
<1>2. OrderInv /\ TypeOK' /\ OneLocalTask' /\ [Next]_vars => OrderInv'
  BY OrderStep
<1>3. OrderInv /\ TypeOK' /\ OneLocalTask' /\ [Next]_vars => [lastRow' >= lastRow]_lastRow
  BY OrderStep
<1> QED
  BY <1>1, <1>2, <1>3, LockInvariant, OrderInit, PTL DEF Spec, StoredInOrder
-----------------------------------------------------------------------------
(* The cursor, when the background worker is alone. A row behind the       *)
(* cursor may differ from the server where a task that holds it has yet to *)
(* STORE what differs: that STORE will be a change, with a number that no  *)
(* round under way reaches. This is why neither a round nor the copy of a  *)
(* row in the hands of the worker goes wrong when a task acts meanwhile.   *)

\* Task t holds m, and its STORE is not one whose locks are about to be released.
Waits(t, m) ==
    t \in holders[m] /\ ~(remote.pc = "stored" /\ IsNext(t) /\ m \in remote.msgs)

\* The STORE of some task that holds m would change a.
Owes(m, a) ==
    \E t \in Task : /\ Waits(t, m)
                    /\ task[t].change.attr = a
                    /\ task[t].change.val # server.flags[m][a]

Agrees(m, flags) == \A a \in Attr : flags[a] = server.flags[m][a] \/ Owes(m, a)

Covered(m) == m \in stored /\ (m \in skipped \/ Agrees(m, db[m].flags))

BehindCursor == \A m \in Message : server.changed[m] \in 1 .. cursor => Covered(m)

\* What the round of a worker knows of the messages up to its goal
RoundOK(r) ==
    /\ r.pc # "wanted"
    /\ r.pc # "idle" => r.base = cursor
    /\ r.pc = "folder" => r.todo = {}
    /\ r.pc \in {"status", "apply", "found", "body"} =>
         cursor <= r.goal /\ r.goal <= server.modseq
    /\ r.pc \in {"apply", "found", "body"} =>
         \A m \in Message : server.changed[m] \in 1 .. r.goal =>
             /\ m \in r.todo => r.seen[m] = server.flags[m]
             /\ m \notin r.todo => Covered(m)
    /\ r.pc = "found" =>
         /\ r.found \subseteq r.todo /\ r.found \subseteq stored
         /\ \A m \in r.found, a \in Attr :
              /\ server.changed[m] \in 1 .. r.goal
              /\ r.copy.flags[a] = server.flags[m][a]
              => db[m].flags[a] = server.flags[m][a] \/ Owes(m, a)
    /\ r.pc = "body" =>
         /\ r.todo = {} /\ r.found \subseteq stored
         /\ \A m \in r.found : server.changed[m] \in 1 .. r.goal =>
              m \in skipped \/ Agrees(m, r.copy.flags)

SeqOK ==
    /\ cursor <= server.modseq
    /\ \A m \in Message : server.changed[m] <= server.modseq

\* A task locks messages it names, and it names them ever after.
HoldersMeant ==
    \A m \in Message : \A t \in holders[m] :
        task[t].change.byThread \/ m \in task[t].change.msgs

RowidsDistinct == \A t, u \in Queued : task[t].rowid = task[u].rowid => t = u

CoverInv ==
    /\ LockInv /\ OrderInv
    /\ SeqOK /\ HoldersMeant /\ RowidsDistinct /\ BehindCursor
    /\ \A w \in Worker : RoundOK(sync[w])

-----------------------------------------------------------------------------
\* What was queued keeps its number and its change.
TasksSame ==
    \A u \in Task : task[u].status # "none" =>
        /\ task'[u].status # "none"
        /\ task'[u].rowid = task[u].rowid /\ task'[u].change = task[u].change

\* A task keeps its change and its place in the order, and a new one comes last.
LEMMA TasksKept ==
    ASSUME OrderInv, RowidsDistinct, [Next]_vars
    PROVE  TasksSame /\ RowidsDistinct'
<1>t. /\ TypeOK /\ task \in [Task -> TaskRow]
      /\ \A t \in remote.batch : t \in Task /\ task[t].status = "remote"
  BY DEF OrderInv, TypeOK, Pending
<1>0. ASSUME \A u \in Task : /\ task'[u].rowid = task[u].rowid
                             /\ task'[u].change = task[u].change
                             /\ task'[u].status = "none" <=> task[u].status = "none"
      PROVE  TasksSame /\ RowidsDistinct'
  BY <1>0 DEF TasksSame, RowidsDistinct, Queued
<1>1. ASSUME NEW t \in Task, NEW c \in ClientChange, SaveTask(t, c)
      PROVE  TasksSame /\ RowidsDistinct'
  <2>1. /\ \A u \in Task \ {t} : task'[u] = task[u]
        /\ task'[t].rowid = Cardinality(Queued) + 1 /\ task[t].status = "none"
        /\ task'[t].status = "local"
    BY <1>1, <1>t DEF SaveTask
  <2>2. Cardinality(Queued) \in Nat /\ \A u \in Queued : task[u].rowid \in Nat
    BY <1>t, QueuedFinite DEF TaskRow, Queued
  <2>3. \A u \in Queued : task[u].rowid # Cardinality(Queued) + 1
    BY <2>2 DEF OrderInv
  <2>4. \A u \in Queued' : u = t \/ (u \in Queued /\ task'[u].rowid = task[u].rowid)
    BY <2>1 DEF Queued
  <2>5. RowidsDistinct'
    BY <2>1, <2>3, <2>4 DEF RowidsDistinct
  <2> QED
    BY <2>1, <2>5 DEF TasksSame
<1>2. ASSUME NEW t \in Task, MarkRemote(t) \/ Cancel(t)
      PROVE  TasksSame /\ RowidsDistinct'
  BY <1>0, <1>2, <1>t DEF MarkRemote, Cancel, TaskRow
<1>3. ASSUME NEW t \in Task, NEW s \in Status \ {"none"}, NEW e, t \in remote.batch, SaveDone(t, s, e)
      PROVE  TasksSame /\ RowidsDistinct'
  <2> DEFINE row == [task[t] EXCEPT !.status = s, !.error = e, !.cancel = t \in remote.cancelled]
  <2>1. row.status = s /\ row.rowid = task[t].rowid /\ row.change = task[t].change
    BY <1>t DEF TaskRow
  <2>2. task' = [task EXCEPT ![t] = row]
    BY <1>3 DEF SaveDone
  <2> HIDE DEF row
  <2> QED
    BY <1>0, <1>3, <1>t, <2>1, <2>2
<1>4. CASE Crash
  BY <1>0, <1>4, <1>t DEF Crash, TaskRow
<1>5. CASE UNCHANGED task
  BY <1>0, <1>5
<1>6. CASE RemoteStep
  <2>1. ASSUME NEW t \in Task, PerformCancelled(t) \/ StoreFails(t) \/ SaveComplete(t)
        PROVE  TasksSame /\ RowidsDistinct'
    BY <1>3, <2>1 DEF PerformCancelled, StoreFails, SaveComplete, IsNext, Status
  <2>2. ASSUME NEW t \in Task, StoreOnServer(t) \/ ReleaseLocks(t) PROVE UNCHANGED task
    BY <2>2 DEF StoreOnServer, ReleaseLocks
  <2>3. LoadTasks => UNCHANGED task
    BY DEF LoadTasks
  <2> QED
    BY <1>5, <1>6, <2>1, <2>2, <2>3 DEF RemoteStep
<1>7. ASSUME NEW w \in Worker, SyncStep(w) PROVE UNCHANGED task
  BY <1>7 DEF SyncStep, ApplyStep, LoadFolder, QueryStatus, StatusOf, Fetch, InsertMessage,
     FindLocal, UpdateIgnored, UpdateSame, UpdateMessage, SaveCursor, SyncThrows, BodyStep,
     BodyFails, ReserveBody, StoreBody
<1>8. ASSUME NEW m \in Message, WantBody(m) \/ Deliver(m) \/ \E a \in Attr : OtherClient(m, a)
      PROVE  UNCHANGED task
  BY <1>8 DEF WantBody, Deliver, OtherClient, Touch
<1>9. Tick \/ UNCHANGED vars \/ (\E t \in Task : PerformLocal(t)) => UNCHANGED task
  BY DEF Tick, vars, PerformLocal
<1> QED
  BY <1>1, <1>2, <1>4, <1>5, <1>6, <1>7, <1>8, <1>9 DEF Next, MainStep

LEMMA MeantKept ==
    ASSUME LockInv, HoldersMeant, TasksSame, [Next]_vars
    PROVE  HoldersMeant'
<1>1. \A m \in Message : \A t \in holders[m] : t \in Task /\ task[t].status # "none"
  BY DEF LockInv, HoldersKnown, TypeOK
<1>2. CASE \A m \in Message : holders'[m] \subseteq holders[m]
  BY <1>1, <1>2 DEF HoldersMeant, TasksSame
<1>3. ASSUME NEW t \in Task, PerformLocal(t) PROVE HoldersMeant'
  <2>1. /\ \A m \in Message : holders'[m] = IF m \in inflateMessages(t)
                                            THEN holders[m] \cup {t} ELSE holders[m]
        /\ task' = task
    BY <1>3 DEF PerformLocal
  <2>2. \A m \in inflateMessages(t) : task[t].change.byThread \/ m \in task[t].change.msgs
    BY DEF inflateMessages
  <2> QED
    BY <2>1, <2>2 DEF HoldersMeant
<1>4. ASSUME NEW t \in Task, ReleaseLocks(t) PROVE \A m \in Message : holders'[m] \subseteq holders[m]
  BY <1>4 DEF ReleaseLocks
<1>5. \/ UNCHANGED holders
      \/ \E t \in Task : PerformLocal(t) \/ ReleaseLocks(t)
  <2>1. ASSUME NEW w \in Worker, SyncStep(w) PROVE UNCHANGED holders
    <3>1. CASE ApplyStep(w)
      BY <3>1 DEF ApplyStep, InsertMessage, FindLocal, UpdateIgnored, UpdateSame, UpdateMessage,
                  history
    <3>2. CASE BodyStep(w)
      BY <3>2 DEF BodyStep, BodyFails, ReserveBody, StoreBody, history
    <3>3. LoadFolder(w) \/ QueryStatus(w) => UNCHANGED holders
      BY DEF LoadFolder, QueryStatus, StatusOf, history
    <3>4. Fetch(w) \/ SaveCursor(w) \/ SyncThrows(w) => UNCHANGED holders
      BY DEF Fetch, SaveCursor, SyncThrows, history
    <3> QED
      BY <2>1, <3>1, <3>2, <3>3, <3>4 DEF SyncStep
  <2>2. RemoteStep => UNCHANGED holders \/ \E t \in Task : ReleaseLocks(t)
    BY DEF RemoteStep, LoadTasks, PerformCancelled, StoreOnServer, StoreFails, SaveComplete, history
  <2>3. \A m \in Message : WantBody(m) \/ Deliver(m) \/ (\E a \in Attr : OtherClient(m, a))
          => UNCHANGED holders
    BY DEF WantBody, Deliver, OtherClient, Touch, history
  <2>4. \A t \in Task : MarkRemote(t) \/ Cancel(t) \/ (\E c \in ClientChange : SaveTask(t, c))
          => UNCHANGED holders
    BY DEF MarkRemote, Cancel, SaveTask, history
  <2>5. Tick \/ Crash \/ UNCHANGED vars => UNCHANGED holders
    BY DEF Tick, Crash, vars, history
  <2> QED
    BY <2>1, <2>2, <2>3, <2>4, <2>5 DEF Next, MainStep
<1> QED
  BY <1>2, <1>3, <1>4, <1>5

-----------------------------------------------------------------------------
\* What a step of anybody but the worker does: a change on the server gets a
\* number that is out of reach; where there is none, a STORE that is owed stays
\* owed; and a row only departs from the server where a STORE is owed.
Progress ==
    /\ UNCHANGED <<cursor, skipped, stored>>
    /\ server'.modseq >= server.modseq
    /\ \A m \in Message :
         /\ server'.changed[m] <= server'.modseq
         /\ \/ server'.changed[m] > server.modseq
            \/ /\ server'.changed[m] = server.changed[m]
               /\ server'.flags[m] = server.flags[m]
               /\ \A a \in Attr : Owes(m, a) => Owes(m, a)'
         /\ \A a \in Attr :
              \/ db'[m].flags[a] = db[m].flags[a]
              \/ db'[m].flags[a] = server'.flags[m][a]
              \/ Owes(m, a)'

LEMMA OwesKept ==
    ASSUME LockInv, TasksSame, NEW m \in Message, server'.flags[m] = server.flags[m],
           \A t \in Task : Waits(t, m) => Waits(t, m)'
    PROVE  \A a \in Attr : Owes(m, a) => Owes(m, a)'
<1>1. \A t \in Task : Waits(t, m) => task[t].status # "none"
  BY DEF Waits, LockInv, HoldersKnown
<1> QED
  BY <1>1 DEF Owes, TasksSame

LEMMA NextKept ==
    ASSUME OrderInv, TasksSame, remote'.batch = remote.batch
    PROVE  \A t \in Task : IsNext(t)' <=> IsNext(t)
<1>1. \A u \in remote.batch : task'[u].rowid = task[u].rowid
  BY DEF OrderInv, Pending, TasksSame
<1> QED
  BY <1>1 DEF IsNext

\* The task whose turn it is is the only one.
LEMMA NextAlone ==
    ASSUME OrderInv, RowidsDistinct, NEW t \in Task, NEW u \in Task, IsNext(t), IsNext(u)
    PROVE  t = u
<1>1. /\ t \in Queued /\ u \in Queued /\ task[t].rowid \in Nat /\ task[u].rowid \in Nat
      /\ task[t].rowid <= task[u].rowid /\ task[u].rowid <= task[t].rowid
  BY DEF OrderInv, IsNext, Pending, Queued, TypeOK, TaskRow
<1>2. task[t].rowid = task[u].rowid
  BY <1>1
<1> QED
  BY <1>1, <1>2 DEF RowidsDistinct

\* Only a step to "stored" makes a task wait no more.
LEMMA WaitsKept ==
    ASSUME OrderInv, TasksSame, NEW m \in Message,
           remote' = remote \/ remote'.pc # "stored",
           NEW t \in Task, Waits(t, m), t \in holders'[m]
    PROVE  Waits(t, m)'
<1>1. CASE remote'.pc # "stored"
  BY <1>1 DEF Waits
<1>2. CASE remote' = remote
  BY <1>2, NextKept DEF Waits
<1> QED
  BY <1>1, <1>2

\* Steps that touch neither the server nor the rows.
LEMMA QuietProgress ==
    ASSUME LockInv, OrderInv, SeqOK, TasksSame,
           UNCHANGED <<server, holders, db, stored, cursor, skipped>>,
           remote' = remote \/ remote'.pc # "stored"
    PROVE  Progress
<1>1. server.modseq \in Nat
  BY DEF LockInv, TypeOK
<1>2. \A m \in Message : \A a \in Attr : Owes(m, a) => Owes(m, a)'
  BY OwesKept, WaitsKept DEF Waits
<1> QED
  BY <1>1, <1>2 DEF Progress, SeqOK

LEMMA LocalProgress ==
    ASSUME LockInv, OrderInv, SeqOK, TasksSame, NEW t \in Task, PerformLocal(t)
    PROVE  Progress
<1>t. TypeOK /\ task[t].change \in Change /\ server.modseq \in Nat
  BY DEF LockInv, TypeOK, TaskRow
<1> DEFINE ms == inflateMessages(t)
           c == task[t].change
<1>1. /\ UNCHANGED <<server, stored, cursor, task, remote, skipped>>
      /\ \A m \in Message :
           /\ holders'[m] = IF m \in ms THEN holders[m] \cup {t} ELSE holders[m]
           /\ m \notin ms => db'[m] = db[m]
           /\ m \in ms => db'[m].flags = Apply(db[m].flags, c)
      /\ task[t].status = "local"
  BY <1>t DEF PerformLocal, TypeOK
<1>2. ASSUME NEW m \in Message, NEW a \in Attr, Owes(m, a) PROVE Owes(m, a)'
  <2>1. \A u \in Task : Waits(u, m) => Waits(u, m)'
    BY <1>1, WaitsKept DEF Waits
  <2> QED
    BY <1>1, <1>2, <2>1, OwesKept
<1>3. ~IsNext(t)'
  BY <1>1 DEF IsNext, OrderInv, Pending
<1>4. ASSUME NEW m \in Message, NEW a \in Attr,
             db'[m].flags[a] # db[m].flags[a], db'[m].flags[a] # server'.flags[m][a]
      PROVE  Owes(m, a)'
  <2>1. m \in ms
    BY <1>1, <1>4
  <2>2. db[m].flags \in Flags
    BY <1>t DEF TypeOK, Row
  <2> DEFINE new == Apply(db[m].flags, c)
  <2>5. new[c.attr] = c.val /\ \A b \in Attr : b # c.attr => new[b] = db[m].flags[b]
    BY <1>t, <2>2, ApplyType
  <2>6. db'[m].flags = new
    BY <1>1, <2>1
  <2> HIDE DEF new
  <2>3. a = c.attr /\ db'[m].flags[a] = c.val
    BY <1>4, <2>5, <2>6
  <2>4. Waits(t, m)'
    BY <1>1, <1>3, <2>1 DEF Waits
  <2> QED
    BY <1>1, <1>4, <2>3, <2>4 DEF Owes
<1> QED
  BY <1>1, <1>2, <1>4, <1>t DEF Progress, SeqOK

\* Who still waits for a STORE of m when this one changed nothing there waits
\* for another one.
LEMMA StoreProgress ==
    ASSUME LockInv, OrderInv, SeqOK, HoldersMeant, RowidsDistinct, TasksSame,
           NEW t \in Task, StoreOnServer(t) \/ StoreFails(t)
    PROVE  Progress
<1>t. TypeOK /\ task[t].change \in Change /\ server.modseq \in Nat
  BY DEF LockInv, TypeOK, TaskRow
<1>0. IsNext(t) /\ UNCHANGED <<holders, db, stored, cursor, skipped>>
  BY DEF StoreOnServer, StoreFails
<1>1. CASE UNCHANGED server /\ StoreFails(t)
  <2>1. remote'.pc # "stored"
    BY <1>1, <1>t DEF StoreFails, SaveDone, TypeOK, RemoteState
  <2> QED
    BY <1>0, <1>1, <2>1, QuietProgress
<1>2. CASE ApplyOnServer(t)
  <2> DEFINE ms == inflateMessages(t)
             new(m) == Apply(server.flags[m], task[t].change)
             hit == {m \in ms : new(m) # server.flags[m]}
             seq == IF hit = {} THEN server.modseq ELSE server.modseq + 1
  <2>1. server' = [modseq |-> seq,
                   flags |-> [m \in Message |-> IF m \in hit THEN new(m) ELSE server.flags[m]],
                   changed |-> [m \in Message |-> IF m \in hit THEN seq ELSE server.changed[m]]]
    BY <1>2 DEF ApplyOnServer
  <2>2. seq \in Nat /\ seq >= server.modseq /\ (hit # {} => seq > server.modseq)
    BY <1>t
  <2> HIDE DEF seq
  <2>3. /\ server'.modseq = seq
        /\ \A m \in Message :
             /\ m \in hit => server'.changed[m] = seq
             /\ m \notin hit => /\ server'.changed[m] = server.changed[m]
                                /\ server'.flags[m] = server.flags[m]
    BY <2>1
  <2>4. ASSUME NEW m \in Message, m \notin hit, NEW a \in Attr, Owes(m, a)
        PROVE  Owes(m, a)'
    <3>1. PICK u \in Task : /\ Waits(u, m) /\ task[u].change.attr = a
                            /\ task[u].change.val # server.flags[m][a]
      BY <2>4 DEF Owes
    <3>2. u \in holders[m] /\ task[u].status # "none" /\ m \in stored
      BY <3>1 DEF Waits, LockInv, HoldersKnown
    <3>3. m \in inflateMessages(u)
      BY <3>2 DEF HoldersMeant, inflateMessages
    <3>4. u # t
      <4>1. ASSUME u = t PROVE FALSE
        <5>1. m \in ms
          BY <3>3, <4>1
        <5>2. new(m) = server.flags[m]
          BY <2>4, <5>1
        <5>3. new(m)[a] = task[t].change.val
          BY <1>t, <3>1, <4>1, ApplyType DEF TypeOK
        <5> QED
          BY <3>1, <4>1, <5>2, <5>3
      <4> QED
        BY <4>1
    <3>5. ~IsNext(u)
      BY <1>0, <3>4, NextAlone
    <3>6. remote'.pc # "stored" \/ ~IsNext(u)'
      <4>1. StoreFails(t) => remote'.pc # "stored"
        BY <1>t DEF StoreFails, SaveDone, TypeOK, RemoteState
      <4>2. StoreOnServer(t) => remote'.batch = remote.batch
        BY <1>t DEF StoreOnServer, TypeOK, RemoteState
      <4> QED
        BY <3>5, <4>1, <4>2, NextKept
    <3>7. Waits(u, m)'
      BY <1>0, <3>2, <3>6 DEF Waits
    <3> QED
      BY <2>3, <2>4, <3>1, <3>2, <3>7 DEF Owes, TasksSame
  <2> HIDE DEF hit
  <2>5. \A m \in Message : server.changed[m] \in Nat
    BY <1>t DEF TypeOK
  <2>6. \A m \in Message : server'.changed[m] <= server'.modseq
    BY <1>t, <2>2, <2>3, <2>5 DEF SeqOK
  <2>7. \A m \in Message : m \in hit => server'.changed[m] > server.modseq
    BY <2>2, <2>3
  <2> QED
    BY <1>0, <2>2, <2>3, <2>4, <2>6, <2>7 DEF Progress
<1> QED
  BY <1>1, <1>2 DEF StoreOnServer, StoreFails

\* A lock is released after the STORE it was taken for.
LEMMA ReleaseProgress ==
    ASSUME LockInv, OrderInv, SeqOK, TasksSame, NEW t \in Task, ReleaseLocks(t)
    PROVE  Progress
<1>t. TypeOK /\ server.modseq \in Nat
  BY DEF LockInv, TypeOK
<1>1. /\ UNCHANGED <<server, stored, cursor, skipped, task>>
      /\ remote.pc = "stored" /\ IsNext(t) /\ remote'.pc = "released"
      /\ \A m \in Message :
           /\ db'[m].flags = db[m].flags
           /\ \/ holders'[m] = holders[m]
              \/ m \in remote.msgs /\ holders'[m] = holders[m] \ {t}
  BY <1>t DEF ReleaseLocks, TypeOK, RemoteState
<1>2. ASSUME NEW m \in Message, NEW a \in Attr, Owes(m, a) PROVE Owes(m, a)'
  <2>1. \A u \in Task : Waits(u, m) => Waits(u, m)'
    BY <1>1 DEF Waits
  <2> QED
    BY <1>1, <1>2, <2>1, OwesKept
<1> QED
  BY <1>1, <1>2, <1>t DEF Progress, SeqOK

\* Other clients
LEMMA TouchProgress ==
    ASSUME LockInv, OrderInv, SeqOK, TasksSame, NEW m \in Message, NEW f, Touch(m, f)
    PROVE  Progress
<1>t. TypeOK /\ server.modseq \in Nat /\ \A k \in Message : server.changed[k] \in Nat
  BY DEF LockInv, TypeOK
<1>1. /\ UNCHANGED <<db, stored, cursor, skipped, task, remote, holders>>
      /\ server'.modseq = server.modseq + 1
      /\ server'.changed[m] = server.modseq + 1
      /\ \A k \in Message \ {m} : /\ server'.changed[k] = server.changed[k]
                                  /\ server'.flags[k] = server.flags[k]
  BY <1>t DEF Touch, history, TypeOK
<1>2. ASSUME NEW k \in Message \ {m}, NEW a \in Attr, Owes(k, a) PROVE Owes(k, a)'
  <2>1. \A u \in Task : Waits(u, k) => Waits(u, k)'
    BY <1>1, WaitsKept DEF Waits
  <2> QED
    BY <1>1, <1>2, <2>1, OwesKept
<1>3. \A k \in Message : server'.changed[k] <= server'.modseq
  BY <1>1, <1>t DEF SeqOK
<1> QED
  BY <1>1, <1>2, <1>3, <1>t DEF Progress

-----------------------------------------------------------------------------
(* What that does to the cursor and to the round of the worker             *)

\* Where no change is out of reach, what agreed agrees.
LEMMA ReachKept ==
    ASSUME LockInv, Progress, NEW n \in Nat, n <= server.modseq, NEW m \in Message,
           server'.changed[m] \in 1 .. n
    PROVE  /\ server.changed[m] \in 1 .. n
           /\ server'.flags[m] = server.flags[m]
           /\ \A a \in Attr : Owes(m, a) => Owes(m, a)'
           /\ Covered(m) => Covered(m)'
<1>1. server.modseq \in Nat
  BY DEF LockInv, TypeOK
<1>2. /\ server'.changed[m] = server.changed[m] /\ server'.flags[m] = server.flags[m]
      /\ \A a \in Attr : Owes(m, a) => Owes(m, a)'
  <2>1. ~(server'.changed[m] > server.modseq)
    BY <1>1
  <2> QED
    BY <2>1 DEF Progress
<1>3. Covered(m) => Covered(m)'
  BY <1>2 DEF Progress, Covered, Agrees
<1> QED
  BY <1>2, <1>3

LEMMA RoundKept ==
    ASSUME LockInv, TypeOK', SeqOK, BehindCursor, Progress
    PROVE  /\ SeqOK' /\ BehindCursor'
           /\ \A w \in Worker :
                (sync'[w] = sync[w] /\ RoundOK(sync[w])) \/ sync'[w] = IdleSync
                => RoundOK(sync[w])'
<1>1. /\ server.modseq \in Nat /\ cursor \in Nat /\ cursor <= server.modseq
      /\ server'.modseq \in Nat /\ server'.modseq >= server.modseq
      /\ UNCHANGED <<cursor, skipped, stored>>
  BY DEF LockInv, TypeOK, SeqOK, Progress
<1>2. SeqOK'
  BY <1>1 DEF Progress, SeqOK
<1>3. BehindCursor'
  BY <1>1, ReachKept DEF BehindCursor
<1>4. ASSUME NEW w \in Worker, sync'[w] = IdleSync PROVE RoundOK(sync[w])'
  BY <1>4 DEF RoundOK, IdleSync
<1>5. ASSUME NEW w \in Worker, sync'[w] = sync[w], RoundOK(sync[w])
      PROVE  RoundOK(sync[w])'
  <2> DEFINE r == sync[w]
  <2>0. r.goal \in Nat
    BY DEF LockInv, TypeOK, SyncState
  <2>1. /\ r.pc # "wanted" /\ (r.pc # "idle" => r.base = cursor)
        /\ r.pc \in {"status", "apply", "found", "body"} =>
             r.goal <= server.modseq /\ r.goal <= server'.modseq /\ cursor <= r.goal
    BY <1>1, <1>5, <2>0 DEF RoundOK
  <2>2. ASSUME r.pc \in {"apply", "found", "body"}, NEW m \in Message,
               server'.changed[m] \in 1 .. r.goal
        PROVE  /\ m \in r.todo => r.seen[m] = server'.flags[m]
               /\ m \notin r.todo => Covered(m)'
               /\ server.changed[m] \in 1 .. r.goal
               /\ server'.flags[m] = server.flags[m]
               /\ \A a \in Attr : Owes(m, a) => Owes(m, a)'
    <3>1. /\ server.changed[m] \in 1 .. r.goal
          /\ server'.flags[m] = server.flags[m]
          /\ \A a \in Attr : Owes(m, a) => Owes(m, a)'
          /\ Covered(m) => Covered(m)'
      BY <2>0, <2>1, <2>2, ReachKept
    <3> QED
      BY <1>5, <2>2, <3>1 DEF RoundOK
  <2>3. ASSUME r.pc = "found"
        PROVE  /\ r.found \subseteq r.todo /\ r.found \subseteq stored'
               /\ \A m \in r.found, a \in Attr :
                    /\ server'.changed[m] \in 1 .. r.goal
                    /\ r.copy.flags[a] = server'.flags[m][a]
                    => db'[m].flags[a] = server'.flags[m][a] \/ Owes(m, a)'
    <3>1. r.found \subseteq r.todo /\ r.found \subseteq stored' /\ r.found \subseteq Message
      BY <1>1, <1>5, <2>3 DEF RoundOK, LockInv, TypeOK, SyncState
    <3>2. ASSUME NEW m \in r.found, NEW a \in Attr,
                 server'.changed[m] \in 1 .. r.goal,
                 r.copy.flags[a] = server'.flags[m][a]
          PROVE  db'[m].flags[a] = server'.flags[m][a] \/ Owes(m, a)'
      <4>1. db[m].flags[a] = server.flags[m][a] \/ Owes(m, a)
        BY <1>5, <2>2, <2>3, <3>1, <3>2 DEF RoundOK
      <4> QED
        BY <2>2, <2>3, <3>1, <3>2, <4>1 DEF Progress
    <3> QED
      BY <3>1, <3>2
  <2>4. ASSUME r.pc = "body"
        PROVE  /\ r.todo = {} /\ r.found \subseteq stored'
               /\ \A m \in r.found : server'.changed[m] \in 1 .. r.goal =>
                    m \in skipped' \/ Agrees(m, r.copy.flags)'
    <3>1. r.todo = {} /\ r.found \subseteq stored' /\ r.found \subseteq Message
      BY <1>1, <1>5, <2>4 DEF RoundOK, LockInv, TypeOK, SyncState
    <3>2. ASSUME NEW m \in r.found, server'.changed[m] \in 1 .. r.goal, m \notin skipped'
          PROVE  Agrees(m, r.copy.flags)'
      <4>1. \A a \in Attr : r.copy.flags[a] = server.flags[m][a] \/ Owes(m, a)
        BY <1>1, <1>5, <2>2, <2>4, <3>1, <3>2 DEF RoundOK, Agrees
      <4>2. \A a \in Attr : r.copy.flags[a] = server'.flags[m][a] \/ Owes(m, a)'
        BY <2>2, <2>4, <3>1, <3>2, <4>1
      <4> QED
        BY <1>5, <4>2 DEF Agrees
    <3> QED
      BY <3>1, <3>2
  <2> QED
    BY <1>1, <1>5, <2>1, <2>2, <2>3, <2>4 DEF RoundOK, Agrees
<1> QED
  BY <1>2, <1>3, <1>4, <1>5

-----------------------------------------------------------------------------
(* The steps of the worker itself                                          *)

Elsewhere == <<server, holders, remote, task>>

\* They leave what is owed as it is.
LEMMA OwesSame ==
    ASSUME UNCHANGED Elsewhere
    PROVE  /\ \A m \in Message, a \in Attr : Owes(m, a)' <=> Owes(m, a)
           /\ UNCHANGED <<stored, db, skipped>> => \A m \in Message : Covered(m)' <=> Covered(m)
BY DEF Elsewhere, Owes, Waits, IsNext, Covered, Agrees

\* A step that writes no row and saves no cursor
LEMMA BehindSame ==
    ASSUME SeqOK, BehindCursor, UNCHANGED Elsewhere, UNCHANGED <<stored, db, skipped, cursor>>
    PROVE  SeqOK' /\ BehindCursor' /\ \A m \in Message : Covered(m)' <=> Covered(m)
BY OwesSame DEF BehindCursor, SeqOK, Elsewhere

LEMMA AskRound ==
    ASSUME LockInv, SeqOK, BehindCursor, NEW w \in Worker, RoundOK(sync[w]),
           QueryStatus(w) => w # "fg",
           LoadFolder(w) \/ QueryStatus(w) \/ SyncThrows(w) \/ BodyFails(w)
    PROVE  SeqOK' /\ BehindCursor' /\ RoundOK(sync[w])'
<1>t. sync \in [Worker -> SyncState] /\ sync[w] \in SyncState
  BY DEF LockInv, TypeOK
<1>0. UNCHANGED Elsewhere /\ UNCHANGED <<stored, db, skipped, cursor>>
  BY DEF LoadFolder, QueryStatus, SyncThrows, BodyFails, Elsewhere, history
<1>1. SeqOK' /\ BehindCursor' /\ \A m \in Message : Covered(m)' <=> Covered(m)
  BY <1>0, BehindSame
<1>2. CASE sync'[w] = IdleSync
  BY <1>1, <1>2 DEF RoundOK, IdleSync
<1>3. CASE LoadFolder(w)
  <2>1. sync'[w].pc = "folder" /\ sync'[w].base = cursor /\ sync'[w].todo = {}
    BY <1>3, <1>t DEF LoadFolder, IdleSync
  <2> QED
    BY <1>0, <1>1, <2>1 DEF RoundOK
<1>4. CASE QueryStatus(w)
  <2>1. /\ server' = server /\ server.modseq \in Nat /\ cursor \in Nat /\ now \in Nat
        /\ sync[w].pc = "folder"
    BY <1>0, <1>4 DEF Elsewhere, LockInv, TypeOK, QueryStatus
  <2>2. /\ sync'[w].pc = IF server.modseq = sync[w].base THEN "apply" ELSE "status"
        /\ sync'[w].base = sync[w].base /\ sync'[w].goal = server.modseq
        /\ sync'[w].todo = sync[w].todo
    BY <1>4, <1>t, <2>1, AnsweredFields DEF QueryStatus, StatusOf
  <2>3. sync[w].base = cursor /\ sync[w].todo = {}
    BY <2>1 DEF RoundOK
  <2>4. sync'[w].pc = "apply" =>
          \A m \in Message : server.changed[m] \in 1 .. server.modseq => Covered(m)'
    BY <1>1, <2>2, <2>3 DEF BehindCursor
  <2> QED
    BY <1>0, <1>1, <2>1, <2>2, <2>3, <2>4 DEF RoundOK, SeqOK
<1>5. CASE BodyFails(w) /\ sync'[w] # IdleSync
  <2>0. sync[w].pc = "body" /\ sync' = [sync EXCEPT ![w] =
            [sync[w] EXCEPT !.pc = "apply", !.found = {}, !.copy = NoRow]]
    BY <1>5, <1>t DEF BodyFails, AfterBody, RoundOK
  <2>1. /\ sync'[w].pc = "apply"
        /\ \A f \in {"base", "goal", "todo", "seen"} : sync'[w][f] = sync[w][f]
    BY <1>t, <2>0 DEF SyncState
  <2>2. /\ sync'[w].base = sync[w].base /\ sync'[w].goal = sync[w].goal
        /\ sync'[w].todo = sync[w].todo /\ sync'[w].seen = sync[w].seen
    BY <1>t, <2>0 DEF SyncState
  <2> QED
    BY <1>0, <1>1, <2>0, <2>1, <2>2 DEF RoundOK, Elsewhere
<1>6. SyncThrows(w) => sync'[w] = IdleSync
  BY <1>t DEF SyncThrows
<1> QED
  BY <1>2, <1>3, <1>4, <1>5, <1>6

\* What has no number beyond the cursor is covered already.
LEMMA FetchRound ==
    ASSUME LockInv, SeqOK, BehindCursor, NEW w \in Worker, w # "fg", RoundOK(sync[w]), Fetch(w)
    PROVE  SeqOK' /\ BehindCursor' /\ RoundOK(sync[w])'
<1>t. sync \in [Worker -> SyncState] /\ sync[w] \in SyncState /\ server.modseq \in Nat
  BY DEF LockInv, TypeOK
<1>0. UNCHANGED Elsewhere /\ UNCHANGED <<stored, db, skipped, cursor>> /\ sync[w].pc = "status"
  BY DEF Fetch, Elsewhere, history
<1>1. SeqOK' /\ BehindCursor' /\ \A m \in Message : Covered(m)' <=> Covered(m)
  BY <1>0, BehindSame
<1> DEFINE got == {m \in Message : server.changed[m] > sync[w].base}
           seen == [m \in Message |-> IF m \in got THEN server.flags[m] ELSE NoFlags]
<1>2. sync' = [sync EXCEPT ![w] = [sync[w] EXCEPT !.pc = "apply", !.todo = got, !.seen = seen]]
  BY DEF Fetch, Asked, Truncated
<1>3. /\ \A m \in got : seen[m] = server.flags[m]
      /\ \A m \in Message : m \notin got => ~(server.changed[m] > sync[w].base)
  OBVIOUS
<1> HIDE DEF got, seen
<1>4. /\ sync'[w].pc = "apply" /\ sync'[w].todo = got /\ sync'[w].seen = seen
      /\ sync'[w].base = sync[w].base /\ sync'[w].goal = sync[w].goal
  BY <1>t, <1>2 DEF SyncState
<1>5. sync[w].base = cursor /\ cursor <= sync[w].goal /\ sync[w].goal <= server.modseq
  BY <1>0 DEF RoundOK
<1>6. ASSUME NEW m \in Message, server.changed[m] \in 1 .. sync[w].goal
      PROVE  /\ m \in got => seen[m] = server.flags[m]
             /\ m \notin got => Covered(m)
  <2>1. m \notin got => server.changed[m] \in 1 .. cursor
    <3>1. server.changed[m] \in Nat /\ cursor \in Nat /\ sync[w].goal \in Nat
      BY <1>t DEF LockInv, TypeOK, SyncState
    <3> QED
      BY <1>3, <1>5, <1>6, <3>1
  <2> QED
    BY <1>3, <2>1 DEF BehindCursor
<1> QED
  BY <1>0, <1>1, <1>4, <1>5, <1>6 DEF RoundOK, Elsewhere

LEMMA FindRound ==
    ASSUME LockInv, SeqOK, BehindCursor, NEW w \in Worker, RoundOK(sync[w]), NEW m \in Message,
           FindLocal(w, m) \/ ReserveBody(w, m)
    PROVE  SeqOK' /\ BehindCursor' /\ RoundOK(sync[w])'
<1>t. sync \in [Worker -> SyncState] /\ sync[w] \in SyncState
  BY DEF LockInv, TypeOK
<1>0. /\ UNCHANGED Elsewhere /\ UNCHANGED <<stored, db, skipped, cursor>>
      /\ sync[w].pc = "apply" /\ m \in stored
  BY DEF FindLocal, ReserveBody, Elsewhere, history
<1>1. SeqOK' /\ BehindCursor' /\ \A k \in Message : Covered(k)' <=> Covered(k)
  BY <1>0, BehindSame
<1>o. \A k \in Message, a \in Attr : Owes(k, a)' <=> Owes(k, a)
  BY <1>0, OwesSame
<1>2. /\ sync'[w].found = {m} /\ sync'[w].copy = db[m]
      /\ sync'[w].base = sync[w].base /\ sync'[w].goal = sync[w].goal
      /\ sync'[w].todo = sync[w].todo /\ sync'[w].seen = sync[w].seen
      /\ sync'[w].pc \in {"found", "body"}
      /\ sync'[w].pc = "found" <=> FindLocal(w, m)
  <2>1. CASE FindLocal(w, m)
    BY <1>t, <2>1 DEF FindLocal, SyncState
  <2>2. CASE ReserveBody(w, m)
    <3>1. ~FindLocal(w, m)
      BY <2>2 DEF ReserveBody, FindLocal
    <3> QED
      BY <1>t, <2>2, <3>1 DEF ReserveBody, SyncState
  <2> QED
    BY <2>1, <2>2
<1>3. CASE FindLocal(w, m)
  <2>1. m \in sync[w].todo
    BY <1>3 DEF FindLocal
  <2> QED
    BY <1>0, <1>1, <1>o, <1>2, <1>3, <2>1 DEF RoundOK, Elsewhere
<1>4. CASE ReserveBody(w, m)
  <2>1. sync[w].todo = {} /\ sync'[w].pc = "body"
    BY <1>2, <1>4 DEF ReserveBody, FindLocal
  <2>2. server.changed[m] \in 1 .. sync[w].goal => Covered(m)
    BY <1>0, <2>1 DEF RoundOK
  <2>3. server.changed[m] \in 1 .. sync[w].goal =>
          m \in skipped' \/ Agrees(m, sync[w].copy.flags)'
    BY <1>0, <1>o, <1>2, <2>2 DEF Covered, Agrees, Elsewhere
  <2> QED
    BY <1>0, <1>1, <1>2, <2>1, <2>3 DEF RoundOK, Elsewhere
<1> QED
  BY <1>3, <1>4

\* The worker is done with m, which is covered now if it changed within reach.
LEMMA DoneWith ==
    ASSUME LockInv, SeqOK, BehindCursor, NEW w \in Worker, RoundOK(sync[w]), NEW m \in Message,
           UNCHANGED Elsewhere, UNCHANGED cursor,
           sync[w].pc \in {"apply", "found"}, sync'[w].pc = "apply",
           sync'[w].base = sync[w].base, sync'[w].goal = sync[w].goal,
           sync'[w].seen = sync[w].seen, sync'[w].todo = sync[w].todo \ {m},
           \A k \in Message \ {m} : /\ k \in stored => k \in stored'
                                    /\ k \in skipped => k \in skipped'
                                    /\ db'[k] = db[k],
           server.changed[m] \in 1 .. sync[w].goal => Covered(m)'
    PROVE  SeqOK' /\ BehindCursor' /\ RoundOK(sync[w])'
<1>t. /\ sync[w] \in SyncState /\ cursor \in Nat /\ server.modseq \in Nat
      /\ sync[w].goal \in Nat /\ server' = server
      /\ \A k \in Message : server.changed[k] \in Nat
  BY DEF LockInv, TypeOK, SyncState, Elsewhere
<1>1. sync[w].base = cursor /\ cursor <= sync[w].goal /\ sync[w].goal <= server.modseq
  BY DEF RoundOK
<1>2. \A k \in Message \ {m} : Covered(k) => Covered(k)'
  BY OwesSame DEF Covered, Agrees, Elsewhere
<1>3. SeqOK'
  BY <1>t DEF SeqOK
<1>4. BehindCursor'
  <2>1. ASSUME NEW k \in Message, server.changed[k] \in 1 .. cursor PROVE Covered(k)'
    <3>1. server.changed[k] \in 1 .. sync[w].goal
      BY <1>t, <1>1, <2>1
    <3> QED
      BY <1>2, <2>1, <3>1 DEF BehindCursor
  <2> QED
    BY <1>t, <2>1 DEF BehindCursor
<1>5. ASSUME NEW k \in Message, server.changed[k] \in 1 .. sync[w].goal
      PROVE  /\ k \in sync'[w].todo => sync'[w].seen[k] = server'.flags[k]
             /\ k \notin sync'[w].todo => Covered(k)'
  <2>1. /\ k \in sync[w].todo => sync[w].seen[k] = server.flags[k]
        /\ k \notin sync[w].todo => Covered(k)
    BY <1>5 DEF RoundOK
  <2> QED
    BY <1>t, <1>2, <1>5, <2>1
<1> QED
  BY <1>t, <1>1, <1>3, <1>4, <1>5 DEF RoundOK

LEMMA AlsoAgrees ==
    ASSUME UNCHANGED Elsewhere, NEW m \in Message, NEW f
    PROVE  Agrees(m, f)' <=> Agrees(m, f')
BY OwesSame DEF Agrees, Elsewhere

LEMMA WriteRound ==
    ASSUME LockInv, SeqOK, BehindCursor, NEW w \in Worker, RoundOK(sync[w]), ApplyStep(w)
    PROVE  SeqOK' /\ BehindCursor' /\ RoundOK(sync[w])'
<1>t. /\ sync \in [Worker -> SyncState] /\ sync[w] \in SyncState
      /\ db \in [Message -> Row]
  BY DEF LockInv, TypeOK
<1>s. \A m \in sync[w].todo : server.changed[m] \in 1 .. sync[w].goal =>
        (sync[w].pc \in {"apply", "found"} => sync[w].seen[m] = server.flags[m])
  BY <1>t DEF RoundOK, SyncState
<1>1. ASSUME NEW m \in Message, InsertMessage(w, m)
      PROVE  SeqOK' /\ BehindCursor' /\ RoundOK(sync[w])'
  <2>1. /\ UNCHANGED Elsewhere /\ UNCHANGED <<cursor, skipped>> /\ stored' = stored \cup {m}
        /\ sync[w].pc = "apply" /\ m \in sync[w].todo
        /\ db'[m].flags = sync[w].seen[m]
        /\ \A k \in Message \ {m} : db'[k] = db[k]
    BY <1>1, <1>t DEF InsertMessage, Elsewhere, history
  <2>2. /\ sync'[w].pc = "apply" /\ sync'[w].todo = sync[w].todo \ {m}
        /\ sync'[w].base = sync[w].base /\ sync'[w].goal = sync[w].goal
        /\ sync'[w].seen = sync[w].seen
    BY <1>1, <1>t DEF InsertMessage, SyncState
  <2>3. server.changed[m] \in 1 .. sync[w].goal => Covered(m)'
    BY <1>s, <2>1 DEF Covered, Agrees, Elsewhere
  <2> QED
    BY <2>1, <2>2, <2>3, DoneWith
<1>2. ASSUME NEW m \in Message, UpdateIgnored(w, m) \/ UpdateSame(w, m) \/ UpdateMessage(w, m)
      PROVE  SeqOK' /\ BehindCursor' /\ RoundOK(sync[w])'
  <2>1. /\ UNCHANGED Elsewhere /\ UNCHANGED <<cursor, stored>> /\ NextMessage(w, m)
        /\ sync[w].pc = "found" /\ m \in sync[w].found
        /\ \A k \in Message \ {m} : (k \in skipped => k \in skipped') /\ db'[k] = db[k]
    BY <1>2, <1>t DEF UpdateIgnored, UpdateSame, UpdateMessage, Elsewhere
  <2>2. /\ sync'[w].pc = "apply" /\ sync'[w].todo = sync[w].todo \ {m}
        /\ sync'[w].base = sync[w].base /\ sync'[w].goal = sync[w].goal
        /\ sync'[w].seen = sync[w].seen
    BY <2>1, <1>t DEF NextMessage, SyncState
  <2>3. m \in sync[w].todo /\ m \in stored
    BY <2>1 DEF RoundOK
  <2>4. ASSUME server.changed[m] \in 1 .. sync[w].goal PROVE Covered(m)'
    <3>1. sync[w].seen[m] = server.flags[m]
      BY <1>s, <2>1, <2>3, <2>4
    <3>2. CASE UpdateMessage(w, m)
      <4>1. db'[m].flags = sync[w].seen[m]
        BY <1>t, <3>2 DEF UpdateMessage
      <4> QED
        BY <2>1, <2>3, <3>1, <4>1 DEF Covered, Agrees, Elsewhere
    <3>3. CASE db' = db /\ sync[w].copy.flags = sync[w].seen[m]
      <4>1. \A a \in Attr : db[m].flags[a] = server.flags[m][a] \/ Owes(m, a)
        BY <2>1, <2>4, <3>1, <3>3 DEF RoundOK
      <4> QED
        BY <2>1, <2>3, <3>3, <4>1, OwesSame DEF Covered, Agrees, Elsewhere
    <3>4. CASE m \in skipped'
      BY <2>1, <2>3, <3>4 DEF Covered
    <3> QED
      BY <1>2, <3>2, <3>3, <3>4 DEF UpdateIgnored, UpdateSame
  <2> QED
    BY <2>1, <2>2, <2>4, DoneWith
<1> QED
  BY <1>1, <1>2, FindRound DEF ApplyStep

\* The copy that is written back was covered when it was taken, and still is.
LEMMA BodyRound ==
    ASSUME LockInv, SeqOK, BehindCursor, NEW w \in Worker, w # "fg", RoundOK(sync[w]),
           BodyStep(w)
    PROVE  SeqOK' /\ BehindCursor' /\ RoundOK(sync[w])'
<1>t. /\ sync \in [Worker -> SyncState] /\ sync[w] \in SyncState
      /\ db \in [Message -> Row] /\ cursor \in Nat /\ sync[w].goal \in Nat
      /\ \A k \in Message : server.changed[k] \in Nat
  BY DEF LockInv, TypeOK, SyncState
<1>1. ASSUME NEW m \in Message, StoreBody(w, m)
      PROVE  SeqOK' /\ BehindCursor' /\ RoundOK(sync[w])'
  <2>1. /\ UNCHANGED Elsewhere /\ UNCHANGED <<cursor, stored, skipped>>
        /\ sync[w].pc = "body" /\ m \in sync[w].found
        /\ db'[m] = sync[w].copy /\ \A k \in Message \ {m} : db'[k] = db[k]
    BY <1>1, <1>t DEF StoreBody, Elsewhere, RoundOK
  <2>2. sync' = [sync EXCEPT ![w] = [sync[w] EXCEPT !.pc = "apply", !.found = {}, !.copy = NoRow]]
    BY <1>1, <2>1 DEF StoreBody, AfterBody
  <2>3. /\ sync'[w].pc = "apply" /\ sync'[w].todo = {} /\ sync[w].todo = {}
        /\ sync'[w].base = sync[w].base /\ sync'[w].goal = sync[w].goal
        /\ sync'[w].seen = sync[w].seen
    BY <1>t, <2>1, <2>2 DEF SyncState, RoundOK
  <2>4. m \in stored
    BY <2>1 DEF RoundOK
  <2>5. server.changed[m] \in 1 .. sync[w].goal => Covered(m)'
    <3>1. server.changed[m] \in 1 .. sync[w].goal => m \in skipped \/ Agrees(m, sync[w].copy.flags)
      BY <2>1 DEF RoundOK
    <3> QED
      BY <2>1, <2>4, <3>1, OwesSame DEF Covered, Agrees, Elsewhere
  <2>6. \A k \in Message \ {m} : Covered(k) => Covered(k)'
    BY <2>1, OwesSame DEF Covered, Agrees, Elsewhere
  <2>7. \A k \in Message : server.changed[k] \in 1 .. sync[w].goal => Covered(k)'
    BY <2>1, <2>3, <2>5, <2>6 DEF RoundOK
  <2>8. sync[w].base = cursor /\ cursor <= sync[w].goal /\ sync[w].goal <= server.modseq
    BY <2>1 DEF RoundOK
  <2>9. BehindCursor'
    BY <1>t, <2>1, <2>7, <2>8 DEF BehindCursor, Elsewhere
  <2> QED
    BY <2>1, <2>3, <2>7, <2>8, <2>9 DEF RoundOK, SeqOK, Elsewhere
<1> QED
  BY <1>1, AskRound, FindRound DEF BodyStep

\* Nothing is left to do up to the goal.
LEMMA CursorRound ==
    ASSUME LockInv, SeqOK, BehindCursor, NEW w \in Worker, RoundOK(sync[w]), SaveCursor(w)
    PROVE  SeqOK' /\ BehindCursor' /\ RoundOK(sync[w])'
<1>t. sync \in [Worker -> SyncState]
  BY DEF LockInv, TypeOK
<1>1. /\ UNCHANGED Elsewhere /\ UNCHANGED <<stored, db, skipped>>
      /\ sync[w].pc = "apply" /\ sync[w].todo = {}
      /\ cursor' = sync[w].goal /\ sync'[w] = IdleSync
  BY <1>t DEF SaveCursor, Elsewhere, history, RoundOK
<1>2. \A k \in Message : server.changed[k] \in 1 .. cursor' => Covered(k)'
  BY <1>1, OwesSame DEF RoundOK
<1> QED
  BY <1>1, <1>2 DEF RoundOK, IdleSync, SeqOK, BehindCursor, Elsewhere

LEMMA RoundStep ==
    ASSUME LockInv, SeqOK, BehindCursor, NEW w \in Worker, w # "fg", RoundOK(sync[w]), SyncStep(w)
    PROVE  SeqOK' /\ BehindCursor' /\ RoundOK(sync[w])'
BY AskRound, FetchRound, WriteRound, BodyRound, CursorRound DEF SyncStep

-----------------------------------------------------------------------------
(* The invariant is kept.                                                  *)

\* Nothing has changed on the server, and the cursor is zero.
LEMMA CoverInit == Init => CoverInv
<1> SUFFICES ASSUME Init PROVE CoverInv
  OBVIOUS
<1>1. LockInv /\ OrderInv
  BY LockInit, OrderInit
<1>2. SeqOK
  BY DEF Init, SeqOK
<1>3. HoldersMeant
  BY DEF Init, HoldersMeant
<1>4. RowidsDistinct
  BY DEF Init, RowidsDistinct, Queued, NoTask
<1>5. BehindCursor
  <2>1. ASSUME NEW m \in Message, server.changed[m] \in 1 .. cursor PROVE Covered(m)
    <3>1. m \in stored
      BY <2>1 DEF Init
    <3>2. db[m].flags = server.flags[m]
      BY DEF Init, NoRow
    <3> QED
      BY <3>1, <3>2 DEF Covered, Agrees
  <2> QED
    BY <2>1 DEF BehindCursor
<1>6. ASSUME NEW w \in Worker PROVE RoundOK(sync[w])
  BY DEF Init, RoundOK, IdleSync
<1> QED
  BY <1>1, <1>2, <1>3, <1>4, <1>5, <1>6 DEF CoverInv

\* A step of another thread, of the server or of the process as a whole
LEMMA OthersStep ==
    ASSUME "fg" \notin Worker, CoverInv, TasksSame, TypeOK', [Next]_vars,
           ~\E w \in Worker : SyncStep(w)
    PROVE  SeqOK' /\ BehindCursor' /\ \A w \in Worker : RoundOK(sync[w])'
<1>i. /\ LockInv /\ OrderInv /\ SeqOK /\ HoldersMeant /\ RowidsDistinct /\ BehindCursor
      /\ \A w \in Worker : RoundOK(sync[w])
  BY DEF CoverInv
<1>t. TypeOK
  BY <1>i DEF LockInv
<1>1. ASSUME Progress, sync' = sync \/ sync' = [w \in Worker |-> IdleSync]
      PROVE  SeqOK' /\ BehindCursor' /\ \A w \in Worker : RoundOK(sync[w])'
  BY <1>1, <1>i, RoundKept
<1>2. ASSUME NEW t \in Task, \/ \E c \in ClientChange : SaveTask(t, c)
                             \/ Cancel(t) \/ MarkRemote(t)
      PROVE  Progress /\ sync' = sync
  BY <1>2, <1>i, QuietProgress DEF SaveTask, Cancel, MarkRemote, history
<1>3. ASSUME NEW t \in Task, PerformLocal(t) PROVE Progress /\ sync' = sync
  BY <1>3, <1>i, LocalProgress DEF PerformLocal
<1>4. CASE LoadTasks
  <2>1. remote'.pc # "stored" /\ sync' = sync
    BY <1>4 DEF LoadTasks, IdleRemote
  <2>2. Progress
    BY <1>4, <2>1, <1>i, QuietProgress DEF LoadTasks, history
  <2> QED
    BY <1>1, <2>1, <2>2
<1>5. ASSUME NEW t \in Task, PerformCancelled(t) \/ SaveComplete(t)
      PROVE  Progress /\ sync' = sync
  <2>1. remote'.pc # "stored" /\ sync' = sync
    BY <1>5, <1>t DEF PerformCancelled, SaveComplete, SaveDone, TypeOK, RemoteState
  <2>2. UNCHANGED <<server, holders, db, stored, cursor, skipped>>
    BY <1>5 DEF PerformCancelled, SaveComplete, history
  <2> QED
    BY <2>1, <2>2, <1>i, QuietProgress
<1>6. ASSUME NEW t \in Task, StoreOnServer(t) \/ StoreFails(t) PROVE Progress /\ sync' = sync
  BY <1>6, <1>i, StoreProgress DEF StoreOnServer, StoreFails
<1>7. ASSUME NEW t \in Task, ReleaseLocks(t) PROVE Progress /\ sync' = sync
  BY <1>7, <1>i, ReleaseProgress DEF ReleaseLocks
<1>8. ASSUME NEW m \in Message, Deliver(m) \/ \E a \in Attr : OtherClient(m, a)
      PROVE  Progress /\ sync' = sync
  BY <1>8, <1>i, TouchProgress DEF Deliver, OtherClient, Touch
<1>9. CASE Crash
  <2>1. remote'.pc # "stored" /\ sync' = [w \in Worker |-> IdleSync]
    BY <1>9 DEF Crash, IdleRemote
  <2>2. Progress
    BY <1>9, <2>1, <1>i, QuietProgress DEF Crash, history
  <2> QED
    BY <1>1, <2>1, <2>2
<1>10. Tick \/ UNCHANGED vars => Progress /\ sync' = sync
  BY <1>i, QuietProgress DEF Tick, vars, history
<1>11. ~\E m \in Message : WantBody(m)
  BY DEF WantBody
<1> QED
  BY <1>1, <1>2, <1>3, <1>4, <1>5, <1>6, <1>7, <1>8, <1>9, <1>10, <1>11
     DEF Next, MainStep, RemoteStep

\* Every step keeps the invariant, when the background worker is alone.
LEMMA CoverStep ==
    ASSUME "fg" \notin Worker, CoverInv, [Next]_vars
    PROVE  CoverInv'
<1>i. /\ LockInv /\ OrderInv /\ SeqOK /\ HoldersMeant /\ RowidsDistinct /\ BehindCursor
      /\ \A w \in Worker : RoundOK(sync[w])
  BY DEF CoverInv
<1>1. LockInv' /\ TypeOK' /\ OneLocalTask'
  BY <1>i, LockStep DEF LockInv
<1>2. OrderInv'
  BY <1>i, <1>1, OrderStep
<1>3. TasksSame /\ RowidsDistinct'
  BY <1>i, TasksKept
<1>4. HoldersMeant'
  BY <1>i, <1>3, MeantKept
<1>5. CASE \E w \in Worker : SyncStep(w)
  <2>1. PICK w \in Worker : SyncStep(w)
    BY <1>5
  <2>2. w # "fg" /\ \A v \in Worker : v = w
    BY MessageSyncAssumption
  <2>3. SeqOK' /\ BehindCursor' /\ RoundOK(sync[w])'
    BY <1>i, <2>1, <2>2, RoundStep
  <2>4. \A v \in Worker : RoundOK(sync[v])'
    BY <2>2, <2>3
  <2> QED
    BY <1>1, <1>2, <1>3, <1>4, <2>3, <2>4 DEF CoverInv
<1>6. CASE ~\E w \in Worker : SyncStep(w)
  <2>1. SeqOK' /\ BehindCursor' /\ \A w \in Worker : RoundOK(sync[w])'
    BY <1>1, <1>3, <1>6, OthersStep
  <2> QED
    BY <1>1, <1>2, <1>3, <1>4, <2>1 DEF CoverInv
<1> QED
  BY <1>5, <1>6

\* An owed STORE keeps a lock held.
LEMMA CoverCovers == CoverInv => CursorCovers
<1> SUFFICES ASSUME CoverInv, NEW m \in Message, server.changed[m] \in 1..cursor
             PROVE  /\ m \in stored
                    /\ \/ db[m].flags = server.flags[m]
                       \/ m \in skipped
                       \/ holders[m] # {}
  BY DEF CursorCovers
<1>1. Covered(m)
  BY DEF CoverInv, BehindCursor
<1>2. ASSUME m \notin skipped, holders[m] = {} PROVE db[m].flags = server.flags[m]
  <2>1. \A a \in Attr : db[m].flags[a] = server.flags[m][a]
    BY <1>1, <1>2 DEF Covered, Agrees, Owes, Waits
  <2>2. db[m].flags \in Flags /\ server.flags[m] \in Flags
    BY DEF CoverInv, LockInv, TypeOK, Row
  <2> QED
    BY <2>1, <2>2 DEF Flags
<1> QED
  BY <1>1, <1>2 DEF Covered

\* Where the background worker alone syncs the folder, a change that the saved
\* cursor has passed is in the row, was ignored because the row is locked, or
\* is waiting for a task that holds the row: no change is lost, whatever the
\* tasks, the other clients, errors and crashes do between the read of the
\* status, the fetch, the read of a row and the writes.
THEOREM CursorCovered ==
    ASSUME "fg" \notin Worker
    PROVE  Spec => []CursorCovers
<1>1. CoverInv /\ [Next]_vars => CoverInv'
  BY CoverStep
<1> QED
  BY <1>1, CoverInit, CoverCovers, PTL DEF Spec
-----------------------------------------------------------------------------
(* ForegroundTasks: MessageSync, with a worker that may not be awake.       *)

LEMMA TasksStep ==
    ASSUME "fg" \in Worker, TasksNext
    PROVE  [Next]_vars
<1>1. CASE CommitTask
  BY <1>1 DEF CommitTask, Next, MainStep
<1>2. CASE RunTasks \/ SyncInbox
  BY <1>2 DEF RunTasks, SyncInbox, Next
<1>3. CASE LookAround
  BY <1>3 DEF LookAround, Next, SyncStep
<1>4. CASE ParkWorker \/ Announce \/ WakeUp
  BY <1>4 DEF ParkWorker, Announce, WakeUp
<1>5. CASE MainThread
  BY <1>5 DEF MainThread, Next, MainStep
<1>6. CASE LockOut
  BY <1>6 DEF LockOut
<1>7. CASE Relaunch
  BY <1>7 DEF Relaunch, Next
<1> QED
  BY <1>1, <1>2, <1>3, <1>4, <1>5, <1>6, <1>7 DEF TasksNext, Unlocked, Foreground

\* The tasks behave as MessageSync says however long the worker sleeps, whichever
\* wake-ups are lost and wherever the threads stop: what is proved of MessageSync
\* holds of the composition.
THEOREM TasksBehave ==
    ASSUME "fg" \in Worker
    PROVE  TasksSpec => Spec
<1>1. TasksInit => Init
  BY DEF TasksInit
<1>2. [TasksNext]_tasksVars => [Next]_vars
  BY TasksStep DEF tasksVars
<1> QED
  BY <1>1, <1>2, PTL DEF TasksSpec, Spec

\* STOREs reach the server in the order in which the user acted also when the
\* worker is woken late or not at all.
THEOREM TasksOrdered ==
    ASSUME "fg" \in Worker
    PROVE  TasksSpec => StoredInOrder
BY TasksBehave, StoresOrdered, PTL
=============================================================================
