--------------------------- MODULE FolderSyncProofs ---------------------------
(***************************************************************************)
(* Proofs about FolderSync, for any messages, any number of folders, any   *)
(* sizes of the requests and any deeds of the user and of other clients.   *)
(***************************************************************************)
EXTENDS FolderSync, FiniteSetTheorems, TLAPS

LEMMA Constants ==
    /\ Len(Order) \in Nat /\ DOMAIN Order = 1..Len(Order)
    /\ Inbox \in Folder /\ "none" \notin Folder
    /\ \A i \in 1..Len(Order) : Order[i] \in Folder
    /\ \A p \in {1, 2} : Unlinked(p) \in Nat \ {0} /\ Unlinked(p) > MaxUID - 5
    /\ MaxUID \in Nat /\ MaxNext \in Nat /\ "bg" \in Worker
<1>1. Len(Order) \in Nat /\ DOMAIN Order = 1..Len(Order) /\ Order # <<>>
  BY FolderSyncAssumption
<1>2. 1 \in DOMAIN Order
  BY <1>1, FolderSyncAssumption
<1> QED
  BY <1>1, <1>2, FolderSyncAssumption DEF Folder, Inbox, Unlinked

LEMMA IdleTypes ==
    /\ NoStatus \in Status /\ NoRange \in UidRange /\ Nowhere \in Place
    /\ IdleScan \in Scan
<1>1. NoStatus \in Status /\ NoRange \in UidRange /\ Nowhere \in Place
  BY DEF NoStatus, Status, NoRange, UidRange, Nowhere, Place
<1>2. <<>> \in Seq(UidRange)
  OBVIOUS
<1> QED
  BY <1>1, <1>2, Constants DEF IdleScan, Scan

LEMMA FolderTypeInit == Init => TypeOK
<1> SUFFICES ASSUME Init PROVE TypeOK
  OBVIOUS
<1>1. Cardinality(Message) \in Nat
  BY FolderSyncAssumption, FS_CardinalityType
<1>2. server \in [Message -> [Folder -> Nat]]
  BY <1>1 DEF Init
<1>3. round \in Round
  BY IdleTypes DEF Init, Round
<1>4. scan \in [Worker -> Scan]
  BY IdleTypes DEF Init
<1> QED
  BY <1>1, <1>2, <1>3, <1>4, IdleTypes DEF Init, TypeOK

-----------------------------------------------------------------------------
(* Type correctness: what the operators return.                            *)

LEMMA LocalUidsType ==
    ASSUME TypeOK, NEW f
    PROVE  LocalUids(f) \in SUBSET Nat
BY DEF TypeOK, LocalUids, Place

LEMMA DepthType ==
    ASSUME TypeOK, NEW f, NEW d, NEW before
    PROVE  UidAtDepth(f, d, before) \in Nat
<1> DEFINE below == {u \in LocalUids(f) : u < before}
           at == {u \in below : Cardinality({v \in below : v > u}) = d}
<1>1. at \in SUBSET Nat
  BY LocalUidsType
<1>2. at # {} => (CHOOSE u \in at : TRUE) \in at
  OBVIOUS
<1> QED
  BY <1>1, <1>2 DEF UidAtDepth

LEMMA NextRangeType ==
    ASSUME TypeOK, NEW w \in Worker, scan[w].plan # <<>>
    PROVE  NextRange(w) \in UidRange
<1> DEFINE r == Head(scan[w].plan)
           from == AtLeast(UidAtDepth(scan[w].folder, Depth(w), r.below), scan[w].st.min)
<1>1. r \in UidRange
  BY DEF TypeOK, Scan
<1>2. scan[w].st.min \in Nat
  BY DEF TypeOK, Scan, Status
<1>3. from \in Nat
  BY <1>2, DepthType DEF AtLeast
<1> HIDE DEF r, from
<1>4. [r EXCEPT !.from = from, !.to = IF @ < from THEN MaxUID ELSE @] \in UidRange
  BY <1>1, <1>3, Constants DEF UidRange
<1>5. NextRange(w) = IF r.below = 0 THEN r
                     ELSE [r EXCEPT !.from = from, !.to = IF @ < from THEN MaxUID ELSE @]
  BY DEF NextRange, r, from
<1> QED
  BY <1>1, <1>4, <1>5

LEMMA RemoteUidsType ==
    ASSUME TypeOK, NEW f \in Folder
    PROVE  RemoteUids(f) \in SUBSET Nat
BY DEF TypeOK, RemoteUids

LEMMA AnswerType ==
    ASSUME TypeOK, NEW f, NEW uids \in SUBSET Nat
    PROVE  Answer(f, uids) \in SUBSET Item
BY DEF Answer, Item

LEMMA RequestType ==
    ASSUME TypeOK, NEW w \in Worker, NEW fields \in Scan, Request(w, fields)
    PROVE  scan' \in [Worker -> Scan]
<1>1. PICK later \in BOOLEAN :
        scan' = [v \in Worker |-> IF v = w
                   THEN [fields EXCEPT !.newer = {}, !.later = later]
                   ELSE [scan[v] EXCEPT !.later = FALSE]]
  BY DEF Request
<1>2. [fields EXCEPT !.newer = {}, !.later = later] \in Scan
  BY DEF Scan
<1>3. \A v \in Worker : [scan[v] EXCEPT !.later = FALSE] \in Scan
  BY DEF TypeOK, Scan
<1> QED
  BY <1>1, <1>2, <1>3

LEMMA AppliedType ==
    ASSUME TypeOK, NEW w \in Worker, NEW i, NEW written \in SUBSET Message,
           Applied(w, i, written)
    PROVE  scan' \in [Worker -> Scan]
<1>1. [scan[w] EXCEPT !.pc = "apply", !.todo = @ \ {i},
                      !.copy = Nowhere, !.held = FALSE] \in Scan
  BY IdleTypes DEF TypeOK, Scan
<1>2. \A v \in Worker :
        [scan[v] EXCEPT !.newer = IF scan[w].later THEN @ \cup written ELSE @] \in Scan
  <2>1. \A s \in Scan, n \in SUBSET Message : [s EXCEPT !.newer = n] \in Scan
    BY DEF Scan
  <2>2. \A v \in Worker : scan[v] \in Scan /\ scan[v].newer \in SUBSET Message
    BY DEF TypeOK, Scan
  <2> QED
    BY <2>1, <2>2
<1> QED
  BY <1>1, <1>2 DEF Applied

LEMMA UnlinkType ==
    ASSUME TypeOK, NEW w \in Worker, NEW uids, Unlink(w, uids)
    PROVE  row' \in [Message -> Place] /\ fresh' \in SUBSET Message
<1>1. Unlinked(phase[w]) \in Nat
  BY Constants DEF TypeOK
<1>2. \A m \in Message : [row[m] EXCEPT !.uid = Unlinked(phase[w])] \in Place
  BY <1>1 DEF TypeOK, Place
<1> QED
  BY <1>2 DEF Unlink, TypeOK

LEMMA RangeTypes ==
    /\ \A from, to \in Nat : Headers(from, to) \in UidRange
    /\ \A from, to, below \in Nat : Attributes(from, to, below) \in UidRange
<1>1. ASSUME NEW from \in Nat, NEW to \in Nat PROVE Headers(from, to) \in UidRange
  <2>1. AtLeast(from, 1) \in Nat
    BY DEF AtLeast
  <2>2. (to - from <= HeaderCap) \in BOOLEAN
    OBVIOUS
  <2> QED
    BY <2>1, <2>2 DEF Headers, UidRange
<1>2. ASSUME NEW from \in Nat, NEW to \in Nat, NEW below \in Nat
      PROVE  Attributes(from, to, below) \in UidRange
  BY DEF Attributes, UidRange
<1> QED
  BY <1>1, <1>2

LEMMA PlanType ==
    ASSUME TypeOK, NEW f \in Folder, NEW kind \in {"none", "shallow", "deep"},
           NEW st \in Status
    PROVE  /\ PlanFolder(f, kind, st).plan \in Seq(UidRange)
           /\ PlanFolder(f, kind, st).st \in Status
<1> DEFINE size == IF round.loaded[f].validity = 0 THEN FirstChunk ELSE NextChunk
           chunkMin == IF st.min <= size \/ Cardinality(RemoteUids(f)) < size
                       THEN 1 ELSE st.min - size
           min == IF st.min > 1 THEN chunkMin ELSE st.min
           chunk == IF st.min > 1 THEN <<Headers(chunkMin, st.min)>> ELSE <<>>
           new == IF uidnext[f] > st.next THEN <<Headers(st.next, uidnext[f])>> ELSE <<>>
           look == CASE kind = "none" -> <<>>
                     [] kind = "shallow" -> <<Attributes(0, uidnext[f], AtLeast(st.next, 1))>>
                     [] kind = "deep" -> <<Attributes(min, MaxUID, 0)>>
<1>1. /\ st.min \in Nat /\ st.next \in Nat /\ uidnext[f] \in Nat
      /\ AtLeast(st.next, 1) \in Nat
  BY DEF TypeOK, Status, AtLeast
<1>2. chunkMin \in Nat
  BY <1>1, FolderSyncAssumption
<1>3. min \in Nat
  BY <1>1, <1>2
<1> HIDE DEF size, chunkMin
<1>4. chunk \in Seq(UidRange)
  <2>1. Headers(chunkMin, st.min) \in UidRange
    BY <1>1, <1>2, RangeTypes
  <2> QED
    BY <2>1
<1>5. new \in Seq(UidRange)
  <2>1. Headers(st.next, uidnext[f]) \in UidRange
    BY <1>1, RangeTypes
  <2> QED
    BY <2>1
<1> HIDE DEF min, chunk, new
<1>6. look \in Seq(UidRange)
  <2>1. /\ Attributes(0, uidnext[f], AtLeast(st.next, 1)) \in UidRange
        /\ Attributes(min, MaxUID, 0) \in UidRange
    BY <1>1, <1>3, RangeTypes, Constants
  <2> QED
    BY <2>1
<1>7. [st EXCEPT !.min = min, !.next = IF kind = "none" THEN @ ELSE uidnext[f]] \in Status
  BY <1>1, <1>3 DEF Status
<1> HIDE DEF look
<1>8. PlanFolder(f, kind, st) =
        [plan |-> chunk \o new \o look,
         st |-> [st EXCEPT !.min = min, !.next = IF kind = "none" THEN @ ELSE uidnext[f]]]
  BY DEF PlanFolder, size, chunkMin, min, chunk, new, look
<1>9. chunk \o new \o look \in Seq(UidRange)
  BY <1>4, <1>5, <1>6
<1> QED
  BY <1>7, <1>8, <1>9

-----------------------------------------------------------------------------
(* Type correctness, one step per action.                                  *)

LEMMA RangeStepType ==
    ASSUME TypeOK, NEW w \in Worker, RangeStep(w)
    PROVE  TypeOK'
<1>0. scan[w] \in Scan /\ round \in Round
  BY DEF TypeOK
<1>1. CASE ListLocal(w)
  <2>1. NextRange(w) \in UidRange /\ Tail(scan[w].plan) \in Seq(UidRange)
    BY <1>1, NextRangeType DEF ListLocal, TypeOK, Scan
  <2>2. {u \in LocalUids(scan[w].folder) : Within(NextRange(w), u)} \in SUBSET Nat
    BY LocalUidsType
  <2>3. \A r \in UidRange, p \in Seq(UidRange), l \in SUBSET Nat :
          [scan[w] EXCEPT !.pc = "fetch", !.range = r, !.plan = p, !.local = l] \in Scan
    BY <1>0 DEF Scan
  <2>4. scan' \in [Worker -> Scan]
    BY <1>1, <2>1, <2>2, <2>3 DEF ListLocal, TypeOK
  <2> QED
    BY <1>1, <2>4 DEF ListLocal, TypeOK, remote, history
<1>2. CASE FetchRange(w)
  <2> DEFINE f == scan[w].folder
             uids == {u \in RemoteUids(f) : Within(scan[w].range, u)}
             new == uids \ scan[w].local
             light == ~scan[w].range.heavy /\ new # {}
             r == [scan[w] EXCEPT !.pc = IF light THEN "headers" ELSE "apply",
                                  !.gone = scan[w].local \ uids, !.local = {},
                                  !.need = IF light THEN Highest(new) ELSE {},
                                  !.todo = IF light THEN {} ELSE Answer(f, new)]
  <2>1. f \in Folder
    BY DEF TypeOK, Scan
  <2>2. new \in SUBSET Nat
    BY <2>1, RemoteUidsType
  <2>3. Answer(f, new) \in SUBSET Item /\ Highest(new) \in SUBSET Nat
    BY <2>2, AnswerType DEF Highest
  <2>4. scan[w].local \ uids \in SUBSET Nat
    BY DEF TypeOK, Scan
  <2>5. r \in Scan
    <3> DEFINE pc == IF light THEN "headers" ELSE "apply"
               gone == scan[w].local \ uids
               need == IF light THEN Highest(new) ELSE {}
               todo == IF light THEN {} ELSE Answer(f, new)
    <3>1. pc \in {"headers", "apply"}
      OBVIOUS
    <3>2. need \in SUBSET Nat /\ todo \in SUBSET Item /\ {} \in SUBSET Nat
      BY <2>3
    <3>3. gone \in SUBSET Nat
      BY <2>4
    <3> HIDE DEF pc, gone, need, todo
    <3>4. [scan[w] EXCEPT !.pc = pc, !.gone = gone, !.local = {},
                          !.need = need, !.todo = todo] \in Scan
      BY <1>0, <3>1, <3>2, <3>3 DEF Scan
    <3> QED
      BY <3>4 DEF pc, gone, need, todo
  <2>6. Request(w, r)
    BY <1>2 DEF FetchRange
  <2> HIDE DEF r
  <2> QED
    BY <1>2, <2>5, <2>6, RequestType DEF FetchRange, TypeOK, remote, history
<1>3. CASE FetchHeaders(w)
  <2> DEFINE r == [scan[w] EXCEPT !.pc = "apply", !.need = {},
                                  !.todo = Answer(scan[w].folder, scan[w].need)]
  <2>1. Answer(scan[w].folder, scan[w].need) \in SUBSET Item
    <3>1. scan[w].need \in SUBSET Nat
      BY DEF TypeOK, Scan
    <3> QED
      BY <3>1, AnswerType
  <2>2. r \in Scan
    <3>1. \A todo \in SUBSET Item :
            [scan[w] EXCEPT !.pc = "apply", !.need = {}, !.todo = todo] \in Scan
      BY <1>0 DEF Scan
    <3> QED
      BY <2>1, <3>1
  <2>3. Request(w, r)
    BY <1>3 DEF FetchHeaders
  <2> HIDE DEF r
  <2> QED
    BY <1>3, <2>2, <2>3, RequestType DEF FetchHeaders, TypeOK, remote, history
<1>4. ASSUME NEW m \in Message, NEW u \in 1..MaxNext,
             LET i == [msg |-> m, uid |-> u] IN
               \/ InsertMessage(w, i) \/ FindLocal(w, i)
               \/ UpdateIgnored(w, i) \/ UpdateMessage(w, i)
      PROVE  TypeOK'
  <2> DEFINE i == [msg |-> m, uid |-> u]
             p == [folder |-> scan[w].folder, uid |-> i.uid]
  <2>1. p \in Place /\ i.msg = m
    <3>1. u \in Nat
      BY Constants
    <3> QED
      BY <3>1 DEF TypeOK, Scan, Place
  <2>2. [row EXCEPT ![i.msg] = p] \in [Message -> Place]
    BY <2>1 DEF TypeOK
  <2> HIDE DEF p
  <2>3. CASE InsertMessage(w, i)
    <3>1. scan' \in [Worker -> Scan]
      BY <2>1, <2>3, AppliedType DEF InsertMessage
    <3> QED
      BY <2>2, <2>3, <3>1 DEF InsertMessage, TypeOK, remote, history, p
  <2>4. CASE FindLocal(w, i)
    <3>1. row[i.msg] \in Place
      BY <2>1 DEF TypeOK
    <3> DEFINE h == i.msg \in locked \cup scan[w].newer
    <3>2. h \in BOOLEAN
      OBVIOUS
    <3>3. scan' = [scan EXCEPT ![w] =
                     [@ EXCEPT !.pc = "found", !.copy = row[i.msg], !.held = h]]
      BY <2>4 DEF FindLocal
    <3> HIDE DEF h
    <3>4. [scan[w] EXCEPT !.pc = "found", !.copy = row[i.msg], !.held = h] \in Scan
      BY <1>0, <3>1, <3>2 DEF Scan
    <3>5. scan' \in [Worker -> Scan]
      BY <3>3, <3>4 DEF TypeOK
    <3> QED
      BY <2>4, <3>5 DEF FindLocal, TypeOK, remote, history
  <2>5. CASE UpdateIgnored(w, i)
    <3>1. scan' \in [Worker -> Scan]
      BY <2>5, AppliedType DEF UpdateIgnored
    <3> QED
      BY <2>5, <3>1 DEF UpdateIgnored, TypeOK, remote, history
  <2>6. CASE UpdateMessage(w, i)
    <3>1. scan' \in [Worker -> Scan]
      BY <2>1, <2>6, AppliedType DEF UpdateMessage
    <3>2. /\ row' \in [Message -> Place]
          /\ locked' \subseteq Message /\ fresh' \subseteq Message
      BY <2>2, <2>6 DEF UpdateMessage, TypeOK, p
    <3> QED
      BY <2>6, <3>1, <3>2 DEF UpdateMessage, TypeOK, remote
  <2> QED
    BY <1>4, <2>3, <2>4, <2>5, <2>6
<1>5. CASE UnlinkGone(w)
  <2>1. scan' \in [Worker -> Scan]
    <3>1. [scan[w] EXCEPT !.pc = "plan", !.gone = {}, !.range = NoRange,
                          !.later = FALSE] \in Scan
      BY <1>0, IdleTypes DEF Scan
    <3> QED
      BY <1>5, <3>1 DEF UnlinkGone, TypeOK
  <2>2. row' \in [Message -> Place] /\ fresh' \in SUBSET Message
    BY <1>5, UnlinkType DEF UnlinkGone
  <2> QED
    BY <1>5, <2>1, <2>2 DEF UnlinkGone, TypeOK, remote
<1>6. CASE SaveStatus(w)
  <2>1. \A old, init, new \in Status : Merged(old, init, new) \in Status
    BY DEF Merged, Status
  <2>2. status' \in [Folder -> Status]
    BY <1>6, <2>1 DEF SaveStatus, TypeOK, Scan
  <2>3. scan' \in [Worker -> Scan]
    BY <1>6, IdleTypes DEF SaveStatus, TypeOK
  <2>4. round' \in Round
    <3>1. [round EXCEPT !.at = @ + 1] \in Round
      BY <1>0 DEF Round
    <3> QED
      BY <1>0, <1>6, <3>1 DEF SaveStatus
  <2> QED
    BY <1>6, <2>2, <2>3, <2>4 DEF SaveStatus, TypeOK, remote, history
<1> QED
  BY <1>1, <1>2, <1>3, <1>4, <1>5, <1>6 DEF RangeStep, ApplyStep

LEMMA RoundStepType ==
    ASSUME TypeOK, RoundStep \/ SkipFolder
    PROVE  TypeOK'
<1>0. scan["bg"] \in Scan /\ round \in Round
  BY Constants DEF TypeOK
<1>1. CASE StartRound
  <2>1. round' \in Round
    BY <1>1 DEF StartRound, TypeOK, Round
  <2> QED
    BY <1>1, <2>1 DEF StartRound, TypeOK, remote
<1>2. CASE ResetFolder
  <2> DEFINE f == Order[round.at]
             r == [IdleScan EXCEPT !.pc = "reset", !.folder = f, !.init = round.loaded[f],
                                   !.st = [validity |-> validity[f],
                                           next |-> uidnext[f], min |-> 1],
                                   !.plan = <<Attributes(1, MaxUID, 0)>>]
  <2>1. f \in Folder
    BY <1>2, Constants DEF ResetFolder, InFolder
  <2>2. round.loaded[f] \in Status
    BY <2>1 DEF TypeOK, Round
  <2>3. [validity |-> validity[f], next |-> uidnext[f], min |-> 1] \in Status
    BY <2>1 DEF TypeOK, Status
  <2>4. Attributes(1, MaxUID, 0) \in UidRange
    BY RangeTypes, Constants
  <2>5. <<Attributes(1, MaxUID, 0)>> \in Seq(UidRange)
    BY <2>4
  <2>6. r \in Scan
    <3> HIDE DEF f
    <3> QED
      BY <2>1, <2>2, <2>3, <2>5, IdleTypes DEF Scan
  <2>7. scan' = [scan EXCEPT !["bg"] = r]
    BY <1>2 DEF ResetFolder
  <2>8. scan' \in [Worker -> Scan]
    <3> HIDE DEF r
    <3> QED
      BY <2>6, <2>7 DEF TypeOK
  <2> QED
    BY <1>2, <2>8 DEF ResetFolder, TypeOK, remote, history
<1>3. CASE UnlinkAll
  <2>1. scan' \in [Worker -> Scan]
    <3>1. [scan["bg"] EXCEPT !.pc = "plan"] \in Scan
      BY <1>0 DEF Scan
    <3> QED
      BY <1>3, <3>1 DEF UnlinkAll, TypeOK
  <2>2. row' \in [Message -> Place] /\ fresh' \in SUBSET Message
    BY <1>3, UnlinkType, Constants DEF UnlinkAll
  <2> QED
    BY <1>3, <2>1, <2>2 DEF UnlinkAll, TypeOK, remote
<1>4. CASE FlipPhase
  <2>1. round' \in Round
    <3>1. \A n \in Nat, l \in Int : [round EXCEPT !.at = n, !.left = l] \in Round
      BY <1>0 DEF Round
    <3>2. round.at + 1 \in Nat /\ DeleteRounds \in Int
      BY <1>0, FolderSyncAssumption DEF Round
    <3>3. round' = [round EXCEPT !.at = round.at + 1, !.left = DeleteRounds]
      BY <1>4 DEF FlipPhase
    <3> QED
      BY <3>1, <3>2, <3>3
  <2>2. phase' \in [Worker -> {1, 2}]
    BY <1>4 DEF FlipPhase, TypeOK
  <2> QED
    BY <1>4, <2>1, <2>2 DEF FlipPhase, TypeOK, remote, history
<1>5. CASE DeleteUnlinked
  <2>1. PICK gone \in SUBSET Message :
          /\ row' = [m \in Message |-> IF m \in gone THEN Nowhere ELSE row[m]]
          /\ locked' = locked \ gone
          /\ round' = IF Cardinality(gone) < DeleteChunk \/ round.left = 1
                      THEN [round EXCEPT !.at = 0, !.left = 0,
                                         !.iterations = Count(round.iterations)]
                      ELSE [round EXCEPT !.left = @ - 1]
    BY <1>5 DEF DeleteUnlinked
  <2>2. round' \in Round
    <3>1. \A n \in Nat, l \in Int, i \in -1..1 :
            [round EXCEPT !.at = n, !.left = l, !.iterations = i] \in Round
      BY <1>0 DEF Round
    <3>2. [round EXCEPT !.at = 0, !.left = 0, !.iterations = Count(round.iterations)] \in Round
      <4>1. 0 \in Nat /\ 0 \in Int
        OBVIOUS
      <4>2. Count(round.iterations) \in -1..1
        BY <1>0 DEF Round, Count
      <4> QED
        BY <3>1, <4>1, <4>2, Zenon
    <3>3. [round EXCEPT !.left = round.left - 1] \in Round
      BY <1>0 DEF Round
    <3> QED
      BY <2>1, <3>2, <3>3, Zenon
  <2>3. row' \in [Message -> Place] /\ locked' \subseteq Message
    BY <2>1, IdleTypes DEF TypeOK
  <2> QED
    BY <1>5, <2>2, <2>3 DEF DeleteUnlinked, TypeOK, remote, history
<1>6. ASSUME NEW kind \in {"none", "shallow", "deep"}, BeginFolder(kind) PROVE TypeOK'
  <2> DEFINE f == Order[round.at]
             init == round.loaded[f]
             st == IF init.validity = 0
                   THEN [validity |-> validity[f], next |-> uidnext[f], min |-> uidnext[f]]
                   ELSE init
             do == PlanFolder(f, kind, st)
             r == [IdleScan EXCEPT !.pc = "plan", !.folder = f, !.init = init,
                                   !.st = do.st, !.plan = do.plan]
  <2>1. f \in Folder
    BY <1>6, Constants DEF BeginFolder, InFolder
  <2>2. init \in Status
    BY <2>1 DEF TypeOK, Round
  <2>3. st \in Status
    BY <2>1, <2>2 DEF TypeOK, Status
  <2>4. scan' = [scan EXCEPT !["bg"] = r]
    BY <1>6 DEF BeginFolder
  <2> HIDE DEF f, init, st
  <2>5. do.plan \in Seq(UidRange) /\ do.st \in Status
    BY <2>1, <2>3, PlanType
  <2> HIDE DEF do
  <2>6. r \in Scan
    BY <2>1, <2>2, <2>5, IdleTypes DEF Scan
  <2>7. scan' \in [Worker -> Scan]
    <3> HIDE DEF r
    <3> QED
      BY <2>4, <2>6 DEF TypeOK
  <2> QED
    BY <1>6, <2>7 DEF BeginFolder, TypeOK, remote, history
<1>7. CASE SkipFolder
  <2>1. round' \in Round
    <3>1. [round EXCEPT !.at = @ + 1] \in Round
      BY <1>0 DEF Round
    <3> QED
      BY <1>7, <3>1 DEF SkipFolder
  <2> QED
    BY <1>7, <2>1 DEF SkipFolder, TypeOK, remote, history
<1> QED
  BY <1>1, <1>2, <1>3, <1>4, <1>5, <1>6, <1>7 DEF RoundStep

LEMMA OtherStepType ==
    ASSUME TypeOK,
           \/ \E w \in Worker : Throws(w)
           \/ BeginInbox \/ Crash
           \/ \E m \in Message : Lock(m) \/ Release(m)
    PROVE  TypeOK'
<1>0. round \in Round
  BY DEF TypeOK
<1>1. ASSUME NEW w \in Worker, Throws(w) PROVE TypeOK'
  <2>1. [round EXCEPT !.at = 0] \in Round
    BY <1>0 DEF Round
  <2>2. round' \in Round
    BY <1>0, <1>1, <2>1 DEF Throws
  <2>3. scan' \in [Worker -> Scan]
    BY <1>1, IdleTypes DEF Throws, TypeOK
  <2> QED
    BY <1>1, <2>2, <2>3 DEF Throws, TypeOK, remote, history
<1>2. CASE BeginInbox
  <2>1. PICK next \in {uidnext[Inbox]} \cup (IF "status" \in Faults THEN {0} ELSE {}) :
          scan' = [scan EXCEPT !["fg"] =
                     [IdleScan EXCEPT !.pc = "plan", !.folder = Inbox,
                                      !.init = status[Inbox],
                                      !.st = [status[Inbox] EXCEPT !.next = next],
                                      !.plan = <<Attributes(0, next, AtLeast(next, 1))>>]]
    BY <1>2 DEF BeginInbox
  <2>2. next \in Nat
    BY Constants DEF TypeOK
  <2>3. Attributes(0, next, AtLeast(next, 1)) \in UidRange
    BY <2>2, RangeTypes DEF AtLeast
  <2>4. <<Attributes(0, next, AtLeast(next, 1))>> \in Seq(UidRange)
    BY <2>3
  <2>5. status[Inbox] \in Status
    BY Constants DEF TypeOK
  <2>6. [status[Inbox] EXCEPT !.next = next] \in Status
    BY <2>2, <2>5 DEF Status
  <2>7. \A init, st \in Status, plan \in Seq(UidRange) :
          [IdleScan EXCEPT !.pc = "plan", !.folder = Inbox, !.init = init,
                           !.st = st, !.plan = plan] \in Scan
    BY IdleTypes, Constants DEF Scan
  <2>8. scan' \in [Worker -> Scan]
    <3> DEFINE st == [status[Inbox] EXCEPT !.next = next]
               plan == <<Attributes(0, next, AtLeast(next, 1))>>
    <3>1. st \in Status /\ plan \in Seq(UidRange)
      BY <2>4, <2>6
    <3>2. scan' = [scan EXCEPT !["fg"] =
                     [IdleScan EXCEPT !.pc = "plan", !.folder = Inbox,
                                      !.init = status[Inbox], !.st = st, !.plan = plan]]
      BY <2>1
    <3> HIDE DEF st, plan
    <3> QED
      BY <2>5, <2>7, <3>1, <3>2 DEF TypeOK
  <2> QED
    BY <1>2, <2>8 DEF BeginInbox, TypeOK, remote, history
<1>3. CASE Crash
  <2>1. \A n \in Nat, l \in Int, i \in -1..1 :
          [round EXCEPT !.at = n, !.left = l, !.iterations = i] \in Round
    BY <1>0 DEF Round
  <2>2. 0 \in Nat /\ 0 \in Int
    OBVIOUS
  <2>3. PICK i \in -1..1 : round' = [round EXCEPT !.at = 0, !.left = 0, !.iterations = i]
    BY <1>3 DEF Crash
  <2>4. round' \in Round
    BY <2>1, <2>2, <2>3, Zenon
  <2>5. scan' \in [Worker -> Scan] /\ phase' \in [Worker -> {1, 2}] /\ crashes' \in Nat
    BY <1>3, IdleTypes DEF Crash, TypeOK
  <2> QED
    BY <1>3, <2>4, <2>5 DEF Crash, TypeOK, remote, history
<1>4. ASSUME NEW m \in Message, Lock(m) PROVE TypeOK'
  BY <1>4 DEF Lock, TypeOK, remote, history
<1>5. ASSUME NEW m \in Message, Release(m) PROVE TypeOK'
  <2>1. PICK W \in SUBSET Worker :
          scan' = [w \in Worker |-> IF w \in W
                     THEN [scan[w] EXCEPT !.newer = @ \cup {m}] ELSE scan[w]]
    BY <1>5 DEF Release
  <2>2. \A s \in Scan, n \in SUBSET Message : [s EXCEPT !.newer = n] \in Scan
    BY DEF Scan
  <2>3. \A w \in Worker : scan[w] \in Scan /\ scan[w].newer \cup {m} \in SUBSET Message
    BY DEF TypeOK, Scan
  <2>4. scan' \in [Worker -> Scan]
    BY <2>1, <2>2, <2>3
  <2> QED
    BY <1>5, <2>4 DEF Release, TypeOK, remote, history
<1> QED
  BY <1>1, <1>2, <1>3, <1>4, <1>5

LEMMA ClientStepType ==
    ASSUME TypeOK, ClientStep
    PROVE  TypeOK'
<1>1. ASSUME NEW m \in Message, NEW to \in SUBSET Folder, NEW from \in SUBSET Folder,
             Put(m, to, from)
      PROVE  TypeOK'
  <2>1. server' \in [Message -> [Folder -> Nat]]
    BY <1>1 DEF Put, TypeOK
  <2>2. uidnext' \in [Folder -> Nat]
    BY <1>1 DEF Put, TypeOK
  <2> QED
    BY <1>1, <2>1, <2>2 DEF Put, TypeOK
<1>2. ASSUME NEW m \in Message, Deliver(m) \/ Move(m) \/ Copy(m) \/ Expunge(m)
      PROVE  TypeOK'
  <2>1. On(m) \in SUBSET Folder /\ {Inbox} \in SUBSET Folder /\ {} \in SUBSET Folder
    BY Constants DEF On
  <2>2. \A f \in Folder : {f} \in SUBSET Folder
    OBVIOUS
  <2>3. \E to, from \in SUBSET Folder : Put(m, to, from)
    BY <1>2, <2>1, <2>2 DEF Deliver, Move, Copy, Expunge
  <2> QED
    BY <1>1, <2>3
<1>3. ASSUME NEW f \in Folder, Renumber(f) PROVE TypeOK'
  <2> DEFINE in == {m \in Message : f \in On(m)}
  <2>1. Cardinality(in) \in Nat
    <3>1. IsFiniteSet(in)
      BY FolderSyncAssumption, FS_Subset
    <3> QED
      BY <3>1, FS_CardinalityType
  <2>2. PICK uid \in [in -> 1..Cardinality(in)] :
          server' = [m \in Message |-> IF m \in in
                       THEN [server[m] EXCEPT ![f] = uid[m]] ELSE server[m]]
    BY <1>3 DEF Renumber
  <2>3. uidnext' = [uidnext EXCEPT ![f] = Cardinality(in) + 1] /\ settled' = settled \ in
    BY <1>3 DEF Renumber
  <2> HIDE DEF in
  <2>4. \A m \in in : uid[m] \in Nat
    BY <2>1, <2>2
  <2>5. server' \in [Message -> [Folder -> Nat]]
    BY <2>2, <2>4 DEF TypeOK
  <2>6. uidnext' \in [Folder -> Nat] /\ settled' \subseteq Message
    BY <2>1, <2>3 DEF TypeOK
  <2>7. validity' \in [Folder -> Nat]
    BY <1>3 DEF Renumber, TypeOK
  <2> QED
    BY <1>3, <2>5, <2>6, <2>7 DEF Renumber, TypeOK
<1> QED
  BY <1>2, <1>3 DEF ClientStep

\* Every step keeps the types.
LEMMA FolderTypeStep == TypeOK /\ [Next]_vars => TypeOK'
<1> SUFFICES ASSUME TypeOK, [Next]_vars PROVE TypeOK'
  OBVIOUS
<1>1. CASE UNCHANGED vars
  BY <1>1 DEF vars, TypeOK
<1>2. CASE Next
  BY <1>2, RangeStepType, RoundStepType, OtherStepType, ClientStepType DEF Next
<1> QED
  BY <1>1, <1>2

\* Every variable keeps its type, for any account and any faults.
THEOREM FolderTypeCorrect == Spec => []TypeOK
BY FolderTypeInit, FolderTypeStep, PTL DEF Spec

-----------------------------------------------------------------------------
(* The grace of one round, where the background worker is alone.           *)

\* A worker is in a folder during the round only, and what was unlinked since
\* it began bears the phase of the round, which the deletion does not touch.
FreshInv ==
    /\ round.at \in 0..(Len(Order) + 2)
    /\ scan["bg"].pc # "idle" => round.at \in 1..Len(Order)
    /\ round.at \in 1..(Len(Order) + 1) =>
         \A m \in fresh : row[m].uid = Unlinked(phase["bg"])
    /\ round.at = Len(Order) + 2 =>
         \A m \in fresh : row[m].uid = Unlinked(3 - phase["bg"])

LEMMA FreshInit == Init => FreshInv
BY Constants DEF Init, FreshInv, IdleScan

\* What a step that unlinks nothing and writes no row needs to keep it.
LEMMA FreshFrame ==
    ASSUME FreshInv, UNCHANGED <<row, fresh, phase, round>>,
           scan'["bg"].pc # "idle" => scan["bg"].pc # "idle"
    PROVE  FreshInv' /\ \A m \in Message : ~Deleted(m)
BY DEF FreshInv, Deleted

LEMMA RequestKeepsPc ==
    ASSUME TypeOK, NEW w \in Worker, NEW fields \in Scan, Request(w, fields)
    PROVE  \A v \in Worker : scan'[v].pc = IF v = w THEN fields.pc ELSE scan[v].pc
<1>1. PICK later \in BOOLEAN :
        scan' = [v \in Worker |-> IF v = w
                   THEN [fields EXCEPT !.newer = {}, !.later = later]
                   ELSE [scan[v] EXCEPT !.later = FALSE]]
  BY DEF Request
<1>2. [fields EXCEPT !.newer = {}, !.later = later].pc = fields.pc
  BY DEF Scan
<1>3. \A v \in Worker : [scan[v] EXCEPT !.later = FALSE].pc = scan[v].pc
  BY DEF TypeOK, Scan
<1> QED
  BY <1>1, <1>2, <1>3

LEMMA UnlinkKeeps ==
    ASSUME TypeOK, NEW w \in Worker, NEW uids, Unlink(w, uids),
           \A m \in fresh : row[m].uid = Unlinked(phase[w])
    PROVE  /\ \A m \in fresh' : row'[m].uid = Unlinked(phase[w])
           /\ \A m \in Message : row'[m].folder = row[m].folder
           /\ \A m \in Message : ~Deleted(m)
<1> DEFINE hit == {m \in Message : /\ row[m].folder = scan[w].folder
                                   /\ row[m].uid \in uids /\ IsLinked(row[m])}
<1>1. /\ row' = [m \in Message |-> IF m \in hit
                   THEN [row[m] EXCEPT !.uid = Unlinked(phase[w])] ELSE row[m]]
      /\ fresh' = fresh \cup hit
  BY DEF Unlink
<1>2. \A m \in Message :
        /\ [row[m] EXCEPT !.uid = Unlinked(phase[w])].uid = Unlinked(phase[w])
        /\ [row[m] EXCEPT !.uid = Unlinked(phase[w])].folder = row[m].folder
  BY DEF TypeOK, Place
<1>3. \A m \in hit : row[m].folder \in Folder
  BY DEF TypeOK, Scan
<1>4. fresh \subseteq Message
  BY DEF TypeOK
<1>5. \A m \in fresh' : row'[m].uid = Unlinked(phase[w])
  BY <1>1, <1>2, <1>4
<1>6. \A m \in Message : row'[m].folder = row[m].folder
  BY <1>1, <1>2
<1>7. \A m \in Message : ~Deleted(m)
  <2> SUFFICES ASSUME NEW m \in Message, Deleted(m) PROVE FALSE
    OBVIOUS
  <2>1. m \in hit
    BY <1>1 DEF Deleted
  <2>2. row'[m].folder \in Folder
    BY <1>3, <1>6, <2>1
  <2> QED
    BY <2>2, Constants DEF Deleted, Nowhere
<1> QED
  BY <1>5, <1>6, <1>7

LEMMA FreshStep ==
    ASSUME Worker = {"bg"}, TypeOK, FreshInv, [Next]_vars
    PROVE  FreshInv' /\ \A m \in Message : Deleted(m) => m \notin fresh
<1> DEFINE Goal == FreshInv' /\ \A m \in Message : Deleted(m) => m \notin fresh
<1>0. /\ "bg" \in Worker /\ \A w \in Worker : w = "bg"
      /\ scan["bg"] \in Scan /\ round \in Round /\ phase["bg"] \in {1, 2}
      /\ Len(Order) \in Nat /\ fresh \subseteq Message
  BY Constants DEF TypeOK
<1>1. ASSUME UNCHANGED <<row, fresh, phase, round>>,
             scan'["bg"].pc # "idle" => scan["bg"].pc # "idle"
      PROVE  Goal
  BY <1>1, FreshFrame
<1>2. ASSUME NEW w \in Worker, ListLocal(w) PROVE Goal
  BY <1>0, <1>1, <1>2 DEF ListLocal, history
<1>3. ASSUME NEW w \in Worker, FetchRange(w) \/ FetchHeaders(w) PROVE Goal
  BY <1>0, <1>1, <1>3 DEF FetchRange, FetchHeaders, history
<1>4. ASSUME NEW w \in Worker, NEW i \in Item, InsertMessage(w, i) PROVE Goal
  <2>1. round.at \in 1..Len(Order)
    BY <1>0, <1>4 DEF InsertMessage, FreshInv
  <2>2. i.msg \notin fresh
    BY <1>0, <1>4, <2>1, Constants DEF InsertMessage, FreshInv, Nowhere
  <2>3. \A m \in fresh : row'[m] = row[m]
    BY <1>0, <1>4, <2>2 DEF InsertMessage, TypeOK
  <2>4. FreshInv'
    BY <1>0, <1>4, <2>1, <2>3 DEF InsertMessage, FreshInv, history
  <2>5. \A m \in Message : Deleted(m) => m \notin fresh
    BY <2>3 DEF Deleted
  <2> QED
    BY <2>4, <2>5
<1>5. ASSUME NEW w \in Worker, NEW i \in Item, FindLocal(w, i) \/ UpdateIgnored(w, i)
      PROVE  Goal
  BY <1>0, <1>1, <1>5 DEF FindLocal, UpdateIgnored, history
<1>6. ASSUME NEW w \in Worker, NEW i \in Item, UpdateMessage(w, i) PROVE Goal
  <2>1. round.at \in 1..Len(Order)
    BY <1>0, <1>6 DEF UpdateMessage, FreshInv
  <2>2. \A m \in fresh' : m \in fresh /\ row'[m] = row[m]
    BY <1>0, <1>6 DEF UpdateMessage, TypeOK
  <2>3. FreshInv'
    BY <1>0, <1>6, <2>1, <2>2 DEF UpdateMessage, FreshInv
  <2>4. \A m \in Message : Deleted(m) => m \notin fresh
    <3>1. scan[w].folder \in Folder
      BY <1>0 DEF Scan
    <3>2. [folder |-> scan[w].folder, uid |-> i.uid] # Nowhere
      BY <3>1, Constants DEF Nowhere
    <3> QED
      BY <1>6, <3>2 DEF UpdateMessage, Deleted, TypeOK
  <2> QED
    BY <2>3, <2>4
<1>7. ASSUME NEW w \in Worker, UnlinkGone(w) PROVE Goal
  <2>1. round.at \in 1..Len(Order)
    BY <1>0, <1>7 DEF UnlinkGone, FreshInv
  <2>2. /\ \A m \in fresh' : row'[m].uid = Unlinked(phase[w])
        /\ \A m \in Message : ~Deleted(m)
    BY <1>0, <1>7, <2>1, UnlinkKeeps DEF UnlinkGone, FreshInv
  <2> QED
    BY <1>0, <1>7, <2>1, <2>2 DEF UnlinkGone, FreshInv
<1>8. ASSUME NEW w \in Worker, SaveStatus(w) PROVE Goal
  <2>1. round.at \in 1..Len(Order)
    BY <1>0, <1>8 DEF SaveStatus, FreshInv
  <2>2. round'.at = round.at + 1
    BY <1>0, <1>8 DEF SaveStatus, Round
  <2>3. scan'["bg"].pc = "idle"
    BY <1>0, <1>8 DEF SaveStatus, TypeOK, IdleScan
  <2> QED
    BY <1>0, <1>8, <2>1, <2>2, <2>3 DEF SaveStatus, FreshInv, Deleted, history
<1>9. ASSUME NEW w \in Worker, Throws(w) PROVE Goal
  <2>1. round'.at = 0
    BY <1>0, <1>9 DEF Throws, Round
  <2>2. scan'["bg"].pc = "idle"
    BY <1>0, <1>9 DEF Throws, TypeOK, IdleScan
  <2> QED
    BY <1>0, <1>9, <2>1, <2>2 DEF Throws, FreshInv, Deleted, history
<1>10. CASE StartRound
  <2>1. scan["bg"].pc = "idle" /\ round'.at = 1
    BY <1>0, <1>10 DEF StartRound, FreshInv, Round
  <2> QED
    BY <1>0, <1>10, <2>1 DEF StartRound, FreshInv, Deleted
<1>11. CASE ResetFolder \/ \E kind \in {"none", "shallow", "deep"} : BeginFolder(kind)
  <2>1. round.at \in 1..Len(Order) /\ UNCHANGED <<row, fresh, phase, round>>
    BY <1>11 DEF ResetFolder, BeginFolder, InFolder, history
  <2> QED
    BY <1>0, <2>1 DEF FreshInv, Deleted
<1>12. CASE UnlinkAll
  <2>1. round.at \in 1..Len(Order)
    BY <1>0, <1>12 DEF UnlinkAll, FreshInv
  <2>2. /\ \A m \in fresh' : row'[m].uid = Unlinked(phase["bg"])
        /\ \A m \in Message : ~Deleted(m)
    BY <1>0, <1>12, <2>1, UnlinkKeeps DEF UnlinkAll, FreshInv
  <2> QED
    BY <1>0, <1>12, <2>1, <2>2 DEF UnlinkAll, FreshInv
<1>13. CASE FlipPhase
  <2>1. round.at = Len(Order) + 1 /\ scan["bg"].pc = "idle"
    BY <1>0, <1>13 DEF FlipPhase, FreshInv
  <2>2. round'.at = Len(Order) + 2
    BY <1>0, <1>13, <2>1 DEF FlipPhase, Round
  <2>3. phase'["bg"] = 3 - phase["bg"] /\ 3 - phase'["bg"] = phase["bg"]
    BY <1>0, <1>13 DEF FlipPhase, TypeOK
  <2> QED
    BY <1>0, <1>13, <2>1, <2>2, <2>3 DEF FlipPhase, FreshInv, Deleted, history
<1>14. CASE DeleteUnlinked
  <2>1. PICK gone \in SUBSET {m \in Message : row[m].uid = Unlinked(phase["bg"])} :
          /\ row' = [m \in Message |-> IF m \in gone THEN Nowhere ELSE row[m]]
          /\ round' = IF Cardinality(gone) < DeleteChunk \/ round.left = 1
                      THEN [round EXCEPT !.at = 0, !.left = 0,
                                         !.iterations = Count(round.iterations)]
                      ELSE [round EXCEPT !.left = @ - 1]
    BY <1>14 DEF DeleteUnlinked
  <2>2. round.at = Len(Order) + 2 /\ scan["bg"].pc = "idle"
    BY <1>0, <1>14 DEF DeleteUnlinked, FreshInv
  <2>3. Unlinked(phase["bg"]) # Unlinked(3 - phase["bg"])
    BY <1>0, Constants DEF Unlinked
  <2>4. gone \cap fresh = {}
    BY <2>1, <2>2, <2>3 DEF FreshInv
  <2>5. \A m \in Message : Deleted(m) => m \notin fresh
    BY <2>1, <2>4 DEF Deleted
  <2>6. round'.at \in {0, round.at}
    BY <1>0, <2>1 DEF Round
  <2>7. FreshInv'
    <3>1. \A m \in fresh : row'[m] = row[m]
      BY <1>0, <2>1, <2>4
    <3> QED
      BY <1>0, <1>14, <2>2, <2>6, <3>1 DEF DeleteUnlinked, FreshInv, history
  <2> QED
    BY <2>5, <2>7
<1>15. CASE SkipFolder
  <2>1. round.at \in 1..Len(Order) /\ scan["bg"].pc = "idle" /\ round'.at = round.at + 1
    BY <1>0, <1>15 DEF SkipFolder, InFolder, Round
  <2> QED
    BY <1>0, <1>15, <2>1 DEF SkipFolder, FreshInv, Deleted, history
<1>16. CASE BeginInbox
  BY <1>0, <1>16 DEF BeginInbox
<1>17. ASSUME NEW m \in Message, Lock(m) \/ Release(m) PROVE Goal
  BY <1>0, <1>1, <1>17 DEF Lock, Release, history
<1>18. CASE Crash
  <2>1. round'.at = 0
    BY <1>0, <1>18 DEF Crash, Round
  <2>2. scan'["bg"].pc = "idle"
    BY <1>0, <1>18 DEF Crash, IdleScan
  <2> QED
    BY <1>0, <1>18, <2>1, <2>2 DEF Crash, FreshInv, Deleted, history
<1>19. CASE ClientStep
  BY <1>1, <1>19 DEF ClientStep, Deliver, Move, Copy, Expunge, Put, Renumber
<1>20. CASE UNCHANGED vars
  BY <1>1, <1>20 DEF vars
<1>21. ASSUME NEW w \in Worker, ApplyStep(w) PROVE Goal
  <2>1. PICK m \in Message, u \in 1..MaxNext :
          LET i == [msg |-> m, uid |-> u] IN
            \/ InsertMessage(w, i) \/ FindLocal(w, i)
            \/ UpdateIgnored(w, i) \/ UpdateMessage(w, i)
    BY <1>21 DEF ApplyStep
  <2>2. [msg |-> m, uid |-> u] \in Item
    BY Constants DEF Item
  <2> QED
    BY <2>1, <2>2, <1>4, <1>5, <1>6
<1> QED
  BY <1>2, <1>3, <1>7, <1>8, <1>9, <1>10, <1>11, <1>12, <1>13, <1>14, <1>15, <1>16,
     <1>17, <1>18, <1>19, <1>20, <1>21 DEF Next, RangeStep, RoundStep

\* With the background worker alone, what a round discovers to be missing is
\* not deleted at its end: it has one more round to appear elsewhere.
THEOREM GraceKept ==
    ASSUME Worker = {"bg"}
    PROVE  Spec => Grace
<1>1. TypeOK /\ FreshInv /\ [Next]_vars => FreshInv'
  BY FreshStep
<1>2. TypeOK /\ FreshInv /\ [Next]_vars =>
        [\A m \in Message : Deleted(m) => m \notin fresh]_vars
  BY FreshStep
<1> QED
  BY <1>1, <1>2, FreshInit, FolderTypeCorrect, PTL DEF Spec, Grace

-----------------------------------------------------------------------------
(* What a round knows of the messages that did not move, where the         *)
(* background worker is alone, no message is locked or copied, no folder   *)
(* is renumbered or left out and a light request is followed up whole.     *)

PlainRounds ==
    /\ Worker = {"bg"} /\ Lockable = {}
    /\ Clients \subseteq {"deliver", "move", "expunge"}
    /\ "skip" \notin Faults
    /\ Cardinality(Message) <= HeaderCap

\* The server: one place for each message, and no UID is given twice.
ServerOK ==
    /\ \A f \in Folder : validity[f] = 1 /\ uidnext[f] <= MaxNext
    /\ \A m \in Message, f \in Folder : server[m][f] < uidnext[f]
    /\ \A m, n \in Message, f \in Folder :
         server[m][f] = server[n][f] /\ server[m][f] # 0 => m = n
    /\ \A m \in Message, f, g \in Folder : server[m][f] # 0 /\ server[m][g] # 0 => f = g

\* A row that is linked bears a UID that was never another message's.
RowsOK ==
    \A m \in Message : row[m].folder \in Folder /\ IsLinked(row[m]) =>
        /\ 0 < row[m].uid /\ row[m].uid < uidnext[row[m].folder]
        /\ \A n \in Message \ {m} : server[n][row[m].folder] # row[m].uid

\* The saved status, and what the round has loaded of it
StatusOK ==
    /\ locked = {}
    /\ \A f \in Folder : /\ status[f].validity \in {0, 1}
                         /\ status[f].validity = 0 => status[f].next = 0
                         /\ status[f].next <= uidnext[f]
    /\ round.at \in 0 .. (Len(Order) + 2)
    /\ \A i \in 1 .. Len(Order) :
         round.at # 0 /\ round.at <= i => round.loaded[Order[i]] = status[Order[i]]

\* What the worker remembers of the folder it is in
ScanOK ==
    LET s == scan["bg"] f == scan["bg"].folder IN
    s.pc # "idle" =>
        /\ round.at \in 1 .. Len(Order) /\ f = Order[round.at]
        /\ s.pc # "reset" /\ s.init = status[f]
        /\ s.newer = {} /\ ~s.held
        /\ s.st.validity = 1
        /\ status[f].next <= s.st.next /\ s.st.next <= uidnext[f]
        /\ s.pc = "fetch" =>
             \A u \in s.local : Within(s.range, u) /\ (u < uidnext[f] \/ u > MaxUID - 5)
        /\ s.pc \in {"headers", "apply", "found"} =>
             \A u \in s.gone : /\ u < uidnext[f] \/ u > MaxUID - 5
                               /\ u # 0 => \A m \in Message : server[m][f] # u
        /\ s.pc = "headers" => 0 \notin s.need

\* The answer of the server is that of now, or of the past of a message that
\* has got a UID which no status has reached.
AnswerOK ==
    LET s == scan["bg"] f == scan["bg"].folder IN
    s.pc \in {"apply", "found"} =>
        \A i \in s.todo :
            /\ 0 < i.uid /\ i.uid < uidnext[f]
            /\ \A j \in s.todo : i.uid = j.uid => i = j
            /\ \A n \in Message \ {i.msg} : server[n][f] # i.uid
            /\ \/ server[i.msg][f] = i.uid
               \/ /\ i.msg \notin settled
                  /\ \A g \in On(i.msg) : /\ status[g].next <= server[i.msg][g]
                                          /\ g = f => s.st.next <= server[i.msg][g]
            /\ s.pc = "found" /\ IsNext("bg", i) =>
                 s.copy = row[i.msg] /\ row[i.msg] # Nowhere

\* The row says where the message is.
Placed(m, f) == row[m] = [folder |-> f, uid |-> server[m][f]]

\* A request that is to come will mention UID u of the folder, or has.
Due(m, u) ==
    LET s == scan["bg"] IN
    \/ \E k \in DOMAIN s.plan : s.plan[k].below = 0 /\ Within(s.plan[k], u)
    \/ s.pc = "fetch" /\ Within(s.range, u) /\ u \notin s.local
    \/ s.pc = "headers" /\ u \in s.need
    \/ s.pc \in {"apply", "found"} /\ [msg |-> m, uid |-> u] \in s.todo

\* Between the oldest UID and UIDNEXT of a status, every row is in its place;
ReachedOK ==
    \A m \in Message : \A f \in On(m) :
        status[f].min <= server[m][f] /\ server[m][f] < status[f].next => Placed(m, f)

\* in a folder the round is done with, that of every settled message is;
SettledOK ==
    \A m \in settled : \A i \in 1 .. Len(Order) :
        Order[i] \in On(m) /\ i < round.at /\ status[Order[i]].min <= server[m][Order[i]]
        => Placed(m, Order[i])

\* and in the folder it is in, so is every one that is not due.
CoveredOK ==
    LET s == scan["bg"] f == scan["bg"].folder IN
    s.pc # "idle" =>
        \A m \in Message :
            /\ f \in On(m) /\ s.st.min <= server[m][f]
            /\ m \in settled \/ server[m][f] < s.st.next
            /\ ~Due(m, server[m][f])
            => Placed(m, f)

RoundInv ==
    /\ TypeOK /\ ServerOK /\ RowsOK /\ StatusOK
    /\ ScanOK /\ AnswerOK /\ ReachedOK /\ SettledOK /\ CoveredOK

-----------------------------------------------------------------------------
\* A UID that the server gives is not one of the highest, which mark rows
\* that are unlinked.
LEMMA PlacedIsLinked ==
    ASSUME TypeOK, ServerOK, NEW m \in Message, NEW f \in On(m), Placed(m, f)
    PROVE  /\ row[m].folder = f /\ row[m].uid = server[m][f] /\ IsLinked(row[m])
           /\ \A p \in {1, 2} : row[m].uid # Unlinked(p)
<1>1. f \in Folder /\ server[m][f] \in Nat /\ uidnext[f] \in Nat /\ server[m][f] < MaxNext
  <2>1. f \in Folder /\ server[m][f] \in Nat /\ uidnext[f] \in Nat
    BY DEF On, TypeOK
  <2> QED
    BY <2>1, FolderSyncAssumption DEF ServerOK
<1>2. MaxNext \in Nat /\ MaxUID \in Nat /\ MaxNext < MaxUID - 5
  BY FolderSyncAssumption
<1>3. row[m].folder = f /\ row[m].uid = server[m][f]
  BY DEF Placed
<1> QED
  BY <1>1, <1>2, <1>3 DEF IsLinked, Unlinked

\* Steps that touch neither the server nor the rows nor the saved status
LEMMA ScanFrame ==
    ASSUME RoundInv, UNCHANGED <<server, validity, uidnext, row, locked, status, settled>>,
           \/ round' = round
           \/ round'.at = 0
    PROVE  ServerOK' /\ RowsOK' /\ StatusOK' /\ ReachedOK' /\ SettledOK'
<1>1. ServerOK' /\ RowsOK'
  BY DEF RoundInv, ServerOK, RowsOK
<1>2. StatusOK'
  BY Constants DEF RoundInv, StatusOK
<1>3. \A m \in Message : \A f \in Folder : /\ On(m)' = On(m)
                                           /\ Placed(m, f)' <=> Placed(m, f)
  BY DEF On, Placed
<1>4. ReachedOK'
  BY <1>3 DEF RoundInv, ReachedOK, On
<1>5. SettledOK'
  <2>1. CASE round' = round
    BY <2>1 DEF RoundInv, SettledOK, On, Placed
  <2>2. CASE round'.at = 0
    BY <2>2 DEF SettledOK
  <2> QED
    BY <2>1, <2>2
<1> QED
  BY <1>1, <1>2, <1>4, <1>5

\* A round that ends early leaves nothing half known: it begins again.
LEMMA StopStep ==
    ASSUME PlainRounds, RoundInv, Crash \/ Throws("bg")
    PROVE  /\ ServerOK' /\ RowsOK' /\ StatusOK' /\ ScanOK' /\ AnswerOK'
           /\ ReachedOK' /\ SettledOK' /\ CoveredOK'
<1>t. "bg" \in Worker /\ round \in Round /\ scan \in [Worker -> Scan]
  BY Constants DEF RoundInv, TypeOK
<1>1. /\ UNCHANGED <<server, validity, uidnext, row, locked, status, settled>>
      /\ round'.at = 0 /\ scan'["bg"].pc = "idle"
  <2>1. CASE Crash
    BY <1>t, <2>1 DEF Crash, remote, history, Round, IdleScan
  <2>2. CASE Throws("bg")
    BY <1>t, <2>2 DEF Throws, remote, history, Round, IdleScan
  <2> QED
    BY <2>1, <2>2
<1>2. (ScanOK /\ AnswerOK /\ CoveredOK)'
  BY <1>1 DEF ScanOK, AnswerOK, CoveredOK
<1> QED
  BY <1>1, <1>2, ScanFrame

-----------------------------------------------------------------------------
(* The round as a whole                                                    *)

\* At the start of a round no folder is done, and all that is there is settled.
LEMMA StartStep ==
    ASSUME RoundInv, StartRound
    PROVE  /\ ServerOK' /\ RowsOK' /\ StatusOK' /\ ScanOK' /\ AnswerOK'
           /\ ReachedOK' /\ SettledOK' /\ CoveredOK'
<1>1. /\ UNCHANGED <<server, validity, uidnext, row, locked, status, scan>>
      /\ round.at = 0 /\ round'.at = 1 /\ round'.loaded = status
  BY DEF StartRound, remote, RoundInv, TypeOK, Round
<1>2. scan'["bg"].pc = "idle"
  BY <1>1 DEF RoundInv, ScanOK
<1>3. (ScanOK /\ AnswerOK /\ CoveredOK)'
  BY <1>2 DEF ScanOK, AnswerOK, CoveredOK
<1>4. ServerOK' /\ RowsOK'
  BY <1>1 DEF RoundInv, ServerOK, RowsOK
<1>5. StatusOK'
  BY <1>1, Constants DEF RoundInv, StatusOK
<1>6. ReachedOK'
  BY <1>1 DEF RoundInv, ReachedOK, On, Placed
<1>7. SettledOK'
  BY <1>1, Constants DEF SettledOK
<1> QED
  BY <1>3, <1>4, <1>5, <1>6, <1>7

\* The flip of the phase concerns no row.
LEMMA FlipStep ==
    ASSUME RoundInv, FlipPhase
    PROVE  /\ ServerOK' /\ RowsOK' /\ StatusOK' /\ ScanOK' /\ AnswerOK'
           /\ ReachedOK' /\ SettledOK' /\ CoveredOK'
<1>1. /\ UNCHANGED <<server, validity, uidnext, row, locked, status, scan, settled>>
      /\ round.at = Len(Order) + 1 /\ round'.at = Len(Order) + 2
      /\ round'.loaded = round.loaded
  BY Constants DEF FlipPhase, remote, history, RoundInv, TypeOK, Round
<1>2. scan'["bg"].pc = "idle"
  BY <1>1, Constants DEF RoundInv, ScanOK
<1>3. (ScanOK /\ AnswerOK /\ CoveredOK)'
  BY <1>2 DEF ScanOK, AnswerOK, CoveredOK
<1>4. ServerOK' /\ RowsOK'
  BY <1>1 DEF RoundInv, ServerOK, RowsOK
<1>5. StatusOK'
  BY <1>1, Constants DEF RoundInv, StatusOK
<1>6. ReachedOK'
  BY <1>1 DEF RoundInv, ReachedOK, On, Placed
<1>7. SettledOK'
  <2>1. \A i \in 1 .. Len(Order) : i < round.at
    BY <1>1, Constants
  <2> QED
    BY <1>1, <2>1 DEF RoundInv, SettledOK, On, Placed
<1> QED
  BY <1>3, <1>4, <1>5, <1>6, <1>7

\* What is deleted is unlinked, and so in no place.
LEMMA DeleteStep ==
    ASSUME RoundInv, DeleteUnlinked
    PROVE  /\ ServerOK' /\ RowsOK' /\ StatusOK' /\ ScanOK' /\ AnswerOK'
           /\ ReachedOK' /\ SettledOK' /\ CoveredOK'
<1>t. phase["bg"] \in {1, 2} /\ round \in Round
  BY Constants DEF RoundInv, TypeOK
<1>1. PICK gone \in SUBSET {m \in Message : row[m].uid = Unlinked(phase["bg"])} :
        /\ row' = [m \in Message |-> IF m \in gone THEN Nowhere ELSE row[m]]
        /\ locked' = locked \ gone
        /\ round' = IF Cardinality(gone) < DeleteChunk \/ round.left = 1
                    THEN [round EXCEPT !.at = 0, !.left = 0,
                                       !.iterations = Count(round.iterations)]
                    ELSE [round EXCEPT !.left = @ - 1]
  BY DEF DeleteUnlinked
<1>2. /\ UNCHANGED <<server, validity, uidnext, status, scan, settled>>
      /\ round.at = Len(Order) + 2
  BY DEF DeleteUnlinked, remote, history
<1>3. round'.at \in {0, round.at} /\ round'.loaded = round.loaded
  BY <1>1, <1>t DEF Round
<1>4. scan'["bg"].pc = "idle"
  BY <1>2, Constants DEF RoundInv, ScanOK
<1>5. (ScanOK /\ AnswerOK /\ CoveredOK)'
  BY <1>4 DEF ScanOK, AnswerOK, CoveredOK
<1>6. ServerOK' /\ RowsOK'
  <2>1. \A m \in gone : row'[m].folder \notin Folder
    BY <1>1, Constants DEF Nowhere
  <2>2. \A m \in Message \ gone : row'[m] = row[m]
    BY <1>1
  <2> QED
    BY <1>2, <2>1, <2>2 DEF RoundInv, ServerOK, RowsOK
<1>7. StatusOK'
  BY <1>1, <1>2, <1>3, Constants DEF RoundInv, StatusOK
<1>8. ASSUME NEW m \in Message, NEW f \in On(m), Placed(m, f) PROVE Placed(m, f)'
  <2>1. m \notin gone
    BY <1>1, <1>8, <1>t, PlacedIsLinked DEF RoundInv
  <2> QED
    BY <1>1, <1>2, <1>8, <2>1 DEF Placed
<1>9. ReachedOK'
  BY <1>2, <1>8 DEF RoundInv, ReachedOK, On
<1>10. SettledOK'
  <2>1. CASE round'.at = 0
    BY <2>1 DEF SettledOK
  <2>2. CASE round'.at = round.at
    <3>1. settled \subseteq Message
      BY DEF RoundInv, TypeOK
    <3> QED
      BY <1>2, <1>8, <2>2, <3>1 DEF RoundInv, SettledOK, On
  <2> QED
    BY <1>3, <2>1, <2>2
<1> QED
  BY <1>5, <1>6, <1>7, <1>9, <1>10

-----------------------------------------------------------------------------
(* The requests of a folder                                                *)

\* What BeginFolder plans, with the status that was loaded being the saved one
LEMMA BeginFields ==
    ASSUME PlainRounds, RoundInv, NEW kind \in {"none", "shallow", "deep"}, BeginFolder(kind)
    PROVE  LET f == Order[round.at]
               st == IF status[f].validity = 0
                     THEN [validity |-> validity[f], next |-> uidnext[f], min |-> uidnext[f]]
                     ELSE status[f]
               do == PlanFolder(f, kind, st)
               s == scan'["bg"]
           IN /\ round.at \in 1 .. Len(Order) /\ f \in Folder /\ st \in Status
              /\ UNCHANGED <<server, validity, uidnext, row, locked, status, settled, round>>
              /\ s.pc = "plan" /\ s.folder = f /\ s.init = status[f]
              /\ s.st = do.st /\ s.plan = do.plan
              /\ s.newer = {} /\ s.held = FALSE
<1>1. /\ "bg" \in Worker /\ scan \in [Worker -> Scan] /\ Len(Order) \in Nat
      /\ \A i \in 1..Len(Order) : Order[i] \in Folder
  BY Constants DEF RoundInv, TypeOK
<1>2. round.at \in 1 .. Len(Order)
  BY DEF BeginFolder, InFolder
<1> DEFINE f == Order[round.at]
<1>3. round.loaded[f] = status[f]
  BY <1>1, <1>2 DEF RoundInv, StatusOK
<1> DEFINE st == IF status[f].validity = 0
                 THEN [validity |-> validity[f], next |-> uidnext[f], min |-> uidnext[f]]
                 ELSE status[f]
           do == PlanFolder(f, kind, st)
<1>4. scan' = [scan EXCEPT !["bg"] =
                 [IdleScan EXCEPT !.pc = "plan", !.folder = f, !.init = status[f],
                                  !.st = do.st, !.plan = do.plan]]
  BY <1>3 DEF BeginFolder
<1>5. st \in Status
  BY <1>1, <1>2 DEF RoundInv, TypeOK, Status
<1> HIDE DEF do, st
<1>6. /\ scan'["bg"].pc = "plan" /\ scan'["bg"].folder = f /\ scan'["bg"].init = status[f]
      /\ scan'["bg"].st = do.st /\ scan'["bg"].plan = do.plan
      /\ scan'["bg"].newer = {} /\ scan'["bg"].held = FALSE
  BY <1>1, <1>4 DEF IdleScan
<1>7. UNCHANGED <<server, validity, uidnext, row, locked, status, settled, round>>
  BY DEF BeginFolder, remote, history
<1> QED
  BY <1>1, <1>2, <1>5, <1>6, <1>7 DEF st, do

\* What no request is due for was in its place when the folder was last done.
LEMMA BeginStep ==
    ASSUME PlainRounds, RoundInv, NEW kind \in {"none", "shallow", "deep"}, BeginFolder(kind)
    PROVE  ScanOK' /\ AnswerOK' /\ CoveredOK'
<1> DEFINE f == Order[round.at]
           st == IF status[f].validity = 0
                 THEN [validity |-> validity[f], next |-> uidnext[f], min |-> uidnext[f]]
                 ELSE status[f]
           do == PlanFolder(f, kind, st)
           s == scan'["bg"]
<1>1. /\ round.at \in 1 .. Len(Order) /\ f \in Folder /\ st \in Status
      /\ UNCHANGED <<server, validity, uidnext, row, locked, status, settled, round>>
      /\ s.pc = "plan" /\ s.folder = f /\ s.init = status[f]
      /\ s.st = do.st /\ s.plan = do.plan
      /\ s.newer = {} /\ s.held = FALSE
  BY BeginFields
<1>t. /\ uidnext[f] \in Nat /\ status[f] \in Status /\ validity[f] = 1
      /\ server \in [Message -> [Folder -> Nat]]
  BY <1>1 DEF RoundInv, TypeOK, ServerOK
<1> DEFINE size == IF round.loaded[f].validity = 0 THEN FirstChunk ELSE NextChunk
           chunkMin == IF st.min <= size \/ Cardinality(RemoteUids(f)) < size
                       THEN 1 ELSE st.min - size
           min == IF st.min > 1 THEN chunkMin ELSE st.min
           chunk == IF st.min > 1 THEN <<Headers(chunkMin, st.min)>> ELSE <<>>
           new == IF uidnext[f] > st.next THEN <<Headers(st.next, uidnext[f])>> ELSE <<>>
           look == CASE kind = "none" -> <<>>
                     [] kind = "shallow" -> <<Attributes(0, uidnext[f], AtLeast(st.next, 1))>>
                     [] kind = "deep" -> <<Attributes(min, MaxUID, 0)>>
           reach == IF kind = "none" THEN st.next ELSE uidnext[f]
<1>2. do.plan = chunk \o new \o look /\ do.st = [st EXCEPT !.min = min, !.next = reach]
  BY DEF PlanFolder
<1>3. /\ st.next \in Nat /\ st.min \in Nat /\ size \in Nat
      /\ chunkMin \in Nat /\ min \in Nat
  <2>1. st.next \in Nat /\ st.min \in Nat
    BY <1>1 DEF Status
  <2>2. size \in Nat
    BY FolderSyncAssumption
  <2> HIDE DEF size, st
  <2> QED
    BY <2>1, <2>2
<1>4. /\ st.validity = 1 /\ status[f].next <= st.next /\ st.next <= uidnext[f]
      /\ st.min = uidnext[f] \/ (st.min = status[f].min /\ st.next = status[f].next)
  BY <1>1, <1>t DEF RoundInv, StatusOK, Status
<1>5. /\ do.st.validity = 1 /\ do.st.min = min
      /\ status[f].next <= do.st.next /\ do.st.next <= uidnext[f]
  <2>1. /\ reach \in Nat /\ status[f].next \in Nat
        /\ status[f].next <= reach /\ reach <= uidnext[f]
    <3>1. status[f].next \in Nat
      BY <1>t DEF Status
    <3> HIDE DEF st
    <3> QED
      BY <1>3, <1>4, <1>t, <3>1
  <2>2. do.st = [st EXCEPT !.min = min, !.next = reach]
    BY <1>2
  <2> HIDE DEF st, min, do, reach
  <2>3. do.st.validity = st.validity /\ do.st.min = min /\ do.st.next = reach
    BY <1>1, <2>2 DEF Status
  <2> QED
    BY <1>4, <2>1, <2>3
<1>6. ScanOK'
  <2> HIDE DEF do
  <2> QED
    BY <1>1, <1>5 DEF ScanOK
<1>7. AnswerOK'
  BY <1>1 DEF AnswerOK
<1>8. /\ chunk \in Seq(UidRange) /\ new \in Seq(UidRange) /\ look \in Seq(UidRange)
  <2>1. \A r \in UidRange : <<r>> \in Seq(UidRange)
    OBVIOUS
  <2>2. <<>> \in Seq(UidRange)
    OBVIOUS
  <2>3. AtLeast(st.next, 1) \in Nat
    BY <1>3 DEF AtLeast
  <2> HIDE DEF min, chunkMin, st
  <2>4. chunk \in Seq(UidRange) /\ new \in Seq(UidRange)
    BY <1>3, <1>t, <2>1, <2>2, RangeTypes
  <2>5. look \in Seq(UidRange)
    BY <1>3, <1>t, <2>1, <2>2, <2>3, RangeTypes, Constants
  <2> QED
    BY <2>4, <2>5
<1>9. ASSUME NEW m \in Message, server[m][f] # 0, min <= server[m][f],
             ~Placed(m, f)
      PROVE  \E k \in DOMAIN do.plan : do.plan[k].below = 0 /\ Within(do.plan[k], server[m][f])
  <2> DEFINE u == server[m][f]
  <2>1. u \in Nat /\ u < uidnext[f] /\ u >= 1
    BY <1>1, <1>9, <1>t DEF RoundInv, ServerOK
  <2>2. CASE u < st.min
    <3>1. st.min > 1 /\ chunkMin <= u
      BY <1>3, <1>9, <2>1, <2>2
    <3> DEFINE r == Headers(chunkMin, st.min)
    <3>2. chunk = <<r>>
      BY <3>1
    <3>3. r.below = 0 /\ Within(r, u)
      <4> HIDE DEF chunkMin, st, u
      <4> QED
        BY <1>3, <2>1, <2>2, <3>1 DEF Headers, Within, AtLeast
    <3> HIDE DEF r, chunk, new, look, do
    <3>4. \E k \in DOMAIN do.plan : do.plan[k] = r
      <4> DEFINE p == chunk \o new \o look
      <4>1. do.plan = p
        BY <1>2
      <4>2. Len(p) = Len(chunk) + Len(new) + Len(look) /\ DOMAIN p = 1 .. Len(p)
        BY <1>8
      <4>3. 1 \in DOMAIN p /\ p[1] = r
        BY <1>8, <3>2, <4>2
      <4> HIDE DEF p
      <4> QED
        BY <4>1, <4>3
    <3> QED
      BY <3>3, <3>4
  <2>3. CASE st.min <= u /\ st.next <= u
    <3>1. uidnext[f] > st.next
      BY <1>3, <1>t, <2>1, <2>3
    <3> DEFINE r == Headers(st.next, uidnext[f])
    <3>2. new = <<r>>
      BY <3>1
    <3>3. r.below = 0 /\ Within(r, u)
      <4> HIDE DEF st, u
      <4> QED
        BY <1>3, <1>t, <2>1, <2>3, <3>1 DEF Headers, Within, AtLeast
    <3> HIDE DEF r, chunk, new, look, do
    <3>4. \E k \in DOMAIN do.plan : do.plan[k] = r
      <4> DEFINE p == chunk \o new \o look
      <4>1. do.plan = p
        BY <1>2
      <4>2. Len(p) = Len(chunk) + Len(new) + Len(look) /\ DOMAIN p = 1 .. Len(p)
        BY <1>8
      <4>3. Len(chunk) + 1 \in DOMAIN p /\ p[Len(chunk) + 1] = r
        BY <1>8, <3>2, <4>2
      <4> HIDE DEF p
      <4> QED
        BY <4>1, <4>3
    <3> QED
      BY <3>3, <3>4
  <2>4. CASE st.min <= u /\ u < st.next
    <3>1. st.min = status[f].min /\ st.next = status[f].next
      BY <1>3, <1>4, <1>t, <2>1, <2>4
    <3>2. f \in On(m)
      BY <1>1, <1>9 DEF On
    <3>3. Placed(m, f)
      BY <2>4, <3>1, <3>2 DEF RoundInv, ReachedOK
    <3> QED
      BY <1>9, <3>3
  <2>5. u < st.min \/ (st.min <= u /\ st.next <= u) \/ (st.min <= u /\ u < st.next)
    <3> HIDE DEF st, u
    <3> QED
      BY <1>3, <2>1
  <2> QED
    BY <2>2, <2>3, <2>4, <2>5
<1>10. CoveredOK'
  <2> HIDE DEF do, min, f
  <2> QED
    BY <1>1, <1>5, <1>9 DEF CoveredOK, Due, On, Placed
<1> QED
  BY <1>6, <1>7, <1>10

\* What is listed before the request is in its place, if it is on the server.
LEMMA ListStep ==
    ASSUME PlainRounds, RoundInv, ListLocal("bg")
    PROVE  ScanOK' /\ AnswerOK' /\ CoveredOK'
<1> DEFINE s == scan["bg"]
           f == s.folder
           range == NextRange("bg")
           listed == {u \in LocalUids(f) : Within(range, u)}
<1>t. /\ "bg" \in Worker /\ scan \in [Worker -> Scan] /\ s \in Scan
      /\ f \in Folder /\ s.plan \in Seq(UidRange) /\ s.plan # <<>>
      /\ s.pc = "plan" /\ TypeOK
  BY Constants DEF RoundInv, TypeOK, ListLocal, Scan
<1>1. /\ UNCHANGED <<server, validity, uidnext, row, locked, status, settled, round>>
      /\ scan' = [scan EXCEPT !["bg"] = [@ EXCEPT !.pc = "fetch", !.range = range,
                                                   !.plan = Tail(s.plan), !.local = listed]]
  BY DEF ListLocal, remote, history
<1> HIDE DEF range, listed
<1>2. /\ scan'["bg"].pc = "fetch" /\ scan'["bg"].folder = f /\ scan'["bg"].init = s.init
      /\ scan'["bg"].st = s.st /\ scan'["bg"].plan = Tail(s.plan)
      /\ scan'["bg"].range = range /\ scan'["bg"].local = listed
      /\ scan'["bg"].newer = s.newer /\ scan'["bg"].held = s.held
  BY <1>1, <1>t DEF Scan
<1>3. ASSUME NEW u \in listed
      PROVE  /\ Within(range, u)
             /\ u < uidnext[f] \/ u > MaxUID - 5
             /\ \A m \in Message : f \in On(m) /\ server[m][f] = u => Placed(m, f)
  <2>1. PICK n \in Message : row[n].folder = f /\ row[n].uid = u /\ Within(range, u)
    BY <1>3 DEF listed, LocalUids
  <2>2. row[n] \in Place /\ u \in Nat /\ MaxUID \in Nat
    BY <1>t, <2>1, Constants DEF TypeOK, Place
  <2>3. IsLinked(row[n]) => u < uidnext[f] /\ \A m \in Message \ {n} : server[m][f] # u
    BY <1>t, <2>1 DEF RoundInv, RowsOK
  <2>4. u < uidnext[f] \/ u > MaxUID - 5
    BY <2>1, <2>2, <2>3 DEF IsLinked
  <2>5. ASSUME NEW m \in Message, f \in On(m), server[m][f] = u PROVE Placed(m, f)
    <3>1. IsLinked(row[n])
      <4>1. u < uidnext[f] /\ uidnext[f] <= MaxNext /\ uidnext[f] \in Nat
        BY <1>t, <2>5 DEF RoundInv, ServerOK, TypeOK
      <4> QED
        BY <2>1, <2>2, <4>1, FolderSyncAssumption DEF IsLinked
    <3>2. n = m
      BY <2>3, <2>5, <3>1
    <3>3. row[n] = [folder |-> f, uid |-> u]
      BY <2>1, <2>2 DEF Place
    <3> QED
      BY <2>5, <3>2, <3>3 DEF Placed
  <2> QED
    BY <2>1, <2>4, <2>5
<1>4. ScanOK'
  BY <1>1, <1>2, <1>3, <1>t DEF RoundInv, ScanOK
<1>5. AnswerOK'
  BY <1>2 DEF AnswerOK
<1>6. ASSUME NEW m \in Message, f \in On(m), Due(m, server[m][f]), ~Placed(m, f)
      PROVE  Due(m, server[m][f])'
  <2> DEFINE u == server[m][f]
  <2>1. PICK k \in DOMAIN s.plan : s.plan[k].below = 0 /\ Within(s.plan[k], u)
    BY <1>6, <1>t DEF Due
  <2>2. k \in 1 .. Len(s.plan)
    BY <1>t
  <2>3. CASE k = 1
    <3>1. range = s.plan[1]
      BY <1>t, <2>1, <2>3 DEF range, NextRange
    <3>2. Within(range, u) /\ u \notin listed
      BY <1>3, <1>6, <2>1, <2>3, <3>1
    <3> QED
      BY <1>1, <1>2, <3>2 DEF Due
  <2>4. CASE k # 1
    <3>1. k - 1 \in DOMAIN Tail(s.plan) /\ Tail(s.plan)[k - 1] = s.plan[k]
      BY <1>t, <2>2, <2>4
    <3> QED
      BY <1>1, <1>2, <2>1, <3>1 DEF Due
  <2> QED
    BY <2>3, <2>4
<1>7. CoveredOK'
  BY <1>1, <1>2, <1>6, <1>t DEF RoundInv, CoveredOK, On, Placed
<1> QED
  BY <1>4, <1>5, <1>7

-----------------------------------------------------------------------------
(* The answers                                                             *)

\* A request of the one worker changes what its fields say.
LEMMA BgRequest ==
    ASSUME PlainRounds, TypeOK, NEW fields \in Scan, Request("bg", fields)
    PROVE  LET s == scan'["bg"] IN
           /\ s.newer = {} /\ s.pc = fields.pc /\ s.folder = fields.folder
           /\ s.init = fields.init /\ s.st = fields.st /\ s.plan = fields.plan
           /\ s.local = fields.local /\ s.need = fields.need /\ s.todo = fields.todo
           /\ s.gone = fields.gone /\ s.held = fields.held
<1>1. PICK later \in BOOLEAN :
        scan' = [v \in Worker |-> IF v = "bg"
                   THEN [fields EXCEPT !.newer = {}, !.later = later]
                   ELSE [scan[v] EXCEPT !.later = FALSE]]
  BY DEF Request
<1>2. scan'["bg"] = [fields EXCEPT !.newer = {}, !.later = later]
  BY <1>1, Constants
<1> QED
  BY <1>2 DEF Scan

\* An answer is right when it is given.
LEMMA AnswerRight ==
    ASSUME TypeOK, ServerOK, NEW f \in Folder, NEW uids, 0 \notin uids
    PROVE  /\ \A i \in Answer(f, uids) :
                /\ i.msg \in Message /\ i.uid \in uids /\ server[i.msg][f] = i.uid
                /\ 0 < i.uid /\ i.uid < uidnext[f]
                /\ \A j \in Answer(f, uids) : i.uid = j.uid => i = j
                /\ \A n \in Message \ {i.msg} : server[n][f] # i.uid
           /\ \A m \in Message : server[m][f] \in uids =>
                [msg |-> m, uid |-> server[m][f]] \in Answer(f, uids)
<1>1. ASSUME NEW i \in Answer(f, uids)
      PROVE  /\ i = [msg |-> i.msg, uid |-> i.uid]
             /\ i.msg \in Message /\ i.uid \in uids /\ server[i.msg][f] = i.uid
             /\ 0 < i.uid /\ i.uid < uidnext[f]
             /\ \A n \in Message \ {i.msg} : server[n][f] # i.uid
  <2>1. i = [msg |-> i.msg, uid |-> i.uid] /\ i.msg \in Message /\ i.uid \in uids
        /\ server[i.msg][f] = i.uid
    BY <1>1 DEF Answer
  <2>2. server[i.msg][f] \in Nat /\ i.uid # 0
    BY <2>1 DEF TypeOK
  <2> QED
    BY <2>1, <2>2 DEF ServerOK
<1>2. \A i, j \in Answer(f, uids) : i.uid = j.uid => i = j
  <2> SUFFICES ASSUME NEW i \in Answer(f, uids), NEW j \in Answer(f, uids), i.uid = j.uid
               PROVE  i = j
    OBVIOUS
  <2>1. i.msg = j.msg
    BY <1>1
  <2> QED
    BY <1>1, <2>1
<1>3. \A m \in Message : server[m][f] \in uids =>
        [msg |-> m, uid |-> server[m][f]] \in Answer(f, uids)
  BY DEF Answer
<1> QED
  BY <1>1, <1>2, <1>3

\* A light request is followed up whole.
LEMMA AllHighest ==
    ASSUME PlainRounds, TypeOK, NEW f \in Folder, NEW uids \in SUBSET RemoteUids(f)
    PROVE  Highest(uids) = uids
<1>1. IsFiniteSet(RemoteUids(f)) /\ Cardinality(RemoteUids(f)) <= Cardinality(Message)
  <2> DEFINE uid == [m \in Message |-> server[m][f]]
             all == {server[m][f] : m \in Message}
  <2>1. uid \in Surjection(Message, all)
    BY DEF Surjection
  <2>2. IsFiniteSet(all) /\ Cardinality(all) <= Cardinality(Message)
    <3> HIDE DEF uid, all
    <3> QED
      BY <2>1, FS_Surjection, FolderSyncAssumption
  <2>3. RemoteUids(f) \subseteq all
    BY DEF RemoteUids
  <2> HIDE DEF all
  <2>4. /\ IsFiniteSet(RemoteUids(f)) /\ Cardinality(RemoteUids(f)) <= Cardinality(all)
        /\ Cardinality(RemoteUids(f)) \in Nat /\ Cardinality(all) \in Nat
        /\ Cardinality(Message) \in Nat
    BY <2>2, <2>3, FS_Subset, FS_CardinalityType, FolderSyncAssumption
  <2> QED
    BY <2>2, <2>4
<1>2. Cardinality(RemoteUids(f)) \in Nat /\ Cardinality(Message) \in Nat /\ HeaderCap \in Nat
  BY <1>1, FS_CardinalityType, FolderSyncAssumption
<1>3. ASSUME NEW u \in uids PROVE Cardinality({v \in uids : v > u}) < HeaderCap
  <2> DEFINE above == {v \in uids : v > u}
  <2>0. u \in RemoteUids(f) /\ u \in Nat
    BY <1>3, RemoteUidsType
  <2>1. u \in RemoteUids(f) /\ ~(u > u)
    BY <2>0
  <2>2. above \subseteq RemoteUids(f) \ {u}
    BY <2>1
  <2>3. /\ IsFiniteSet(RemoteUids(f) \ {u})
        /\ Cardinality(RemoteUids(f) \ {u}) = Cardinality(RemoteUids(f)) - 1
    BY <1>1, <2>1, FS_RemoveElement
  <2> HIDE DEF above
  <2>4. Cardinality(above) <= Cardinality(RemoteUids(f)) - 1 /\ Cardinality(above) \in Nat
    BY <2>2, <2>3, FS_Subset, FS_CardinalityType
  <2>5. Cardinality(above) < HeaderCap
    BY <1>1, <1>2, <2>4 DEF PlainRounds
  <2> QED
    BY <2>5 DEF above
<1> QED
  BY <1>3 DEF Highest

\* What the answer mentions is to be written, or its headers asked for.
LEMMA FetchStep ==
    ASSUME PlainRounds, RoundInv, FetchRange("bg")
    PROVE  ScanOK' /\ AnswerOK' /\ CoveredOK'
<1> DEFINE s == scan["bg"]
           f == s.folder
           uids == {u \in RemoteUids(f) : Within(s.range, u)}
           new == uids \ s.local
           light == ~s.range.heavy /\ new # {}
           fields == [s EXCEPT !.pc = IF light THEN "headers" ELSE "apply",
                               !.gone = s.local \ uids, !.local = {},
                               !.need = IF light THEN Highest(new) ELSE {},
                               !.todo = IF light THEN {} ELSE Answer(f, new)]
<1>t. /\ "bg" \in Worker /\ scan \in [Worker -> Scan] /\ s \in Scan
      /\ f \in Folder /\ s.pc = "fetch" /\ TypeOK /\ ServerOK
  BY Constants DEF RoundInv, TypeOK, FetchRange, Scan
<1>1. /\ UNCHANGED <<server, validity, uidnext, row, locked, status, settled, round>>
      /\ Request("bg", fields)
  BY DEF FetchRange, remote, history
<1>2. new \in SUBSET RemoteUids(f) /\ 0 \notin new /\ new \in SUBSET Nat
  BY <1>t, RemoteUidsType DEF RemoteUids
<1>3. Highest(new) = new
  BY <1>2, <1>t, AllHighest
<1>4. Answer(f, new) \in SUBSET Item
  BY <1>2, <1>t, AnswerType
<1>5. /\ \A u \in s.local \ uids : u # 0 => \A m \in Message : server[m][f] # u
      /\ \A u \in s.local : u < uidnext[f] \/ u > MaxUID - 5
      /\ \A m \in Message : server[m][f] # 0 /\ Within(s.range, server[m][f])
                            /\ server[m][f] \notin s.local => server[m][f] \in new
  BY <1>t DEF RoundInv, ScanOK, RemoteUids
<1> DEFINE gone == s.local \ uids
<1>6. gone \in SUBSET Nat /\ light \in BOOLEAN
  BY <1>t DEF Scan
<1> HIDE DEF new, light, gone
<1>7. fields \in Scan
  BY <1>2, <1>3, <1>4, <1>6, <1>t DEF Scan, gone
<1>8. /\ fields.pc = IF light THEN "headers" ELSE "apply"
      /\ fields.gone = gone /\ fields.local = {}
      /\ fields.need = IF light THEN new ELSE {}
      /\ fields.todo = IF light THEN {} ELSE Answer(f, new)
      /\ fields.folder = f /\ fields.init = s.init /\ fields.st = s.st
      /\ fields.plan = s.plan /\ fields.held = s.held
  BY <1>3, <1>t DEF Scan, gone
<1> HIDE DEF fields
<1> DEFINE q == scan'["bg"]
<1>9. /\ q.newer = {} /\ q.pc = (IF light THEN "headers" ELSE "apply")
      /\ q.gone = gone /\ q.need = (IF light THEN new ELSE {})
      /\ q.todo = (IF light THEN {} ELSE Answer(f, new))
      /\ q.folder = f /\ q.init = s.init /\ q.st = s.st /\ q.plan = s.plan /\ q.held = s.held
  BY <1>1, <1>7, <1>8, <1>t, BgRequest
<1> HIDE DEF q
<1>10. ScanOK'
  <2>1. \A u \in gone : /\ u < uidnext[f] \/ u > MaxUID - 5
                        /\ u # 0 => \A m \in Message : server[m][f] # u
    BY <1>5 DEF gone
  <2>2. q.pc = "headers" => 0 \notin q.need
    BY <1>2, <1>9
  <2>3. /\ round.at \in 1 .. Len(Order) /\ f = Order[round.at]
        /\ s.init = status[f] /\ ~s.held /\ s.st.validity = 1
        /\ status[f].next <= s.st.next /\ s.st.next <= uidnext[f]
    BY <1>t DEF RoundInv, ScanOK
  <2> QED
    BY <1>1, <1>9, <2>1, <2>2, <2>3 DEF ScanOK, q
<1>11. AnswerOK'
  <2>1. CASE light
    BY <1>9, <2>1 DEF AnswerOK, q
  <2>2. CASE ~light
    <3>1. q.todo = Answer(f, new) /\ q.pc = "apply"
      BY <1>9, <2>2
    <3> QED
      BY <1>1, <1>2, <1>9, <1>t, <3>1, AnswerRight DEF AnswerOK, q
  <2> QED
    BY <2>1, <2>2
<1>12. ASSUME NEW m \in Message, f \in On(m), Due(m, server[m][f])
       PROVE  Due(m, server[m][f])'
  <2>0. server[m][f] # 0 /\ server'[m][f] = server[m][f]
    BY <1>1, <1>12 DEF On
  <2>1. CASE \E k \in DOMAIN s.plan : s.plan[k].below = 0 /\ Within(s.plan[k], server[m][f])
    BY <1>9, <2>0, <2>1 DEF Due, q
  <2>2. CASE Within(s.range, server[m][f]) /\ server[m][f] \notin s.local
    <3>1. server[m][f] \in new
      BY <1>5, <2>0, <2>2
    <3>2. CASE light
      BY <1>9, <2>0, <3>1, <3>2 DEF Due, q
    <3>3. CASE ~light
      <4>0. [msg |-> m, uid |-> server[m][f]] \in Answer(f, new)
        BY <1>2, <1>t, <3>1, AnswerRight
      <4>1. [msg |-> m, uid |-> server[m][f]] \in q.todo /\ q.pc = "apply"
        BY <1>9, <3>3, <4>0
      <4> QED
        BY <1>9, <2>0, <4>1 DEF Due, q
    <3> QED
      BY <3>2, <3>3
  <2> QED
    BY <1>12, <1>t, <2>1, <2>2 DEF Due
<1>13. CoveredOK'
  <2>1. q.pc # "idle" /\ s.pc # "idle"
    BY <1>9, <1>t
  <2> QED
    BY <1>1, <1>9, <1>12, <2>1 DEF RoundInv, CoveredOK, On, Placed, q
<1> QED
  BY <1>10, <1>11, <1>13

\* The headers answer for all UIDs that were asked for.
LEMMA HeadersStep ==
    ASSUME PlainRounds, RoundInv, FetchHeaders("bg")
    PROVE  ScanOK' /\ AnswerOK' /\ CoveredOK'
<1> DEFINE s == scan["bg"]
           f == s.folder
           fields == [s EXCEPT !.pc = "apply", !.need = {}, !.todo = Answer(f, s.need)]
           q == scan'["bg"]
<1>t. /\ "bg" \in Worker /\ scan \in [Worker -> Scan] /\ s \in Scan
      /\ f \in Folder /\ s.pc = "headers" /\ TypeOK /\ ServerOK
      /\ s.need \in SUBSET Nat
  BY Constants DEF RoundInv, TypeOK, FetchHeaders, Scan
<1>1. /\ UNCHANGED <<server, validity, uidnext, row, locked, status, settled, round>>
      /\ Request("bg", fields)
  BY DEF FetchHeaders, remote, history
<1>2. 0 \notin s.need
  BY <1>t DEF RoundInv, ScanOK
<1>3. Answer(f, s.need) \in SUBSET Item
  BY <1>t, AnswerType
<1>4. /\ fields \in Scan /\ fields.pc = "apply" /\ fields.todo = Answer(f, s.need)
      /\ fields.folder = f /\ fields.init = s.init /\ fields.st = s.st
      /\ fields.plan = s.plan /\ fields.held = s.held /\ fields.gone = s.gone
  BY <1>3, <1>t DEF Scan
<1> HIDE DEF fields
<1>5. /\ q.newer = {} /\ q.pc = "apply" /\ q.todo = Answer(f, s.need)
      /\ q.folder = f /\ q.init = s.init /\ q.st = s.st /\ q.plan = s.plan /\ q.held = s.held
      /\ q.gone = s.gone
  BY <1>1, <1>4, <1>t, BgRequest
<1> HIDE DEF q
<1>6. ScanOK'
  BY <1>1, <1>5, <1>t DEF RoundInv, ScanOK, q
<1>7. AnswerOK'
  BY <1>1, <1>2, <1>5, <1>t, AnswerRight DEF AnswerOK, q
<1>8. ASSUME NEW m \in Message, f \in On(m), Due(m, server[m][f])
      PROVE  Due(m, server[m][f])'
  <2>0. server'[m][f] = server[m][f]
    BY <1>1
  <2>1. CASE \E k \in DOMAIN s.plan : s.plan[k].below = 0 /\ Within(s.plan[k], server[m][f])
    BY <1>5, <2>0, <2>1 DEF Due, q
  <2>2. CASE server[m][f] \in s.need
    <3>1. [msg |-> m, uid |-> server[m][f]] \in q.todo
      BY <1>2, <1>5, <1>t, <2>2, AnswerRight
    <3> QED
      BY <1>5, <2>0, <3>1 DEF Due, q
  <2> QED
    BY <1>8, <1>t, <2>1, <2>2 DEF Due
<1>9. CoveredOK'
  BY <1>1, <1>5, <1>8, <1>t DEF RoundInv, CoveredOK, On, Placed, q
<1> QED
  BY <1>6, <1>7, <1>9

-----------------------------------------------------------------------------
(* The rows                                                                *)

\* The copy of a row is the row, as long as nobody else writes.
LEMMA FindStep ==
    ASSUME PlainRounds, RoundInv, NEW i \in Item, FindLocal("bg", i)
    PROVE  ScanOK' /\ AnswerOK' /\ CoveredOK'
<1> DEFINE s == scan["bg"]
           f == s.folder
           q == scan'["bg"]
<1>t. /\ "bg" \in Worker /\ scan \in [Worker -> Scan] /\ s \in Scan
      /\ f \in Folder /\ s.pc = "apply" /\ TypeOK
      /\ i \in s.todo /\ \A j \in s.todo : j.uid <= i.uid /\ j.uid \in Nat
      /\ i.uid \in Nat /\ row[i.msg] # Nowhere
  BY Constants DEF RoundInv, TypeOK, FindLocal, IsNext, Scan, Item
<1>0. locked = {} /\ s.newer = {}
  BY <1>t DEF RoundInv, StatusOK, ScanOK
<1>1. /\ UNCHANGED <<server, validity, uidnext, row, locked, status, settled, round>>
      /\ q.pc = "found" /\ q.copy = row[i.msg] /\ ~q.held
      /\ q.folder = f /\ q.init = s.init /\ q.st = s.st /\ q.plan = s.plan
      /\ q.newer = s.newer /\ q.gone = s.gone /\ q.todo = s.todo
  BY <1>t, <1>0 DEF FindLocal, remote, history, Scan
<1> HIDE DEF q
<1>2. ScanOK'
  BY <1>1, <1>t DEF RoundInv, ScanOK, q
<1>3. AnswerOK'
  <2>1. \A j \in s.todo : IsNext("bg", j)' => j = i
    <3> SUFFICES ASSUME NEW j \in s.todo, IsNext("bg", j)' PROVE j = i
      OBVIOUS
    <3>1. i.uid <= j.uid
      BY <1>1, <1>t DEF IsNext, q
    <3>2. i.uid = j.uid
      BY <1>t, <3>1
    <3> QED
      BY <1>t, <3>2 DEF RoundInv, AnswerOK
  <2> QED
    BY <1>1, <1>t, <2>1 DEF RoundInv, AnswerOK, On, q
<1>4. \A m \in Message : Due(m, server[m][f]) => Due(m, server[m][f])'
  BY <1>1, <1>t DEF Due, q
<1>5. CoveredOK'
  BY <1>1, <1>4, <1>t DEF RoundInv, CoveredOK, On, Placed, q
<1> QED
  BY <1>2, <1>3, <1>5

\* The answer is applied: the row of its message is in the place it says.
Written(i) ==
    LET s == scan["bg"] q == scan'["bg"] IN
    /\ s.pc \in {"apply", "found"} /\ i \in s.todo
    /\ UNCHANGED <<server, validity, uidnext, status, settled, round>> /\ locked' = {}
    /\ row'[i.msg] = [folder |-> s.folder, uid |-> i.uid]
    /\ \A m \in Message \ {i.msg} : row'[m] = row[m]
    /\ q.pc = "apply" /\ q.todo = s.todo \ {i} /\ ~q.held
    /\ q.folder = s.folder /\ q.init = s.init /\ q.st = s.st /\ q.plan = s.plan
    /\ q.newer = s.newer /\ q.gone = s.gone

\* What the worker has left to do after one message
LEMMA AppliedFields ==
    ASSUME PlainRounds, TypeOK, NEW i, NEW written, Applied("bg", i, written)
    PROVE  LET s == scan["bg"] q == scan'["bg"] IN
           /\ q.pc = "apply" /\ q.todo = s.todo \ {i} /\ ~q.held
           /\ q.folder = s.folder /\ q.init = s.init /\ q.st = s.st /\ q.plan = s.plan
           /\ q.newer = s.newer /\ q.gone = s.gone
<1>1. scan'["bg"] = [scan["bg"] EXCEPT !.pc = "apply", !.todo = @ \ {i},
                                       !.copy = Nowhere, !.held = FALSE]
  BY Constants DEF Applied
<1>2. scan["bg"] \in Scan
  BY Constants DEF TypeOK
<1> QED
  BY <1>1, <1>2 DEF Scan

\* Inserted, updated or left alone: the row is what the answer says.
LEMMA WritesAnswer ==
    ASSUME PlainRounds, RoundInv, NEW i \in Item,
           InsertMessage("bg", i) \/ UpdateIgnored("bg", i) \/ UpdateMessage("bg", i)
    PROVE  Written(i)
<1> DEFINE s == scan["bg"]
<1>t. TypeOK /\ row \in [Message -> Place] /\ i.msg \in Message
  BY DEF RoundInv, TypeOK, Item
<1>1. locked = {}
  BY DEF RoundInv, StatusOK
<1>2. CASE InsertMessage("bg", i)
  <2>1. Applied("bg", i, {i.msg})
    BY <1>2 DEF InsertMessage
  <2>2. /\ s.pc = "apply" /\ i \in s.todo
        /\ UNCHANGED <<server, validity, uidnext, locked, status, settled, round>>
        /\ row' = [row EXCEPT ![i.msg] = [folder |-> s.folder, uid |-> i.uid]]
    BY <1>2 DEF InsertMessage, IsNext, remote, history
  <2> QED
    BY <1>1, <1>t, <2>1, <2>2, AppliedFields DEF Written
<1>3. CASE UpdateIgnored("bg", i)
  <2>1. Applied("bg", i, {})
    BY <1>3 DEF UpdateIgnored
  <2>2. /\ s.pc = "found" /\ i \in s.todo /\ IsNext("bg", i)
        /\ UNCHANGED <<server, validity, uidnext, row, locked, status, settled, round>>
        /\ s.held \/ s.copy = [folder |-> s.folder, uid |-> i.uid]
    BY <1>3 DEF UpdateIgnored, IsNext, remote, history
  <2>3. ~s.held
    BY <2>2 DEF RoundInv, ScanOK
  <2>4. s.copy = row[i.msg]
    BY <2>2 DEF RoundInv, AnswerOK
  <2>5. row'[i.msg] = [folder |-> s.folder, uid |-> i.uid]
    BY <2>2, <2>3, <2>4
  <2> QED
    BY <1>1, <1>t, <2>1, <2>2, <2>5, AppliedFields DEF Written
<1>4. CASE UpdateMessage("bg", i)
  <2>1. s.pc = "found" /\ i \in s.todo /\ IsNext("bg", i)
    BY <1>4 DEF UpdateMessage, IsNext
  <2>2. row[i.msg] # Nowhere
    BY <2>1 DEF RoundInv, AnswerOK
  <2>3. /\ Applied("bg", i, {i.msg}) /\ locked' = locked \ {i.msg}
        /\ UNCHANGED <<server, validity, uidnext, status, settled, round>>
        /\ row' = [row EXCEPT ![i.msg] = [folder |-> s.folder, uid |-> i.uid]]
    BY <1>4, <2>2 DEF UpdateMessage, remote
  <2> QED
    BY <1>1, <1>t, <2>1, <2>3, AppliedFields DEF Written
<1> QED
  BY <1>2, <1>3, <1>4

\* An answer that is not of now moves a message that no status has reached.
LEMMA WrittenStep ==
    ASSUME RoundInv, NEW i \in Item, Written(i)
    PROVE  /\ ServerOK' /\ RowsOK' /\ StatusOK' /\ ScanOK' /\ AnswerOK'
           /\ ReachedOK' /\ SettledOK' /\ CoveredOK'
<1> DEFINE s == scan["bg"]
           f == s.folder
           q == scan'["bg"]
           k == i.msg
<1>t. /\ s \in Scan /\ f \in Folder /\ k \in Message /\ i.uid \in Nat /\ TypeOK
      /\ i = [msg |-> k, uid |-> i.uid] /\ settled \subseteq Message
      /\ server \in [Message -> [Folder -> Nat]]
      /\ status \in [Folder -> Status]
  BY Constants DEF RoundInv, TypeOK, Scan, Item
<1>1. /\ s.pc \in {"apply", "found"} /\ i \in s.todo
      /\ UNCHANGED <<server, validity, uidnext, status, settled, round>> /\ locked' = {}
      /\ row'[k] = [folder |-> f, uid |-> i.uid]
      /\ \A m \in Message \ {k} : row'[m] = row[m]
      /\ q.pc = "apply" /\ q.todo = s.todo \ {i} /\ ~q.held
      /\ q.folder = f /\ q.init = s.init /\ q.st = s.st /\ q.plan = s.plan
      /\ q.newer = s.newer /\ q.gone = s.gone
  BY DEF Written
<1> HIDE DEF q
<1>2. /\ 0 < i.uid /\ i.uid < uidnext[f]
      /\ \A n \in Message \ {k} : server[n][f] # i.uid
      /\ \/ server[k][f] = i.uid
         \/ /\ k \notin settled
            /\ \A g \in On(k) : /\ status[g].next <= server[k][g]
                                /\ g = f => s.st.next <= server[k][g]
  BY <1>1 DEF RoundInv, AnswerOK
<1>3. \A m \in Message : On(m)' = On(m)
  BY <1>1 DEF On
<1>4. \A m \in Message \ {k}, g \in Folder : Placed(m, g) => Placed(m, g)'
  BY <1>1 DEF Placed
<1>5. ASSUME server[k][f] = i.uid, NEW g \in On(k) PROVE g = f /\ Placed(k, g)'
  <2>1. f \in On(k)
    BY <1>2, <1>5, <1>t DEF On
  <2>2. g = f
    BY <1>5, <1>t, <2>1 DEF RoundInv, ServerOK, On
  <2> QED
    BY <1>1, <1>5, <2>2 DEF Placed
<1>6. ServerOK'
  BY <1>1 DEF RoundInv, ServerOK
<1>7. RowsOK'
  <2>1. /\ row'[k].folder = f /\ row'[k].uid = i.uid
    BY <1>1
  <2>2. ASSUME NEW m \in Message, row'[m].folder \in Folder, IsLinked(row'[m])
        PROVE  /\ 0 < row'[m].uid /\ row'[m].uid < uidnext[row'[m].folder]
               /\ \A n \in Message \ {m} : server[n][row'[m].folder] # row'[m].uid
    <3>1. CASE m = k
      BY <1>2, <2>1, <3>1
    <3>2. CASE m # k
      BY <1>1, <2>2, <3>2 DEF RoundInv, RowsOK
    <3> QED
      BY <3>1, <3>2
  <2> QED
    BY <1>1, <2>2 DEF RowsOK
<1>8. StatusOK'
  BY <1>1 DEF RoundInv, StatusOK
<1>9. ScanOK'
  BY <1>1 DEF RoundInv, ScanOK, q
<1>10. AnswerOK'
  BY <1>1, <1>3 DEF RoundInv, AnswerOK, q, On
<1>11. ReachedOK'
  <2>1. ASSUME NEW m \in Message, NEW g \in On(m), status[g].min <= server[m][g],
               server[m][g] < status[g].next
        PROVE  Placed(m, g)'
    <3>0. g \in Folder /\ server[m][g] \in Nat /\ status[g].next \in Nat
      BY <1>t DEF On, Status
    <3>1. CASE m # k
      BY <1>4, <2>1, <3>0, <3>1 DEF RoundInv, ReachedOK
    <3>2. CASE m = k
      <4>1. ~(status[g].next <= server[k][g])
        BY <2>1, <3>0, <3>2
      <4>2. server[k][f] = i.uid
        BY <1>2, <3>2, <4>1
      <4> QED
        BY <1>5, <3>2, <4>2
    <3> QED
      BY <3>1, <3>2
  <2> QED
    BY <1>1, <1>3, <2>1 DEF ReachedOK
<1>12. SettledOK'
  <2>1. ASSUME NEW m \in settled, NEW g \in On(m), Placed(m, g) PROVE Placed(m, g)'
    <3>1. CASE m # k
      BY <1>4, <1>t, <2>1, <3>1 DEF On
    <3>2. CASE m = k
      BY <1>2, <1>5, <2>1, <3>2
    <3> QED
      BY <3>1, <3>2
  <2> QED
    BY <1>1, <1>3, <1>t, <2>1 DEF RoundInv, SettledOK
<1>13. CoveredOK'
  <2>1. ASSUME NEW m \in Message, f \in On(m), s.st.min <= server[m][f],
               m \in settled \/ server[m][f] < s.st.next,
               ~Due(m, server[m][f])'
        PROVE  Placed(m, f)'
    <3>0. server[m][f] \in Nat /\ s.st.next \in Nat
      BY <1>t DEF Scan, Status
    <3>1. CASE m # k
      <4>1. [msg |-> m, uid |-> server[m][f]] # i
        BY <1>t, <3>1
      <4>2. ~Due(m, server[m][f])
        BY <1>1, <2>1, <4>1 DEF Due, q
      <4>3. s.pc # "idle"
        BY <1>1
      <4>4. Placed(m, f)
        BY <2>1, <4>2, <4>3 DEF RoundInv, CoveredOK
      <4>5. row[m] = row'[m] /\ server' = server /\ q.folder = f
        BY <1>1, <3>1
      <4> QED
        BY <4>4, <4>5 DEF Placed, q
    <3>2. CASE m = k
      <4>1. m \in settled \/ ~(s.st.next <= server[m][f])
        BY <2>1, <3>0
      <4>2. server[k][f] = i.uid
        BY <1>2, <2>1, <3>2, <4>1
      <4>3. row'[m] = [folder |-> f, uid |-> server[m][f]] /\ server' = server /\ q.folder = f
        BY <1>1, <3>2, <4>2
      <4> QED
        BY <4>3 DEF Placed, q
    <3> QED
      BY <3>1, <3>2
  <2> QED
    BY <1>1, <1>3, <2>1 DEF CoveredOK, q
<1> QED
  BY <1>6, <1>7, <1>8, <1>9, <1>10, <1>11, <1>12, <1>13

\* What is not on the server is unlinked, and no message in its place is.
LEMMA GoneStep ==
    ASSUME PlainRounds, RoundInv, UnlinkGone("bg")
    PROVE  /\ ServerOK' /\ RowsOK' /\ StatusOK' /\ ScanOK' /\ AnswerOK'
           /\ ReachedOK' /\ SettledOK' /\ CoveredOK'
<1> DEFINE s == scan["bg"]
           f == s.folder
           q == scan'["bg"]
           hit == {m \in Message : /\ row[m].folder = f
                                   /\ row[m].uid \in s.gone /\ IsLinked(row[m])}
<1>t. /\ "bg" \in Worker /\ s \in Scan /\ scan \in [Worker -> Scan] /\ f \in Folder /\ TypeOK
      /\ s.pc = "apply" /\ s.todo = {}
      /\ settled \subseteq Message /\ row \in [Message -> Place]
      /\ phase["bg"] \in {1, 2} /\ ServerOK
  BY Constants DEF RoundInv, TypeOK, Scan, UnlinkGone
<1>1. /\ UNCHANGED <<server, validity, uidnext, status, settled, round, locked>>
      /\ row' = [m \in Message |-> IF m \in hit
                   THEN [row[m] EXCEPT !.uid = Unlinked(phase["bg"])] ELSE row[m]]
      /\ scan' = [scan EXCEPT !["bg"] = [@ EXCEPT !.pc = "plan", !.gone = {},
                                                   !.range = NoRange, !.later = FALSE]]
  BY DEF UnlinkGone, Unlink, remote
<1>2. /\ q.pc = "plan" /\ q.folder = f /\ q.init = s.init /\ q.st = s.st
      /\ q.plan = s.plan /\ q.newer = s.newer /\ q.held = s.held
  BY <1>1, <1>t DEF Scan
<1> HIDE DEF q
<1>3. \A m \in Message \ hit : row'[m] = row[m]
  BY <1>1
<1>4. \A m \in hit : row'[m].uid = Unlinked(phase["bg"])
  BY <1>1, <1>t DEF Place
<1>5. ASSUME NEW m \in Message, NEW g \in On(m), Placed(m, g) PROVE Placed(m, g)'
  <2>1. row[m].folder = g /\ row[m].uid = server[m][g] /\ g \in Folder /\ server[m][g] # 0
    BY <1>5 DEF Placed, On
  <2>2. m \notin hit
    BY <1>t, <2>1 DEF RoundInv, ScanOK
  <2> QED
    BY <1>1, <1>3, <1>5, <2>2 DEF Placed
<1> HIDE DEF hit
<1>6. ServerOK' /\ StatusOK' /\ AnswerOK'
  BY <1>1, <1>2 DEF RoundInv, ServerOK, StatusOK, AnswerOK, q
<1>7. RowsOK'
  <2>1. \A m \in hit : ~IsLinked(row'[m])
    BY <1>4, <1>t, Constants DEF IsLinked
  <2> QED
    BY <1>1, <1>3, <2>1 DEF RoundInv, RowsOK
<1>8. ScanOK'
  BY <1>1, <1>2, <1>t DEF RoundInv, ScanOK, q
<1>9. \A m \in Message : On(m)' = On(m)
  BY <1>1 DEF On
<1>10. ReachedOK'
  BY <1>1, <1>5, <1>9 DEF RoundInv, ReachedOK
<1>11. SettledOK'
  BY <1>1, <1>5, <1>9, <1>t DEF RoundInv, SettledOK
<1>12. CoveredOK'
  <2>1. \A m \in Message : Due(m, server[m][f]) => Due(m, server[m][f])'
    BY <1>1, <1>2, <1>t DEF Due, q
  <2> QED
    BY <1>1, <1>2, <1>5, <1>9, <1>t, <2>1 DEF RoundInv, CoveredOK, q
<1> QED
  BY <1>6, <1>7, <1>8, <1>10, <1>11, <1>12

\* The status that is saved is that of the scan, which leaves nothing due.
LEMMA SaveStep ==
    ASSUME PlainRounds, RoundInv, SaveStatus("bg")
    PROVE  /\ ServerOK' /\ RowsOK' /\ StatusOK' /\ ScanOK' /\ AnswerOK'
           /\ ReachedOK' /\ SettledOK' /\ CoveredOK'
<1> DEFINE s == scan["bg"]
           f == s.folder
<1>t. /\ "bg" \in Worker /\ s \in Scan /\ scan \in [Worker -> Scan] /\ f \in Folder /\ TypeOK
      /\ s.pc = "plan" /\ s.plan = <<>> /\ s.st \in Status
      /\ settled \subseteq Message /\ status \in [Folder -> Status] /\ round \in Round
      /\ uidnext[f] \in Nat
  BY Constants DEF RoundInv, TypeOK, Scan, SaveStatus
<1>1. /\ round.at \in 1 .. Len(Order) /\ f = Order[round.at] /\ s.init = status[f]
      /\ s.st.validity = 1 /\ s.st.next <= uidnext[f]
  BY <1>t DEF RoundInv, ScanOK
<1>2. Merged(status[f], s.init, s.st) = s.st
  BY <1>1, <1>t DEF Merged, Status
<1>3. /\ UNCHANGED <<server, validity, uidnext, row, locked, settled>>
      /\ status' = [status EXCEPT ![f] = s.st]
      /\ round' = [round EXCEPT !.at = @ + 1]
      /\ scan' = [scan EXCEPT !["bg"] = IdleScan]
  BY <1>2 DEF SaveStatus, remote, history
<1>4. /\ status'[f] = s.st /\ \A g \in Folder \ {f} : status'[g] = status[g]
      /\ round'.at = round.at + 1 /\ round'.loaded = round.loaded
      /\ scan'["bg"].pc = "idle"
  BY <1>3, <1>t DEF Round, IdleScan
<1>5. (ScanOK /\ AnswerOK /\ CoveredOK)'
  BY <1>4 DEF ScanOK, AnswerOK, CoveredOK
<1>6. ServerOK' /\ RowsOK'
  BY <1>3 DEF RoundInv, ServerOK, RowsOK
<1>7. \A i \in 1 .. Len(Order) : Order[i] = f => i = round.at
  BY <1>1, Constants, FolderSyncAssumption
<1>8. /\ \A i \in 1 .. Len(Order) : Order[i] \in Folder
      /\ Len(Order) \in Nat
  BY Constants
<1>9. StatusOK'
  <2>1. \A g \in Folder : /\ status'[g].validity \in {0, 1}
                          /\ status'[g].validity = 0 => status'[g].next = 0
                          /\ status'[g].next <= uidnext'[g]
    BY <1>1, <1>3, <1>4 DEF RoundInv, StatusOK
  <2>2. round'.at \in 0 .. (Len(Order) + 2) /\ round.at \in Nat
    BY <1>1, <1>4, <1>8
  <2>3. ASSUME NEW i \in 1 .. Len(Order), round'.at <= i
        PROVE  round'.loaded[Order[i]] = status'[Order[i]]
    <3>1. round.at # 0 /\ round.at <= i /\ i # round.at
      BY <1>1, <1>4, <2>2, <2>3
    <3>2. Order[i] # f /\ Order[i] \in Folder
      BY <1>7, <1>8, <3>1
    <3> QED
      BY <1>4, <3>1, <3>2 DEF RoundInv, StatusOK
  <2> QED
    BY <1>3, <2>1, <2>2, <2>3 DEF RoundInv, StatusOK
<1>10. ASSUME NEW m \in Message, f \in On(m), s.st.min <= server[m][f],
              m \in settled \/ server[m][f] < s.st.next
       PROVE  Placed(m, f)
  <2>1. ~Due(m, server[m][f])
    BY <1>t DEF Due
  <2> QED
    BY <1>10, <1>t, <2>1 DEF RoundInv, CoveredOK
<1>11. \A m \in Message : On(m)' = On(m) /\ \A g \in On(m) : Placed(m, g)' <=> Placed(m, g)
  BY <1>3 DEF On, Placed
<1>12. ReachedOK'
  <2>1. ASSUME NEW m \in Message, NEW g \in On(m), status'[g].min <= server[m][g],
               server[m][g] < status'[g].next
        PROVE  Placed(m, g)
    <3>0. g \in Folder
      BY DEF On
    <3>1. CASE g = f
      BY <1>4, <1>10, <2>1, <3>1
    <3>2. CASE g # f
      BY <1>4, <2>1, <3>0, <3>2 DEF RoundInv, ReachedOK
    <3> QED
      BY <3>1, <3>2
  <2> QED
    BY <1>3, <1>11, <2>1 DEF ReachedOK
<1>13. SettledOK'
  <2>1. ASSUME NEW m \in settled, NEW i \in 1 .. Len(Order), Order[i] \in On(m),
               i < round'.at, status'[Order[i]].min <= server[m][Order[i]]
        PROVE  Placed(m, Order[i])
    <3>1. CASE i = round.at
      BY <1>1, <1>4, <1>10, <1>t, <2>1, <3>1
    <3>2. CASE i # round.at
      <4>1. i < round.at
        BY <1>1, <1>4, <1>8, <2>1, <3>2
      <4>2. Order[i] # f /\ Order[i] \in Folder
        BY <1>7, <1>8, <3>2
      <4> QED
        BY <1>4, <2>1, <4>1, <4>2 DEF RoundInv, SettledOK
    <3> QED
      BY <3>1, <3>2
  <2> QED
    BY <1>3, <1>11, <1>t, <2>1 DEF SettledOK
<1> QED
  BY <1>5, <1>6, <1>9, <1>12, <1>13

-----------------------------------------------------------------------------
(* Other clients                                                           *)

\* m has left every place it had, and has got at most one, with a new UID.
Moved(m) ==
    /\ UNCHANGED <<validity, row, locked, status, round, scan>>
    /\ settled' = settled \ {m}
    /\ \A n \in Message \ {m} : server'[n] = server[n]
    /\ \A f \in Folder : uidnext[f] <= uidnext'[f] /\ uidnext'[f] <= MaxNext
    /\ \A f \in Folder : server'[m][f] # 0 =>
         server'[m][f] = uidnext[f] /\ uidnext[f] < uidnext'[f]
    /\ \A f, g \in Folder : server'[m][f] # 0 /\ server'[m][g] # 0 => f = g

\* All deeds of other clients with a message are one: it leaves where it was.
LEMMA PutMoves ==
    ASSUME TypeOK, ServerOK, NEW m \in Message, NEW to, NEW from, Put(m, to, from),
           On(m) \subseteq from \cup to, \A f, g \in to : f = g
    PROVE  Moved(m)
<1>t. /\ server \in [Message -> [Folder -> Nat]] /\ uidnext \in [Folder -> Nat]
      /\ MaxNext \in Nat
  BY Constants DEF TypeOK
<1>1. /\ UNCHANGED <<validity, row, locked, status, round, scan>>
      /\ settled' = settled \ {m}
      /\ \A n \in Message \ {m} : server'[n] = server[n]
      /\ \A f \in Folder : uidnext'[f] = IF f \in to THEN uidnext[f] + 1 ELSE uidnext[f]
      /\ \A f \in to : uidnext[f] < MaxNext
  BY <1>t DEF Put
<1>2. \A f \in Folder : server'[m][f] = IF f \in to THEN uidnext[f]
                                        ELSE IF f \in from THEN 0 ELSE server[m][f]
  BY <1>t DEF Put
<1>3. \A f \in Folder : server'[m][f] # 0 => f \in to
  BY <1>2 DEF On
<1>4. \A f \in Folder : uidnext[f] <= uidnext'[f] /\ uidnext'[f] <= MaxNext
  BY <1>1, <1>t DEF ServerOK
<1>5. \A f \in Folder : server'[m][f] # 0 =>
        server'[m][f] = uidnext[f] /\ uidnext[f] < uidnext'[f]
  BY <1>1, <1>2, <1>3, <1>t
<1> QED
  BY <1>1, <1>3, <1>4, <1>5 DEF Moved

\* With one place for each message and no new UIDVALIDITY, there are no others.
LEMMA ClientMoves ==
    ASSUME PlainRounds, TypeOK, ServerOK, ClientStep
    PROVE  \E m \in Message : Moved(m)
<1>1. ~\E f \in Folder : Renumber(f)
  BY DEF Renumber, PlainRounds
<1>2. \A m \in Message : ~Copy(m)
  BY DEF Copy, PlainRounds
<1>3. ASSUME NEW m \in Message, Deliver(m) PROVE Moved(m)
  BY <1>3, PutMoves DEF Deliver
<1>4. ASSUME NEW m \in Message, NEW f \in On(m) PROVE On(m) \subseteq {f}
  BY DEF ServerOK, On
<1>5. ASSUME NEW m \in Message, Move(m) PROVE Moved(m)
  <2>1. PICK f \in On(m), g \in Folder \ On(m) : Put(m, {g}, {f})
    BY <1>5 DEF Move
  <2> QED
    BY <1>4, <2>1, PutMoves
<1>6. ASSUME NEW m \in Message, Expunge(m) PROVE Moved(m)
  <2>1. PICK f \in On(m) : Put(m, {}, {f})
    BY <1>6 DEF Expunge
  <2> QED
    BY <1>4, <2>1, PutMoves
<1> QED
  BY <1>1, <1>2, <1>3, <1>5, <1>6 DEF ClientStep

\* A message that moves is no longer settled, and gets a UID no status has reached.
LEMMA MovedStep ==
    ASSUME RoundInv, TypeOK', NEW m \in Message, Moved(m)
    PROVE  /\ ServerOK' /\ RowsOK' /\ StatusOK' /\ ScanOK' /\ AnswerOK'
           /\ ReachedOK' /\ SettledOK' /\ CoveredOK'
<1> DEFINE s == scan["bg"]
           f == s.folder
<1>t. /\ s \in Scan /\ f \in Folder /\ TypeOK /\ settled \subseteq Message
      /\ status \in [Folder -> Status] /\ s.st \in Status
      /\ MaxNext \in Nat /\ MaxUID \in Nat /\ MaxNext < MaxUID - 5
      /\ \A i \in s.todo : i.msg \in Message /\ i.uid \in Nat
      /\ s.gone \subseteq Nat /\ s.local \subseteq Nat
  <2>1. TypeOK /\ "bg" \in Worker
    BY Constants DEF RoundInv
  <2>2. /\ s \in Scan /\ settled \subseteq Message /\ status \in [Folder -> Status]
    BY <2>1 DEF TypeOK
  <2>3. /\ f \in Folder /\ s.st \in Status /\ s.todo \subseteq Item
        /\ s.gone \subseteq Nat /\ s.local \subseteq Nat
    BY <2>2 DEF Scan
  <2>4. \A i \in s.todo : i.msg \in Message /\ i.uid \in Nat
    BY <2>3 DEF Item
  <2>5. MaxNext \in Nat /\ MaxUID \in Nat /\ MaxNext < MaxUID - 5
    BY FolderSyncAssumption
  <2> QED
    BY <2>1, <2>2, <2>3, <2>4, <2>5
<1>n. \A g \in Folder : /\ uidnext[g] \in Nat /\ uidnext'[g] \in Nat
                         /\ status[g].next \in Nat /\ uidnext[g] <= MaxNext
                         /\ \A k \in Message : server[k][g] \in Nat /\ server'[k][g] \in Nat
  <2>1. /\ server \in [Message -> [Folder -> Nat]] /\ uidnext \in [Folder -> Nat]
        /\ server' \in [Message -> [Folder -> Nat]] /\ uidnext' \in [Folder -> Nat]
    BY <1>t DEF TypeOK
  <2>2. \A g \in Folder : status[g].next \in Nat /\ uidnext[g] <= MaxNext
    BY <1>t DEF RoundInv, Status, ServerOK
  <2> QED
    BY <2>1, <2>2
<1>1. /\ UNCHANGED <<validity, row, locked, status, round, scan>>
      /\ settled' = settled \ {m}
      /\ \A n \in Message \ {m} : server'[n] = server[n]
      /\ \A g \in Folder : uidnext[g] <= uidnext'[g] /\ uidnext'[g] <= MaxNext
      /\ \A g \in Folder : server'[m][g] # 0 =>
           server'[m][g] = uidnext[g] /\ uidnext[g] < uidnext'[g]
      /\ \A g, h \in Folder : server'[m][g] # 0 /\ server'[m][h] # 0 => g = h
  BY DEF Moved
<1>2. /\ \A n \in Message \ {m}, g \in Folder : Placed(n, g)' <=> Placed(n, g)
      /\ \A n \in Message \ {m} : On(n)' = On(n)
      /\ \A n \in Message \ {m} : \A u : Due(n, u)' <=> Due(n, u)
  BY <1>1 DEF Placed, On, Due
<1>3. \A g \in On(m)' : g \in Folder /\ server'[m][g] = uidnext[g]
  BY <1>1 DEF On
<1>4. ServerOK'
  <2>1. \A k \in Message, g \in Folder : server'[k][g] < uidnext'[g]
    <3>1. ASSUME NEW k \in Message, NEW g \in Folder, k # m PROVE server'[k][g] < uidnext'[g]
      BY <1>1, <1>n, <3>1 DEF RoundInv, ServerOK
    <3>2. ASSUME NEW g \in Folder PROVE server'[m][g] < uidnext'[g]
      <4>1. 0 < uidnext'[g]
        BY <1>1, <1>n DEF RoundInv, ServerOK
      <4> QED
        BY <1>1, <1>n, <4>1
    <3> QED
      BY <3>1, <3>2
  <2>2. ASSUME NEW g \in Folder, NEW n \in Message \ {m}, server'[m][g] # 0
        PROVE  server'[m][g] # server'[n][g]
    BY <1>1, <1>n, <2>2 DEF RoundInv, ServerOK
  <2>3. ASSUME NEW k \in Message, NEW n \in Message, NEW g \in Folder,
               server'[k][g] = server'[n][g], server'[k][g] # 0
        PROVE  k = n
    BY <1>1, <2>2, <2>3 DEF RoundInv, ServerOK
  <2>4. \A k \in Message, g, h \in Folder : server'[k][g] # 0 /\ server'[k][h] # 0 => g = h
    BY <1>1 DEF RoundInv, ServerOK
  <2>5. \A g \in Folder : validity'[g] = 1 /\ uidnext'[g] <= MaxNext
    BY <1>1 DEF RoundInv, ServerOK
  <2> QED
    BY <2>1, <2>3, <2>4, <2>5 DEF ServerOK
<1>5. RowsOK'
  <2>1. ASSUME NEW k \in Message, row[k].folder \in Folder, IsLinked(row[k])
        PROVE  /\ 0 < row[k].uid /\ row[k].uid < uidnext'[row[k].folder]
               /\ \A n \in Message \ {k} : server'[n][row[k].folder] # row[k].uid
    <3>1. /\ 0 < row[k].uid /\ row[k].uid < uidnext[row[k].folder] /\ row[k].uid \in Nat
          /\ \A n \in Message \ {k} : server[n][row[k].folder] # row[k].uid
      BY <1>t, <2>1 DEF RoundInv, RowsOK, TypeOK, Place
    <3>2. row[k].uid < uidnext'[row[k].folder]
      BY <1>1, <1>n, <2>1, <3>1
    <3>3. server'[m][row[k].folder] # row[k].uid
      BY <1>1, <1>n, <2>1, <3>1
    <3> QED
      BY <1>1, <3>1, <3>2, <3>3
  <2> QED
    BY <1>1, <2>1 DEF RowsOK
<1>6. StatusOK'
  BY <1>1, <1>n DEF RoundInv, StatusOK
<1>7. ScanOK'
  <2> SUFFICES ASSUME s.pc # "idle" PROVE ScanOK'
    BY <1>1 DEF ScanOK
  <2>1. s.st.next \in Nat /\ s.st.next <= uidnext[f]
    BY <1>t DEF RoundInv, ScanOK, Status
  <2>2. s.st.next <= uidnext'[f]
    BY <1>1, <1>n, <1>t, <2>1
  <2>3. ASSUME s.pc \in {"headers", "apply", "found"}, NEW u \in s.gone
        PROVE  /\ u < uidnext'[f] \/ u > MaxUID - 5
               /\ u # 0 => \A k \in Message : server'[k][f] # u
    <3>1. /\ u < uidnext[f] \/ u > MaxUID - 5
          /\ u # 0 => \A k \in Message : server[k][f] # u
          /\ u \in Nat
      BY <1>t, <2>3 DEF RoundInv, ScanOK
    <3>2. u < uidnext'[f] \/ u > MaxUID - 5
      BY <1>1, <1>n, <1>t, <3>1
    <3>3. u # 0 => server'[m][f] # u
      BY <1>1, <1>n, <1>t, <3>1
    <3> QED
      BY <1>1, <3>1, <3>2, <3>3
  <2>4. ASSUME s.pc = "fetch", NEW u \in s.local
        PROVE  Within(s.range, u) /\ (u < uidnext'[f] \/ u > MaxUID - 5)
    <3>1. /\ Within(s.range, u) /\ (u < uidnext[f] \/ u > MaxUID - 5)
          /\ u \in Nat
      BY <1>t, <2>4 DEF RoundInv, ScanOK
    <3> QED
      BY <1>1, <1>n, <1>t, <3>1
  <2> QED
    BY <1>1, <2>2, <2>3, <2>4 DEF RoundInv, ScanOK
<1>8. AnswerOK'
  <2>1. ASSUME s.pc \in {"apply", "found"}, NEW i \in s.todo
        PROVE  /\ 0 < i.uid /\ i.uid < uidnext'[f]
               /\ \A n \in Message \ {i.msg} : server'[n][f] # i.uid
               /\ \/ server'[i.msg][f] = i.uid
                  \/ /\ i.msg \notin settled'
                     /\ \A g \in On(i.msg)' : /\ status[g].next <= server'[i.msg][g]
                                              /\ g = f => s.st.next <= server'[i.msg][g]
    <3>1. /\ 0 < i.uid /\ i.uid < uidnext[f] /\ i.uid \in Nat /\ i.msg \in Message
          /\ \A n \in Message \ {i.msg} : server[n][f] # i.uid
          /\ \/ server[i.msg][f] = i.uid
             \/ /\ i.msg \notin settled
                /\ \A g \in On(i.msg) : /\ status[g].next <= server[i.msg][g]
                                        /\ g = f => s.st.next <= server[i.msg][g]
      BY <1>t, <2>1 DEF RoundInv, AnswerOK
    <3>2. i.uid < uidnext'[f] /\ server'[m][f] # i.uid
      BY <1>1, <1>n, <1>t, <3>1
    <3>3. \A n \in Message \ {i.msg} : server'[n][f] # i.uid
      BY <1>1, <3>1, <3>2
    <3>4. CASE i.msg # m
      BY <1>1, <1>2, <3>1, <3>2, <3>3, <3>4
    <3>5. CASE i.msg = m
      <4>1. i.msg \notin settled'
        BY <1>1, <3>5
      <4>2. ASSUME NEW g \in On(i.msg)'
            PROVE  /\ status[g].next <= server'[i.msg][g]
                   /\ g = f => s.st.next <= server'[i.msg][g]
        <5>1. g \in Folder /\ server'[i.msg][g] = uidnext[g]
          BY <1>3, <3>5, <4>2
        <5>2. status[g].next <= uidnext[g]
          BY <5>1 DEF RoundInv, StatusOK
        <5>3. s.st.next <= uidnext[f]
          BY <2>1 DEF RoundInv, ScanOK
        <5> QED
          BY <5>1, <5>2, <5>3
      <4> QED
        BY <3>1, <3>2, <3>3, <4>1, <4>2
    <3> QED
      BY <3>4, <3>5
  <2> QED
    BY <1>1, <2>1 DEF RoundInv, AnswerOK, IsNext
<1>9. ReachedOK'
  <2>1. ASSUME NEW k \in Message, NEW g \in On(k)', status[g].min <= server'[k][g],
               server'[k][g] < status[g].next
        PROVE  Placed(k, g)'
    <3>0. g \in Folder
      BY DEF On
    <3>1. k # m
      <4> SUFFICES ASSUME k = m PROVE FALSE
        OBVIOUS
      <4>1. server'[k][g] = uidnext[g] /\ status[g].next <= uidnext[g]
        BY <1>3, <2>1, <3>0 DEF RoundInv, StatusOK
      <4> QED
        BY <1>n, <2>1, <3>0, <4>1
    <3> QED
      BY <1>1, <1>2, <2>1, <3>0, <3>1 DEF RoundInv, ReachedOK
  <2> QED
    BY <1>1, <2>1 DEF ReachedOK
<1>10. SettledOK'
  BY <1>1, <1>2, <1>t, Constants DEF RoundInv, SettledOK
<1>11. CoveredOK'
  <2>1. ASSUME s.pc # "idle", NEW k \in Message, f \in On(k)', s.st.min <= server'[k][f],
               k \in settled' \/ server'[k][f] < s.st.next,
               ~Due(k, server'[k][f])
        PROVE  Placed(k, f)'
    <3>1. k # m
      <4> SUFFICES ASSUME k = m PROVE FALSE
        OBVIOUS
      <4>1. server'[k][f] = uidnext[f] /\ s.st.next <= uidnext[f] /\ s.st.next \in Nat
        BY <1>3, <1>t, <2>1 DEF RoundInv, ScanOK, Status
      <4> QED
        BY <1>1, <1>n, <1>t, <2>1, <4>1
    <3>2. Placed(k, f)
      BY <1>1, <1>2, <2>1, <3>1 DEF RoundInv, CoveredOK
    <3> QED
      BY <1>1, <3>1, <3>2 DEF Placed
  <2>2. \A k \in Message : \A u : Due(k, u)' <=> Due(k, u)
    BY <1>1 DEF Due
  <2>3. s = s' /\ f = f'
    BY <1>1
  <2> HIDE DEF s, f
  <2> QED
    BY <1>1, <2>1, <2>2, <2>3 DEF CoveredOK, s, f
<1> QED
  BY <1>4, <1>5, <1>6, <1>7, <1>8, <1>9, <1>10, <1>11

-----------------------------------------------------------------------------
(* The whole of a round                                                    *)

\* Everything but the types, which every step keeps
Kept == /\ ServerOK /\ RowsOK /\ StatusOK /\ ScanOK /\ AnswerOK
        /\ ReachedOK /\ SettledOK /\ CoveredOK

\* The account is new: nothing is settled and no status is saved.
LEMMA RoundInit == PlainRounds /\ Init => RoundInv
<1> SUFFICES ASSUME PlainRounds, Init PROVE RoundInv
  OBVIOUS
<1>t. TypeOK
  BY FolderTypeInit
<1>1. PICK uid \in [Message -> 1..Cardinality(Message)] :
        /\ \A m, n \in Message : uid[m] = uid[n] => m = n
        /\ server = [m \in Message |-> [f \in Folder |-> IF f = Inbox THEN uid[m] ELSE 0]]
  BY DEF Init
<1>2. /\ Inbox \in Folder /\ "none" \notin Folder /\ MaxNext \in Nat
      /\ Len(Order) \in Nat /\ "bg" \in Worker
  BY Constants
<1>3. Cardinality(Message) \in Nat /\ Cardinality(Message) < MaxNext
  BY FolderSyncAssumption, FS_CardinalityType
<1>4. /\ \A f \in Folder : validity[f] = 1 /\ status[f] = NoStatus
      /\ \A f \in Folder : uidnext[f] = IF f = Inbox THEN Cardinality(Message) + 1 ELSE 1
      /\ \A m \in Message : row[m] = Nowhere
      /\ locked = {} /\ settled = {} /\ round.at = 0 /\ scan["bg"].pc = "idle"
  BY <1>2 DEF Init, IdleScan
<1>5. ServerOK
  BY <1>1, <1>2, <1>3, <1>4 DEF ServerOK
<1>6. RowsOK
  BY <1>2, <1>4 DEF RowsOK, Nowhere
<1>7. StatusOK
  BY <1>2, <1>3, <1>4 DEF StatusOK, NoStatus
<1>8. ScanOK /\ AnswerOK /\ CoveredOK
  BY <1>4 DEF ScanOK, AnswerOK, CoveredOK
<1>9. ReachedOK
  <2>1. ASSUME NEW m \in Message, NEW f \in On(m) PROVE ~(server[m][f] < status[f].next)
    <3>1. f \in Folder /\ server[m][f] \in Nat /\ status[f].next = 0
      BY <1>t, <1>4 DEF On, TypeOK, NoStatus
    <3> QED
      BY <3>1
  <2> QED
    BY <2>1 DEF ReachedOK
<1>10. SettledOK
  BY <1>4 DEF SettledOK
<1> QED
  BY <1>t, <1>5, <1>6, <1>7, <1>8, <1>9, <1>10 DEF RoundInv

\* The steps of the background worker with one range of a folder
LEMMA RangeKept ==
    ASSUME PlainRounds, RoundInv, RangeStep("bg")
    PROVE  Kept'
<1>1. CASE ListLocal("bg") \/ FetchRange("bg") \/ FetchHeaders("bg")
  <2>1. ScanOK' /\ AnswerOK' /\ CoveredOK'
    BY <1>1, ListStep, FetchStep, HeadersStep
  <2>2. UNCHANGED <<server, validity, uidnext, row, locked, status, settled, round>>
    BY <1>1 DEF ListLocal, FetchRange, FetchHeaders, remote, history
  <2> QED
    BY <2>1, <2>2, ScanFrame DEF Kept
<1>2. CASE ApplyStep("bg")
  <2>1. PICK m \in Message, u \in 1..MaxNext :
          LET i == [msg |-> m, uid |-> u] IN
          \/ InsertMessage("bg", i) \/ FindLocal("bg", i)
          \/ UpdateIgnored("bg", i) \/ UpdateMessage("bg", i)
    BY <1>2 DEF ApplyStep
  <2> DEFINE i == [msg |-> m, uid |-> u]
  <2>2. i \in Item
    BY Constants DEF Item
  <2>3. \/ FindLocal("bg", i)
        \/ InsertMessage("bg", i) \/ UpdateIgnored("bg", i) \/ UpdateMessage("bg", i)
    BY <2>1
  <2> HIDE DEF i
  <2>4. CASE FindLocal("bg", i)
    <3>1. UNCHANGED <<server, validity, uidnext, row, locked, status, settled, round>>
      BY <2>4 DEF FindLocal, remote, history
    <3> QED
      BY <2>2, <2>4, <3>1, FindStep, ScanFrame DEF Kept
  <2>5. CASE InsertMessage("bg", i) \/ UpdateIgnored("bg", i) \/ UpdateMessage("bg", i)
    BY <2>2, <2>5, WritesAnswer, WrittenStep DEF Kept
  <2> QED
    BY <2>3, <2>4, <2>5
<1>3. CASE UnlinkGone("bg")
  BY <1>3, GoneStep DEF Kept
<1>4. CASE SaveStatus("bg")
  BY <1>4, SaveStep DEF Kept
<1> QED
  BY <1>1, <1>2, <1>3, <1>4 DEF RangeStep

\* The steps of the round between its folders. No folder is reset, where the
\* server gives none a new UIDVALIDITY.
LEMMA RoundStepKept ==
    ASSUME PlainRounds, RoundInv, RoundStep
    PROVE  Kept'
<1>1. CASE StartRound \/ FlipPhase \/ DeleteUnlinked
  BY <1>1, StartStep, FlipStep, DeleteStep DEF Kept
<1>2. ASSUME ResetFolder PROVE FALSE
  <2>1. round.at \in 1..Len(Order) /\ round.loaded[Order[round.at]].validity \notin
          {0, validity[Order[round.at]]}
    BY <1>2 DEF ResetFolder, InFolder
  <2>2. round.at # 0 /\ round.at <= round.at /\ Order[round.at] \in Folder
    BY <2>1, Constants
  <2>3. round.loaded[Order[round.at]] = status[Order[round.at]]
    BY <2>1, <2>2 DEF RoundInv, StatusOK
  <2>4. status[Order[round.at]].validity \in {0, 1} /\ validity[Order[round.at]] = 1
    BY <2>2 DEF RoundInv, StatusOK, ServerOK
  <2> QED
    BY <2>1, <2>3, <2>4
<1>3. ASSUME UnlinkAll PROVE FALSE
  BY <1>3 DEF UnlinkAll, RoundInv, ScanOK
<1>4. ASSUME NEW kind \in {"none", "shallow", "deep"}, BeginFolder(kind)
      PROVE  Kept'
  <2>1. UNCHANGED <<server, validity, uidnext, row, locked, status, settled, round>>
    BY <1>4 DEF BeginFolder, remote, history
  <2> QED
    BY <1>4, <2>1, BeginStep, ScanFrame DEF Kept
<1> QED
  BY <1>1, <1>2, <1>3, <1>4 DEF RoundStep

\* No step of anybody breaks what the round knows.
LEMMA RoundKept ==
    ASSUME PlainRounds, RoundInv, [Next]_vars
    PROVE  RoundInv'
<1>t. TypeOK'
  BY FolderTypeStep DEF RoundInv
<1> SUFFICES Kept'
  BY <1>t DEF Kept, RoundInv
<1>1. ASSUME NEW w \in Worker, RangeStep(w) \/ Throws(w) PROVE Kept'
  BY <1>1, RangeKept, StopStep DEF PlainRounds, Kept
<1>2. CASE RoundStep
  BY <1>2, RoundStepKept
<1>3. ~SkipFolder /\ ~BeginInbox
  BY DEF PlainRounds, SkipFolder, BeginInbox
<1>4. \A m \in Message : ~Lock(m) /\ ~Release(m)
  BY DEF PlainRounds, Lock, Release, RoundInv, StatusOK
<1>5. CASE Crash
  BY <1>5, StopStep DEF Kept
<1>6. CASE ClientStep
  <2>1. PICK m \in Message : Moved(m)
    BY <1>6, ClientMoves DEF RoundInv
  <2> QED
    BY <1>t, <2>1, MovedStep DEF Kept
<1>7. CASE UNCHANGED vars
  <2>1. UNCHANGED <<server, validity, uidnext, row, locked, status, settled, round, scan>>
    BY <1>7 DEF vars, remote, history
  <2>2. ScanOK' /\ AnswerOK' /\ CoveredOK'
    BY <2>1 DEF RoundInv, ScanOK, AnswerOK, CoveredOK, IsNext, On, Placed, Due
  <2> QED
    BY <2>1, <2>2, ScanFrame DEF Kept
<1> QED
  BY <1>1, <1>2, <1>3, <1>4, <1>5, <1>6, <1>7 DEF Next

\* Only the end of a round deletes rows, and what it deletes is unlinked.
LEMMA DeletedAtTheEnd ==
    ASSUME PlainRounds, RoundInv, [Next]_vars, NEW m \in Message, Deleted(m)
    PROVE  DeleteUnlinked /\ row[m].uid = Unlinked(phase["bg"])
<1>t. /\ row \in [Message -> Place] /\ scan["bg"] \in Scan /\ "bg" \in Worker
      /\ "none" \notin Folder /\ scan["bg"].folder \in Folder
  BY Constants DEF RoundInv, TypeOK, Scan
<1>1. row[m] # Nowhere /\ row'[m] = Nowhere
  BY DEF Deleted
<1>2. ASSUME NEW i, i.msg \in Message,
             row' = [row EXCEPT ![i.msg] = [folder |-> scan["bg"].folder, uid |-> i.uid]]
      PROVE  FALSE
  <2>1. m # i.msg => row'[m] = row[m]
    BY <1>t, <1>2
  <2>2. m = i.msg => row'[m].folder = scan["bg"].folder
    BY <1>t, <1>2
  <2> QED
    BY <1>1, <1>t, <2>1, <2>2 DEF Nowhere
<1>3. ASSUME NEW uids, Unlink("bg", uids) PROVE FALSE
  <2>1. \/ row'[m] = row[m]
        \/ /\ row[m].folder = scan["bg"].folder
           /\ row'[m] = [row[m] EXCEPT !.uid = Unlinked(phase["bg"])]
    BY <1>3 DEF Unlink
  <2>2. row[m] \in Place
    BY <1>t
  <2>3. \/ row'[m] = row[m]
        \/ row'[m].folder = scan["bg"].folder
    BY <2>1, <2>2 DEF Place
  <2> QED
    BY <1>1, <1>t, <2>3 DEF Nowhere
<1>4. row' # row
  BY <1>1
<1>5. ~UNCHANGED vars
  BY <1>4 DEF vars
<1>6. ASSUME NEW w \in Worker PROVE ~RangeStep(w) /\ ~Throws(w)
  <2>1. w = "bg"
    BY DEF PlainRounds
  <2>2. ~ListLocal(w) /\ ~FetchRange(w) /\ ~FetchHeaders(w) /\ ~SaveStatus(w) /\ ~Throws(w)
    BY <1>4 DEF ListLocal, FetchRange, FetchHeaders, SaveStatus, Throws
  <2>3. ~UnlinkGone(w)
    BY <1>3, <2>1 DEF UnlinkGone
  <2>4. ASSUME NEW n \in Message, NEW u
        PROVE  LET i == [msg |-> n, uid |-> u] IN
               ~InsertMessage(w, i) /\ ~FindLocal(w, i) /\ ~UpdateIgnored(w, i)
               /\ ~UpdateMessage(w, i)
    <3> DEFINE i == [msg |-> n, uid |-> u]
    <3>1. i.msg \in Message
      OBVIOUS
    <3> HIDE DEF i
    <3>2. ~InsertMessage(w, i) /\ ~UpdateMessage(w, i)
      BY <1>2, <1>4, <2>1, <3>1 DEF InsertMessage, UpdateMessage
    <3>3. ~FindLocal(w, i) /\ ~UpdateIgnored(w, i)
      BY <1>4 DEF FindLocal, UpdateIgnored
    <3> QED
      BY <3>2, <3>3 DEF i
  <2>5. ~ApplyStep(w)
    BY <2>4 DEF ApplyStep
  <2> QED
    BY <2>2, <2>3, <2>5 DEF RangeStep
<1>7. /\ ~StartRound /\ ~ResetFolder /\ ~FlipPhase
      /\ \A kind : ~BeginFolder(kind)
  BY <1>4 DEF StartRound, ResetFolder, FlipPhase, BeginFolder
<1>8. ~UnlinkAll
  BY <1>3 DEF UnlinkAll
<1>9. /\ ~SkipFolder /\ ~BeginInbox /\ ~Crash
      /\ \A n \in Message : ~Lock(n) /\ ~Release(n)
  BY <1>4 DEF SkipFolder, BeginInbox, Crash, Lock, Release
<1>10. ~ClientStep
  <2>1. \A n : ~Moved(n)
    BY <1>4 DEF Moved
  <2> QED
    BY <2>1, ClientMoves DEF RoundInv
<1>11. DeleteUnlinked
  BY <1>5, <1>6, <1>7, <1>8, <1>9, <1>10 DEF Next, RoundStep
<1> QED
  BY <1>1, <1>11 DEF DeleteUnlinked

\* A message that stayed where it is on the server for the whole of a round
\* (server[m] has not changed since the round began: m is in "settled") keeps
\* its row at the round's end, unless it is older than all that the folder's
\* first sync has reached: SyncWorker::syncNow, syncFolderUIDRange and
\* MailProcessor::deleteMessagesStillUnlinkedFromPhase. For one worker, no
\* locked messages, copies, new UIDVALIDITY or folder left out, and an answer
\* that is never cut off; with requests that fail and a process that is killed.
THEOREM SettledKeptHolds ==
    ASSUME PlainRounds
    PROVE  Spec => SettledKept
<1>1. Init => RoundInv
  BY RoundInit
<1>2. RoundInv /\ [Next]_vars => RoundInv'
  BY RoundKept
<1>3. ASSUME RoundInv, [Next]_vars
      PROVE  \A m \in settled : Deleted(m) =>
               \A f \in On(m) : server[m][f] < status[f].min
  <2> SUFFICES ASSUME NEW m \in settled, Deleted(m), NEW f \in On(m),
                      ~(server[m][f] < status[f].min)
               PROVE  FALSE
    OBVIOUS
  <2>1. /\ m \in Message /\ f \in Folder /\ server[m][f] \in Nat /\ status[f].min \in Nat
        /\ phase["bg"] \in {1, 2}
    BY <1>3, Constants DEF RoundInv, TypeOK, On, Status
  <2>2. DeleteUnlinked /\ row[m].uid = Unlinked(phase["bg"])
    BY <1>3, <2>1, DeletedAtTheEnd
  <2>3. PICK i \in 1..Len(Order) : Order[i] = f
    BY <2>1, Constants DEF Folder
  <2>4. i < round.at
    BY <2>2, Constants DEF DeleteUnlinked
  <2>5. Placed(m, f)
    BY <1>3, <2>1, <2>3, <2>4 DEF RoundInv, SettledOK
  <2> QED
    BY <1>3, <2>1, <2>2, <2>5, PlacedIsLinked DEF RoundInv
<1>4. RoundInv /\ [Next]_vars =>
        [\A m \in settled : Deleted(m) =>
           \A f \in On(m) : server[m][f] < status[f].min]_vars
  BY <1>3
<1> QED
  BY <1>1, <1>2, <1>4, PTL DEF Spec, SettledKept
===============================================================================
