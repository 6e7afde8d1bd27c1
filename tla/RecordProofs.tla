----------------------------- MODULE RecordProofs -----------------------------
(***************************************************************************)
(* Proofs about the records that are kept of messages and threads: the     *)
(* counters of ThreadCounts and the stream of Metadata.                    *)
(***************************************************************************)
EXTENDS ThreadCounts, Metadata, FiniteSetTheorems, SequenceTheorems, TLAPS

-----------------------------------------------------------------------------
(***************************************************************************)
(* The counters of a thread are those of its messages.                     *)
(*                                                                         *)
(* CountersExact speaks of the table ThreadCounts only through what was    *)
(* saved; the inductive invariant CountInv says of the Thread row itself   *)
(* that it counts the rows (Counted), and of the table that it has what    *)
(* the Thread row comes to (CategoryIDs), unless a thread leaked.          *)
(***************************************************************************)

ThreadRow == [unread: Int, in: [Category -> Counter]]

\* In and Unread, for any rows.
InOf(r, c) == {m \in Mail : r[m].folder = c \/ c \in r[m].tags}
UnreadOf(r, ms) == {m \in ms : r[m].unread = 1}

\* The counters of t are what the rows r come to.
Counted(t, r) ==
    /\ t.unread = Cardinality(UnreadOf(r, Mail))
    /\ \A c \in Category : t.in[c].refs = Cardinality(InOf(r, c))
    /\ \A f \in Place : t.in[f].unread = Cardinality(UnreadOf(r, InOf(r, f)))

\* Whether there is a message in the rows r.
HasMail(r) == \E m \in Mail : r[m] # Empty

CountInv ==
    /\ ThreadTypeOK
    /\ copy # NoCopy => drifts < MaxDrifts
    /\ ~filed => thread = NoCounters
    /\ ~leaked => counts = CategoryIDs(thread)
    /\ exact => (filed <=> HasMail(mail)) /\ Counted(thread, mail)

One(b) == IF b THEN 1 ELSE 0

-----------------------------------------------------------------------------
(* Cardinalities.                                                          *)

\* Two sets that differ in at most one element differ by it in size.
LEMMA Exchange ==
    ASSUME NEW S, NEW T, NEW m, IsFiniteSet(S), S \ {m} = T \ {m}
    PROVE  /\ IsFiniteSet(T)
           /\ Cardinality(S) \in Nat
           /\ Cardinality(T) \in Nat
           /\ Cardinality(T) = Cardinality(S) - One(m \in S) + One(m \in T)
<1>1. /\ IsFiniteSet(S \ {m})
      /\ Cardinality(S \ {m}) = IF m \in S THEN Cardinality(S) - 1 ELSE Cardinality(S)
  BY FS_RemoveElement
<1>2. T = IF m \in T THEN (S \ {m}) \cup {m} ELSE S \ {m}
  OBVIOUS
<1>3. /\ IsFiniteSet((S \ {m}) \cup {m})
      /\ Cardinality((S \ {m}) \cup {m}) = Cardinality(S \ {m}) + 1
  BY <1>1, FS_AddElement
<1>4. Cardinality(S) \in Nat /\ IsFiniteSet(T)
  BY <1>1, <1>2, <1>3, FS_CardinalityType
<1>5. Cardinality(T) \in Nat
  BY <1>4, FS_CardinalityType
<1>6. Cardinality(T) = Cardinality(S \ {m}) + One(m \in T)
  <2>1. CASE m \in T
    BY <2>1, <1>2, <1>3 DEF One
  <2>2. CASE m \notin T
    <3>1. T = S \ {m} /\ Cardinality(T) \in Nat
      BY <2>2, <1>2, <1>5
    <3> QED BY <3>1, <2>2 DEF One
  <2> QED BY <2>1, <2>2
<1>7. Cardinality(S \ {m}) = Cardinality(S) - One(m \in S)
  BY <1>1, <1>4 DEF One
<1> QED BY <1>4, <1>5, <1>6, <1>7

\* The sets of messages that are counted are finite.
LEMMA Finite ==
    ASSUME NEW r, NEW c
    PROVE  /\ IsFiniteSet(InOf(r, c))
           /\ IsFiniteSet(UnreadOf(r, InOf(r, c)))
           /\ IsFiniteSet(UnreadOf(r, Mail))
<1>1. /\ InOf(r, c) \subseteq Mail
      /\ UnreadOf(r, InOf(r, c)) \subseteq Mail
      /\ UnreadOf(r, Mail) \subseteq Mail
  BY DEF InOf, UnreadOf
<1> QED BY <1>1, FS_Subset, ThreadCountsAssumption

\* A message that is the only reference to a category has all there is unread.
LEMMA LastReference ==
    ASSUME NEW r, NEW c, NEW m \in Mail, m \in InOf(r, c), r[m].unread \in {0, 1},
           ~(Cardinality(InOf(r, c)) > 1)
    PROVE  /\ Cardinality(InOf(r, c)) = 1
           /\ Cardinality(UnreadOf(r, InOf(r, c))) = r[m].unread
<1>1. /\ IsFiniteSet(InOf(r, c))
      /\ Cardinality(InOf(r, c)) \in Nat
  BY Finite, FS_CardinalityType
<1>2. Cardinality(InOf(r, c) \ {m}) = Cardinality(InOf(r, c)) - 1
      /\ IsFiniteSet(InOf(r, c) \ {m})
  BY <1>1, FS_RemoveElement
<1>3. Cardinality(InOf(r, c) \ {m}) \in Nat
  BY <1>2, FS_CardinalityType
<1>4. Cardinality(InOf(r, c) \ {m}) = 0
  BY <1>1, <1>2, <1>3
<1>5. InOf(r, c) \ {m} = {}
  BY <1>2, <1>4, FS_EmptySet
<1>6. UnreadOf(r, InOf(r, c)) = IF r[m].unread = 1 THEN {m} ELSE {}
  BY <1>5 DEF UnreadOf
<1>7. Cardinality({m}) = 1 /\ Cardinality({}) = 0
  BY FS_Singleton, FS_EmptySet
<1>8. Cardinality(InOf(r, c)) = 1
  BY <1>1, <1>2, <1>4
<1> QED BY <1>6, <1>7, <1>8

-----------------------------------------------------------------------------
(* The operators of the component.                                         *)

LEMMA SnapshotType ==
    ASSUME NEW s \in Snapshot
    PROVE  /\ s.unread \in {0, 1}
           /\ s.tags \subseteq Tag
           /\ s.folder \in Place \/ s.folder = ""
           /\ s # Empty => s \in Attributes /\ s.folder \in Place
<1>1. CASE s \in Attributes
  BY <1>1 DEF Attributes
<1>2. CASE s = Empty
  BY <1>2 DEF Empty
<1> QED BY <1>1, <1>2 DEF Snapshot

LEMMA EmptyFacts ==
    /\ Empty.folder = "" /\ Empty.unread = 0 /\ Empty.tags = {}
    /\ "" \notin Place /\ "" \notin Category
    /\ Empty \notin Attributes
<1>1. Empty.folder = "" /\ Empty.unread = 0 /\ Empty.tags = {}
  BY DEF Empty
<1>2. "" \notin Place /\ "" \notin Category
  BY ThreadCountsAssumption DEF Category
<1>3. \A s \in Attributes : s.folder \in Place
  BY DEF Attributes
<1> QED BY <1>1, <1>2, <1>3

LEMMA ApplyType ==
    ASSUME NEW t \in ThreadRow, NEW old \in Snapshot, NEW new \in Snapshot
    PROVE  ApplyMessageAttributeChanges(t, old, new) \in ThreadRow
<1>1. old.unread \in Int /\ new.unread \in Int
  <2>1. old.unread \in {0, 1} /\ new.unread \in {0, 1}
    BY SnapshotType
  <2> QED BY <2>1
<1>2. \A c \in Counter : /\ DropFolder(c, old) \in Counter
                         /\ AddFolder(c, new) \in Counter
  BY <1>1 DEF Counter, DropFolder, AddFolder, Zero
<1>3. \A c \in Counter : /\ DropTag(c, old) \in Counter
                         /\ AddTag(c, new) \in Counter
  BY <1>1 DEF Counter, DropTag, AddTag, Zero, And
<1>4. \A c \in Category : t.in[c] \in Counter
  BY DEF ThreadRow
<1>5. t.unread - old.unread + new.unread \in Int
  BY <1>1 DEF ThreadRow
<1>6. ApplyMessageAttributeChanges(t, old, new).in \in [Category -> Counter]
  BY <1>2, <1>3, <1>4 DEF ApplyMessageAttributeChanges
<1> QED BY <1>5, <1>6 DEF ApplyMessageAttributeChanges, ThreadRow

\* The heart of the matter: if the snapshot that is subtracted is the row, the
\* counters stay those of the rows.
LEMMA ApplyCounts ==
    ASSUME NEW r \in [Mail -> Snapshot], NEW m \in Mail, NEW a \in Snapshot,
           NEW t \in ThreadRow, Counted(t, r)
    PROVE  Counted(ApplyMessageAttributeChanges(t, r[m], a), [r EXCEPT ![m] = a])
<1> DEFINE next == ApplyMessageAttributeChanges(t, r[m], a)
           rr == [r EXCEPT ![m] = a]
<1>1. /\ r[m] \in Snapshot
      /\ r[m].unread \in {0, 1} /\ a.unread \in {0, 1}
      /\ r[m].tags \subseteq Tag /\ a.tags \subseteq Tag
      /\ r[m].folder \in Place \/ r[m].folder = ""
      /\ a.folder \in Place \/ a.folder = ""
  BY SnapshotType
<1>2. /\ rr[m] = a
      /\ \A n \in Mail : n # m => rr[n] = r[n]
  OBVIOUS
<1> HIDE DEF rr
<1>3. next.unread = Cardinality(UnreadOf(rr, Mail))
  <2>1. UnreadOf(r, Mail) \ {m} = UnreadOf(rr, Mail) \ {m}
    BY <1>2 DEF UnreadOf
  <2>2. /\ Cardinality(UnreadOf(r, Mail)) \in Nat
        /\ Cardinality(UnreadOf(rr, Mail)) = Cardinality(UnreadOf(r, Mail))
              - One(m \in UnreadOf(r, Mail)) + One(m \in UnreadOf(rr, Mail))
    BY <2>1, Finite, Exchange
  <2>3. /\ One(m \in UnreadOf(r, Mail)) = r[m].unread
        /\ One(m \in UnreadOf(rr, Mail)) = a.unread
    BY <1>1, <1>2 DEF UnreadOf, One
  <2>4. next.unread = t.unread - r[m].unread + a.unread
    BY DEF ApplyMessageAttributeChanges
  <2> QED BY <2>2, <2>3, <2>4 DEF Counted
<1>4. ASSUME NEW c \in Category
      PROVE  /\ next.in[c].refs = Cardinality(InOf(rr, c))
             /\ c \in Place => next.in[c].unread = Cardinality(UnreadOf(rr, InOf(rr, c)))
  <2> DEFINE k == t.in[c]
             S == InOf(r, c)
             T == InOf(rr, c)
             US == UnreadOf(r, S)
             UT == UnreadOf(rr, T)
             left == IF c = r[m].folder THEN DropFolder(k, r[m])
                     ELSE IF c \in r[m].tags THEN DropTag(k, r[m]) ELSE k
             end == IF c = a.folder THEN AddFolder(left, a)
                    ELSE IF c \in a.tags THEN AddTag(left, a) ELSE left
  <2>1. next.in[c] = end
    BY DEF ApplyMessageAttributeChanges
  <2>2. /\ k \in Counter
        /\ k.refs = Cardinality(S)
        /\ c \in Place => k.unread = Cardinality(US)
    BY DEF Counted, ThreadRow
  <2>3. S \ {m} = T \ {m} /\ US \ {m} = UT \ {m}
    BY <1>2 DEF InOf, UnreadOf
  <2>4. /\ Cardinality(S) \in Nat
        /\ Cardinality(T) \in Nat
        /\ Cardinality(T) = Cardinality(S) - One(m \in S) + One(m \in T)
    BY <2>3, Finite, Exchange
  <2>5. /\ Cardinality(US) \in Nat
        /\ Cardinality(UT) = Cardinality(US) - One(m \in US) + One(m \in UT)
    BY <2>3, Finite, Exchange
  <2>6. /\ m \in S <=> (c = r[m].folder \/ c \in r[m].tags)
        /\ m \in T <=> (c = a.folder \/ c \in a.tags)
    BY <1>2 DEF InOf
  <2>7. /\ m \in US <=> (m \in S /\ r[m].unread = 1)
        /\ m \in UT <=> (m \in T /\ a.unread = 1)
    BY <1>2 DEF UnreadOf
  <2>8. m \in S /\ ~(Cardinality(S) > 1) =>
            Cardinality(S) = 1 /\ Cardinality(US) = r[m].unread
    BY <1>1, LastReference
  <2>9. c \in Place => c \notin r[m].tags /\ c \notin a.tags
    BY <1>1, ThreadCountsAssumption
  <2> HIDE DEF S, T, US, UT, k, next
  <2>10. /\ left \in Counter
         /\ left.refs = Cardinality(S) - One(m \in S)
    <3>1. CASE c = r[m].folder
      <4>1. left = DropFolder(k, r[m]) /\ One(m \in S) = 1
        BY <3>1, <2>6 DEF One
      <4> HIDE DEF left
      <4>2. CASE k.refs > 1
        <5>1. left = [refs |-> k.refs - 1, unread |-> k.unread - r[m].unread]
          BY <4>1, <4>2 DEF DropFolder
        <5>2. k.refs - 1 \in Nat /\ k.unread - r[m].unread \in Int
          <6>1. r[m].unread = 0 \/ r[m].unread = 1
            BY <1>1
          <6>2. k.refs \in Nat /\ k.unread \in Int
            BY <2>2 DEF Counter
          <6> QED BY <4>2, <6>1, <6>2
        <5> QED BY <4>1, <5>1, <5>2, <2>2 DEF Counter
      <4>3. CASE ~(k.refs > 1)
        <5>1. Cardinality(S) = 1
          BY <4>3, <3>1, <2>2, <2>6, <2>8
        <5>2. left = Zero
          BY <4>1, <4>3 DEF DropFolder
        <5> QED BY <4>1, <5>1, <5>2 DEF Zero, Counter
      <4> QED BY <4>2, <4>3
    <3>2. CASE c # r[m].folder /\ c \in r[m].tags
      <4>1. left = DropTag(k, r[m]) /\ One(m \in S) = 1
        BY <3>2, <2>6 DEF One
      <4> HIDE DEF left
      <4>2. CASE k.refs > 1
        <5> DEFINE b == And(k.unread - r[m].unread, InAllMail(r[m]))
        <5>1. left = [refs |-> k.refs - 1, unread |-> b]
          BY <4>1, <4>2 DEF DropTag
        <5>2. k.refs - 1 \in Nat /\ b \in Int
          BY <4>2, <2>2 DEF Counter, And
        <5> HIDE DEF b
        <5> QED BY <4>1, <5>1, <5>2, <2>2 DEF Counter
      <4>3. CASE ~(k.refs > 1)
        <5>1. Cardinality(S) = 1
          BY <4>3, <3>2, <2>2, <2>6, <2>8
        <5>2. left = Zero
          BY <4>1, <4>3 DEF DropTag
        <5> QED BY <4>1, <5>1, <5>2 DEF Zero, Counter
      <4> QED BY <4>2, <4>3
    <3>3. CASE c # r[m].folder /\ c \notin r[m].tags
      BY <3>3, <2>2, <2>4, <2>6 DEF Counter, One
    <3> QED BY <3>1, <3>2, <3>3
  <2>11. ASSUME c \in Place
         PROVE  left.unread = Cardinality(US) - One(m \in US)
    <3>1. CASE c = r[m].folder
      <4>1. m \in S /\ One(m \in US) = r[m].unread
        BY <3>1, <1>1, <2>6, <2>7 DEF One
      <4>2. left = DropFolder(k, r[m])
        BY <3>1
      <4> HIDE DEF left
      <4>3. CASE k.refs > 1
        BY <4>1, <4>2, <4>3, <2>2, <2>11 DEF DropFolder
      <4>4. CASE ~(k.refs > 1)
        <5>1. Cardinality(US) = r[m].unread
          BY <4>1, <4>4, <2>2, <2>8
        <5>2. left.unread = 0
          BY <4>2, <4>4 DEF DropFolder, Zero
        <5> QED BY <4>1, <5>1, <5>2, <2>5
      <4> QED BY <4>3, <4>4
    <3>2. CASE c # r[m].folder
      BY <3>2, <2>2, <2>5, <2>6, <2>7, <2>9, <2>11 DEF Counter, One
    <3> QED BY <3>1, <3>2
  <2> HIDE DEF left
  <2>12. end.refs = Cardinality(T)
    <3>1. CASE c = a.folder
      BY <3>1, <2>4, <2>6, <2>10 DEF Counter, AddFolder, One
    <3>2. CASE c # a.folder /\ c \in a.tags
      BY <3>2, <2>4, <2>6, <2>10 DEF Counter, AddTag, One
    <3>3. CASE c # a.folder /\ c \notin a.tags
      BY <3>3, <2>4, <2>6, <2>10 DEF Counter, One
    <3> QED BY <3>1, <3>2, <3>3
  <2>13. ASSUME c \in Place
         PROVE  end.unread = Cardinality(UT)
    <3>1. CASE c = a.folder
      <4>1. One(m \in UT) = a.unread
        BY <3>1, <1>1, <2>6, <2>7 DEF One
      <4>2. end.unread = left.unread + a.unread
        BY <3>1 DEF AddFolder
      <4> QED BY <4>1, <4>2, <2>5, <2>11, <2>13
    <3>2. CASE c # a.folder
      <4>1. One(m \in UT) = 0 /\ end = left
        BY <3>2, <2>6, <2>7, <2>9, <2>13 DEF One
      <4>2. One(m \in US) \in {0, 1}
        BY DEF One
      <4> QED BY <4>1, <4>2, <2>5, <2>11, <2>13
    <3> QED BY <3>1, <3>2
  <2> QED BY <2>1, <2>12, <2>13 DEF T, UT
<1> HIDE DEF next
<1>5. \A c \in Place : c \in Category
  BY DEF Category
<1>6. Counted(next, rr)
  BY <1>3, <1>4, <1>5 DEF Counted
<1> QED BY <1>6 DEF next, rr

\* A recount is a row of the right types, and exact.
LEMMA RecountCounts ==
    ASSUME NEW r, NEW rank
    PROVE  Recount(r, rank) \in ThreadRow /\ Counted(Recount(r, rank), r)
<1> DEFINE t == Recount(r, rank)
<1>1. t.unread = Cardinality(UnreadOf(r, Mail))
  BY DEF Recount, UnreadOf
<1>2. ASSUME NEW c \in Category
      PROVE  /\ t.in[c].refs = Cardinality(InOf(r, c))
             /\ c \in Place => t.in[c].unread = Cardinality(UnreadOf(r, InOf(r, c)))
             /\ t.in[c] \in Counter
  <2>1. /\ Cardinality(InOf(r, c)) \in Nat
        /\ Cardinality(UnreadOf(r, InOf(r, c))) \in Nat
    BY Finite, FS_CardinalityType
  <2> QED BY <2>1 DEF Recount, UnreadOf, InOf, Counter
<1>3. Cardinality(UnreadOf(r, Mail)) \in Int
  BY Finite, FS_CardinalityType
<1>4. t.in \in [Category -> Counter] /\ t = [unread |-> t.unread, in |-> t.in]
  BY <1>2 DEF Recount
<1>5. \A c \in Place : c \in Category
  BY DEF Category
<1> HIDE DEF t
<1>6. t \in ThreadRow /\ Counted(t, r)
  BY <1>1, <1>2, <1>3, <1>4, <1>5 DEF ThreadRow, Counted
<1> QED BY <1>6 DEF t

LEMMA NoCountersType == NoCounters \in ThreadRow
BY DEF NoCounters, ThreadRow, Zero, Counter

\* What ThreadCounts has of a thread is a 0 or a 1.
LEMMA CategoryIDsType ==
    ASSUME NEW t
    PROVE  CategoryIDs(t) \in [Category -> [total: {0, 1}, unread: {0, 1}]]
BY DEF CategoryIDs

\* The differences that a save adds bring ThreadCounts to the new counters.
LEMMA CountThreadAdds ==
    ASSUME NEW t, NEW u, counts \in [Category -> [total: Int, unread: Int]],
           CountThread(CategoryIDs(t), CategoryIDs(u))
    PROVE  /\ counts' \in [Category -> [total: Int, unread: Int]]
           /\ counts = CategoryIDs(t) => counts' = CategoryIDs(u)
<1> DEFINE old == CategoryIDs(t)
           new == CategoryIDs(u)
<1>1. /\ old \in [Category -> [total: {0, 1}, unread: {0, 1}]]
      /\ new \in [Category -> [total: {0, 1}, unread: {0, 1}]]
  BY CategoryIDsType
<1>2. counts' = [c \in Category |->
        [total |-> counts[c].total + new[c].total - old[c].total,
         unread |-> counts[c].unread + new[c].unread - old[c].unread]]
  BY DEF CountThread
<1> HIDE DEF old, new
<1>3. counts' \in [Category -> [total: Int, unread: Int]]
  BY <1>1, <1>2
<1>4. ASSUME counts = old PROVE counts' = new
  <2>1. ASSUME NEW c \in Category PROVE counts'[c] = new[c]
    <3>1. counts'[c] = [total |-> old[c].total + new[c].total - old[c].total,
                        unread |-> old[c].unread + new[c].unread - old[c].unread]
      BY <1>2, <1>4
    <3>2. /\ old[c] \in [total: {0, 1}, unread: {0, 1}]
          /\ new[c] \in [total: {0, 1}, unread: {0, 1}]
      BY <1>1
    <3>3. /\ old[c].total + new[c].total - old[c].total = new[c].total
          /\ old[c].unread + new[c].unread - old[c].unread = new[c].unread
      BY <3>2
    <3> QED BY <3>1, <3>2, <3>3
  <2> QED BY <1>1, <1>3, <2>1
<1> QED BY <1>3, <1>4 DEF old, new

-----------------------------------------------------------------------------
(* Each step keeps the invariant.                                          *)

\* Saving a thread that was found in the same transaction.
LEMMA SaveThreadStep ==
    ASSUME CountInv, NEW t \in ThreadRow, SaveThread(t)
    PROVE  /\ thread' \in ThreadRow /\ thread' = t
           /\ counts' \in [Category -> [total: Int, unread: Int]]
           /\ ~leaked => counts' = CategoryIDs(thread')
<1>1. thread' = t /\ CountThread(CategoryIDs(thread), CategoryIDs(t))
  BY DEF SaveThread
<1>2. counts \in [Category -> [total: Int, unread: Int]]
  BY DEF CountInv, ThreadTypeOK
<1>3. ~leaked => counts = CategoryIDs(thread)
  BY DEF CountInv
<1> QED BY <1>1, <1>2, <1>3, CountThreadAdds

\* Message::afterSave of any snapshots, and of a snapshot that is the row.
LEMMA AfterSaveStep ==
    ASSUME CountInv, NEW old \in Snapshot, NEW new \in Snapshot, AfterSave(old, new)
    PROVE  /\ thread' \in ThreadRow
           /\ counts' \in [Category -> [total: Int, unread: Int]]
           /\ ~leaked => counts' = CategoryIDs(thread')
           /\ ~filed => thread' = NoCounters
           /\ filed => thread' = ApplyMessageAttributeChanges(thread, old, new)
<1>1. CASE filed
  <2>1. ApplyMessageAttributeChanges(thread, old, new) \in ThreadRow
    BY ApplyType DEF CountInv, ThreadTypeOK, ThreadRow
  <2> QED BY <1>1, <2>1, SaveThreadStep DEF AfterSave
<1>2. CASE ~filed
  BY <1>2 DEF AfterSave, CountInv, ThreadTypeOK, ThreadRow
<1> QED BY <1>1, <1>2

\* Where there is a message there is a folder that has references.
LEMMA FolderOfMail ==
    ASSUME NEW r \in [Mail -> Snapshot], NEW t, Counted(t, r)
    PROVE  /\ HasMail(r) <=> \E f \in Place : t.in[f].refs > 0
<1>1. \A f \in Place : t.in[f].refs = Cardinality(InOf(r, f))
  BY DEF Counted, Category
<1>2. ASSUME HasMail(r) PROVE \E f \in Place : t.in[f].refs > 0
  <2>1. PICK m \in Mail : r[m] # Empty
    BY <1>2 DEF HasMail
  <2>2. r[m].folder \in Place
    BY <2>1, SnapshotType
  <2>3. InOf(r, r[m].folder) # {}
    BY DEF InOf
  <2>4. /\ Cardinality(InOf(r, r[m].folder)) \in Nat
        /\ Cardinality(InOf(r, r[m].folder)) # 0
    BY <2>3, Finite, FS_CardinalityType, FS_EmptySet
  <2>5. Cardinality(InOf(r, r[m].folder)) > 0
    BY <2>4
  <2> QED BY <1>1, <2>2, <2>5
<1>3. ASSUME NEW f \in Place, t.in[f].refs > 0 PROVE HasMail(r)
  <2>1. Cardinality(InOf(r, f)) > 0
    BY <1>1, <1>3
  <2>2. Cardinality(InOf(r, f)) # 0
    BY <2>1
  <2>3. InOf(r, f) # {}
    BY <2>2, FS_EmptySet
  <2>4. PICK m \in Mail : r[m].folder = f \/ f \in r[m].tags
    BY <2>3 DEF InOf
  <2>5. f # "" /\ f \notin Tag
    BY ThreadCountsAssumption
  <2>6. r[m] # Empty
    BY <2>4, <2>5, EmptyFacts
  <2> QED BY <2>6 DEF HasMail
<1> QED BY <1>2, <1>3

LEMMA CountInvInit == ThreadInit => CountInv
<1> SUFFICES ASSUME ThreadInit PROVE CountInv
  OBVIOUS
<1>1. ThreadTypeOK
  <2>1. mail \in [Mail -> Snapshot]
    BY DEF ThreadInit, Snapshot
  <2>2. thread \in ThreadRow
    BY NoCountersType DEF ThreadInit
  <2>3. counts \in [Category -> [total: Int, unread: Int]]
    BY CategoryIDsType DEF ThreadInit
  <2>4. 0 \in 0 .. MaxDrifts
    <3>1. MaxDrifts \in Nat
      BY ThreadCountsAssumption
    <3> QED BY <3>1
  <2> QED BY <2>1, <2>2, <2>3, <2>4 DEF ThreadInit, ThreadTypeOK, ThreadRow
<1>2. \A c \in Category : InOf(mail, c) = {}
  BY EmptyFacts DEF ThreadInit, InOf
<1>3. UnreadOf(mail, Mail) = {} /\ \A c \in Category : UnreadOf(mail, InOf(mail, c)) = {}
  <2>1. \A m \in Mail : mail[m].unread = 0
    BY EmptyFacts DEF ThreadInit
  <2>2. \A m \in Mail : mail[m].unread # 1
    BY <2>1
  <2> QED BY <1>2, <2>2 DEF UnreadOf
<1>4. Cardinality({}) = 0
  BY FS_EmptySet
<1>5. Counted(thread, mail)
  <2>1. thread.unread = 0 /\ \A c \in Category : thread.in[c].refs = 0 /\ thread.in[c].unread = 0
    BY DEF ThreadInit, NoCounters, Zero
  <2> QED BY <1>2, <1>3, <1>4, <2>1 DEF Counted, Category
<1>6. ~HasMail(mail)
  BY DEF ThreadInit, HasMail
<1> QED BY <1>1, <1>5, <1>6 DEF ThreadInit, CountInv

LEMMA InsertMailKeeps ==
    ASSUME CountInv, NEW m \in Mail, InsertMail(m)
    PROVE  CountInv'
<1>1. PICK a \in Attributes :
        /\ mail' = [mail EXCEPT ![m] = a]
        /\ SaveThread(ApplyMessageAttributeChanges(thread, Empty, a))
  BY DEF InsertMail
<1>2. /\ a \in Snapshot /\ Empty \in Snapshot /\ mail[m] = Empty
      /\ mail \in [Mail -> Snapshot] /\ thread \in ThreadRow
      /\ filed' = TRUE /\ UNCHANGED <<copy, drifts, exact, leaked>>
  BY DEF InsertMail, Snapshot, CountInv, ThreadTypeOK, ThreadRow
<1>3. ApplyMessageAttributeChanges(thread, Empty, a) \in ThreadRow
  BY <1>2, ApplyType
<1>4. /\ thread' \in ThreadRow
      /\ thread' = ApplyMessageAttributeChanges(thread, Empty, a)
      /\ counts' \in [Category -> [total: Int, unread: Int]]
      /\ ~leaked => counts' = CategoryIDs(thread')
  BY <1>1, <1>3, SaveThreadStep
<1>5. mail' \in [Mail -> Snapshot]
  BY <1>1, <1>2
<1>6. exact => Counted(thread', mail')
  BY <1>1, <1>2, <1>4, ApplyCounts DEF CountInv
<1>7. HasMail(mail')
  <2>1. a # Empty
    BY EmptyFacts
  <2>2. mail'[m] = a
    BY <1>1, <1>2
  <2> QED BY <2>1, <2>2 DEF HasMail
<1>8. ThreadTypeOK'
  BY <1>2, <1>4, <1>5 DEF CountInv, ThreadTypeOK, ThreadRow
<1> QED BY <1>2, <1>4, <1>6, <1>7, <1>8 DEF CountInv, Counted, HasMail

LEMMA ChangeMailKeeps ==
    ASSUME CountInv, NEW m \in Mail, ChangeMail(m)
    PROVE  CountInv'
<1>1. PICK a \in Attributes :
        /\ mail' = [mail EXCEPT ![m] = a]
        /\ AfterSave(mail[m], a)
  BY DEF ChangeMail
<1>2. /\ a \in Snapshot /\ mail[m] \in Snapshot /\ mail[m] # Empty
      /\ mail \in [Mail -> Snapshot] /\ thread \in ThreadRow
      /\ UNCHANGED <<filed, copy, drifts, exact, leaked>>
  BY DEF ChangeMail, Snapshot, CountInv, ThreadTypeOK, ThreadRow
<1>4. /\ thread' \in ThreadRow
      /\ counts' \in [Category -> [total: Int, unread: Int]]
      /\ ~leaked => counts' = CategoryIDs(thread')
      /\ ~filed => thread' = NoCounters
      /\ filed => thread' = ApplyMessageAttributeChanges(thread, mail[m], a)
  BY <1>1, <1>2, AfterSaveStep
<1>5. mail' \in [Mail -> Snapshot]
  BY <1>1, <1>2
<1>6. HasMail(mail) /\ HasMail(mail')
  <2>1. a # Empty
    BY EmptyFacts
  <2>2. mail'[m] = a
    BY <1>1, <1>2
  <2> QED BY <1>2, <2>1, <2>2 DEF HasMail
<1>7. exact => filed /\ Counted(thread', mail')
  <2>1. exact => filed /\ Counted(thread, mail)
    BY <1>6 DEF CountInv
  <2>2. Counted(thread, mail) => Counted(ApplyMessageAttributeChanges(thread, mail[m], a), mail')
    BY <1>1, <1>2, ApplyCounts
  <2> QED BY <1>4, <2>1, <2>2
<1>8. ThreadTypeOK'
  BY <1>2, <1>4, <1>5 DEF CountInv, ThreadTypeOK, ThreadRow
<1> QED BY <1>2, <1>4, <1>6, <1>7, <1>8 DEF CountInv, Counted, HasMail

LEMMA RemoveMailKeeps ==
    ASSUME CountInv, NEW m \in Mail, RemoveMail(m)
    PROVE  CountInv'
<1> DEFINE next == ApplyMessageAttributeChanges(thread, mail[m], Empty)
           kept == \E f \in Place : next.in[f].refs > 0
<1>1. /\ mail' = [mail EXCEPT ![m] = Empty] /\ mail[m] # Empty
      /\ mail[m] \in Snapshot /\ Empty \in Snapshot
      /\ mail \in [Mail -> Snapshot] /\ thread \in ThreadRow
      /\ UNCHANGED <<copy, drifts, exact>>
  BY DEF RemoveMail, Snapshot, CountInv, ThreadTypeOK, ThreadRow
<1>2. mail' \in [Mail -> Snapshot]
  BY <1>1
<1>3. HasMail(mail)
  BY <1>1 DEF HasMail
<1>4. next \in ThreadRow /\ (exact => Counted(next, mail'))
  BY <1>1, ApplyType, ApplyCounts DEF CountInv
<1>5. filed =>
        /\ CountThread(CategoryIDs(thread), CategoryIDs(next))
        /\ filed' = kept
        /\ thread' = IF kept THEN next ELSE NoCounters
        /\ leaked' = (leaked \/ (~kept /\ \E l \in Tag : next.in[l].refs > 0))
  BY DEF RemoveMail
<1>6. ~filed => UNCHANGED <<thread, filed, counts, leaked>>
  BY DEF RemoveMail
<1>7. CASE ~filed
  <2>1. ~exact
    BY <1>3, <1>7 DEF CountInv
  <2>2. ThreadTypeOK'
    BY <1>1, <1>2, <1>6, <1>7 DEF CountInv, ThreadTypeOK
  <2> QED BY <1>1, <1>6, <1>7, <2>1, <2>2 DEF CountInv, CategoryIDs, NoCounters
<1>8. CASE filed
  <2> HIDE DEF next
  <2>1. counts \in [Category -> [total: Int, unread: Int]] /\ leaked \in BOOLEAN
    BY DEF CountInv, ThreadTypeOK
  <2>2. /\ counts' \in [Category -> [total: Int, unread: Int]]
        /\ ~leaked => counts' = CategoryIDs(next)
    BY <1>5, <1>8, <2>1, CountThreadAdds DEF CountInv
  <2>3. exact => (kept <=> HasMail(mail'))
    BY <1>2, <1>4, FolderOfMail
  <2>4. CASE kept
    <3>1. thread' = next /\ filed' = TRUE /\ leaked' = leaked
      BY <1>5, <1>8, <2>1, <2>4
    <3>2. ThreadTypeOK'
      BY <1>1, <1>2, <1>4, <2>1, <2>2, <3>1 DEF CountInv, ThreadTypeOK, ThreadRow
    <3> QED BY <1>1, <1>4, <2>2, <2>3, <2>4, <3>1, <3>2 DEF CountInv, Counted, HasMail
  <2>5. CASE ~kept
    <3>1. /\ thread' = NoCounters /\ filed' = FALSE
          /\ leaked' = (leaked \/ \E l \in Tag : next.in[l].refs > 0)
      BY <1>5, <1>8, <2>5
    <3>2. leaked' \in BOOLEAN
      BY <2>1, <3>1
    <3>3. ThreadTypeOK'
      BY <1>1, <1>2, <2>2, <3>1, <3>2, NoCountersType DEF CountInv, ThreadTypeOK, ThreadRow
    <3>4. ASSUME ~leaked' PROVE counts' = CategoryIDs(thread')
      <4>1. \A c \in Category : ~(next.in[c].refs > 0)
        BY <2>5, <3>1, <3>4 DEF Category
      <4>2. CategoryIDs(next) = [c \in Category |-> [total |-> 0, unread |-> 0]]
        BY <4>1 DEF CategoryIDs
      <4>3. CategoryIDs(NoCounters) = [c \in Category |-> [total |-> 0, unread |-> 0]]
        BY DEF CategoryIDs, NoCounters, Zero
      <4> QED BY <2>2, <3>1, <3>4, <4>2, <4>3
    <3>5. ASSUME exact PROVE ~HasMail(mail') /\ Counted(NoCounters, mail')
      <4>1. ~HasMail(mail')
        BY <2>3, <2>5, <3>5
      <4>2. \A n \in Mail : mail'[n] = Empty
        BY <4>1 DEF HasMail
      <4>3. \A c \in Category : InOf(mail', c) = {}
        BY <4>2, EmptyFacts DEF InOf
      <4>4. /\ UnreadOf(mail', Mail) = {}
            /\ \A c \in Category : UnreadOf(mail', InOf(mail', c)) = {}
        <5>1. \A n \in Mail : mail'[n].unread = 0
          BY <4>2, EmptyFacts
        <5>2. \A n \in Mail : mail'[n].unread # 1
          BY <5>1
        <5> QED BY <4>3, <5>2 DEF UnreadOf
      <4>5. Cardinality({}) = 0
        BY FS_EmptySet
      <4>6. NoCounters.unread = 0 /\ \A c \in Category :
              NoCounters.in[c].refs = 0 /\ NoCounters.in[c].unread = 0
        BY DEF NoCounters, Zero
      <4> QED BY <4>1, <4>3, <4>4, <4>5, <4>6 DEF Counted, Category
    <3> QED BY <1>1, <3>1, <3>3, <3>4, <3>5 DEF CountInv, Counted, HasMail
  <2> QED BY <2>4, <2>5
<1> QED BY <1>7, <1>8

LEMMA HoldModelKeeps ==
    ASSUME CountInv, NEW m \in Mail, HoldModel(m)
    PROVE  CountInv'
<1>1. mail[m] \in Attributes
  BY SnapshotType DEF HoldModel, CountInv, ThreadTypeOK
<1>2. copy' \in Holding
  BY <1>1 DEF HoldModel, Holding
<1>3. ThreadTypeOK'
  BY <1>2 DEF HoldModel, CountInv, ThreadTypeOK
<1> QED BY <1>3 DEF HoldModel, CountInv, Counted, HasMail, CategoryIDs, NoCounters

LEMMA SaveCopyKeeps ==
    ASSUME CountInv, SaveCopy
    PROVE  CountInv'
<1> DEFINE m == copy.of
           stale == filed /\ mail[m] # copy.snapshot
<1>1. /\ m \in Mail /\ copy.snapshot \in Attributes /\ copy.snapshot \in Snapshot
      /\ drifts < MaxDrifts
  BY DEF SaveCopy, CountInv, ThreadTypeOK, Holding, Snapshot
<1>2. PICK a \in Attributes :
        /\ mail' = [mail EXCEPT ![m] = IF @ = Empty THEN @ ELSE a]
        /\ AfterSave(copy.snapshot, a)
  BY DEF SaveCopy
<1>3. /\ a \in Snapshot /\ mail \in [Mail -> Snapshot] /\ thread \in ThreadRow
      /\ drifts' = IF stale THEN drifts + 1 ELSE drifts
      /\ exact' = (exact /\ ~stale)
      /\ copy' = NoCopy
      /\ filed' = filed /\ leaked' = leaked
  BY DEF SaveCopy, Snapshot, CountInv, ThreadTypeOK, ThreadRow
<1>4. /\ thread' \in ThreadRow
      /\ counts' \in [Category -> [total: Int, unread: Int]]
      /\ ~leaked => counts' = CategoryIDs(thread')
      /\ ~filed => thread' = NoCounters
      /\ filed => thread' = ApplyMessageAttributeChanges(thread, copy.snapshot, a)
  BY <1>1, <1>2, <1>3, AfterSaveStep
<1>5. mail' \in [Mail -> Snapshot]
  BY <1>1, <1>2, <1>3
<1>6. HasMail(mail') <=> HasMail(mail)
  <2>1. a # Empty
    BY EmptyFacts
  <2>2. \A n \in Mail : mail'[n] = Empty <=> mail[n] = Empty
    BY <1>2, <1>3, <2>1
  <2> QED BY <2>2 DEF HasMail
<1>7. ASSUME exact' PROVE Counted(thread', mail')
  <2>1. exact /\ Counted(thread, mail) /\ (filed <=> HasMail(mail))
    BY <1>3, <1>7 DEF CountInv
  <2>2. CASE filed
    <3>1. mail[m] = copy.snapshot
      BY <1>3, <1>7, <2>2
    <3>2. copy.snapshot # Empty
      BY <1>1, EmptyFacts
    <3>3. mail' = [mail EXCEPT ![m] = a]
      BY <1>2, <1>3, <3>1, <3>2
    <3>4. Counted(ApplyMessageAttributeChanges(thread, mail[m], a), mail')
      BY <1>1, <1>3, <2>1, <3>3, ApplyCounts
    <3> QED BY <1>4, <2>2, <3>1, <3>4
  <2>3. CASE ~filed
    <3>1. \A n \in Mail : mail[n] = Empty
      BY <2>1, <2>3 DEF HasMail
    <3>2. mail' = mail
      BY <1>1, <1>2, <1>3, <3>1
    <3>3. thread' = thread
      BY <1>4, <2>3 DEF CountInv
    <3> QED BY <2>1, <3>2, <3>3
  <2> QED BY <2>2, <2>3
<1>8. drifts' \in 0 .. MaxDrifts
  <2>1. drifts \in 0 .. MaxDrifts
    BY DEF CountInv, ThreadTypeOK
  <2>2. drifts' = drifts \/ drifts' = drifts + 1
    BY <1>3
  <2>3. drifts < MaxDrifts /\ MaxDrifts \in Nat
    BY <1>1, ThreadCountsAssumption
  <2> QED BY <2>1, <2>2, <2>3
<1>9. exact' \in BOOLEAN /\ (exact' => exact)
  BY <1>3 DEF CountInv, ThreadTypeOK
<1>10. ThreadTypeOK'
  BY <1>3, <1>4, <1>5, <1>8, <1>9 DEF CountInv, ThreadTypeOK, ThreadRow
<1> QED BY <1>3, <1>4, <1>6, <1>7, <1>9, <1>10 DEF CountInv, Counted, HasMail

LEMMA ChangeThreadKeeps ==
    ASSUME CountInv, ChangeThread
    PROVE  CountInv'
<1>1. PICK u \in {0, 1}, f \in Place, rank \in [Mail -> 1 .. Cardinality(Mail)] :
        /\ \/ mail' = [m \in Mail |-> IF mail[m] = Empty THEN Empty
                                      ELSE [mail[m] EXCEPT !.unread = u]]
           \/ mail' = [m \in Mail |-> IF mail[m] = Empty THEN Empty
                                      ELSE [mail[m] EXCEPT !.folder = f]]
        /\ SaveThread(Recount(mail', rank))
  BY DEF ChangeThread
<1>2. /\ filed /\ mail \in [Mail -> Snapshot]
      /\ exact' = (exact \/ HasMail(mail))
      /\ UNCHANGED <<filed, copy, drifts, leaked>>
  BY DEF ChangeThread, CountInv, ThreadTypeOK, HasMail
<1>3. ASSUME NEW n \in Mail, mail[n] # Empty
      PROVE  /\ [mail[n] EXCEPT !.unread = u] \in Attributes
             /\ [mail[n] EXCEPT !.folder = f] \in Attributes
  <2>1. mail[n] \in Attributes
    BY <1>2, <1>3, SnapshotType
  <2> QED BY <2>1 DEF Attributes
<1>4. Attributes \subseteq Snapshot /\ Empty \in Snapshot /\ Empty \notin Attributes
  BY ThreadCountsAssumption DEF Attributes, Snapshot, Empty
<1>5. mail' \in [Mail -> Snapshot] /\ \A n \in Mail : mail'[n] = Empty <=> mail[n] = Empty
  <2>1. CASE mail' = [m \in Mail |-> IF mail[m] = Empty THEN Empty
                                     ELSE [mail[m] EXCEPT !.unread = u]]
    BY <2>1, <1>3, <1>4
  <2>2. CASE mail' = [m \in Mail |-> IF mail[m] = Empty THEN Empty
                                     ELSE [mail[m] EXCEPT !.folder = f]]
    BY <2>2, <1>3, <1>4
  <2> QED BY <1>1, <2>1, <2>2
<1>6. HasMail(mail') <=> HasMail(mail)
  BY <1>5 DEF HasMail
<1>7. /\ Recount(mail', rank) \in ThreadRow
      /\ Counted(Recount(mail', rank), mail')
  BY RecountCounts
<1>8. /\ thread' \in ThreadRow /\ thread' = Recount(mail', rank)
      /\ counts' \in [Category -> [total: Int, unread: Int]]
      /\ ~leaked => counts' = CategoryIDs(thread')
  BY <1>1, <1>7, SaveThreadStep
<1>9. exact' => HasMail(mail')
  BY <1>2, <1>6 DEF CountInv
<1>10. exact' \in BOOLEAN
  BY <1>2
<1>11. ThreadTypeOK'
  BY <1>2, <1>5, <1>8, <1>10 DEF CountInv, ThreadTypeOK, ThreadRow
<1> QED BY <1>2, <1>7, <1>8, <1>9, <1>11 DEF CountInv, Counted, HasMail

LEMMA CountInvNext == CountInv /\ [ThreadNext]_threadVars => CountInv'
<1> SUFFICES ASSUME CountInv, [ThreadNext]_threadVars PROVE CountInv'
  OBVIOUS
<1>1. ASSUME NEW m \in Mail, InsertMail(m) PROVE CountInv'
  BY <1>1, InsertMailKeeps
<1>2. ASSUME NEW m \in Mail, ChangeMail(m) PROVE CountInv'
  BY <1>2, ChangeMailKeeps
<1>3. ASSUME NEW m \in Mail, RemoveMail(m) PROVE CountInv'
  BY <1>3, RemoveMailKeeps
<1>4. ASSUME NEW m \in Mail, HoldModel(m) PROVE CountInv'
  BY <1>4, HoldModelKeeps
<1>5. CASE SaveCopy
  BY <1>5, SaveCopyKeeps
<1>6. CASE ChangeThread
  BY <1>6, ChangeThreadKeeps
<1>7. CASE UNCHANGED threadVars
  BY <1>7 DEF threadVars, CountInv, ThreadTypeOK, Counted, HasMail, CategoryIDs, NoCounters
<1> QED BY <1>1, <1>2, <1>3, <1>4, <1>5, <1>6, <1>7 DEF ThreadNext

-----------------------------------------------------------------------------
\* The counters of the Thread row tell whether a category has messages, and
\* unread ones.
LEMMA CountInvImplies == CountInv => CountersExact
<1> SUFFICES ASSUME CountInv, exact PROVE CountersExact
  BY DEF CountersExact
<1>1. Counted(thread, mail) /\ (filed <=> HasMail(mail))
  BY DEF CountInv
<1>2. \A c : In(c) = InOf(mail, c)
  BY DEF In, InOf
<1>3. \A ms : Unread(ms) = UnreadOf(mail, ms)
  BY DEF Unread, UnreadOf
<1>4. ASSUME ~leaked, NEW c \in Category
      PROVE  counts[c].total = IF In(c) = {} THEN 0 ELSE 1
  <2>1. thread.in[c].refs = Cardinality(In(c)) /\ counts = CategoryIDs(thread)
    BY <1>1, <1>2, <1>4 DEF Counted, CountInv
  <2>2. IsFiniteSet(In(c)) /\ Cardinality(In(c)) \in Nat
    BY <1>2, Finite, FS_CardinalityType
  <2>3. Cardinality(In(c)) > 0 <=> In(c) # {}
    <3>1. Cardinality(In(c)) = 0 <=> In(c) = {}
      BY <2>2, FS_EmptySet
    <3> QED BY <2>2, <3>1
  <2>4. counts[c].total = IF thread.in[c].refs > 0 THEN 1 ELSE 0
    BY <2>1 DEF CategoryIDs
  <2> QED BY <2>1, <2>3, <2>4
<1>5. ASSUME ~leaked, NEW f \in Place
      PROVE  counts[f].unread = IF Unread(In(f)) = {} THEN 0 ELSE 1
  <2>1. /\ f \in Category /\ counts = CategoryIDs(thread)
        /\ thread.in[f].refs = Cardinality(In(f))
        /\ thread.in[f].unread = Cardinality(Unread(In(f)))
    BY <1>1, <1>2, <1>3, <1>5 DEF Counted, CountInv, Category
  <2>2. /\ IsFiniteSet(In(f)) /\ Cardinality(In(f)) \in Nat
        /\ IsFiniteSet(Unread(In(f))) /\ Cardinality(Unread(In(f))) \in Nat
    BY <1>2, <1>3, Finite, FS_CardinalityType
  <2>3. /\ Cardinality(In(f)) = 0 <=> In(f) = {}
        /\ Cardinality(Unread(In(f))) = 0 <=> Unread(In(f)) = {}
    BY <2>2, FS_EmptySet
  <2>4. Unread(In(f)) # {} => In(f) # {}
    BY DEF Unread
  <2>5. counts[f].unread =
          IF thread.in[f].refs > 0 /\ thread.in[f].unread > 0 THEN 1 ELSE 0
    BY <2>1 DEF CategoryIDs
  <2>6. (Cardinality(In(f)) > 0 /\ Cardinality(Unread(In(f))) > 0) <=> Unread(In(f)) # {}
    BY <2>2, <2>3, <2>4
  <2> QED BY <2>1, <2>5, <2>6
<1>6. \A c \in Category : thread.in[c].refs = Cardinality(In(c))
  BY <1>1, <1>2 DEF Counted
<1>7. \A f \in Place : thread.in[f].unread = Cardinality(Unread(In(f)))
  BY <1>1, <1>2, <1>3 DEF Counted
<1>8. thread.unread = Cardinality(Unread(Mail))
  BY <1>1, <1>3 DEF Counted
<1>9. filed <=> \E m \in Mail : mail[m] # Empty
  BY <1>1 DEF HasMail
<1> QED BY <1>4, <1>5, <1>6, <1>7, <1>8, <1>9 DEF CountersExact

\* The variables keep their types: a counter of references is never negative.
THEOREM ThreadTypeCorrect == ThreadSpec => []ThreadTypeOK
<1>1. CountInv => ThreadTypeOK
  BY DEF CountInv
<1> QED BY <1>1, CountInvInit, CountInvNext, PTL DEF ThreadSpec

\* For any number of messages, folders and labels: subtracting and adding
\* keeps the counters of a thread (Thread::applyMessageAttributeChanges) what
\* its messages come to, from one recount to the first stale save.
THEOREM CountersExactHolds == ThreadSpec => []CountersExact
BY CountInvInit, CountInvNext, CountInvImplies, PTL DEF ThreadSpec

-----------------------------------------------------------------------------
(***************************************************************************)
(* Metadata, for any objects and any number of changes, faults and crashes.*)
(***************************************************************************)

(* The states of the server: versions never go down, and one state differs *)
(* from the next in one object.                                            *)

Growing(h) == \A i, j \in 1 .. Len(h) : i <= j => \A o \in Thing : h[i][o] <= h[j][o]

OneByOne(h) ==
    \A i \in 1 .. Len(h) : i + 1 <= Len(h) =>
        \A o, p \in Thing : (h[i + 1][o] # h[i][o] /\ h[i + 1][p] # h[i][p]) => o = p

Timeline == heads \in Seq(Versions) /\ heads # <<>> /\ Growing(heads) /\ OneByOne(heads)

LEMMA Present ==
    ASSUME Timeline
    PROVE  /\ Len(heads) \in Nat \ {0} /\ Current \in Versions
           /\ Current = heads[Len(heads)]
           /\ \A i \in 1 .. Len(heads) : heads[i] \in Versions
           /\ \A i \in 1 .. Len(heads) : \A o \in Thing :
                heads[i][o] \in Nat /\ Current[o] \in Nat /\ heads[i][o] <= Current[o]
<1>1. Len(heads) \in Nat /\ Len(heads) # 0
  BY DEF Timeline
<1>2. \A i \in 1 .. Len(heads) : heads[i] \in Versions
  BY DEF Timeline
<1>3. Current = heads[Len(heads)] /\ Current \in Versions
  BY <1>1, <1>2 DEF Current
<1>4. \A i \in 1 .. Len(heads) : \A o \in Thing : heads[i][o] <= heads[Len(heads)][o]
  BY <1>1 DEF Timeline, Growing
<1> QED
  BY <1>1, <1>2, <1>3, <1>4 DEF Versions

LEMMA AdvanceTimeline ==
    ASSUME Timeline, NEW o \in Thing, Advance(o)
    PROVE  /\ Timeline'
           /\ Len(heads') = Len(heads) + 1
           /\ \A i \in 1 .. Len(heads) : heads'[i] = heads[i]
           /\ heads'[Len(heads) + 1] = [Current EXCEPT ![o] = @ + 1]
<1> DEFINE new == [Current EXCEPT ![o] = @ + 1]
           n == Len(heads)
<1>1. n \in Nat \ {0} /\ Current \in Versions /\ heads \in Seq(Versions)
  BY Present DEF Timeline
<1>2. /\ new \in Versions /\ new[o] = Current[o] + 1
      /\ \A p \in Thing : p # o => new[p] = Current[p]
  BY <1>1 DEF Versions
<1>3. heads' = Append(heads, new)
  BY DEF Advance
<1> HIDE DEF new
<1>4. /\ heads' \in Seq(Versions) /\ Len(heads') = n + 1 /\ heads' # <<>>
      /\ heads'[n + 1] = new /\ \A i \in 1 .. n : heads'[i] = heads[i]
  BY <1>1, <1>2, <1>3
<1>5. ASSUME NEW p \in Thing
      PROVE  Current[p] \in Nat /\ new[p] \in Nat /\ Current[p] <= new[p]
  <2>1. Current[p] \in Nat
    BY <1>1 DEF Versions
  <2>2. new[p] \in Nat
    BY <1>2 DEF Versions
  <2> QED
    BY <1>2, <2>1, <2>2
<1>6. Growing(heads')
  <2> SUFFICES ASSUME NEW i \in 1 .. n + 1, NEW j \in 1 .. n + 1, i <= j, NEW p \in Thing
               PROVE  heads'[i][p] <= heads'[j][p]
    BY <1>4 DEF Growing
  <2>1. CASE j <= n
    BY <1>1, <1>4, <2>1 DEF Timeline, Growing
  <2>2. CASE j = n + 1 /\ i <= n
    <3>1. heads[i][p] \in Nat /\ heads[i][p] <= Current[p]
      BY <1>1, <2>2, Present
    <3> QED
      BY <1>1, <1>4, <1>5, <2>2, <3>1
  <2>3. CASE j = n + 1 /\ i = n + 1
    BY <1>4, <1>5, <2>3
  <2> QED
    BY <1>1, <2>1, <2>2, <2>3
<1>7. OneByOne(heads')
  <2> SUFFICES ASSUME NEW i \in 1 .. n + 1, i + 1 <= n + 1, NEW p \in Thing, NEW q \in Thing,
                      heads'[i + 1][p] # heads'[i][p], heads'[i + 1][q] # heads'[i][q]
               PROVE  p = q
    BY <1>4 DEF OneByOne
  <2>1. CASE i < n
    BY <1>1, <1>4, <2>1 DEF Timeline, OneByOne
  <2>2. CASE i = n
    <3>1. heads'[i] = Current /\ heads'[i + 1] = new
      BY <1>1, <1>4, <2>2, Present
    <3> QED
      BY <1>2, <3>1
  <2> QED
    BY <1>1, <2>1, <2>2
<1> QED
  BY <1>4, <1>6, <1>7 DEF Timeline, new

-----------------------------------------------------------------------------
(* What applying metadata does to what the store knows.                    *)

TablesOK ==
    /\ present \in SUBSET Thing /\ meta \in Versions /\ waiting \in Versions
    /\ spoiled \in SUBSET Thing

LEMMA KnownType == ASSUME TablesOK, NEW o \in Thing PROVE Known(o) \in Nat
BY DEF TablesOK, Versions, Known

LEMMA ApplyKnown ==
    ASSUME TablesOK, NEW o \in Thing, NEW v \in Nat, Apply(o, v)
    PROVE  /\ TablesOK'
           /\ \A p \in Thing \ {o} : Known(p)' = Known(p) /\ (p \in spoiled' <=> p \in spoiled)
           /\ o \notin spoiled' =>
                \/ Known(o)' = v
                \/ Known(o)' = Known(o) /\ Known(o) >= v /\ o \notin spoiled
<1>1. CASE o \in present
  <2>1. /\ meta' = [meta EXCEPT ![o] = IF @ < v THEN v ELSE @]
        /\ spoiled' = IF meta[o] < v THEN spoiled \ {o} ELSE spoiled
        /\ waiting' = waiting /\ present' = present
    BY <1>1 DEF Apply
  <2>2. meta[o] \in Nat /\ meta \in Versions
    BY DEF TablesOK, Versions
  <2>3. CASE meta[o] < v
    <3>1. meta' = [meta EXCEPT ![o] = v] /\ spoiled' = spoiled \ {o}
      BY <2>1, <2>2, <2>3
    <3> QED
      BY <1>1, <2>1, <3>1 DEF TablesOK, Versions, Known
  <2>4. CASE ~(meta[o] < v)
    <3>1. meta' = meta /\ spoiled' = spoiled
      BY <2>1, <2>2, <2>4 DEF Versions
    <3> QED
      BY <1>1, <2>1, <2>2, <2>4, <3>1 DEF TablesOK, Known
  <2> QED
    BY <2>3, <2>4
<1>2. CASE o \notin present
  <2>1. /\ waiting' = [waiting EXCEPT ![o] = v] /\ spoiled' = spoiled \ {o}
        /\ meta' = meta /\ present' = present
    BY <1>2 DEF Apply
  <2> QED
    BY <1>2, <2>1 DEF TablesOK, Versions, Known
<1> QED
  BY <1>1, <1>2

-----------------------------------------------------------------------------
LEMMA MetaTypeInit == MetaInit => MetaTypeOK /\ Timeline
<1> SUFFICES ASSUME MetaInit PROVE MetaTypeOK /\ Timeline
  OBVIOUS
<1>1. PICK h \in [Thing -> {0, 1}] : heads = <<h>>
  BY DEF MetaInit
<1>2. h \in Versions
  BY <1>1 DEF Versions
<1>3. heads \in Seq(Versions) /\ Len(heads) = 1 /\ heads # <<>> /\ heads[1] = h
  BY <1>1, <1>2
<1>4. Growing(heads)
  BY <1>2, <1>3 DEF Growing, Versions
<1>5. OneByOne(heads)
  BY <1>3 DEF OneByOne
<1>6. [o \in Thing |-> 0] \in Versions
  BY DEF Versions
<1>7. Timeline
  BY <1>3, <1>4, <1>5 DEF Timeline
<1>8. /\ cursor = 0 /\ position = 0 /\ deeds = 0
  BY DEF MetaInit
<1>9. /\ meta \in Versions /\ waiting \in Versions /\ unsent \in Versions
  BY <1>6 DEF MetaInit
<1>10. /\ cursor \in 0 .. Len(heads) /\ position \in 0 .. Len(heads) /\ deeds \in 0 .. MaxDeeds
  BY <1>3, <1>8, MetadataAssumption
<1>11. /\ partial \in BOOLEAN /\ toPage \in SUBSET Thing /\ spoiled \in SUBSET Thing
       /\ present \in SUBSET Thing /\ phase = "cursor" /\ held = NotHeld
  BY Zenon DEF MetaInit
<1> QED
  BY <1>3, <1>7, <1>9, <1>10, <1>11, Zenon DEF MetaTypeOK

LEMMA TypeFacts ==
    ASSUME MetaTypeOK, Timeline
    PROVE  /\ TablesOK /\ Len(heads) \in Nat \ {0} /\ cursor \in 0 .. Len(heads)
           /\ position \in 0 .. Len(heads) /\ unsent \in Versions /\ toPage \in SUBSET Thing
           /\ \A i \in 1 .. Len(heads) : \A o \in Thing : heads[i][o] \in Nat
BY Present DEF MetaTypeOK, TablesOK

\* The steps that change the server's state
LEMMA TimelineStep ==
    ASSUME MetaTypeOK, Timeline, [MetaNext]_metaVars
    PROVE  /\ Timeline' /\ Len(heads') >= Len(heads) /\ Len(heads') \in Nat
           /\ \A i \in 1 .. Len(heads) : heads'[i] = heads[i]
<1>1. CASE UNCHANGED heads
  BY <1>1, Present DEF Timeline
<1>2. ASSUME NEW o \in Thing, Advance(o)
      PROVE  /\ Timeline' /\ Len(heads') >= Len(heads) /\ Len(heads') \in Nat
             /\ \A i \in 1 .. Len(heads) : heads'[i] = heads[i]
  <2>1. /\ Timeline' /\ Len(heads') = Len(heads) + 1
        /\ \A i \in 1 .. Len(heads) : heads'[i] = heads[i]
    BY <1>2, AdvanceTimeline
  <2>2. Len(heads) \in Nat
    BY Present
  <2> QED
    BY <2>1, <2>2
<1>3. UNCHANGED heads \/ \E o \in Thing : Advance(o)
  BY DEF MetaNext, MetadataThread, FetchDeltaCursor, FetchMetadata, FetchDeltas, OnDelta,
     SetDeltaCursor, Garbled, Heartbeat, Retry, KillMetadata, SaveHeld, OtherClient, SaveThing,
     RemoveThing, HoldThing, LocalMetadata, SendMetadata, metaVars
<1> QED
  BY <1>1, <1>2, <1>3

LEMMA DeedType == ASSUME MetaTypeOK, Deed PROVE deeds' \in 0 .. MaxDeeds
BY MetadataAssumption DEF MetaTypeOK, Deed

LEMMA MetaTypeStep ==
    ASSUME MetaTypeOK, Timeline, [MetaNext]_metaVars
    PROVE  MetaTypeOK'
<1>1. /\ heads' \in Seq(Versions) /\ Len(heads') >= Len(heads)
      /\ Len(heads) \in Nat \ {0} /\ Len(heads') \in Nat
  BY TimelineStep, Present DEF Timeline
<1>2. ASSUME UNCHANGED <<cursor, position>> PROVE cursor' \in 0 .. Len(heads') /\ position' \in 0 .. Len(heads')
  BY <1>1, <1>2 DEF MetaTypeOK
<1>3. CASE FetchDeltaCursor
  BY <1>1, <1>3 DEF FetchDeltaCursor, MetaTypeOK, tables
<1>4. CASE FetchDeltas
  BY <1>1, <1>4 DEF FetchDeltas, MetaTypeOK, tables
<1>5. CASE SetDeltaCursor
  BY <1>1, <1>5 DEF SetDeltaCursor, Reached, MetaTypeOK, tables
<1>6. ASSUME NEW o \in Thing, FetchMetadata(o) PROVE MetaTypeOK'
  <2>1. TablesOK'
    <3>1. CASE UNCHANGED <<tables, spoiled>>
      BY <3>1, TypeFacts DEF TablesOK, tables
    <3>2. CASE Apply(o, Current[o])
      BY <3>2, ApplyKnown, TypeFacts, Present
    <3> QED
      BY <1>6, <3>1, <3>2 DEF FetchMetadata
  <2> QED
    BY <1>2, <1>1, <1>6, <2>1 DEF FetchMetadata, MetaTypeOK, TablesOK
<1>7. ASSUME NEW o \in Thing, OnDelta(o) PROVE MetaTypeOK'
  <2>1. position + 1 \in 1 .. Len(heads) /\ position' = position + 1 /\ heads' = heads
    BY <1>1, <1>7 DEF OnDelta, Delivers, MetaTypeOK
  <2>2. TablesOK'
    BY <1>7, <2>1, ApplyKnown, TypeFacts DEF OnDelta
  <2> QED
    BY <1>7, <2>1, <2>2 DEF OnDelta, MetaTypeOK, TablesOK
<1>8. ASSUME NEW o \in Thing, Garbled(o) PROVE MetaTypeOK'
  <2>1. position' \in 0 .. Len(heads')
    BY <1>1, <1>8 DEF Garbled, Delivers, MetaTypeOK
  <2> QED
    BY <1>8, <2>1 DEF Garbled, MetaTypeOK, tables
<1>9. CASE Heartbeat
  BY <1>9 DEF Heartbeat, MetaTypeOK, tables
<1>10. CASE Retry
  BY <1>10, DeedType DEF Retry, MetaTypeOK, tables
<1>11. CASE KillMetadata
  BY <1>11, DeedType DEF KillMetadata, MetaTypeOK, tables
<1>12. CASE SaveHeld
  <2>1. meta' \in Versions /\ spoiled' \in SUBSET Thing
    <3>1. held \in Thing \X Nat
      BY <1>12 DEF SaveHeld, MetaTypeOK
    <3>2. held[1] \in Thing /\ held[2] \in Nat
      BY <3>1
    <3> QED
      BY <1>12, <3>2 DEF SaveHeld, MetaTypeOK, Versions
  <2> QED
    BY <1>12, <2>1 DEF SaveHeld, MetaTypeOK, threadState
<1>13. ASSUME NEW o \in Thing, OtherClient(o) PROVE MetaTypeOK'
  BY <1>1, <1>2, <1>13, DeedType DEF OtherClient, MetaTypeOK, threadState, tables
<1>14. ASSUME NEW o \in Thing, SaveThing(o) PROVE MetaTypeOK'
  <2>1. meta' \in Versions /\ waiting' \in Versions
    BY <1>14 DEF SaveThing, Attach, MetaTypeOK, Versions
  <2> QED
    BY <1>14, <2>1, DeedType DEF SaveThing, MetaTypeOK, threadState
<1>15. ASSUME NEW o \in Thing, RemoveThing(o) PROVE MetaTypeOK'
  <2>1. meta' \in Versions
    BY <1>15 DEF RemoveThing, MetaTypeOK, Versions
  <2> QED
    BY <1>15, <2>1, DeedType DEF RemoveThing, MetaTypeOK, threadState
<1>16. ASSUME NEW o \in Thing, HoldThing(o) PROVE MetaTypeOK'
  <2>1. held' \in Thing \X Nat
    BY <1>16 DEF HoldThing, MetaTypeOK, Versions
  <2> QED
    BY <1>16, <2>1, DeedType DEF HoldThing, MetaTypeOK, threadState, tables
<1>17. ASSUME NEW o \in Thing, LocalMetadata(o) PROVE MetaTypeOK'
  <2>1. meta' \in Versions /\ unsent' \in Versions
    BY <1>17 DEF LocalMetadata, MetaTypeOK, Versions
  <2> QED
    BY <1>17, <2>1, DeedType DEF LocalMetadata, MetaTypeOK, threadState
<1>18. ASSUME NEW o \in Thing, SendMetadata(o) PROVE MetaTypeOK'
  <2>1. unsent' \in Versions
    BY <1>18 DEF SendMetadata, MetaTypeOK, Versions
  <2>2. spoiled' \in SUBSET Thing
    BY <1>18 DEF SendMetadata, MetaTypeOK
  <2> QED
    BY <1>1, <1>2, <1>18, <2>1, <2>2 DEF SendMetadata, MetaTypeOK, threadState, tables
<1>19. CASE UNCHANGED metaVars
  BY <1>19 DEF metaVars, MetaTypeOK
<1> QED
  BY <1>3, <1>4, <1>5, <1>6, <1>7, <1>8, <1>9, <1>10, <1>11, <1>12, <1>13, <1>14, <1>15,
     <1>16, <1>17, <1>18, <1>19 DEF MetaNext, MetadataThread

-----------------------------------------------------------------------------
(* Where the thread is, and what its cursors are.                          *)

Stages ==
    /\ phase = "cursor" <=> cursor = 0
    /\ phase # "pages" => toPage = {}
    /\ phase \in {"stream", "advance"} => position >= cursor

LEMMA StagesInit == MetaInit => Stages
BY DEF MetaInit, Stages

LEMMA StagesStep ==
    ASSUME MetaTypeOK, Timeline, Stages, [MetaNext]_metaVars
    PROVE  Stages'
<1>1. cursor \in Nat /\ position \in Nat /\ Len(heads) \in Nat \ {0}
  BY Present DEF MetaTypeOK
<1>2. CASE FetchDeltaCursor
  BY <1>1, <1>2 DEF FetchDeltaCursor, Stages
<1>3. CASE FetchDeltas
  BY <1>1, <1>3 DEF FetchDeltas, Stages
<1>4. CASE SetDeltaCursor
  BY <1>1, <1>4 DEF SetDeltaCursor, Reached, Stages
<1>5. ASSUME NEW o \in Thing, FetchMetadata(o) \/ OnDelta(o) \/ Garbled(o) PROVE Stages'
  BY <1>1, <1>5 DEF FetchMetadata, OnDelta, Garbled, Delivers, Stages
<1>6. CASE Retry \/ KillMetadata
  BY <1>1, <1>6 DEF Retry, KillMetadata, Stages
<1>7. ASSUME UNCHANGED threadState PROVE Stages'
  BY <1>7 DEF threadState, Stages
<1>8. CASE Heartbeat
  BY <1>8 DEF Heartbeat, Stages
<1> QED
  BY <1>2, <1>3, <1>4, <1>5, <1>6, <1>7, <1>8 DEF MetaNext, MetadataThread, SaveHeld, OtherClient,
     SaveThing, RemoveThing, HoldThing, LocalMetadata, SendMetadata, metaVars, threadState

-----------------------------------------------------------------------------
(* The store knows what the cursor stands for.                             *)

\* What the store knows does not get less, but for what is spoiled.
NothingForgot ==
    \A p \in Thing : p \notin spoiled' => p \notin spoiled /\ Known(p)' >= Known(p)

LEMMA OthersKeep ==
    ASSUME MetaTypeOK, Timeline, [MetaNext]_metaVars,
           ~\E o \in Thing : FetchMetadata(o) \/ OnDelta(o)
    PROVE  NothingForgot
<1>1. \A p \in Thing : Known(p) \in Nat
  BY KnownType, TypeFacts
<1>2. ASSUME UNCHANGED tables, spoiled \subseteq spoiled' PROVE NothingForgot
  BY <1>1, <1>2 DEF NothingForgot, Known, tables
<1>3. CASE FetchDeltaCursor \/ FetchDeltas \/ SetDeltaCursor \/ Heartbeat \/ Retry \/ KillMetadata
  BY <1>2, <1>3 DEF FetchDeltaCursor, FetchDeltas, SetDeltaCursor, Heartbeat, Retry, KillMetadata
<1>4. ASSUME NEW o \in Thing, Garbled(o) \/ OtherClient(o) \/ HoldThing(o) \/ SendMetadata(o)
      PROVE  NothingForgot
  BY <1>2, <1>4 DEF Garbled, OtherClient, HoldThing, SendMetadata
<1>5. CASE SaveHeld
  <2>1. UNCHANGED <<present, waiting>> /\ spoiled \subseteq spoiled'
    BY <1>5 DEF SaveHeld
  <2>2. \A p \in Thing : p \notin spoiled' => meta'[p] = meta[p]
    BY <1>5 DEF SaveHeld, MetaTypeOK, Versions
  <2> QED
    BY <1>1, <2>1, <2>2 DEF NothingForgot, Known
<1>6. ASSUME NEW o \in Thing, SaveThing(o) PROVE NothingForgot
  BY <1>1, <1>6 DEF SaveThing, Attach, MetaTypeOK, Versions, NothingForgot, Known
<1>7. ASSUME NEW o \in Thing, RemoveThing(o) PROVE NothingForgot
  <2>1. \A p \in Thing : waiting[p] \in Nat
    BY DEF MetaTypeOK, Versions
  <2> QED
    BY <1>1, <1>7, <2>1 DEF RemoveThing, MetaTypeOK, Versions, NothingForgot, Known
<1>8. ASSUME NEW o \in Thing, LocalMetadata(o) PROVE NothingForgot
  BY <1>1, <1>8 DEF LocalMetadata, MetaTypeOK, Versions, NothingForgot, Known
<1>9. CASE UNCHANGED metaVars
  BY <1>2, <1>9 DEF metaVars, tables
<1> QED
  BY <1>3, <1>4, <1>5, <1>6, <1>7, <1>8, <1>9 DEF MetaNext, MetadataThread

\* Everything up to a state of the server, but for some objects
Covers(i, but) == \A o \in Thing \ but : Known(o) >= heads[i][o]

Covered ==
    /\ cursor # 0 => Covers(cursor, toPage \cup spoiled)
    /\ phase \in {"stream", "advance"} => Covers(position, spoiled)

LEMMA CoveredInit == MetaInit => Covered
BY DEF MetaInit, Covered

\* What was covered stays so when nothing is forgotten.
LEMMA CoversStays ==
    ASSUME MetaTypeOK, Timeline, [MetaNext]_metaVars, NothingForgot,
           NEW i \in 1 .. Len(heads), NEW but, NEW but2, Covers(i, but),
           but \ spoiled \subseteq but2, spoiled' \subseteq but2
    PROVE  \A o \in Thing \ but2 : Known(o)' >= heads'[i][o]
<1> SUFFICES ASSUME NEW o \in Thing \ but2 PROVE Known(o)' >= heads'[i][o]
  OBVIOUS
<1>1. heads'[i] = heads[i] /\ heads[i][o] \in Nat
  BY TimelineStep, TypeFacts
<1>2. o \notin spoiled /\ Known(o)' >= Known(o) /\ Known(o) >= heads[i][o]
  BY DEF NothingForgot, Covers
<1>3. MetaTypeOK' /\ Timeline'
  BY MetaTypeStep, TimelineStep
<1>4. Known(o) \in Nat /\ Known(o)' \in Nat
  <2>1. \A p \in Thing : Known(p) \in Nat
    BY KnownType, TypeFacts
  <2>2. TablesOK'
    BY <1>3 DEF MetaTypeOK, TablesOK
  <2>3. Known(o)' \in Nat
    BY <2>2 DEF TablesOK, Versions, Known
  <2> QED
    BY <2>1, <2>3
<1> QED
  BY <1>1, <1>2, <1>4

LEMMA CoveredStep ==
    ASSUME MetaTypeOK, Timeline, Stages, Covered, [MetaNext]_metaVars
    PROVE  Covered'
<1>1. /\ cursor \in Nat /\ position \in Nat /\ Len(heads) \in Nat \ {0}
      /\ cursor <= Len(heads) /\ position <= Len(heads) /\ toPage \in SUBSET Thing
  BY Present DEF MetaTypeOK
<1>2. cursor # 0 => cursor \in 1 .. Len(heads)
  BY <1>1
<1>3. phase \in {"stream", "advance"} => position \in 1 .. Len(heads)
  BY <1>1 DEF Stages
<1>4. CASE FetchDeltaCursor
  BY <1>4 DEF FetchDeltaCursor, Covered, Covers
<1>5. ASSUME NEW o \in Thing, FetchMetadata(o) PROVE Covered'
  <2>1. /\ phase = "pages" /\ phase' = phase /\ cursor' = cursor /\ heads' = heads
        /\ toPage' = toPage \ {o} /\ cursor \in 1 .. Len(heads)
    BY <1>2, <1>5 DEF FetchMetadata, Stages
  <2>2. Current[o] \in Nat /\ heads[cursor][o] \in Nat /\ heads[cursor][o] <= Current[o]
    BY <2>1, Present
  <2>3. ASSUME NEW p \in Thing \ (toPage' \cup spoiled') PROVE Known(p)' >= heads[cursor][p]
    <3>1. CASE Current[o] = 0 /\ UNCHANGED <<tables, spoiled>>
      <4>1. Known(p)' = Known(p) /\ Known(p) \in Nat
        BY <3>1, KnownType, TypeFacts DEF Known, tables
      <4> QED
        BY <2>1, <2>2, <2>3, <3>1, <4>1 DEF Covered, Covers
    <3>2. CASE Apply(o, Current[o])
      <4>1. TablesOK
        BY TypeFacts
      <4>2. /\ p # o => Known(p)' = Known(p) /\ p \notin spoiled
            /\ p = o => Known(o)' = Current[o] \/ (Known(o)' = Known(o) /\ Known(o) >= Current[o])
        BY <2>2, <2>3, <3>2, <4>1, ApplyKnown
      <4>3. Known(o) \in Nat
        BY <4>1, KnownType
      <4>4. CASE p = o
        BY <2>2, <4>2, <4>3, <4>4
      <4>5. CASE p # o
        BY <2>1, <2>3, <4>2, <4>5 DEF Covered, Covers
      <4> QED
        BY <4>4, <4>5
    <3> QED
      BY <1>5, <3>1, <3>2 DEF FetchMetadata
  <2> QED
    BY <2>1, <2>3 DEF Covered, Covers
<1>6. ASSUME NEW o \in Thing, OnDelta(o) PROVE Covered'
  <2> DEFINE v == heads[position + 1][o]
  <2>1. /\ phase = "stream" /\ cursor' = cursor /\ heads' = heads /\ toPage' = toPage /\ toPage = {}
        /\ position' = position + 1 /\ position < Len(heads)
        /\ heads[position + 1][o] # heads[position][o] /\ Apply(o, v)
    BY <1>6 DEF OnDelta, Delivers, Stages
  <2>2. position \in 1 .. Len(heads) /\ position + 1 \in 1 .. Len(heads) /\ cursor <= position
        /\ cursor # 0
    BY <1>1, <1>3, <2>1 DEF Stages
  <2>3. v \in Nat /\ TablesOK
    BY <2>2, TypeFacts
  <2> HIDE DEF v
  <2>4. ASSUME NEW p \in Thing \ spoiled' PROVE Known(p)' >= heads[position + 1][p]
    <3>1. /\ p # o => Known(p)' = Known(p) /\ p \notin spoiled
          /\ p = o => Known(o)' = v \/ (Known(o)' = Known(o) /\ Known(o) >= v)
      BY <2>1, <2>3, <2>4, ApplyKnown
    <3>2. CASE p = o
      BY <2>3, <3>1, <3>2 DEF v
    <3>3. CASE p # o
      <4>1. heads[position + 1][p] = heads[position][p]
        BY <2>1, <2>2, <3>3 DEF Timeline, OneByOne
      <4> QED
        BY <2>1, <3>1, <3>3, <4>1 DEF Covered, Covers
    <3> QED
      BY <3>2, <3>3
  <2>5. ASSUME NEW p \in Thing \ spoiled' PROVE Known(p)' >= heads[cursor][p]
    <3>1. /\ heads[cursor][p] \in Nat /\ heads[position + 1][p] \in Nat
          /\ heads[cursor][p] <= heads[position + 1][p]
      BY <1>1, <2>2, TypeFacts DEF Timeline, Growing
    <3>2. Known(p)' \in Nat
      <4>1. TablesOK'
        BY <2>1, <2>3, ApplyKnown
      <4> QED
        BY <4>1 DEF TablesOK, Versions, Known
    <3> QED
      BY <2>4, <3>1, <3>2
  <2> QED
    BY <2>1, <2>4, <2>5 DEF Covered, Covers
<1>7. ASSUME NothingForgot,
             ~\E o \in Thing : FetchMetadata(o) \/ OnDelta(o)
      PROVE  Covered'
  <2>1. ASSUME NEW o \in Thing, Garbled(o) PROVE Covered'
    <3>1. /\ phase = "stream" /\ phase' = phase /\ cursor' = cursor /\ heads' = heads
          /\ position' = position + 1 /\ position < Len(heads) /\ toPage = {} /\ toPage' = {}
          /\ heads[position + 1][o] # heads[position][o] /\ spoiled' = spoiled \cup {o}
          /\ UNCHANGED tables
      BY <2>1 DEF Garbled, Delivers, Stages
    <3>2. \A p \in Thing : Known(p)' = Known(p)
      BY <3>1 DEF Known, tables
    <3>3. \A p \in Thing : p # o => heads[position + 1][p] = heads[position][p]
      BY <1>3, <3>1 DEF Timeline, OneByOne
    <3> QED
      BY <3>1, <3>2, <3>3 DEF Covered, Covers
  <2>2. CASE FetchDeltas \/ SetDeltaCursor
    <3>1. /\ heads' = heads /\ UNCHANGED tables /\ spoiled' = spoiled /\ toPage = {} /\ toPage' = {}
          /\ cursor' = position' /\ (position' = cursor \/ position' = position)
          /\ (phase = "pages" /\ position' = cursor /\ cursor # 0)
             \/ (phase = "advance" /\ position' = position)
      BY <2>2 DEF FetchDeltas, SetDeltaCursor, Reached, Stages
    <3>2. \A p \in Thing : Known(p)' = Known(p)
      BY <3>1 DEF Known, tables
    <3> QED
      BY <3>1, <3>2 DEF Covered, Covers
  <2>3. CASE Retry \/ KillMetadata
    <3>1. /\ heads' = heads /\ UNCHANGED tables /\ spoiled' = spoiled \cup toPage /\ toPage' = {}
          /\ cursor' = cursor /\ position' = cursor
          /\ phase' # "cursor" => cursor # 0
      BY <2>3 DEF Retry, KillMetadata, Stages
    <3>2. \A p \in Thing : Known(p)' = Known(p)
      BY <3>1 DEF Known, tables
    <3> QED
      BY <3>1, <3>2 DEF Covered, Covers
  <2>4. ASSUME UNCHANGED <<cursor, phase, toPage, position>> PROVE Covered'
    <3>1. ASSUME cursor # 0
          PROVE  \A o \in Thing \ (toPage \cup spoiled') : Known(o)' >= heads'[cursor][o]
      <4>1. Covers(cursor, toPage \cup spoiled)
        BY <3>1 DEF Covered
      <4> QED
        BY <1>2, <1>7, <3>1, <4>1, CoversStays
    <3>2. ASSUME phase \in {"stream", "advance"}
          PROVE  \A o \in Thing \ spoiled' : Known(o)' >= heads'[position][o]
      <4>1. Covers(position, spoiled)
        BY <3>2 DEF Covered
      <4> QED
        BY <1>3, <1>7, <3>2, <4>1, CoversStays
    <3> QED
      BY <2>4, <3>1, <3>2 DEF Covered, Covers
  <2>5. ASSUME UNCHANGED threadState PROVE Covered'
    BY <2>4, <2>5 DEF threadState
  <2>6. CASE Heartbeat
    BY <2>4, <2>6 DEF Heartbeat
  <2> QED
    BY <1>4, <1>7, <2>1, <2>2, <2>3, <2>5, <2>6 DEF MetaNext, MetadataThread, SaveHeld, OtherClient,
       SaveThing, RemoveThing, HoldThing, LocalMetadata, SendMetadata, metaVars, threadState
<1> QED
  BY <1>5, <1>6, <1>7, OthersKeep

-----------------------------------------------------------------------------
(* The store knows of no version that the server does not have, but for    *)
(* what is still to be sent.                                               *)

\* What waits is of objects that are not in the store.
Detached == \A o \in present : waiting[o] = 0

LEMMA DetachedInit == MetaInit => Detached
BY DEF MetaInit, Detached

LEMMA DetachedStep ==
    ASSUME MetaTypeOK, Detached, [MetaNext]_metaVars
    PROVE  Detached'
<1>1. ASSUME UNCHANGED <<present, waiting>> PROVE Detached'
  BY <1>1 DEF Detached
<1>2. ASSUME NEW o, NEW v, Apply(o, v) PROVE Detached'
  BY <1>2 DEF Apply, Detached, MetaTypeOK, Versions
<1>3. ASSUME NEW o \in Thing, SaveThing(o) \/ RemoveThing(o) PROVE Detached'
  BY <1>3 DEF SaveThing, RemoveThing, Attach, Detached, MetaTypeOK, Versions
<1>4. ASSUME NEW o \in Thing, FetchMetadata(o) \/ OnDelta(o) PROVE Detached'
  BY <1>1, <1>2, <1>4 DEF FetchMetadata, OnDelta, tables
<1> QED
  BY <1>1, <1>3, <1>4 DEF MetaNext, MetadataThread, FetchDeltaCursor, FetchDeltas, SetDeltaCursor,
     Garbled, Heartbeat, Retry, KillMetadata, SaveHeld, OtherClient, HoldThing, LocalMetadata,
     SendMetadata, metaVars, tables

AtMost(o, v) == v <= Current[o] \/ (unsent[o] # 0 /\ v <= unsent[o])

Ceiling == \A o \in Thing \ spoiled : AtMost(o, Known(o))

LEMMA CeilingInit == MetaInit => Ceiling
<1> SUFFICES ASSUME MetaInit PROVE Ceiling
  OBVIOUS
<1>1. \A o \in Thing : Known(o) = 0
  BY DEF MetaInit, Known
<1>2. \A o \in Thing : Current[o] \in Nat
  BY MetaTypeInit, Present
<1>3. ASSUME NEW o \in Thing PROVE AtMost(o, Known(o))
  <2>1. Known(o) = 0 /\ 0 <= Current[o]
    BY <1>1, <1>2
  <2> QED
    BY <2>1 DEF AtMost
<1> QED
  BY <1>3 DEF Ceiling

LEMMA CeilingStep ==
    ASSUME MetaTypeOK, Timeline, Detached, Ceiling, [MetaNext]_metaVars
    PROVE  Ceiling'
<1>1. \A p \in Thing : Known(p) \in Nat /\ Current[p] \in Nat /\ unsent[p] \in Nat
  BY KnownType, TypeFacts, Present DEF MetaTypeOK, Versions
<1>2. ASSUME UNCHANGED <<heads, unsent>>, spoiled \subseteq spoiled',
             \A p \in Thing \ spoiled' : Known(p)' = Known(p)
      PROVE  Ceiling'
  BY <1>2 DEF Ceiling, AtMost, Current
<1>3. ASSUME UNCHANGED tables PROVE \A p \in Thing : Known(p)' = Known(p)
  BY <1>3 DEF Known, tables
<1>4. ASSUME NEW o \in Thing, NEW i \in 1 .. Len(heads), UNCHANGED <<heads, unsent>>,
             Apply(o, heads[i][o])
      PROVE  Ceiling'
  <2>1. heads[i][o] \in Nat /\ heads[i][o] <= Current[o] /\ TablesOK
    BY Present, TypeFacts
  <2>2. ASSUME NEW p \in Thing \ spoiled' PROVE AtMost(p, Known(p)')
    <3>1. /\ p # o => Known(p)' = Known(p) /\ p \notin spoiled
          /\ p = o => Known(o)' = heads[i][o] \/ (Known(o)' = Known(o) /\ o \notin spoiled)
      BY <1>4, <2>1, <2>2, ApplyKnown
    <3>2. CASE p = o /\ Known(o)' = heads[i][o]
      BY <2>1, <3>2 DEF AtMost
    <3>3. CASE Known(p)' = Known(p) /\ p \notin spoiled
      BY <3>3 DEF Ceiling
    <3> QED
      BY <3>1, <3>2, <3>3
  <2> QED
    BY <1>4, <2>2 DEF Ceiling, AtMost, Current
<1>5. ASSUME NEW o \in Thing, FetchMetadata(o) PROVE Ceiling'
  <2>1. CASE UNCHANGED <<tables, spoiled>>
    BY <1>2, <1>3, <1>5, <2>1 DEF FetchMetadata
  <2>2. CASE Apply(o, Current[o])
    <3>1. Len(heads) \in 1 .. Len(heads) /\ Current = heads[Len(heads)]
      BY Present
    <3> QED
      BY <1>4, <1>5, <2>2, <3>1 DEF FetchMetadata
  <2> QED
    BY <1>5, <2>1, <2>2 DEF FetchMetadata
<1>6. ASSUME NEW o \in Thing, OnDelta(o) PROVE Ceiling'
  <2>1. position + 1 \in 1 .. Len(heads)
    BY <1>6, TypeFacts DEF OnDelta, Delivers
  <2> QED
    BY <1>4, <1>6, <2>1 DEF OnDelta
<1>7. CASE FetchDeltaCursor \/ FetchDeltas \/ SetDeltaCursor \/ Heartbeat \/ Retry \/ KillMetadata
  BY <1>2, <1>3, <1>7 DEF FetchDeltaCursor, FetchDeltas, SetDeltaCursor, Heartbeat, Retry, KillMetadata
<1>8. ASSUME NEW o \in Thing, Garbled(o) \/ HoldThing(o) PROVE Ceiling'
  BY <1>2, <1>3, <1>8 DEF Garbled, HoldThing
<1>9. ASSUME NEW o \in Thing, Advance(o)
      PROVE  /\ Current'[o] = Current[o] + 1
             /\ \A p \in Thing : p # o => Current'[p] = Current[p]
  <2>1. Current' = [Current EXCEPT ![o] = @ + 1] /\ Current \in Versions
    BY <1>9, AdvanceTimeline, Present DEF Current
  <2> QED
    BY <2>1 DEF Versions
<1>10. ASSUME NEW o \in Thing, OtherClient(o) PROVE Ceiling'
  <2>1. Advance(o) /\ UNCHANGED <<tables, unsent, spoiled>>
    BY <1>10 DEF OtherClient
  <2>2. \A p \in Thing : Current[p] <= Current'[p]
    BY <1>1, <1>9, <2>1
  <2>3. \A p \in Thing : Current'[p] \in Nat
    BY <1>1, <1>9, <2>1
  <2>4. \A p \in Thing : Known(p)' = Known(p)
    BY <1>3, <2>1
  <2> QED
    BY <1>1, <2>1, <2>2, <2>3, <2>4 DEF Ceiling, AtMost
<1>11. CASE SaveHeld
  <2>1. \A p \in Thing : p \notin spoiled' => meta'[p] = meta[p]
    BY <1>11 DEF SaveHeld, MetaTypeOK, Versions
  <2> QED
    BY <1>2, <1>11, <2>1 DEF SaveHeld, threadState, Known
<1>12. ASSUME NEW o \in Thing, SaveThing(o) PROVE Ceiling'
  <2>1. \A p \in Thing : Known(p)' = Known(p)
    BY <1>12 DEF SaveThing, Attach, MetaTypeOK, Versions, Known
  <2> QED
    BY <1>2, <1>12, <2>1 DEF SaveThing
<1>13. ASSUME NEW o \in Thing, RemoveThing(o) PROVE Ceiling'
  <2>1. UNCHANGED <<heads, unsent, waiting>> /\ o \in present /\ present' = present \ {o}
    BY <1>13 DEF RemoveThing
  <2>2. \A p \in Thing : p # o => Known(p)' = Known(p)
    BY <1>13 DEF RemoveThing, MetaTypeOK, Versions, Known
  <2>3. spoiled \subseteq spoiled'
    BY <1>13 DEF RemoveThing
  <2>4. Known(o)' = 0
    BY <2>1 DEF Known, Detached
  <2>5. AtMost(o, 0)
    BY <1>1 DEF AtMost
  <2> QED
    BY <2>1, <2>2, <2>3, <2>4, <2>5 DEF Ceiling, AtMost, Current
<1>14. ASSUME NEW o \in Thing, LocalMetadata(o) PROVE Ceiling'
  <2>1. /\ UNCHANGED <<heads, spoiled>>
        /\ \A p \in Thing : p # o => Known(p)' = Known(p) /\ unsent'[p] = unsent[p]
        /\ Known(o)' = meta[o] + 1 /\ unsent'[o] = meta[o] + 1 /\ meta[o] \in Nat
    BY <1>14 DEF LocalMetadata, MetaTypeOK, Versions, Known
  <2> QED
    BY <2>1 DEF Ceiling, AtMost, Current
<1>15. ASSUME NEW o \in Thing, SendMetadata(o) PROVE Ceiling'
  <2>1. /\ UNCHANGED tables /\ unsent'[o] = 0
        /\ \A p \in Thing : p # o => unsent'[p] = unsent[p]
    BY <1>15 DEF SendMetadata, MetaTypeOK, Versions
  <2>2. \A p \in Thing : Known(p)' = Known(p)
    BY <1>3, <2>1
  <2>3. CASE unsent[o] = Current[o] + 1 /\ Advance(o) /\ UNCHANGED spoiled
    BY <1>1, <1>9, <2>1, <2>2, <2>3 DEF Ceiling, AtMost
  <2>4. CASE spoiled' = spoiled \cup {o} /\ UNCHANGED heads
    BY <2>1, <2>2, <2>4 DEF Ceiling, AtMost, Current
  <2> QED
    BY <1>15, <2>3, <2>4 DEF SendMetadata
<1>16. CASE UNCHANGED metaVars
  BY <1>2, <1>3, <1>16 DEF metaVars, tables
<1> QED
  BY <1>5, <1>6, <1>7, <1>8, <1>10, <1>11, <1>12, <1>13, <1>14, <1>15, <1>16 DEF MetaNext, MetadataThread

-----------------------------------------------------------------------------
MetaInv == MetaTypeOK /\ Timeline /\ Stages /\ Covered /\ Detached /\ Ceiling

LEMMA MetaInvariant == MetaSpec => []MetaInv
<1>1. MetaInit => MetaInv
  BY MetaTypeInit, StagesInit, CoveredInit, DetachedInit, CeilingInit DEF MetaInv
<1>2. MetaInv /\ [MetaNext]_metaVars => MetaInv'
  BY MetaTypeStep, TimelineStep, StagesStep, CoveredStep, DetachedStep,
     CeilingStep DEF MetaInv
<1> QED
  BY <1>1, <1>2, PTL DEF MetaSpec

\* The variables keep their types.
THEOREM MetaTypeCorrect == MetaSpec => []MetaTypeOK
<1>1. MetaInv => MetaTypeOK
  BY DEF MetaInv
<1> QED
  BY <1>1, MetaInvariant, PTL

\* The cursor that MetadataWorker saves never runs ahead of what the store
\* knows, whatever is killed, retried or changed by others.
THEOREM CursorInclusiveHolds == MetaSpec => []CursorInclusive
<1>1. MetaInv => CursorInclusive
  BY DEF MetaInv, Covered, Covers, CursorInclusive
<1> QED
  BY <1>1, MetaInvariant, PTL

\* When the cursor has arrived and nothing is to be sent, the versions in the
\* store are the server's, but for what was lost in a known way.
THEOREM MetadataAgreesHolds == MetaSpec => []MetadataAgrees
<1>1. MetaInv => MetadataAgrees
  <2> SUFFICES ASSUME MetaInv, cursor = Len(heads), phase = "stream",
                      NEW o \in Thing \ spoiled, unsent[o] = 0
               PROVE  Known(o) = Current[o]
    BY DEF MetadataAgrees
  <2>1. Len(heads) \in Nat \ {0} /\ Current = heads[Len(heads)] /\ Current[o] \in Nat
    BY Present DEF MetaInv
  <2>2. toPage = {} /\ Known(o) >= Current[o]
    BY <2>1 DEF MetaInv, Stages, Covered, Covers
  <2>3. Known(o) <= Current[o]
    BY DEF MetaInv, Ceiling, AtMost
  <2>4. Known(o) \in Nat
    BY KnownType, TypeFacts DEF MetaInv
  <2> QED
    BY <2>1, <2>2, <2>3, <2>4
<1> QED
  BY <1>1, MetaInvariant, PTL
=============================================================================
