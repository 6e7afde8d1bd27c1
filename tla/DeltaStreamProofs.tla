-------------------------- MODULE DeltaStreamProofs --------------------------
(***************************************************************************)
(* Proofs about DeltaStream, for any stores, delays, objects and classes,  *)
(* and any number of saves.                                                *)
(***************************************************************************)
EXTENDS DeltaStream, TLAPS

LEMMA ContentTypes ==
    /\ NoContent \in Content /\ NoModels \in [Object -> Content]
    /\ \A o \in Object : TableName[o] \in Class
<1>1. NoContent \in Content
  BY DEF NoContent, Content
<1> QED
  BY <1>1 DEF NoModels, Class

LEMMA StreamTypeInit == Init => TypeOK
<1> SUFFICES ASSUME Init PROVE TypeOK
  OBVIOUS
<1>1. PICK there \in SUBSET Object :
        /\ db = [o \in Object |-> IF o \in there THEN 1 ELSE 0]
        /\ view = [o \in Object |-> IF o \in there
                     THEN [stamp |-> 1, first |-> TRUE] ELSE NoContent]
  BY DEF Init
<1>2. [stamp |-> 1, first |-> TRUE] \in Content
  BY DEF Content
<1>3. view \in [Object -> Content]
  BY <1>1, <1>2, ContentTypes
<1>4. db \in [Object -> Nat]
  BY <1>1
<1>5. <<>> \in Seq(Delta) /\ <<>> \in Seq(Item)
  OBVIOUS
<1> QED
  BY <1>3, <1>4, <1>5 DEF Init, TypeOK

-----------------------------------------------------------------------------
(* Merging.                                                                *)

LEMMA UpsertType ==
    ASSUME NEW models \in [Object -> Content], NEW d \in Delta
    PROVE  /\ Upsert(models, d) \in [Object -> Content]
           /\ Upsert(models, d)[d.id] =
                [stamp |-> d.stamp, first |-> models[d.id].first \/ d.first]
           /\ \A o \in Object \ {d.id} : Upsert(models, d)[o] = models[o]
<1> DEFINE f == models[d.id].first \/ d.first
           new == [stamp |-> d.stamp, first |-> f]
<1>1. d.id \in Object /\ d.stamp \in Nat
  BY DEF Delta
<1>2. f \in BOOLEAN
  BY DEF Delta
<1>3. new \in Content
  BY <1>1, <1>2 DEF Content
<1>4. Upsert(models, d) = [models EXCEPT ![d.id] = new]
  BY DEF Upsert
<1> HIDE DEF new
<1>5. /\ [models EXCEPT ![d.id] = new] \in [Object -> Content]
      /\ [models EXCEPT ![d.id] = new][d.id] = new
      /\ \A o \in Object \ {d.id} : [models EXCEPT ![d.id] = new][o] = models[o]
  BY <1>1, <1>3
<1> QED
  BY <1>4, <1>5 DEF new

\* The item at the end of the list after a delta was queued, and the others.
LEMMA QueuedItems ==
    ASSUME NEW items \in Seq(Item), NEW d \in Delta
    PROVE  /\ Queued(items, d) \in Seq(Item)
           /\ \E models \in [Object -> Content] :
                 \/ /\ Len(items) # 0 /\ models = items[Len(items)].models
                    /\ items[Len(items)].type = d.type
                    /\ Len(Queued(items, d)) = Len(items)
                    /\ Queued(items, d)[Len(items)] =
                         [type |-> d.type, models |-> Upsert(models, d)]
                    /\ \A i \in 1..(Len(items) - 1) : Queued(items, d)[i] = items[i]
                 \/ /\ models = NoModels
                    /\ Len(Queued(items, d)) = Len(items) + 1
                    /\ Queued(items, d)[Len(items) + 1] =
                         [type |-> d.type, models |-> Upsert(models, d)]
                    /\ \A i \in 1..Len(items) : Queued(items, d)[i] = items[i]
<1> DEFINE n == Len(items)
           new(models) == [type |-> d.type, models |-> Upsert(models, d)]
<1>1. n \in Nat /\ \A i \in 1..n : items[i] \in Item
  OBVIOUS
<1>2. \A models \in [Object -> Content] : new(models) \in Item
  BY UpsertType DEF Item, Delta
<1> HIDE DEF new
<1>3. CASE n # 0 /\ items[n].type = d.type
  <2> DEFINE models == items[n].models
  <2>1. models \in [Object -> Content]
    BY <1>1, <1>3 DEF Item
  <2>2. Queued(items, d) = [items EXCEPT ![n] = new(models)]
    BY <1>3 DEF Queued, new
  <2> DEFINE q == new(models)
  <2>3. q \in Item
    BY <2>1, <1>2
  <2> HIDE DEF q
  <2>4. /\ [items EXCEPT ![n] = q] \in Seq(Item)
        /\ Len([items EXCEPT ![n] = q]) = n
        /\ [items EXCEPT ![n] = q][n] = q
        /\ \A i \in 1..(n - 1) : [items EXCEPT ![n] = q][i] = items[i]
    BY <2>3, <1>1, <1>3
  <2> QED
    BY <2>1, <2>2, <2>4, <1>3 DEF new, q
<1>4. CASE ~(n # 0 /\ items[n].type = d.type)
  <2>1. Queued(items, d) = Append(items, new(NoModels))
    BY <1>4 DEF Queued, new
  <2> DEFINE q == new(NoModels)
  <2>2. q \in Item
    BY <1>2, ContentTypes
  <2> HIDE DEF q
  <2>3. /\ Append(items, q) \in Seq(Item) /\ Len(Append(items, q)) = n + 1
        /\ Append(items, q)[n + 1] = q
        /\ \A i \in 1..n : Append(items, q)[i] = items[i]
    BY <2>2, <1>1
  <2> QED
    BY <2>1, <2>3, ContentTypes DEF new, q
<1> QED
  BY <1>3, <1>4

LEMMA HeardType ==
    ASSUME NEW c \in Content, NEW d \in Delta
    PROVE  Heard(c, d) \in Content
<1>1. d.stamp \in Nat /\ (c.first \/ d.first) \in BOOLEAN
  BY DEF Content, Delta
<1> QED
  BY <1>1 DEF Heard, Content

LEMMA ShownType ==
    ASSUME NEW c \in Content, NEW items \in Seq(Item), NEW o \in Object
    PROVE  Shown(c, items, o) \in Content
<1> DEFINE st == IF Latest(items, o) = {} THEN c.stamp
                 ELSE StampOf(items[CHOOSE i \in Latest(items, o) : TRUE], o)
           f == c.first \/ \E i \in DOMAIN items : items[i].models[o].first
<1>1. st \in Nat
  <2>1. CASE Latest(items, o) = {}
    BY <2>1 DEF Content
  <2>2. CASE Latest(items, o) # {}
    <3>1. (CHOOSE i \in Latest(items, o) : TRUE) \in Latest(items, o)
      BY <2>2
    <3>2. Latest(items, o) \subseteq DOMAIN items
      BY DEF Latest, About
    <3>3. \A i \in DOMAIN items : StampOf(items[i], o) \in Nat
      <4> TAKE i \in DOMAIN items
      <4>1. items[i] \in Item
        OBVIOUS
      <4>2. items[i].models[o] \in Content
        BY <4>1 DEF Item
      <4>3. items[i].models[o].stamp \in Nat
        BY <4>2 DEF Content
      <4> QED
        BY <4>3 DEF StampOf
    <3> QED
      BY <3>1, <3>2, <3>3, <2>2
  <2> QED
    BY <2>1, <2>2
<1>2. f \in BOOLEAN
  BY DEF Content
<1>3. Shown(c, items, o) = [stamp |-> st, first |-> f]
  BY DEF Shown
<1> HIDE DEF st, f
<1> QED
  BY <1>1, <1>2, <1>3 DEF Content

\* What the client makes of the list with the delta merged into it is what it
\* makes of the list and then of the delta.
LEMMA ShownQueued ==
    ASSUME NEW c \in Content, NEW items \in Seq(Item), NEW d \in Delta,
           NEW o \in Object
    PROVE  Shown(c, Queued(items, d), o) =
             IF o = d.id THEN Heard(Shown(c, items, o), d) ELSE Shown(c, items, o)
<1> DEFINE q == Queued(items, d)
           n == Len(items)
<1>1. q \in Seq(Item) /\ n \in Nat /\ d.id \in Object
  BY QueuedItems DEF Delta
<1>2. PICK models \in [Object -> Content] :
        \/ /\ n # 0 /\ models = items[n].models /\ items[n].type = d.type
           /\ Len(q) = n
           /\ q[n] = [type |-> d.type, models |-> Upsert(models, d)]
           /\ \A i \in 1..(n - 1) : q[i] = items[i]
        \/ /\ models = NoModels
           /\ Len(q) = n + 1
           /\ q[n + 1] = [type |-> d.type, models |-> Upsert(models, d)]
           /\ \A i \in 1..n : q[i] = items[i]
  BY QueuedItems
<1>3. /\ Upsert(models, d) \in [Object -> Content]
      /\ Upsert(models, d)[d.id] =
           [stamp |-> d.stamp, first |-> models[d.id].first \/ d.first]
      /\ \A p \in Object \ {d.id} : Upsert(models, d)[p] = models[p]
  BY UpsertType
<1>4. d.stamp # 0 /\ d.stamp \in Nat /\ d.type \in DeltaType
  BY DEF Delta
<1> HIDE DEF q
<1>5. DOMAIN items = 1..n /\ DOMAIN q = 1..Len(q)
  BY <1>1
<1>6. CASE o # d.id
  <2>1. \A i \in 1..n : q[i].type = items[i].type /\ q[i].models[o] = items[i].models[o]
    BY <1>1, <1>2, <1>3, <1>6
  <2>2. Len(q) = n + 1 => q[n + 1].models[o] = NoContent
    BY <1>1, <1>2, <1>3, <1>6 DEF NoModels
  <2>3. Len(q) \in {n, n + 1}
    BY <1>2
  <2> DEFINE AboutAt(list, i) == i \in DOMAIN list /\ list[i].models[o].stamp # 0
  <2>4. About(q, o) = About(items, o)
    <3>1. NoContent.stamp = 0
      BY DEF NoContent
    <3>2. \A i : AboutAt(q, i) <=> AboutAt(items, i)
      <4>1. CASE Len(q) = n
        BY <4>1, <2>1, <1>5
      <4>2. CASE Len(q) = n + 1
        <5>1. DOMAIN q = 1..n \cup {n + 1}
          BY <4>2, <1>1, <1>5
        <5>2. q[n + 1].models[o].stamp = 0
          BY <4>2, <2>2, <3>1
        <5>3. n + 1 \notin DOMAIN items
          BY <1>1, <1>5
        <5> QED
          BY <5>1, <5>2, <5>3, <2>1, <1>5
      <4> QED
        BY <4>1, <4>2, <2>3
    <3> QED
      BY <3>2 DEF About
  <2>5. Latest(q, o) = Latest(items, o)
    BY <2>4 DEF Latest
  <2>6. Latest(q, o) # {} =>
          StampOf(q[CHOOSE i \in Latest(q, o) : TRUE], o) =
            StampOf(items[CHOOSE i \in Latest(items, o) : TRUE], o)
    <3> SUFFICES ASSUME Latest(q, o) # {}
                 PROVE  StampOf(q[CHOOSE i \in Latest(q, o) : TRUE], o) =
                          StampOf(items[CHOOSE i \in Latest(items, o) : TRUE], o)
      OBVIOUS
    <3>1. PICK i : i = (CHOOSE j \in Latest(items, o) : TRUE)
      OBVIOUS
    <3>2. i \in 1..n
      BY <3>1, <2>5, <1>5 DEF Latest, About
    <3>3. StampOf(q[i], o) = StampOf(items[i], o)
      BY <3>2, <2>1 DEF StampOf
    <3> QED
      BY <3>1, <3>3, <2>5
  <2>7. (\E i \in DOMAIN q : q[i].models[o].first)
          <=> (\E i \in DOMAIN items : items[i].models[o].first)
    <3>1. ~NoContent.first
      BY DEF NoContent
    <3>2. CASE Len(q) = n
      BY <3>2, <2>1, <1>5
    <3>3. CASE Len(q) = n + 1
      <4>1. DOMAIN q = 1..n \cup {n + 1}
        BY <3>3, <1>1, <1>5
      <4>2. ~q[n + 1].models[o].first
        BY <3>3, <2>2, <3>1
      <4> QED
        BY <4>1, <4>2, <2>1, <1>5
    <3> QED
      BY <3>2, <3>3, <2>3
  <2>8. Shown(c, q, o) = Shown(c, items, o)
    <3>1. CASE Latest(q, o) = {}
      BY <3>1, <2>5, <2>7 DEF Shown
    <3>2. CASE Latest(q, o) # {}
      BY <3>2, <2>5, <2>6, <2>7 DEF Shown
    <3> QED
      BY <3>1, <3>2
  <2> QED
    BY <2>8, <1>6 DEF q
<1>7. CASE o = d.id
  <2> DEFINE N == Len(q)
  <2>1. N \in 1..(n + 1) /\ N \in DOMAIN q /\ \A i \in DOMAIN q : i <= N
    <3>1. N \in {n, n + 1} /\ N # 0
      BY <1>1, <1>2
    <3>2. DOMAIN q = 1..N
      BY <1>5
    <3> HIDE DEF N
    <3> QED
      BY <3>1, <3>2, <1>1
  <2>2. q[N] = [type |-> d.type, models |-> Upsert(models, d)]
    BY <1>1, <1>2
  <2>3. N \in About(q, o)
    BY <2>1, <2>2, <1>3, <1>4, <1>7 DEF About
  <2>4. Latest(q, o) = {N}
    BY <2>1, <2>3, <1>1, <1>5 DEF Latest, About
  <2>5. StampOf(q[N], o) = IF d.type = "persist" THEN d.stamp ELSE 0
    BY <2>2, <1>3, <1>7 DEF StampOf
  <2>6. (\E i \in DOMAIN q : q[i].models[o].first)
          <=> (\E i \in DOMAIN items : items[i].models[o].first) \/ d.first
    <3>1. q[N].models[o].first <=> models[o].first \/ d.first
      <4>1. q[N].models = Upsert(models, d)
        BY <2>2
      <4>2. Upsert(models, d)[o].first = (models[o].first \/ d.first)
        BY <1>3, <1>7
      <4> QED
        BY <4>1, <4>2
    <3>2. \/ N = n /\ n # 0 /\ models = items[n].models
          \/ N = n + 1 /\ ~models[o].first
      BY <1>2 DEF NoModels, NoContent
    <3>3. \A i \in 1..(N - 1) : q[i] = items[i]
      BY <1>1, <1>2
    <3>4. DOMAIN q = 1..(N - 1) \cup {N} /\ N \notin 1..(N - 1)
      BY <2>1, <1>1, <1>5
    <3> DEFINE F(list, i) == list[i].models[o].first
    <3>5. \A i \in 1..(N - 1) : F(q, i) <=> F(items, i)
      BY <3>3
    <3>6. (\E i \in DOMAIN q : F(q, i))
            <=> (\E i \in 1..(N - 1) : F(items, i)) \/ models[o].first \/ d.first
      BY <3>1, <3>4, <3>5
    <3>7. (\E i \in DOMAIN items : F(items, i))
            <=> (\E i \in 1..(N - 1) : F(items, i)) \/ models[o].first
      <4>1. CASE N = n /\ n # 0 /\ models = items[n].models
        <5>1. DOMAIN items = 1..(N - 1) \cup {N}
          BY <4>1, <1>1, <1>5
        <5> QED
          BY <5>1, <4>1
      <4>2. CASE N = n + 1 /\ ~models[o].first
        <5>1. DOMAIN items = 1..(N - 1)
          BY <4>2, <1>1, <1>5
        <5> QED
          BY <5>1, <4>2
      <4> QED
        BY <4>1, <4>2, <3>2
    <3> QED
      BY <3>6, <3>7
  <2>7. Shown(c, q, o).stamp = IF d.type = "persist" THEN d.stamp ELSE 0
    BY <2>4, <2>5 DEF Shown
  <2>8. Shown(c, q, o) = Heard(Shown(c, items, o), d)
    BY <2>6, <2>7 DEF Shown, Heard
  <2> QED
    BY <2>8, <1>7 DEF q
<1> QED
  BY <1>6, <1>7

-----------------------------------------------------------------------------
(* Type correctness.                                                       *)

LEMMA DeltaTypes ==
    ASSUME TypeOK, NEW s \in Store, NEW o \in Object
    PROVE  PersistDelta(s, o) \in Delta /\ UnpersistDelta(o) \in Delta
<1>1. stamp + 1 \in Nat \ {0}
  BY DEF TypeOK
<1>2. (o \notin found[s]) \in BOOLEAN
  OBVIOUS
<1> QED
  BY <1>1, <1>2 DEF PersistDelta, UnpersistDelta, Delta, DeltaType

LEMMA SavedType ==
    ASSUME TypeOK, NEW s \in Store, NEW o \in Object, NEW now \in [Object -> Nat]
    PROVE  Saved(s, o, now) \in [Object -> Nat]
BY DEF Saved, TypeOK

\* What a step of a store may change, and what types that asks for.
LEMMA TransactionType ==
    ASSUME TypeOK, NEW s \in Store, Transaction(s)
    PROVE  TypeOK'
<1>1. CASE Find(s)
  BY <1>1 DEF Find, TypeOK, stream
<1>2. CASE Begin(s)
  BY <1>2 DEF Begin, Goes, TypeOK, stream
<1>3. CASE Erase(s)
  <2>1. <<>> \in Seq(Delta)
    OBVIOUS
  <2> QED
    BY <1>3, <2>1 DEF Erase, TypeOK, stream, rows
<1>4. CASE Commit(s)
  <2>1. <<>> \in Seq(Delta)
    OBVIOUS
  <2>2. \A i \in DOMAIN pending[s] : pending[s][i] \in Delta
    BY DEF TypeOK
  <2>3. Ids(pending[s]) \subseteq Object
    BY <2>2 DEF Ids, Delta
  <2>4. excused' \subseteq Object
    BY <1>4, <2>3 DEF Commit, TypeOK
  <2>5. pc' \in [Store -> {"idle", "open", "emit", "notify"}]
    BY <1>4 DEF Commit, Goes, TypeOK
  <2> QED
    BY <1>4, <2>1, <2>4, <2>5 DEF Commit, TypeOK, stream
<1>5. CASE Rollback(s)
  <2>1. \A i \in DOMAIN pending[s] : pending[s][i] \in Delta
    BY DEF TypeOK
  <2>2. Ids(pending[s]) \subseteq Object
    BY <2>1 DEF Ids, Delta
  <2> QED
    BY <1>5, <2>2 DEF Rollback, Goes, TypeOK, stream
<1>6. ASSUME NEW o \in Object, Save(s, o)
      PROVE  TypeOK'
  <2>1. PersistDelta(s, o) \in Delta /\ Saved(s, o, draft) \in [Object -> Nat]
    BY DeltaTypes, SavedType DEF TypeOK
  <2>2. Append(pending[s], PersistDelta(s, o)) \in Seq(Delta)
    BY <2>1 DEF TypeOK
  <2> QED
    BY <1>6, <2>1, <2>2 DEF Save, NextStamp, TypeOK, stream
<1>7. ASSUME NEW o \in Object, Remove(s, o)
      PROVE  TypeOK'
  <2>1. UnpersistDelta(o) \in Delta
    BY DeltaTypes
  <2>2. Append(pending[s], UnpersistDelta(o)) \in Seq(Delta)
    BY <2>1 DEF TypeOK
  <2> QED
    BY <1>7, <2>2 DEF Remove, NextStamp, TypeOK, stream
<1>8. ASSUME NEW o \in Object, NEW d \in Delta, NEW now \in [Object -> Nat],
             NEW hit, Alone(s, o, d, now, hit), found' \in [Store -> SUBSET Object]
      PROVE  TypeOK'
  <2>1. <<d>> \in Seq(Delta)
    OBVIOUS
  <2>2. excused' \subseteq Object
    BY <1>8 DEF Alone, TypeOK
  <2> QED
    BY <1>8, <2>1, <2>2 DEF Alone, Goes, NextStamp, TypeOK, stream
<1>9. ASSUME NEW o \in Object, SaveAlone(s, o)
      PROVE  TypeOK'
  <2>1. PersistDelta(s, o) \in Delta /\ Saved(s, o, db) \in [Object -> Nat]
    BY DeltaTypes, SavedType DEF TypeOK
  <2>2. found' \in [Store -> SUBSET Object]
    BY <1>9 DEF SaveAlone, TypeOK
  <2> QED
    BY <1>8, <1>9, <2>1, <2>2 DEF SaveAlone
<1>10. ASSUME NEW o \in Object, RemoveAlone(s, o)
       PROVE  TypeOK'
  <2>1. UnpersistDelta(o) \in Delta /\ [db EXCEPT ![o] = 0] \in [Object -> Nat]
    BY DeltaTypes DEF TypeOK
  <2>2. found' \in [Store -> SUBSET Object]
    BY <1>10 DEF RemoveAlone, TypeOK
  <2> QED
    BY <1>8, <1>10, <2>1, <2>2 DEF RemoveAlone
<1> QED
  BY <1>1, <1>2, <1>3, <1>4, <1>5, <1>6, <1>7, <1>9, <1>10 DEF Transaction

\* A delta on its way to the buffer.
LEMMA EmitOneFacts ==
    ASSUME TypeOK, NEW s \in Store, EmitOne(s)
    PROVE  \E d \in Delta :
              /\ d.id \in Object /\ TableName[d.id] \in Class
              /\ buffer' = [buffer EXCEPT ![TableName[d.id]] =
                              Queued(buffer[TableName[d.id]], d)]
              /\ told' = [told EXCEPT ![d.id] = Heard(told[d.id], d)]
              /\ Queued(buffer[TableName[d.id]], d) \in Seq(Item)
              /\ Heard(told[d.id], d) \in Content
<1> DEFINE d == Head(sending[s])
<1>1. sending[s] \in Seq(Delta) /\ sending[s] # <<>>
  BY DEF EmitOne, TypeOK
<1>2. d \in Delta
  BY <1>1
<1>3. d.id \in Object /\ TableName[d.id] \in Class
  BY <1>2, ContentTypes DEF Delta
<1>4. buffer' = [buffer EXCEPT ![TableName[d.id]] = Queued(buffer[TableName[d.id]], d)]
  BY DEF EmitOne
<1>5. told' = [told EXCEPT ![d.id] = Heard(told[d.id], d)]
  BY DEF EmitOne
<1> HIDE DEF d
<1>6. Queued(buffer[TableName[d.id]], d) \in Seq(Item)
  BY <1>2, <1>3, QueuedItems DEF TypeOK
<1>7. Heard(told[d.id], d) \in Content
  BY <1>2, <1>3, HeardType DEF TypeOK
<1> QED
  BY <1>2, <1>3, <1>4, <1>5, <1>6, <1>7

LEMMA EmitType ==
    ASSUME TypeOK, NEW s \in Store, Emit(s)
    PROVE  TypeOK'
<1>1. CASE EmitOne(s)
  <2>1. buffer' \in [Class -> Seq(Item)] /\ told' \in [Object -> Content]
    BY <1>1, EmitOneFacts DEF TypeOK
  <2>2. sending[s] \in Seq(Delta) /\ sending[s] # <<>>
    BY <1>1 DEF EmitOne, TypeOK
  <2>3. Tail(sending[s]) \in Seq(Delta)
    BY <2>2
  <2>4. sending' \in [Store -> Seq(Delta)]
    BY <1>1, <2>3 DEF EmitOne, TypeOK
  <2> QED
    BY <1>1, <2>1, <2>4 DEF EmitOne, TypeOK, rows
<1>2. CASE FlushWithin(s)
  <2>1. Delay[s] \in Nat
    BY DeltaStreamAssumption
  <2> QED
    BY <1>2, <2>1 DEF FlushWithin, Goes, TypeOK, rows
<1>3. CASE Notify(s)
  BY <1>3 DEF Notify, Goes, TypeOK, rows, stream
<1> QED
  BY <1>1, <1>2, <1>3 DEF Emit

LEMMA FlushType ==
    ASSUME TypeOK, FlushThread
    PROVE  TypeOK'
<1>1. CASE Wake
  BY <1>1 DEF Wake, TypeOK, rows
<1>2. CASE Flush
  <2>1. <<>> \in Seq(Item)
    OBVIOUS
  <2>2. \A o \in Object : Shown(view[o], buffer[TableName[o]], o) \in Content
    BY ShownType, ContentTypes DEF TypeOK
  <2>3. view' \in [Object -> Content] /\ buffer' \in [Class -> Seq(Item)]
    BY <1>2, <2>1, <2>2 DEF Flush
  <2> QED
    BY <1>2, <2>3 DEF Flush, TypeOK, rows
<1> QED
  BY <1>1, <1>2 DEF FlushThread

\* The variables of the stores and of the stream always have their types.
THEOREM StreamTypeCorrect == Spec => []TypeOK
<1>1. TypeOK /\ [Next]_vars => TypeOK'
  <2> SUFFICES ASSUME TypeOK, [Next]_vars PROVE TypeOK'
    OBVIOUS
  <2>1. CASE UNCHANGED vars
    BY <2>1 DEF vars, TypeOK
  <2>2. CASE Next
    BY <2>2, TransactionType, EmitType, FlushType DEF Next
  <2> QED
    BY <2>1, <2>2
<1> QED
  BY <1>1, StreamTypeInit, PTL DEF Spec

-----------------------------------------------------------------------------
(* No delta is left in the buffer without a flush to come.                 *)

\* A transaction leaves the stream alone, and no store that emits.
LEMMA TransactionFrame ==
    ASSUME TypeOK, NEW s \in Store, Transaction(s)
    PROVE  /\ UNCHANGED stream
           /\ \A u \in Store : pc[u] = "emit" => pc'[u] = "emit"
<1>1. CASE Find(s)
  BY <1>1 DEF Find
<1>2. CASE Begin(s)
  BY <1>2 DEF Begin, Goes, TypeOK
<1>3. CASE Erase(s)
  BY <1>3 DEF Erase
<1>4. CASE Commit(s)
  BY <1>4 DEF Commit, Goes, TypeOK
<1>5. CASE Rollback(s)
  BY <1>5 DEF Rollback, Goes, TypeOK
<1>6. ASSUME NEW o \in Object, Save(s, o) \/ Remove(s, o)
      PROVE  UNCHANGED <<stream, pc>>
  BY <1>6 DEF Save, Remove
<1>7. ASSUME NEW o \in Object, SaveAlone(s, o) \/ RemoveAlone(s, o)
      PROVE  /\ UNCHANGED stream
             /\ \A u \in Store : pc[u] = "emit" => pc'[u] = "emit"
  BY <1>7 DEF SaveAlone, RemoveAlone, Alone, Goes, TypeOK
<1> QED
  BY <1>1, <1>2, <1>3, <1>4, <1>5, <1>6, <1>7 DEF Transaction

\* Whatever is in the buffer, a flush is scheduled and there is a thread to
\* do it, or the store that put it there is about to ask for one.
THEOREM NeverForgotten == Spec => []NothingForgotten
<1>1. Init => NothingForgotten
  BY DEF Init, NothingForgotten, Buffered
<1>2. TypeOK /\ NothingForgotten /\ [Next]_vars => NothingForgotten'
  <2> SUFFICES ASSUME TypeOK, NothingForgotten, [Next]_vars
               PROVE  NothingForgotten'
    OBVIOUS
  <2>1. CASE UNCHANGED vars
    BY <2>1 DEF vars, NothingForgotten, Buffered
  <2>2. ASSUME NEW s \in Store, Transaction(s)
        PROVE  NothingForgotten'
    BY <2>2, TransactionFrame DEF NothingForgotten, Buffered, stream
  <2>3. ASSUME NEW s \in Store, EmitOne(s)
        PROVE  NothingForgotten'
    BY <2>3 DEF EmitOne, NothingForgotten
  <2>4. ASSUME NEW s \in Store, FlushWithin(s)
        PROVE  NothingForgotten'
    BY <2>4 DEF FlushWithin, NothingForgotten
  <2>5. ASSUME NEW s \in Store, Notify(s)
        PROVE  NothingForgotten'
    BY <2>5 DEF Notify, Goes, stream, NothingForgotten, Buffered, TypeOK
  <2>6. CASE Wake
    BY <2>6 DEF Wake, NothingForgotten, Buffered
  <2>7. CASE Flush
    BY <2>7 DEF Flush, NothingForgotten, Buffered
  <2> QED
    BY <2>1, <2>2, <2>3, <2>4, <2>5, <2>6, <2>7 DEF Next, Emit, FlushThread
<1> QED
  BY <1>1, <1>2, StreamTypeCorrect, PTL DEF Spec

-----------------------------------------------------------------------------
(* The buffered stream implements ClientFeed.                              *)

\* What the client would show is what it shows, and then the buffer.
FeedInv == \A o \in Object : told[o] = Shown(view[o], buffer[TableName[o]], o)

LEMMA ShownNothing ==
    ASSUME NEW c \in Content, NEW o
    PROVE  Shown(c, <<>>, o) = c
<1>1. Latest(<<>>, o) = {}
  BY DEF Latest, About
<1>2. c.first \in BOOLEAN /\ c = [stamp |-> c.stamp, first |-> c.first]
  BY DEF Content
<1>3. (c.first \/ \E i \in DOMAIN <<>> : <<>>[i].models[o].first) = c.first
  BY <1>2
<1> QED
  BY <1>1, <1>2, <1>3 DEF Shown

LEMMA FeedInit == Init => FeedInv /\ Feed!Init
<1> SUFFICES ASSUME Init PROVE FeedInv /\ Feed!Init
  OBVIOUS
<1>1. TypeOK
  BY StreamTypeInit
<1>2. told = view /\ \A o \in Object : buffer[TableName[o]] = <<>>
  BY ContentTypes DEF Init
<1>3. view \in [Object -> Content]
  BY <1>1 DEF TypeOK
<1>4. Feed!Init
  BY <1>2, <1>3 DEF Feed!Init, Feed!Content, Content
<1>5. FeedInv
  BY <1>2, <1>3, ShownNothing DEF FeedInv
<1> QED
  BY <1>4, <1>5

LEMMA FeedStep ==
    ASSUME TypeOK, FeedInv, [Next]_vars
    PROVE  FeedInv' /\ [Feed!Show \/ \E o \in Object : Feed!Tell(o)]_(Feed!feed)
<1> DEFINE Goal == /\ FeedInv'
                   /\ [Feed!Show \/ \E o \in Object : Feed!Tell(o)]_(Feed!feed)
<1> SUFFICES Goal
  OBVIOUS
<1>1. ASSUME UNCHANGED <<buffer, view, told>>
      PROVE  Goal
  BY <1>1 DEF FeedInv, Feed!feed
<1>2. ASSUME NEW s \in Store, EmitOne(s)
      PROVE  Goal
  <2>1. PICK d \in Delta :
          /\ d.id \in Object /\ TableName[d.id] \in Class
          /\ buffer' = [buffer EXCEPT ![TableName[d.id]] =
                          Queued(buffer[TableName[d.id]], d)]
          /\ told' = [told EXCEPT ![d.id] = Heard(told[d.id], d)]
          /\ Queued(buffer[TableName[d.id]], d) \in Seq(Item)
          /\ Heard(told[d.id], d) \in Content
    BY <1>2, EmitOneFacts
  <2>2. view' = view
    BY <1>2 DEF EmitOne
  <2> DEFINE q == Queued(buffer[TableName[d.id]], d)
             h == Heard(told[d.id], d)
  <2>3. \A o \in Object :
          Shown(view[o], q, o) = IF o = d.id
                                 THEN Heard(Shown(view[o], buffer[TableName[d.id]], o), d)
                                 ELSE Shown(view[o], buffer[TableName[d.id]], o)
    BY <2>1, ShownQueued DEF TypeOK
  <2>4. told[d.id].first => h.first
    BY DEF Heard
  <2>5. h = Heard(told[d.id], d)
    OBVIOUS
  <2> HIDE DEF q, h
  <2>6. told' \in [Object -> Content] /\ told'[d.id] = h
        /\ \A o \in Object \ {d.id} : told'[o] = told[o]
    BY <2>1 DEF TypeOK, h
  <2>7. buffer'[TableName[d.id]] = q
        /\ \A c \in Class \ {TableName[d.id]} : buffer'[c] = buffer[c]
    BY <2>1 DEF TypeOK, q
  <2>8. FeedInv'
    <3> SUFFICES ASSUME NEW o \in Object
                 PROVE  told'[o] = Shown(view'[o], buffer'[TableName[o]], o)
      BY DEF FeedInv
    <3>1. told[o] = Shown(view[o], buffer[TableName[o]], o)
      BY DEF FeedInv
    <3>2. CASE o = d.id
      BY <3>1, <3>2, <2>2, <2>3, <2>5, <2>6, <2>7
    <3>3. CASE o # d.id /\ TableName[o] = TableName[d.id]
      BY <3>1, <3>3, <2>2, <2>3, <2>6, <2>7
    <3>4. CASE TableName[o] # TableName[d.id]
      BY <3>1, <3>4, <2>2, <2>6, <2>7, ContentTypes
    <3> QED
      BY <3>2, <3>3, <3>4
  <2>9. Feed!Tell(d.id)
    BY <2>1, <2>2, <2>4, <2>6 DEF Feed!Tell, Feed!Content, Content
  <2> QED
    BY <2>1, <2>8, <2>9
<1>3. CASE Flush
  <2>1. /\ view' = [o \in Object |-> Shown(view[o], buffer[TableName[o]], o)]
        /\ \A o \in Object : buffer'[TableName[o]] = <<>>
        /\ told' = told
    BY <1>3, ContentTypes DEF Flush
  <2>2. view' = told
    BY <2>1 DEF FeedInv, TypeOK
  <2>3. FeedInv'
    BY <2>1, <2>2, ShownNothing DEF FeedInv, TypeOK
  <2> QED
    BY <2>1, <2>2, <2>3 DEF Feed!Show
<1>4. ASSUME NEW s \in Store, Transaction(s)
      PROVE  Goal
  <2>1. UNCHANGED <<buffer, view, told>>
    BY <1>4, TransactionFrame DEF stream
  <2> QED
    BY <2>1, <1>1
<1>5. ASSUME NEW s \in Store, FlushWithin(s) \/ Notify(s)
      PROVE  Goal
  <2>1. UNCHANGED <<buffer, view, told>>
    BY <1>5 DEF FlushWithin, Notify, stream
  <2> QED
    BY <2>1, <1>1
<1>6. CASE Wake \/ UNCHANGED vars
  <2>1. UNCHANGED <<buffer, view, told>>
    BY <1>6 DEF Wake, vars
  <2> QED
    BY <2>1, <1>1
<1> QED
  BY <1>2, <1>3, <1>4, <1>5, <1>6 DEF Next, Emit, FlushThread

\* The merged and delayed stream shows the client what it would have seen had
\* every delta been printed at once: it implements ClientFeed.
THEOREM FeedImplemented == Spec => BufferFaithful
<1>1. Init => FeedInv /\ Feed!Init
  BY FeedInit
<1>2. TypeOK /\ FeedInv /\ [Next]_vars => FeedInv'
  BY FeedStep
<1>3. TypeOK /\ FeedInv /\ [Next]_vars =>
        [Feed!Show \/ \E o \in Object : Feed!Tell(o)]_(Feed!feed)
  BY FeedStep
<1> QED
  BY <1>1, <1>2, <1>3, StreamTypeCorrect, PTL DEF Spec, BufferFaithful, Feed!Spec

-----------------------------------------------------------------------------
(* What the client shows is what the database has.                         *)

Meant(d) == IF d.type = "persist" THEN d.stamp ELSE 0

\* The last of the deltas about o leaves it with the stamp x.
Ends(deltas, o, x) ==
    \E i \in DOMAIN deltas : /\ deltas[i].id = o /\ Meant(deltas[i]) = x
                             /\ \A j \in DOMAIN deltas : deltas[j].id = o => j <= i
TellsFirst(deltas, o) ==
    \E i \in DOMAIN deltas : deltas[i].id = o /\ deltas[i].first

\* One transaction is open at a time, and only a store that emits has deltas
\* in its hands.
Turns ==
    /\ \A s, u \in Store : pc[s] = "open" /\ pc[u] = "open" => s = u
    /\ \A s \in Store : pc[s] # "emit" => sending[s] = <<>>

\* The deltas of the open transaction describe its rows, those of a phantom
\* excepted. What an earlier transaction has left is phantom altogether.
Noted ==
    \A s \in Store :
        /\ pc[s] # "open" => Ids(pending[s]) \subseteq phantom[s]
        /\ pc[s] = "open" => \A o \in Object :
             /\ o \in Ids(pending[s]) \ phantom[s] => Ends(pending[s], o, draft[o])
             /\ draft[o] # 0 /\ db[o] = 0 => TellsFirst(pending[s], o)

\* An object that is not excused is in the hands of one store at most, whose
\* last delta is the row, or else the client has been told the row.
Owed ==
    \A o \in Object \ excused :
        /\ \A s, u \in Store : InFlight(s, o) /\ InFlight(u, o) => s = u
        /\ \A s \in Store : InFlight(s, o) => Ends(sending[s], o, db[o])
        /\ (\A s \in Store : ~InFlight(s, o)) => told[o].stamp = db[o]

Introduced ==
    \A o \in Object :
        db[o] # 0 => told[o].first \/ \E s \in Store : TellsFirst(sending[s], o)

ClientInv == Turns /\ Noted /\ Owed /\ Introduced

LEMMA DeltasAppend ==
    ASSUME NEW deltas \in Seq(Delta), NEW d \in Delta
    PROVE  /\ Ids(Append(deltas, d)) = Ids(deltas) \cup {d.id}
           /\ Ends(Append(deltas, d), d.id, Meant(d))
           /\ \A o, x : o # d.id /\ Ends(deltas, o, x) => Ends(Append(deltas, d), o, x)
           /\ \A o : TellsFirst(deltas, o) => TellsFirst(Append(deltas, d), o)
           /\ d.first => TellsFirst(Append(deltas, d), d.id)
<1> DEFINE q == Append(deltas, d)
           n == Len(deltas)
<1>1. /\ n \in Nat /\ DOMAIN deltas = 1..n /\ DOMAIN q = 1..(n + 1)
      /\ q[n + 1] = d /\ \A i \in 1..n : q[i] = deltas[i]
  OBVIOUS
<1> HIDE DEF q, n
<1>2. Ids(q) = Ids(deltas) \cup {d.id}
  <2>1. DOMAIN q = 1..n \cup {n + 1}
    BY <1>1
  <2> QED
    BY <1>1, <2>1 DEF Ids
<1>3. Ends(q, d.id, Meant(d))
  BY <1>1 DEF Ends
<1>4. ASSUME NEW o, NEW x, o # d.id, Ends(deltas, o, x)
      PROVE  Ends(q, o, x)
  <2>1. PICK i \in DOMAIN deltas :
          /\ deltas[i].id = o /\ Meant(deltas[i]) = x
          /\ \A j \in DOMAIN deltas : deltas[j].id = o => j <= i
    BY <1>4 DEF Ends
  <2>2. i \in DOMAIN q /\ q[i] = deltas[i]
    BY <1>1
  <2>3. \A j \in DOMAIN q : q[j].id = o => j <= i
    BY <1>1, <1>4, <2>1
  <2> QED
    BY <2>1, <2>2, <2>3 DEF Ends
<1>5. ASSUME NEW o, TellsFirst(deltas, o)
      PROVE  TellsFirst(q, o)
  BY <1>1, <1>5 DEF TellsFirst
<1>6. d.first => TellsFirst(q, d.id)
  BY <1>1 DEF TellsFirst
<1> QED
  BY <1>2, <1>3, <1>4, <1>5, <1>6 DEF q

LEMMA DeltasTail ==
    ASSUME NEW deltas \in Seq(Delta), deltas # <<>>
    PROVE  /\ Ids(deltas) = Ids(Tail(deltas)) \cup {Head(deltas).id}
           /\ \A o, x : Ends(deltas, o, x) =>
                IF o \in Ids(Tail(deltas)) THEN Ends(Tail(deltas), o, x)
                ELSE o = Head(deltas).id /\ x = Meant(Head(deltas))
           /\ \A o : TellsFirst(deltas, o) =>
                \/ TellsFirst(Tail(deltas), o)
                \/ o = Head(deltas).id /\ Head(deltas).first
<1> DEFINE q == Tail(deltas)
           d == Head(deltas)
           n == Len(deltas)
<1>1. /\ n \in Nat \ {0} /\ DOMAIN deltas = 1..n /\ DOMAIN q = 1..(n - 1)
      /\ deltas[1] = d /\ \A i \in 1..(n - 1) : q[i] = deltas[i + 1]
  OBVIOUS
<1> HIDE DEF q, d, n
<1>2. \A i \in 2..n : i - 1 \in 1..(n - 1) /\ q[i - 1] = deltas[i]
  BY <1>1
<1>3. Ids(deltas) = Ids(q) \cup {d.id}
  <2>1. \A i \in DOMAIN deltas : deltas[i].id \in Ids(q) \cup {d.id}
    <3> TAKE i \in DOMAIN deltas
    <3>1. CASE i = 1
      BY <1>1, <3>1
    <3>2. CASE i # 1
      <4>1. i - 1 \in DOMAIN q /\ q[i - 1] = deltas[i]
        BY <1>1, <1>2, <3>2
      <4> QED
        BY <4>1 DEF Ids
    <3> QED
      BY <3>1, <3>2
  <2>2. d.id \in Ids(deltas)
    BY <1>1 DEF Ids
  <2>3. \A i \in DOMAIN q : q[i].id \in Ids(deltas)
    BY <1>1 DEF Ids
  <2> QED
    BY <2>1, <2>2, <2>3 DEF Ids
<1>4. ASSUME NEW o, NEW x, Ends(deltas, o, x)
      PROVE  IF o \in Ids(q) THEN Ends(q, o, x) ELSE o = d.id /\ x = Meant(d)
  <2>1. PICK i \in DOMAIN deltas :
          /\ deltas[i].id = o /\ Meant(deltas[i]) = x
          /\ \A j \in DOMAIN deltas : deltas[j].id = o => j <= i
    BY <1>4 DEF Ends
  <2>2. CASE i = 1
    <3>1. ASSUME NEW j \in DOMAIN q
          PROVE  q[j].id # o
      <4>1. j + 1 \in DOMAIN deltas /\ q[j] = deltas[j + 1] /\ ~(j + 1 <= i)
        BY <1>1, <2>2
      <4> QED
        BY <4>1, <2>1
    <3> QED
      BY <1>1, <2>1, <2>2, <3>1 DEF Ids
  <2>3. CASE i # 1
    <3>1. i - 1 \in DOMAIN q /\ q[i - 1] = deltas[i]
      BY <1>1, <1>2, <2>3
    <3>2. \A j \in DOMAIN q : q[j].id = o => j <= i - 1
      BY <1>1, <2>1
    <3>3. o \in Ids(q)
      BY <2>1, <3>1 DEF Ids
    <3> QED
      BY <2>1, <3>1, <3>2, <3>3 DEF Ends
  <2> QED
    BY <2>2, <2>3
<1>5. ASSUME NEW o, TellsFirst(deltas, o)
      PROVE  TellsFirst(q, o) \/ (o = d.id /\ d.first)
  <2>1. PICK i \in DOMAIN deltas : deltas[i].id = o /\ deltas[i].first
    BY <1>5 DEF TellsFirst
  <2>2. CASE i = 1
    BY <1>1, <2>1, <2>2
  <2>3. CASE i # 1
    <3>1. i - 1 \in DOMAIN q /\ q[i - 1] = deltas[i]
      BY <1>1, <1>2, <2>3
    <3> QED
      BY <2>1, <3>1 DEF TellsFirst
  <2> QED
    BY <2>2, <2>3
<1> QED
  BY <1>3, <1>4, <1>5 DEF q, d

LEMMA DeltasEmpty ==
    /\ Ids(<<>>) = {}
    /\ \A o : ~TellsFirst(<<>>, o)
BY DEF Ids, TellsFirst

LEMMA ClientInit == Init => ClientInv
<1> SUFFICES ASSUME Init PROVE ClientInv
  OBVIOUS
<1>1. PICK there \in SUBSET Object :
        /\ db = [o \in Object |-> IF o \in there THEN 1 ELSE 0]
        /\ view = [o \in Object |-> IF o \in there
                     THEN [stamp |-> 1, first |-> TRUE] ELSE NoContent]
  BY DEF Init
<1>2. \A o \in Object : told[o].stamp = db[o] /\ (db[o] # 0 => told[o].first)
  BY <1>1 DEF Init, NoContent
<1>3. Turns
  BY DEF Init, Turns
<1>4. Noted
  BY DeltasEmpty DEF Init, Noted
<1>5. Owed
  BY <1>2, DeltasEmpty DEF Init, Owed, InFlight
<1>6. Introduced
  BY <1>2 DEF Introduced
<1> QED
  BY <1>3, <1>4, <1>5, <1>6 DEF ClientInv

\* A step that leaves the rows, the deltas and the excuses alone.
LEMMA ClientFrame ==
    ASSUME TypeOK, ClientInv, UNCHANGED <<db, draft, sending, pending, told,
                                          phantom, excused>>,
           \A s \in Store : pc'[s] = "open" <=> pc[s] = "open",
           \A s \in Store : pc'[s] # "emit" => sending[s] = <<>>
    PROVE  ClientInv'
<1>1. Turns'
  BY DEF ClientInv, Turns
<1>2. Noted'
  BY DEF ClientInv, Noted
<1>3. Owed'
  BY DEF ClientInv, Owed, InFlight
<1>4. Introduced'
  BY DEF ClientInv, Introduced
<1> QED
  BY <1>1, <1>2, <1>3, <1>4 DEF ClientInv

\* A step within the open transaction of s: the others have nothing to do
\* with it, and the client is owed what it was owed.
LEMMA ClientDraft ==
    ASSUME TypeOK, ClientInv, NEW s \in Store, pc[s] = "open", pc' = pc,
           UNCHANGED <<db, sending, told, excused>>,
           \A u \in Store \ {s} : pending'[u] = pending[u] /\ phantom'[u] = phantom[u],
           \A o \in Object :
             /\ o \in Ids(pending'[s]) \ phantom'[s] => Ends(pending'[s], o, draft'[o])
             /\ draft'[o] # 0 /\ db[o] = 0 => TellsFirst(pending'[s], o)
    PROVE  ClientInv'
<1>1. Turns'
  BY DEF ClientInv, Turns
<1>2. \A u \in Store \ {s} : pc[u] # "open"
  BY DEF ClientInv, Turns
<1>3. Noted'
  BY <1>2 DEF ClientInv, Noted
<1>4. Owed'
  BY DEF ClientInv, Owed, InFlight
<1>5. Introduced'
  BY DEF ClientInv, Introduced
<1> QED
  BY <1>1, <1>3, <1>4, <1>5 DEF ClientInv

LEMMA ClientSave ==
    ASSUME TypeOK, ClientInv, NEW s \in Store, NEW o \in Object,
           Save(s, o) \/ Remove(s, o)
    PROVE  ClientInv'
<1> DEFINE d == IF Save(s, o) THEN PersistDelta(s, o) ELSE UnpersistDelta(o)
<1>1. /\ d \in Delta /\ d.id = o
      /\ pending[s] \in Seq(Delta) /\ draft \in [Object -> Nat] /\ stamp \in Nat
      /\ phantom[s] \subseteq Object
  BY DeltaTypes DEF PersistDelta, UnpersistDelta, TypeOK
<1>2. /\ pc[s] = "open" /\ pc' = pc
      /\ UNCHANGED <<db, sending, told, excused>>
  BY DEF Save, Remove, stream
<1>3. /\ \A u \in Store \ {s} : pending'[u] = pending[u] /\ phantom'[u] = phantom[u]
      /\ pending'[s] = Append(pending[s], d)
  BY DEF Save, Remove, TypeOK
<1>4. \A p \in Object \ {o} :
        draft'[p] = draft[p] /\ (p \in phantom'[s] <=> p \in phantom[s])
  BY <1>1 DEF Save, Remove, Saved, TypeOK
<1>5. o \notin phantom'[s] => draft'[o] = Meant(d)
  BY <1>1 DEF Save, Remove, Saved, Hits, Meant, PersistDelta, UnpersistDelta, TypeOK
<1>6. draft'[o] # 0 /\ draft[o] = 0 => d.first
  BY <1>1 DEF Save, Remove, Saved, Hits, MaySave, PersistDelta, UnpersistDelta, TypeOK
<1> HIDE DEF d
<1>7. \A p \in Object :
        /\ p \in Ids(pending[s]) \ phantom[s] => Ends(pending[s], p, draft[p])
        /\ draft[p] # 0 /\ db[p] = 0 => TellsFirst(pending[s], p)
  BY <1>2 DEF ClientInv, Noted
<1>8. ASSUME NEW p \in Object
      PROVE  /\ p \in Ids(pending'[s]) \ phantom'[s] => Ends(pending'[s], p, draft'[p])
             /\ draft'[p] # 0 /\ db[p] = 0 => TellsFirst(pending'[s], p)
  <2>1. CASE p = o
    BY <1>1, <1>3, <1>5, <1>6, <1>7, <2>1, DeltasAppend
  <2>2. CASE p # o
    BY <1>1, <1>3, <1>4, <1>7, <2>2, DeltasAppend
  <2> QED
    BY <2>1, <2>2
<1> QED
  BY <1>2, <1>3, <1>8, ClientDraft

LEMMA ClientCommit ==
    ASSUME TypeOK, ClientInv, NEW s \in Store, Commit(s)
    PROVE  ClientInv'
<1> DEFINE touched == Ids(pending[s]) \cup {o \in Object : draft[o] # db[o]}
           wrong == {o \in touched : \/ o \notin Ids(pending[s])
                                     \/ o \in phantom[s]
                                     \/ \E u \in Store \ {s} : InFlight(u, o)}
<1>1. /\ pc[s] = "open" /\ sending[s] = <<>> /\ pc'[s] # "open"
      /\ pc'[s] # "emit" => pending[s] = <<>>
      /\ \A u \in Store \ {s} : pc[u] # "open" /\ pc'[u] = pc[u]
  BY DEF Commit, Goes, ClientInv, Turns, TypeOK
<1>2. /\ db' = draft /\ told' = told
      /\ sending'[s] = pending[s] /\ pending'[s] = <<>> /\ phantom'[s] = {}
      /\ \A u \in Store \ {s} : /\ sending'[u] = sending[u] /\ pending'[u] = pending[u]
                                /\ phantom'[u] = phantom[u]
      /\ excused' = (excused \ touched) \cup wrong
  BY DEF Commit, stream, TypeOK
<1> HIDE DEF touched, wrong
<1>3. Turns'
  BY <1>1, <1>2 DEF ClientInv, Turns
<1>4. Noted'
  BY <1>1, <1>2, DeltasEmpty DEF ClientInv, Noted
<1>5. Owed'
  <2> SUFFICES ASSUME NEW o \in Object, o \notin excused'
               PROVE  /\ \A v, u \in Store : InFlight(v, o)' /\ InFlight(u, o)' => v = u
                      /\ \A v \in Store : InFlight(v, o)' => Ends(sending'[v], o, db'[o])
                      /\ (\A v \in Store : ~InFlight(v, o)') => told'[o].stamp = db'[o]
    BY DEF Owed
  <2>1. /\ InFlight(s, o)' <=> o \in Ids(pending[s])
        /\ ~InFlight(s, o)
        /\ \A u \in Store \ {s} : InFlight(u, o)' <=> InFlight(u, o)
    BY <1>1, <1>2, DeltasEmpty DEF InFlight
  <2>2. CASE o \in touched
    <3>1. /\ o \in Ids(pending[s]) /\ o \notin phantom[s]
          /\ \A u \in Store \ {s} : ~InFlight(u, o)
      BY <1>2, <2>2 DEF wrong
    <3>2. Ends(pending[s], o, draft[o])
      BY <1>1, <3>1 DEF ClientInv, Noted
    <3> QED
      BY <1>2, <2>1, <3>1, <3>2
  <2>3. CASE o \notin touched
    <3>1. o \notin excused /\ db'[o] = db[o] /\ ~InFlight(s, o)'
      BY <1>2, <2>1, <2>3 DEF touched
    <3>2. /\ \A v, u \in Store : InFlight(v, o) /\ InFlight(u, o) => v = u
          /\ \A v \in Store : InFlight(v, o) => Ends(sending[v], o, db[o])
          /\ (\A v \in Store : ~InFlight(v, o)) => told[o].stamp = db[o]
      BY <3>1 DEF ClientInv, Owed
    <3> QED
      BY <1>2, <2>1, <3>1, <3>2
  <2> QED
    BY <2>2, <2>3
<1>6. Introduced'
  <2> SUFFICES ASSUME NEW o \in Object, draft[o] # 0
               PROVE  told[o].first \/ \E u \in Store : TellsFirst(sending'[u], o)
    BY <1>2 DEF Introduced
  <2>1. CASE db[o] = 0
    <3>1. TellsFirst(pending[s], o)
      BY <1>1, <2>1 DEF ClientInv, Noted
    <3> QED
      BY <1>2, <3>1
  <2>2. CASE db[o] # 0
    BY <1>1, <1>2, <2>2, DeltasEmpty DEF ClientInv, Introduced
  <2> QED
    BY <2>1, <2>2
<1> QED
  BY <1>3, <1>4, <1>5, <1>6 DEF ClientInv

LEMMA ClientAlone ==
    ASSUME TypeOK, ClientInv, NEW s \in Store, NEW o \in Object,
           SaveAlone(s, o) \/ RemoveAlone(s, o)
    PROVE  ClientInv'
<1>1. PICK d \in Delta, hit \in BOOLEAN, now \in [Object -> Nat] :
        /\ Alone(s, o, d, now, hit) /\ d.id = o
        /\ hit => now[o] = Meant(d)
        /\ now[o] # 0 /\ db[o] = 0 => d.first
        /\ \A p \in Object \ {o} : now[p] = db[p]
  <2>1. CASE SaveAlone(s, o)
    <3>1. Saved(s, o, db) \in [Object -> Nat] /\ PersistDelta(s, o) \in Delta
      BY SavedType, DeltaTypes DEF TypeOK
    <3>2. Hits(s, o, db) \in BOOLEAN
      BY DEF Hits
    <3>3. Alone(s, o, PersistDelta(s, o), Saved(s, o, db), Hits(s, o, db))
      BY <2>1 DEF SaveAlone
    <3>4. PersistDelta(s, o).id = o
          /\ (Hits(s, o, db) => Saved(s, o, db)[o] = Meant(PersistDelta(s, o)))
          /\ \A p \in Object \ {o} : Saved(s, o, db)[p] = db[p]
      BY DEF PersistDelta, Saved, Meant, TypeOK
    <3>5. Saved(s, o, db)[o] # 0 /\ db[o] = 0 => PersistDelta(s, o).first
      BY <2>1 DEF SaveAlone, MaySave, PersistDelta, Saved, Hits, TypeOK
    <3> QED
      BY <3>1, <3>2, <3>3, <3>4, <3>5
  <2>2. CASE RemoveAlone(s, o)
    <3>1. UnpersistDelta(o) \in Delta /\ [db EXCEPT ![o] = 0] \in [Object -> Nat]
      BY DeltaTypes DEF TypeOK
    <3>2. Alone(s, o, UnpersistDelta(o), [db EXCEPT ![o] = 0], TRUE)
      BY <2>2 DEF RemoveAlone
    <3>3. /\ UnpersistDelta(o).id = o /\ Meant(UnpersistDelta(o)) = 0
          /\ [db EXCEPT ![o] = 0][o] = 0
          /\ \A p \in Object \ {o} : [db EXCEPT ![o] = 0][p] = db[p]
      BY DEF UnpersistDelta, Meant, TypeOK
    <3> QED
      BY <3>1, <3>2, <3>3
  <2> QED
    BY <2>1, <2>2
<1>2. /\ pc[s] = "idle" /\ sending[s] = <<>> /\ pc'[s] = "emit"
      /\ \A u \in Store : pc[u] # "open" /\ pc'[u] # "open"
      /\ \A u \in Store \ {s} : pc'[u] = pc[u]
  BY <1>1 DEF Alone, NoneOpen, Goes, ClientInv, Turns, TypeOK
<1>3. /\ db' = now /\ UNCHANGED <<told, pending, phantom>>
      /\ sending'[s] = <<d>>
      /\ \A u \in Store \ {s} : sending'[u] = sending[u]
      /\ \A p \in Object \ {o} : p \in excused' <=> p \in excused
      /\ o \notin excused' => hit /\ \A u \in Store \ {s} : ~InFlight(u, o)
  BY <1>1 DEF Alone, stream, TypeOK
<1>4. /\ DOMAIN <<d>> = {1} /\ <<d>>[1] = d
      /\ Ids(<<d>>) = {o} /\ Ends(<<d>>, o, Meant(d))
      /\ d.first => TellsFirst(<<d>>, o)
  <2>1. DOMAIN <<d>> = {1} /\ <<d>>[1] = d
    OBVIOUS
  <2> QED
    BY <1>1, <2>1 DEF Ids, Ends, TellsFirst
<1>5. Turns'
  BY <1>2, <1>3 DEF ClientInv, Turns
<1>6. Noted'
  BY <1>2, <1>3 DEF ClientInv, Noted
<1>7. \A p \in Object :
        /\ p \notin Ids(sending[s])
        /\ p \in Ids(sending'[s]) <=> p = o
        /\ \A u \in Store \ {s} : p \in Ids(sending'[u]) <=> p \in Ids(sending[u])
  BY <1>2, <1>3, <1>4, DeltasEmpty DEF InFlight
<1>8. Owed'
  <2> SUFFICES ASSUME NEW p \in Object, p \notin excused'
               PROVE  /\ \A v, u \in Store : InFlight(v, p)' /\ InFlight(u, p)' => v = u
                      /\ \A v \in Store : InFlight(v, p)' => Ends(sending'[v], p, db'[p])
                      /\ (\A v \in Store : ~InFlight(v, p)') => told'[p].stamp = db'[p]
    BY DEF Owed
  <2>1. CASE p = o
    <3>1. db'[o] = Meant(d)
      BY <1>1, <1>3, <2>1
    <3>2. /\ o \in Ids(sending'[s])
          /\ \A u \in Store \ {s} : o \notin Ids(sending'[u])
      BY <1>3, <1>7, <2>1 DEF InFlight
    <3>3. Ends(sending'[s], o, db'[o])
      BY <1>3, <1>4, <3>1
    <3> QED
      BY <2>1, <3>2, <3>3 DEF InFlight
  <2>2. CASE p # o
    <3>1. /\ \A v, u \in Store : InFlight(v, p) /\ InFlight(u, p) => v = u
          /\ \A v \in Store : InFlight(v, p) => Ends(sending[v], p, db[p])
          /\ (\A v \in Store : ~InFlight(v, p)) => told[p].stamp = db[p]
      BY <1>3, <2>2 DEF ClientInv, Owed
    <3>2. db'[p] = db[p] /\ told'[p] = told[p]
      BY <1>1, <1>3, <2>2
    <3>3. /\ p \notin Ids(sending[s]) /\ p \notin Ids(sending'[s])
          /\ \A u \in Store \ {s} : sending'[u] = sending[u]
      BY <1>3, <1>7, <2>2
    <3> QED
      BY <3>1, <3>2, <3>3 DEF InFlight
  <2> QED
    BY <2>1, <2>2
<1>9. Introduced'
  <2> SUFFICES ASSUME NEW p \in Object, now[p] # 0
               PROVE  told[p].first \/ \E u \in Store : TellsFirst(sending'[u], p)
    BY <1>3 DEF Introduced
  <2>1. CASE db[p] = 0
    BY <1>1, <1>3, <1>4, <2>1
  <2>2. CASE db[p] # 0
    BY <1>2, <1>3, <2>2, DeltasEmpty DEF ClientInv, Introduced
  <2> QED
    BY <2>1, <2>2
<1> QED
  BY <1>5, <1>6, <1>8, <1>9 DEF ClientInv
LEMMA ClientEmit ==
    ASSUME TypeOK, ClientInv, NEW s \in Store, EmitOne(s)
    PROVE  ClientInv'
<1> DEFINE d == Head(sending[s])
           rest == Tail(sending[s])
<1>1. /\ sending[s] \in Seq(Delta) /\ sending[s] # <<>>
      /\ d \in Delta /\ d.id \in Object /\ told[d.id] \in Content
  <2>1. sending[s] \in Seq(Delta) /\ sending[s] # <<>>
    BY DEF EmitOne, TypeOK
  <2>2. d \in Delta
    BY <2>1
  <2>3. d.id \in Object
    BY <2>2 DEF Delta
  <2> HIDE DEF d
  <2> QED
    BY <2>1, <2>2, <2>3 DEF TypeOK
<1>2. /\ pc[s] = "emit" /\ UNCHANGED <<db, draft, pc, pending, phantom, excused>>
      /\ sending'[s] = rest
      /\ \A u \in Store \ {s} : sending'[u] = sending[u]
  BY DEF EmitOne, rows, TypeOK
<1>3. /\ told'[d.id] = Heard(told[d.id], d)
      /\ \A p \in Object \ {d.id} : told'[p] = told[p]
  BY <1>1 DEF EmitOne, TypeOK
<1>4. /\ told'[d.id].stamp = Meant(d)
      /\ told[d.id].first \/ d.first => told'[d.id].first
  <2> DEFINE f == told[d.id].first \/ d.first
  <2>1. told'[d.id] = [stamp |-> Meant(d), first |-> f]
    BY <1>3 DEF Heard, Meant
  <2> HIDE DEF d
  <2>2. f \in BOOLEAN
    BY <1>1 DEF Content, Delta
  <2>3. told[d.id].first \/ d.first => f
    OBVIOUS
  <2> HIDE DEF f
  <2> QED
    BY <2>1, <2>2, <2>3
<1>5. /\ Ids(sending[s]) = Ids(rest) \cup {d.id}
      /\ \A o, x : Ends(sending[s], o, x) =>
            IF o \in Ids(rest) THEN Ends(rest, o, x) ELSE o = d.id /\ x = Meant(d)
      /\ \A o : TellsFirst(sending[s], o) =>
            TellsFirst(rest, o) \/ (o = d.id /\ d.first)
  BY <1>1, DeltasTail
<1> HIDE DEF d, rest
<1>6. Turns'
  BY <1>2 DEF ClientInv, Turns
<1>7. Noted'
  BY <1>2 DEF ClientInv, Noted
<1>8. Owed'
  <2> SUFFICES ASSUME NEW o \in Object, o \notin excused'
               PROVE  /\ \A v, u \in Store :
                           o \in Ids(sending'[v]) /\ o \in Ids(sending'[u]) => v = u
                      /\ \A v \in Store :
                           o \in Ids(sending'[v]) => Ends(sending'[v], o, db[o])
                      /\ (\A v \in Store : o \notin Ids(sending'[v]))
                           => told'[o].stamp = db[o]
    BY <1>2 DEF Owed, InFlight
  <2>1. /\ \A v, u \in Store : o \in Ids(sending[v]) /\ o \in Ids(sending[u]) => v = u
        /\ \A v \in Store : o \in Ids(sending[v]) => Ends(sending[v], o, db[o])
        /\ (\A v \in Store : o \notin Ids(sending[v])) => told[o].stamp = db[o]
    BY <1>2 DEF ClientInv, Owed, InFlight
  <2>2. \A v \in Store : o \in Ids(sending'[v]) => o \in Ids(sending[v])
    BY <1>2, <1>5
  <2>3. \A v \in Store : o \in Ids(sending'[v]) => Ends(sending'[v], o, db[o])
    BY <1>2, <1>5, <2>1
  <2>4. ASSUME \A v \in Store : o \notin Ids(sending'[v])
        PROVE  told'[o].stamp = db[o]
    <3>1. CASE o = d.id
      <4>1. o \in Ids(sending[s]) /\ o \notin Ids(rest)
        BY <1>2, <1>5, <2>4, <3>1
      <4> QED
        BY <1>4, <1>5, <2>1, <3>1, <4>1
    <3>2. CASE o # d.id
      BY <1>2, <1>3, <1>5, <2>1, <2>4, <3>2
    <3> QED
      BY <3>1, <3>2
  <2> QED
    BY <2>1, <2>2, <2>3, <2>4
<1>9. Introduced'
  <2> SUFFICES ASSUME NEW o \in Object, db[o] # 0
               PROVE  told'[o].first \/ \E u \in Store : TellsFirst(sending'[u], o)
    BY <1>2 DEF Introduced
  <2>1. told[o].first \/ \E u \in Store : TellsFirst(sending[u], o)
    BY DEF ClientInv, Introduced
  <2>2. told[o].first => told'[o].first
    BY <1>3, <1>4
  <2>3. \A u \in Store :
          TellsFirst(sending[u], o) => TellsFirst(sending'[u], o) \/ told'[o].first
    BY <1>2, <1>4, <1>5
  <2> QED
    BY <2>1, <2>2, <2>3
<1> QED
  BY <1>6, <1>7, <1>8, <1>9 DEF ClientInv

LEMMA ClientTurns ==
    ASSUME TypeOK, ClientInv, NEW s \in Store, Begin(s) \/ Rollback(s)
    PROVE  ClientInv'
<1>1. /\ UNCHANGED <<db, sending, pending, told, excused>>
      /\ \A u \in Store \ {s} : pc'[u] = pc[u] /\ phantom'[u] = phantom[u]
      /\ draft' = db /\ pc[s] # "emit" /\ pc'[s] # "emit"
  BY DEF Begin, Rollback, Goes, stream, TypeOK
<1>2. /\ Begin(s) => /\ \A u \in Store : pc[u] # "open"
                      /\ phantom' = phantom
      /\ Rollback(s) => /\ pc[s] = "open" /\ pc'[s] # "open"
                         /\ phantom'[s] = Ids(pending[s])
  BY DEF Begin, Rollback, Goes, NoneOpen, TypeOK
<1>3. \A u \in Store \ {s} : pc'[u] # "open"
  BY <1>1, <1>2 DEF ClientInv, Turns
<1>4. Turns'
  BY <1>1, <1>3 DEF ClientInv, Turns
<1>5. Noted'
  <2>1. Ids(pending[s]) \subseteq phantom'[s]
    BY <1>2 DEF ClientInv, Noted
  <2>2. \A u \in Store \ {s} : Ids(pending[u]) \subseteq phantom[u]
    BY <1>1, <1>3 DEF ClientInv, Noted
  <2> QED
    BY <1>1, <1>3, <2>1, <2>2 DEF Noted
<1>6. Owed'
  BY <1>1 DEF ClientInv, Owed, InFlight
<1>7. Introduced'
  BY <1>1 DEF ClientInv, Introduced
<1> QED
  BY <1>4, <1>5, <1>6, <1>7 DEF ClientInv

LEMMA ClientErase ==
    ASSUME TypeOK, ClientInv, NEW s \in Store, Erase(s)
    PROVE  ClientInv'
<1>1. /\ pc[s] = "open" /\ pc' = pc /\ pending'[s] = <<>> /\ draft' = draft
      /\ UNCHANGED <<db, sending, told, excused>>
      /\ \A u \in Store \ {s} : pending'[u] = pending[u] /\ phantom'[u] = phantom[u]
      /\ \A o \in Object : draft[o] # 0 => db[o] # 0
  BY DEF Erase, rows, stream, TypeOK
<1> QED
  BY <1>1, DeltasEmpty, ClientDraft

LEMMA ClientInvStep == TypeOK /\ ClientInv /\ [Next]_vars => ClientInv'
<1> SUFFICES ASSUME TypeOK, ClientInv, [Next]_vars PROVE ClientInv'
  OBVIOUS
<1>1. ASSUME NEW s \in Store, Transaction(s)
      PROVE  ClientInv'
  <2>1. CASE Find(s)
    <3>1. UNCHANGED <<db, draft, sending, pending, told, phantom, excused, pc>>
      BY <2>1 DEF Find, stream
    <3> QED
      BY <3>1, ClientFrame DEF ClientInv, Turns
  <2>2. CASE Begin(s) \/ Rollback(s)
    BY <2>2, ClientTurns
  <2>3. CASE Erase(s)
    BY <2>3, ClientErase
  <2>4. CASE Commit(s)
    BY <2>4, ClientCommit
  <2>5. ASSUME NEW o \in Object, Save(s, o) \/ Remove(s, o)
        PROVE  ClientInv'
    BY <2>5, ClientSave
  <2>6. ASSUME NEW o \in Object, SaveAlone(s, o) \/ RemoveAlone(s, o)
        PROVE  ClientInv'
    BY <2>6, ClientAlone
  <2> QED
    BY <1>1, <2>1, <2>2, <2>3, <2>4, <2>5, <2>6 DEF Transaction
<1>2. ASSUME NEW s \in Store, EmitOne(s)
      PROVE  ClientInv'
  BY <1>2, ClientEmit
<1>3. ASSUME NEW s \in Store, FlushWithin(s) \/ Notify(s)
      PROVE  ClientInv'
  <2>1. /\ UNCHANGED <<db, draft, sending, pending, told, phantom, excused>>
        /\ \A u \in Store \ {s} : pc'[u] = pc[u]
        /\ pc[s] # "open" /\ pc'[s] # "open" /\ sending[s] = <<>>
    BY <1>3 DEF FlushWithin, Notify, Goes, rows, stream, TypeOK, ClientInv, Turns
  <2>2. \A u \in Store : /\ pc'[u] = "open" <=> pc[u] = "open"
                        /\ pc'[u] # "emit" => sending[u] = <<>>
    BY <2>1 DEF ClientInv, Turns
  <2> QED
    BY <2>1, <2>2, ClientFrame
<1>4. CASE FlushThread \/ UNCHANGED vars
  <2>1. UNCHANGED <<db, draft, sending, pending, told, phantom, excused, pc>>
    BY <1>4 DEF FlushThread, Wake, Flush, rows, vars
  <2> QED
    BY <2>1, ClientFrame DEF ClientInv, Turns
<1> QED
  BY <1>1, <1>2, <1>3, <1>4 DEF Next, Emit

\* Nothing about o is in the buffer: the client has been told what it shows.
LEMMA ClientHeard ==
    ASSUME TypeOK, FeedInv, NEW o \in Object, Quiet(o)
    PROVE  told[o] = view[o]
<1> DEFINE items == buffer[TableName[o]]
<1>1. /\ told[o] = Shown(view[o], items, o)
      /\ view[o] \in Content
  BY DEF FeedInv, TypeOK
<1>2. \A i \in DOMAIN items : items[i].models[o] = NoContent
  BY DEF Quiet
<1> HIDE DEF items
<1>3. \A i \in DOMAIN items :
        items[i].models[o].stamp = 0 /\ ~items[i].models[o].first
  BY <1>2 DEF NoContent
<1>4. Latest(items, o) = {}
  BY <1>3 DEF Latest, About
<1>5. Shown(view[o], items, o) = [stamp |-> view[o].stamp, first |-> view[o].first]
  <2>1. (view[o].first \/ \E i \in DOMAIN items : items[i].models[o].first)
          = view[o].first
    BY <1>1, <1>3 DEF Content
  <2> QED
    BY <1>4, <2>1 DEF Shown
<1> QED
  BY <1>1, <1>5 DEF Content

\* Whatever the threads, the transactions and the flushes, an object that is
\* not excused and about which nothing is on its way is shown as it is.
THEOREM ClientCurrent == Spec => []ClientUpToDate
<1>1. Init => FeedInv /\ ClientInv
  BY FeedInit, ClientInit
<1>2. TypeOK /\ FeedInv /\ ClientInv /\ [Next]_vars => FeedInv' /\ ClientInv'
  BY FeedStep, ClientInvStep
<1>3. TypeOK /\ FeedInv /\ ClientInv => ClientUpToDate
  <2> SUFFICES ASSUME TypeOK, FeedInv, ClientInv, NEW o \in Object \ excused, Quiet(o)
               PROVE  view[o].stamp = db[o] /\ (db[o] # 0 => view[o].first)
    BY DEF ClientUpToDate
  <2>1. told[o] = view[o]
    BY ClientHeard
  <2>2. told[o].stamp = db[o]
    BY DEF Quiet, ClientInv, Owed
  <2>3. \A s \in Store : ~TellsFirst(sending[s], o)
    BY DEF Quiet, InFlight, Ids, TellsFirst
  <2> QED
    BY <2>1, <2>2, <2>3 DEF ClientInv, Introduced
<1> QED
  BY <1>1, <1>2, <1>3, StreamTypeCorrect, PTL DEF Spec
=============================================================================
