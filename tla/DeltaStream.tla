----------------------------- MODULE DeltaStream -----------------------------
(***************************************************************************)
(* How the client learns of what changes in the database.                  *)
(*                                                                         *)
(* Each thread has a MailStore of its own, with its own connection. What   *)
(* is saved or removed in a transaction is noted as a delta; once the      *)
(* transaction is committed, the store hands its deltas one by one to the  *)
(* DeltaStream of the process, which merges them into a buffer, and asks   *)
(* it to flush within a delay (500 ms for the workers, 5 ms for the main   *)
(* thread). The flush is done by a thread that waits for the time to come  *)
(* or to be notified.                                                      *)
(*                                                                         *)
(* An object is a stamp: no two saves write the same content. Which thread *)
(* runs when is free, so the clock is not modelled: a flush thread may     *)
(* wake at any time, early ones (wait_until may return for no reason)      *)
(* included.                                                               *)
(***************************************************************************)
EXTENDS Integers, Sequences

CONSTANTS
    Store,          \* one per thread
    Delay,          \* _streamMaxDelay of each
    Object,         \* rows that the client knows by their id
    TableName,      \* the class of each
    MaxStamp        \* bound on the number of saves and removals

Class == {TableName[o] : o \in Object}

ASSUME DeltaStreamAssumption ==
    /\ Delay \in [Store -> Nat]
    /\ DOMAIN TableName = Object
    /\ MaxStamp \in Nat

VARIABLES
    db,         \* the committed rows: the stamp of each, 0 if there is none
    draft,      \* the rows as the open transaction sees them
    stamp,      \* the last stamp given
    pc,         \* where each store is
    found,      \* the objects each thread holds a model of, with a version
    pending,    \* _transactionDeltas
    sending,    \* what emit has yet to queue
    buffer,     \* DeltaStream::buffer
    scheduled,  \* DeltaStream::scheduled
    due,        \* the delay for which scheduledTime was computed
    flusher,    \* the detached thread
    view,       \* what the client shows
    told,       \* history: what it would show if deltas were not buffered
    phantom,    \* history: objects whose last pending delta is not of a row
    excused     \* history: objects the client may be wrong about

vars == <<db, draft, stamp, pc, found, pending, sending, buffer, scheduled,
          due, flusher, view, told, phantom, excused>>
rows == <<db, draft, stamp, found>>
stream == <<buffer, scheduled, due, flusher, view, told>>

Content == [stamp: Nat, first: BOOLEAN]
NoContent == [stamp |-> 0, first |-> FALSE]
DeltaType == {"persist", "unpersist"}
Delta == [type: DeltaType, id: Object, stamp: Nat \ {0}, first: BOOLEAN]

\* DeltaStreamItem: the models it is about, each at most once. The stamp of
\* a model that is not in it is 0.
Item == [type: DeltaType, models: [Object -> Content]]

Ids(deltas) == {deltas[i].id : i \in DOMAIN deltas}
InFlight(s, o) == o \in Ids(sending[s])

TypeOK ==
    /\ db \in [Object -> Nat] /\ draft \in [Object -> Nat]
    /\ stamp \in Nat
    /\ pc \in [Store -> {"idle", "open", "emit", "notify"}]
    /\ found \in [Store -> SUBSET Object]
    /\ pending \in [Store -> Seq(Delta)] /\ sending \in [Store -> Seq(Delta)]
    /\ buffer \in [Class -> Seq(Item)]
    /\ scheduled \in BOOLEAN
    /\ due \in Nat
    /\ flusher \in {"none", "waiting", "woken"}
    /\ view \in [Object -> Content] /\ told \in [Object -> Content]
    /\ phantom \in [Store -> SUBSET Object]
    /\ excused \subseteq Object

\* The client loads the database before it starts the process.
Init ==
    /\ stamp = 1
    /\ \E there \in SUBSET Object :
        /\ db = [o \in Object |-> IF o \in there THEN 1 ELSE 0]
        /\ view = [o \in Object |-> IF o \in there
                     THEN [stamp |-> 1, first |-> TRUE] ELSE NoContent]
    /\ draft = db
    /\ told = view
    /\ pc = [s \in Store |-> "idle"]
    /\ found = [s \in Store |-> {}]
    /\ pending = [s \in Store |-> <<>>] /\ sending = [s \in Store |-> <<>>]
    /\ buffer = [c \in Class |-> <<>>]
    /\ scheduled = FALSE /\ due = 0 /\ flusher = "none"
    /\ phantom = [s \in Store |-> {}]
    /\ excused = {}

-----------------------------------------------------------------------------
(* MailStore.                                                              *)

NoneOpen == \A s \in Store : pc[s] # "open"
Goes(s, place) == pc' = [pc EXCEPT ![s] = place]

\* store->find: the models the thread works on, as the connection sees them.
Find(s) ==
    /\ pc[s] \in {"idle", "open"}
    /\ LET now == IF pc[s] = "open" THEN draft ELSE db
       IN found' = [found EXCEPT ![s] = {o \in Object : now[o] # 0}]
    /\ found' # found
    /\ UNCHANGED <<db, draft, stamp, pc, pending, sending, phantom, excused, stream>>

\* BEGIN IMMEDIATE: one connection at a time.
Begin(s) ==
    /\ pc[s] = "idle" /\ NoneOpen
    /\ Goes(s, "open")
    /\ draft' = db
    /\ UNCHANGED <<db, stamp, found, pending, sending, phantom, excused, stream>>

\* A model that was found has a version, and is saved with UPDATE, which
\* does nothing when the row has gone. A new one is saved with INSERT, which
\* throws when the row is there.
MaySave(s, o, now) == o \in found[s] \/ now[o] = 0
Hits(s, o, now) == o \in found[s] => now[o] # 0
Saved(s, o, now) == IF Hits(s, o, now) THEN [now EXCEPT ![o] = stamp + 1] ELSE now
PersistDelta(s, o) == [type |-> "persist", id |-> o, stamp |-> stamp + 1,
                       first |-> o \notin found[s]]
UnpersistDelta(o) == [type |-> "unpersist", id |-> o, stamp |-> stamp + 1,
                      first |-> FALSE]

NextStamp == stamp < MaxStamp /\ stamp' = stamp + 1

Save(s, o) ==
    /\ pc[s] = "open" /\ NextStamp
    /\ MaySave(s, o, draft)
    /\ draft' = Saved(s, o, draft)
    /\ found' = [found EXCEPT ![s] = @ \cup {o}]
    /\ pending' = [pending EXCEPT ![s] = Append(@, PersistDelta(s, o))]
    /\ phantom' = [phantom EXCEPT ![s] = IF Hits(s, o, draft) THEN @ \ {o}
                                         ELSE @ \cup {o}]
    /\ UNCHANGED <<db, pc, sending, excused, stream>>

Remove(s, o) ==
    /\ pc[s] = "open" /\ NextStamp
    /\ o \in found[s]
    /\ draft' = [draft EXCEPT ![o] = 0]
    /\ found' = [found EXCEPT ![s] = @ \ {o}]
    /\ pending' = [pending EXCEPT ![s] = Append(@, UnpersistDelta(o))]
    /\ phantom' = [phantom EXCEPT ![s] = @ \ {o}]
    /\ UNCHANGED <<db, pc, sending, excused, stream>>

\* unsafeEraseTransactionDeltas, by those who change internal data only:
\* they insert nothing the client is to see.
Erase(s) ==
    /\ pc[s] = "open" /\ pending[s] # <<>>
    /\ \A o \in Object : draft[o] # 0 => db[o] # 0
    /\ pending' = [pending EXCEPT ![s] = <<>>]
    /\ phantom' = [phantom EXCEPT ![s] = {}]
    /\ UNCHANGED <<rows, pc, sending, excused, stream>>

\* COMMIT, and then the deltas are emitted. The client may be wrong about an
\* object when its deltas were erased, when the last of them was not of a
\* row, or when another thread has yet to emit one.
Commit(s) ==
    /\ pc[s] = "open"
    /\ db' = draft
    /\ Goes(s, IF pending[s] = <<>> THEN "idle" ELSE "emit")
    /\ sending' = [sending EXCEPT ![s] = pending[s]]
    /\ pending' = [pending EXCEPT ![s] = <<>>]
    /\ LET touched == Ids(pending[s]) \cup {o \in Object : draft[o] # db[o]}
           wrong == {o \in touched : \/ o \notin Ids(pending[s])
                                     \/ o \in phantom[s]
                                     \/ \E u \in Store \ {s} : InFlight(u, o)}
       IN excused' = (excused \ touched) \cup wrong
    /\ phantom' = [phantom EXCEPT ![s] = {}]
    /\ UNCHANGED <<draft, stamp, found, stream>>

\* A statement throws, in particular an INSERT of what another thread has
\* inserted. The deltas noted so far stay in _transactionDeltas.
Rollback(s) ==
    /\ pc[s] = "open"
    /\ Goes(s, "idle")
    /\ draft' = db
    /\ phantom' = [phantom EXCEPT ![s] = Ids(pending[s])]
    /\ UNCHANGED <<db, stamp, found, pending, sending, excused, stream>>

\* save or remove outside of a transaction: the delta is emitted directly,
\* before those that an earlier transaction has left.
Alone(s, o, delta, now, hit) ==
    /\ pc[s] = "idle" /\ NoneOpen /\ NextStamp
    /\ db' = now /\ draft' = now
    /\ sending' = [sending EXCEPT ![s] = <<delta>>]
    /\ Goes(s, "emit")
    /\ excused' = IF hit /\ \A u \in Store \ {s} : ~InFlight(u, o)
                  THEN excused \ {o} ELSE excused \cup {o}
    /\ UNCHANGED <<pending, phantom, stream>>

\* An INSERT that throws here leaves nothing behind.
SaveAlone(s, o) ==
    /\ MaySave(s, o, db)
    /\ Alone(s, o, PersistDelta(s, o), Saved(s, o, db), Hits(s, o, db))
    /\ found' = [found EXCEPT ![s] = @ \cup {o}]

RemoveAlone(s, o) ==
    /\ o \in found[s]
    /\ Alone(s, o, UnpersistDelta(o), [db EXCEPT ![o] = 0], TRUE)
    /\ found' = [found EXCEPT ![s] = @ \ {o}]

-----------------------------------------------------------------------------
(* DeltaStream. bufferMtx is held across steps by a store that waits for   *)
(* bufferFlushMtx to notify the flush thread; bufferFlushMtx by a flush    *)
(* thread that has woken and waits for bufferMtx.                          *)

BufferFree == \A s \in Store : pc[s] # "notify"
FlushFree == flusher # "woken"

\* Faulty variant: keys that are there already are not replaced.
UpsertKeeps(models, d) ==
    [models EXCEPT ![d.id] = [stamp |-> IF @.stamp = 0 THEN d.stamp ELSE @.stamp,
                              first |-> @.first \/ d.first]]

\* upsertModelJSON: the keys of the newer model replace those of the older
\* one, and a key that only the older one has is kept.
Upsert(models, d) ==
    [models EXCEPT ![d.id] = [stamp |-> d.stamp, first |-> @.first \/ d.first]]

NoModels == [o \in Object |-> NoContent]

\* Faulty variant: any item of that type will do.
QueuedAnywhere(items, d) ==
    LET same == {i \in DOMAIN items : items[i].type = d.type}
    IN IF same # {}
       THEN [items EXCEPT ![CHOOSE i \in same : TRUE].models = Upsert(@, d)]
       ELSE Append(items, [type |-> d.type, models |-> Upsert(NoModels, d)])

\* queueDeltaForDelivery: a delta joins the last item of its class, if that
\* is of the same type.
Queued(items, d) ==
    LET n == Len(items)
    IN IF n # 0 /\ items[n].type = d.type
       THEN [items EXCEPT ![n] = [type |-> d.type, models |-> Upsert(items[n].models, d)]]
       ELSE Append(items, [type |-> d.type, models |-> Upsert(NoModels, d)])

\* What the client makes of one delta.
Heard(c, d) == [stamp |-> IF d.type = "persist" THEN d.stamp ELSE 0,
                first |-> c.first \/ d.first]

EmitOne(s) ==
    /\ pc[s] = "emit" /\ sending[s] # <<>>
    /\ BufferFree
    /\ LET d == Head(sending[s]) IN
       /\ buffer' = [buffer EXCEPT ![TableName[d.id]] = Queued(@, d)]
       /\ told' = [told EXCEPT ![d.id] = Heard(@, d)]
    /\ sending' = [sending EXCEPT ![s] = Tail(@)]
    /\ UNCHANGED <<rows, pc, pending, scheduled, due, flusher, view, phantom, excused>>

\* Faulty variant: the times are compared before it is known whether any
\* flush is scheduled.
FlushWithinSwapped(s) ==
    /\ pc[s] = "emit" /\ sending[s] = <<>>
    /\ BufferFree
    /\ \/ /\ Delay[s] < due
          /\ Goes(s, "notify")
          /\ UNCHANGED <<scheduled, due, flusher>>
       \/ /\ Delay[s] >= due
          /\ Goes(s, "idle")
          /\ scheduled' = TRUE
          /\ due' = IF scheduled THEN due ELSE Delay[s]
          /\ flusher' = IF scheduled THEN flusher ELSE "waiting"
    /\ UNCHANGED <<rows, pending, sending, buffer, view, told, phantom, excused>>

\* flushWithin: the first to ask starts a flush thread. Whoever asks for an
\* earlier time than the scheduled one keeps bufferMtx and notifies. A
\* shorter delay is not always an earlier time.
FlushWithin(s) ==
    /\ pc[s] = "emit" /\ sending[s] = <<>>
    /\ BufferFree
    /\ \/ /\ ~scheduled
          /\ Goes(s, "idle")
          /\ scheduled' = TRUE /\ due' = Delay[s] /\ flusher' = "waiting"
       \/ /\ scheduled /\ Delay[s] < due
          /\ Goes(s, "notify")
          /\ UNCHANGED <<scheduled, due, flusher>>
       \/ /\ scheduled
          /\ Goes(s, "idle")
          /\ UNCHANGED <<scheduled, due, flusher>>
    /\ UNCHANGED <<rows, pending, sending, buffer, view, told, phantom, excused>>

\* bufferFlushCv.notify_one: the flush thread may wake, as it may anyway.
Notify(s) ==
    /\ pc[s] = "notify" /\ FlushFree
    /\ Goes(s, "idle")
    /\ UNCHANGED <<rows, pending, sending, phantom, excused, stream>>

\* The flush thread locks bufferFlushMtx, which wait_until lets go of, and
\* locks again when it returns.
Wake ==
    /\ flusher = "waiting"
    /\ flusher' = "woken"
    /\ UNCHANGED <<rows, pc, pending, sending, buffer, scheduled, due, view,
                   told, phantom, excused>>

\* What the client shows after the items of a class, one after the other:
\* the last that is about the object decides whether it exists, and how.
About(items, o) == {i \in DOMAIN items : items[i].models[o].stamp # 0}
Latest(items, o) == {i \in About(items, o) : \A j \in About(items, o) : j <= i}
StampOf(item, o) == IF item.type = "persist" THEN item.models[o].stamp ELSE 0
Shown(c, items, o) ==
    [stamp |-> IF Latest(items, o) = {} THEN c.stamp
               ELSE StampOf(items[CHOOSE i \in Latest(items, o) : TRUE], o),
     first |-> c.first \/ \E i \in DOMAIN items : items[i].models[o].first]

\* Faulty variant: scheduled is not reset.
FlushForgets ==
    /\ flusher = "woken" /\ BufferFree
    /\ view' = [o \in Object |-> Shown(view[o], buffer[TableName[o]], o)]
    /\ buffer' = [c \in Class |-> <<>>]
    /\ flusher' = "none"
    /\ UNCHANGED <<rows, pc, pending, sending, scheduled, due, told, phantom, excused>>

\* flushBuffer prints the items, class by class.
Flush ==
    /\ flusher = "woken" /\ BufferFree
    /\ view' = [o \in Object |-> Shown(view[o], buffer[TableName[o]], o)]
    /\ buffer' = [c \in Class |-> <<>>]
    /\ scheduled' = FALSE
    /\ flusher' = "none"
    /\ UNCHANGED <<rows, pc, pending, sending, due, told, phantom, excused>>

-----------------------------------------------------------------------------
Transaction(s) ==
    \/ Find(s) \/ Begin(s) \/ Erase(s) \/ Commit(s) \/ Rollback(s)
    \/ \E o \in Object : \/ Save(s, o) \/ Remove(s, o)
                         \/ SaveAlone(s, o) \/ RemoveAlone(s, o)
Emit(s) == EmitOne(s) \/ FlushWithin(s) \/ Notify(s)
FlushThread == Wake \/ Flush

Next == \/ \E s \in Store : Transaction(s) \/ Emit(s)
        \/ FlushThread

Spec == Init /\ [][Next]_vars

\* A thread that emits goes on, and so does the flush thread. That anything
\* is saved is not assumed.
FairSpec == Spec /\ WF_vars(FlushThread) /\ \A s \in Store : WF_vars(Emit(s))

-----------------------------------------------------------------------------
Buffered == \E c \in Class : buffer[c] # <<>>

\* A delta in the buffer is never forgotten: a flush is scheduled and a
\* thread is there to do it, or the store that emitted is about to ask.
NothingForgotten ==
    /\ scheduled <=> flusher # "none"
    /\ Buffered => scheduled \/ \E s \in Store : pc[s] = "emit"

\* Once nothing is on its way, the client shows an object as it is in the
\* database, and knows its headers are complete, except where two threads
\* emitted in the wrong order, or a delta was erased or of no row.
Quiet(o) == /\ \A s \in Store : ~InFlight(s, o)
            /\ \A i \in DOMAIN buffer[TableName[o]] :
                  buffer[TableName[o]][i].models[o] = NoContent
ClientUpToDate ==
    \A o \in Object \ excused :
        Quiet(o) => /\ view[o].stamp = db[o]
                    /\ db[o] # 0 => view[o].first

\* Merging deltas shows what printing them one by one would have shown.
Feed == INSTANCE ClientFeed WITH Object <- Object, told <- told, view <- view
BufferFaithful == Feed!Spec

\* The flush thread has woken and a store is about to notify it: each holds
\* the mutex the other waits for.
Stuck == flusher = "woken" /\ \E s \in Store : pc[s] = "notify"

\* What is in the buffer is printed, unless the two threads are stuck.
FlushedOrStuck == Buffered ~> (~Buffered \/ Stuck)

\* The README says it without the exception: all modified objects are
\* emitted to stdout.
AllEmitted == Buffered ~> ~Buffered
=============================================================================
