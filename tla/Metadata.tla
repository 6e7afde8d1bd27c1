-------------------------------- MODULE Metadata --------------------------------
(***************************************************************************)
(* The metadata that plugins attach to messages and threads.               *)
(*                                                                         *)
(* It is kept by the identity server, and each change has a version. The   *)
(* metadata thread asks for a cursor, reads all metadata in pages and then *)
(* follows a stream of deltas from the cursor. What is of an object that is*)
(* not in the store waits in a table until the object is saved. The user   *)
(* changes metadata with a task; another client may do so too.             *)
(*                                                                         *)
(* One plugin and one kind of object. The server is external: it takes a   *)
(* change from a client if its version is the next one.                    *)
(***************************************************************************)
EXTENDS Integers, Sequences

CONSTANTS
    Thing,      \* objects that may have metadata
    MaxDeeds    \* bound on changes, faults and what other threads do

ASSUME MetadataAssumption == MaxDeeds \in Nat

VARIABLES
    heads,      \* the states of the server, the last is now: a version of each
    cursor,     \* deltasCursor, saved as a key value: 0 before there is one
    phase,      \* where the metadata thread is
    toPage,     \* objects on pages that have not been fetched
    position,   \* the state up to which this connection has sent deltas
    partial,    \* whether deltasBuffer holds half a line
    present,    \* the objects in the store
    meta,       \* the version in the row of each: 0 if there is none
    waiting,    \* the version in DetatchedPluginMetadata
    held,       \* the model a worker holds over a request: an object, a version
    unsent,     \* the version that a SyncbackMetadataTask is to send, or 0
    spoiled,    \* history: objects whose metadata was lost in a known way
    deeds

metaVars == <<heads, cursor, phase, toPage, position, partial, present, meta,
              waiting, held, unsent, spoiled, deeds>>
threadState == <<cursor, phase, toPage, position, partial>>
tables == <<present, meta, waiting>>

Versions == [Thing -> Nat]
Current == heads[Len(heads)]
NotHeld == <<>>

\* The version that the store knows of.
Known(o) == IF o \in present THEN meta[o] ELSE waiting[o]

-----------------------------------------------------------------------------
MetaInit ==
    /\ heads \in {<<h>> : h \in [Thing -> {0, 1}]}
    /\ cursor = 0
    /\ phase = "cursor"
    /\ toPage = {}
    /\ position = 0
    /\ partial = FALSE
    /\ present \in SUBSET Thing
    /\ meta = [o \in Thing |-> 0]
    /\ waiting = [o \in Thing |-> 0]
    /\ held = NotHeld
    /\ unsent = [o \in Thing |-> 0]
    /\ spoiled = {}
    /\ deeds = 0

\* A step of the environment: of the server, of another thread, or a fault
Deed == deeds < MaxDeeds /\ deeds' = deeds + 1

\* The server gives an object its next version.
Advance(o) == heads' = Append(heads, [Current EXCEPT ![o] = @ + 1])

OtherClient(o) ==
    /\ Deed
    /\ Advance(o)
    /\ UNCHANGED <<threadState, tables, held, unsent, spoiled>>

-----------------------------------------------------------------------------
(* The metadata thread                                                     *)

\* Faulty variant: metadata of an absent object is dropped.
ApplyToRow(o, v) ==
    /\ IF o \in present /\ meta[o] < v
       THEN meta' = [meta EXCEPT ![o] = v] /\ spoiled' = spoiled \ {o}
       ELSE UNCHANGED <<meta, spoiled>>
    /\ UNCHANGED <<present, waiting>>

\* applyMetadataJSON, in one transaction: a version that is not newer than the
\* row's is ignored, while what waits is replaced by whatever comes.
Apply(o, v) ==
    /\ IF o \in present
       THEN /\ meta' = [meta EXCEPT ![o] = IF @ < v THEN v ELSE @]
            /\ spoiled' = IF meta[o] < v THEN spoiled \ {o} ELSE spoiled
            /\ UNCHANGED waiting
       ELSE /\ waiting' = [waiting EXCEPT ![o] = v]
            /\ spoiled' = spoiled \ {o}
            /\ UNCHANGED meta
    /\ UNCHANGED present

\* The cursor is saved before the first page is fetched.
FetchDeltaCursor ==
    /\ phase = "cursor"
    /\ cursor' = Len(heads)
    /\ toPage' = Thing
    /\ phase' = "pages"
    /\ UNCHANGED <<heads, position, partial, tables, held, unsent, spoiled, deeds>>

FetchMetadata(o) ==
    /\ phase = "pages"
    /\ o \in toPage
    /\ IF Current[o] = 0 THEN UNCHANGED <<tables, spoiled>> ELSE Apply(o, Current[o])
    /\ toPage' = toPage \ {o}
    /\ UNCHANGED <<heads, cursor, phase, position, partial, held, unsent, deeds>>

\* A connection begins at the cursor.
FetchDeltas ==
    /\ phase = "pages"
    /\ toPage = {}
    /\ phase' = "stream"
    /\ position' = cursor
    /\ UNCHANGED <<heads, cursor, toPage, partial, tables, held, unsent, spoiled,
                   deeds>>

\* The delta that comes next on this connection
Delivers(o) ==
    /\ phase = "stream"
    /\ position < Len(heads)
    /\ heads[position + 1][o] # heads[position][o]
    /\ position' = position + 1

\* onDelta: the delta is applied ...
OnDelta(o) ==
    /\ ~partial
    /\ Delivers(o)
    /\ Apply(o, heads[position + 1][o])
    /\ phase' = "advance"
    /\ UNCHANGED <<heads, cursor, toPage, partial, held, unsent, deeds>>

\* Faulty variant: the cursor stays where the connection began.
ReachedStart == cursor

\* The cursor that came with the delta
Reached == position

\* ... and then the cursor is saved.
SetDeltaCursor ==
    /\ phase = "advance"
    /\ cursor' = Reached
    /\ phase' = "stream"
    /\ UNCHANGED <<heads, toPage, position, partial, tables, held, unsent, spoiled,
                   deeds>>

\* A delta that follows half a line of an earlier connection is not JSON: it is
\* logged and left out. A heartbeat would end the line as well.
Garbled(o) ==
    /\ partial
    /\ Delivers(o)
    /\ partial' = FALSE
    /\ spoiled' = spoiled \cup {o}
    /\ UNCHANGED <<heads, cursor, phase, toPage, tables, held, unsent, deeds>>

Heartbeat ==
    /\ phase = "stream"
    /\ partial
    /\ partial' = FALSE
    /\ UNCHANGED <<heads, cursor, phase, toPage, position, tables, held, unsent,
                   spoiled, deeds>>

\* A page fails, or the stream is broken, perhaps in the middle of a line. The
\* thread sleeps and goes on with the stream, because there is a cursor.
Retry ==
    /\ Deed
    /\ phase \in {"pages", "stream"}
    /\ phase' = "stream"
    /\ position' = cursor
    /\ toPage' = {}
    /\ spoiled' = spoiled \cup toPage
    /\ \/ UNCHANGED partial
       \/ phase = "stream" /\ position < Len(heads) /\ partial' = TRUE
    /\ UNCHANGED <<heads, cursor, tables, held, unsent>>

\* The process is killed, and the next one finds the cursor that was saved.
KillMetadata ==
    /\ Deed
    /\ phase' = IF cursor = 0 THEN "cursor" ELSE "stream"
    /\ position' = cursor
    /\ toPage' = {}
    /\ spoiled' = spoiled \cup toPage
    /\ partial' = FALSE
    /\ held' = NotHeld
    /\ UNCHANGED <<heads, cursor, tables, unsent>>

-----------------------------------------------------------------------------
(* The other threads                                                       *)

\* Faulty variant: an object that is saved leaves its metadata waiting.
AttachNothing(o) == UNCHANGED <<meta, waiting>>

\* MailModel::beforeSave of the first version
Attach(o) ==
    /\ meta' = [meta EXCEPT ![o] = waiting[o]]
    /\ waiting' = [waiting EXCEPT ![o] = 0]

SaveThing(o) ==
    /\ Deed
    /\ o \notin present
    /\ present' = present \cup {o}
    /\ Attach(o)
    /\ UNCHANGED <<heads, threadState, held, unsent, spoiled>>

\* The metadata of a row goes with it.
RemoveThing(o) ==
    /\ Deed
    /\ o \in present
    /\ present' = present \ {o}
    /\ meta' = [meta EXCEPT ![o] = 0]
    /\ spoiled' = IF meta[o] = 0 THEN spoiled ELSE spoiled \cup {o}
    /\ UNCHANGED <<heads, threadState, waiting, held, unsent>>

\* A worker finds a message, fetches its body and saves the whole row.
HoldThing(o) ==
    /\ Deed
    /\ held = NotHeld
    /\ o \in present
    /\ held' = <<o, meta[o]>>
    /\ UNCHANGED <<heads, threadState, tables, unsent, spoiled>>

SaveHeld ==
    /\ held # NotHeld
    /\ LET o == held[1]
       IN IF o \in present /\ meta[o] # held[2]
          THEN meta' = [meta EXCEPT ![o] = held[2]] /\ spoiled' = spoiled \cup {o}
          ELSE UNCHANGED <<meta, spoiled>>
    /\ held' = NotHeld
    /\ UNCHANGED <<heads, threadState, present, waiting, unsent, deeds>>

\* performLocalSyncbackMetadata
LocalMetadata(o) ==
    /\ Deed
    /\ o \in present
    /\ unsent[o] = 0
    /\ meta' = [meta EXCEPT ![o] = @ + 1]
    /\ unsent' = [unsent EXCEPT ![o] = meta[o] + 1]
    /\ UNCHANGED <<heads, threadState, present, waiting, held, spoiled>>

\* performRemoteSyncbackMetadata: the request may fail, and the task is then
\* complete all the same.
SendMetadata(o) ==
    /\ unsent[o] # 0
    /\ unsent' = [unsent EXCEPT ![o] = 0]
    /\ \/ /\ unsent[o] = Current[o] + 1
          /\ Advance(o)
          /\ UNCHANGED spoiled
       \/ /\ spoiled' = spoiled \cup {o}
          /\ UNCHANGED heads
    /\ UNCHANGED <<threadState, tables, held, deeds>>

-----------------------------------------------------------------------------
MetadataThread ==
    \/ FetchDeltaCursor \/ FetchDeltas \/ SetDeltaCursor
    \/ \E o \in Thing : FetchMetadata(o) \/ OnDelta(o) \/ Garbled(o)

MetaNext ==
    \/ MetadataThread \/ Heartbeat \/ Retry \/ KillMetadata \/ SaveHeld
    \/ \E o \in Thing :
         \/ OtherClient(o) \/ SaveThing(o) \/ RemoveThing(o) \/ HoldThing(o)
         \/ LocalMetadata(o) \/ SendMetadata(o)

MetaSpec == MetaInit /\ [][MetaNext]_metaVars

-----------------------------------------------------------------------------
\* Types of the variables of this module.
MetaTypeOK ==
    /\ heads \in Seq(Versions)
    /\ cursor \in 0 .. Len(heads) /\ position \in 0 .. Len(heads)
    /\ phase \in {"cursor", "pages", "stream", "advance"}
    /\ toPage \in SUBSET Thing
    /\ partial \in BOOLEAN
    /\ present \in SUBSET Thing
    /\ meta \in Versions /\ waiting \in Versions /\ unsent \in Versions
    /\ held = NotHeld \/ held \in Thing \X Nat
    /\ spoiled \in SUBSET Thing
    /\ deeds \in 0 .. MaxDeeds

\* "By the time we finish, now will be out of date but inclusive of all changes
\* since we started": the store knows, in the row or in the table of what
\* waits, everything before the cursor, but for the pages still to be fetched
\* and what was lost in a known way.
CursorInclusive ==
    cursor # 0 =>
        \A o \in Thing \ (toPage \cup spoiled) : Known(o) >= heads[cursor][o]

\* When the cursor has reached the server's state and nothing is to be sent,
\* the versions are the server's.
MetadataAgrees ==
    (cursor = Len(heads) /\ phase = "stream") =>
        \A o \in Thing \ spoiled : unsent[o] = 0 => Known(o) = Current[o]

\* Once the thread has begun, whatever fails on the way, the cursor gets to the
\* server's state, unless something was lost.
CursorArrives == phase # "cursor" ~> (cursor = Len(heads) \/ spoiled # {})
=============================================================================
