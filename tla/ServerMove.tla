------------------------------- MODULE ServerMove -------------------------------
(***************************************************************************)
(* Moving messages on the server: the remote half of a ChangeFolderTask.   *)
(*                                                                         *)
(* Without MOVE the messages are copied, flagged \Deleted and expunged.    *)
(* Without UIDPLUS the copies are looked for among the newest messages of  *)
(* the destination. The rows are saved at the end: a process that is killed*)
(* before begins again with the folder and UID the rows had. Other clients *)
(* deliver to the destination, expunge it and delete from the source.      *)
(***************************************************************************)
EXTENDS Integers, FiniteSets

CONSTANTS
    Letter,     \* the messages of the task
    Plain,      \* those that are unread, not starred and no drafts
    MaxTrouble  \* bound on deliveries, failed requests and crashes

ASSUME ServerMoveAssumption ==
    /\ IsFiniteSet(Letter)
    /\ "" \notin Letter
    /\ Plain \subseteq Letter
    /\ MaxTrouble \in Nat

VARIABLES
    box,        \* the copies in each folder, on the server
    uidNext,    \* UIDNEXT of the destination
    can,        \* the capabilities: a subset of {"MOVE", "UIDPLUS"}
    rowOf,      \* remoteFolder and remoteUID of each Message row
    model,      \* the models that the worker read
    step,       \* where the worker is in performRemoteChangeOnMessages
    uidMap,     \* whether the server told the new UIDs, and which
    arrived,    \* history: deliveries since the messages were copied
    clipped,    \* history: the search could not have seen all the copies
    gone,       \* history: what another client deleted from the source
    torn,       \* history: the worker was killed with messages flagged
    uneven,     \* history: a request failed, or the worker was killed
    trouble

moveVars == <<box, uidNext, can, rowOf, model, step, uidMap, arrived, clipped,
              gone, torn, uneven, trouble>>

\* Another message in the destination is a copy of "".
Copy == [uid: Nat \ {0}, of: Letter \cup {""}, deleted: BOOLEAN]
RowPlace == [folder: {"source", "target"}, uid: Nat \ {0}]
NoMap == [told |-> FALSE, uid |-> [m \in Letter |-> 0]]
Size == Cardinality(Letter)

-----------------------------------------------------------------------------
MoveInit ==
    /\ \E uids \in [Letter -> 1 .. Size] :
         /\ \A m, n \in Letter : uids[m] = uids[n] => m = n
         /\ box = [source |-> {[uid |-> uids[m], of |-> m, deleted |-> FALSE] : m \in Letter},
                   target |-> {}]
         /\ rowOf = [m \in Letter |-> [folder |-> "source", uid |-> uids[m]]]
    /\ uidNext \in 1 .. 2
    /\ can \in SUBSET {"MOVE", "UIDPLUS"}
    /\ model = rowOf
    /\ step = "inflate"
    /\ uidMap = NoMap
    /\ arrived = 0 /\ clipped = FALSE
    /\ gone = {} /\ torn = FALSE /\ uneven = FALSE
    /\ trouble = 0

Trouble == trouble < MaxTrouble /\ trouble' = trouble + 1

\* Another client: a delivery to the destination, or an EXPUNGE of it.
DeliverTarget ==
    /\ step \notin {"done", "failed"}
    /\ Trouble
    /\ box' = [box EXCEPT !.target =
                 @ \cup {[uid |-> uidNext, of |-> "", deleted |-> FALSE]}]
    /\ uidNext' = uidNext + 1
    /\ arrived' = arrived + 1
    /\ UNCHANGED <<can, rowOf, model, step, uidMap, clipped, gone, torn,
                   uneven>>

\* Another client deletes a message from the source for good.
DeleteSource ==
    /\ step \notin {"done", "failed"}
    /\ Trouble
    /\ \E c \in box.source :
         /\ box' = [box EXCEPT !.source = @ \ {c}]
         /\ gone' = gone \cup {c.of}
    /\ UNCHANGED <<uidNext, can, rowOf, model, step, uidMap, arrived, clipped,
                   torn, uneven>>

Kept(copies) == {c \in copies : ~c.deleted}

ExpungeTarget ==
    /\ \E c \in box.target : c.deleted
    /\ box' = [box EXCEPT !.target = Kept(@)]
    /\ UNCHANGED <<uidNext, can, rowOf, model, step, uidMap, arrived, clipped,
                   gone, torn, uneven, trouble>>

-----------------------------------------------------------------------------
\* performRemoteChangeOnMessages reads the rows outside of a transaction.
Inflate ==
    /\ step = "inflate"
    /\ model' = rowOf
    /\ uidMap' = NoMap
    /\ clipped' = FALSE
    /\ step' = "copy"
    /\ UNCHANGED <<box, uidNext, can, rowOf, arrived, gone, torn, uneven,
                   trouble>>

\* What the request is about: UIDs that are not there are passed over.
Selected ==
    {c \in box.source : \E m \in Letter :
        model[m].folder = "source" /\ model[m].uid = c.uid}

\* The ways to give the copies the next UIDs of the destination
Numberings ==
    {f \in [Selected -> uidNext .. uidNext + Cardinality(Selected) - 1] :
        \A c, d \in Selected : f[c] = f[d] => c = d}

\* One request does it all with MOVE.
IsMove == "MOVE" \in can

\* moveMessages or copyMessages: the server keeps the flags of what it copies.
CopyMessages ==
    /\ step = "copy"
    /\ \E f \in Numberings :
         /\ box' = [source |-> IF IsMove THEN box.source \ Selected ELSE box.source,
                    target |-> box.target \cup
                      {[uid |-> f[c], of |-> c.of, deleted |-> c.deleted] : c \in Selected}]
         /\ uidNext' = uidNext + Cardinality(Selected)
         /\ uidMap' = IF "UIDPLUS" \in can /\ Selected # {}
                      THEN [told |-> TRUE,
                            uid |-> [m \in Letter |->
                              IF \E c \in Selected : c.of = m
                              THEN f[CHOOSE c \in Selected : c.of = m] ELSE 0]]
                      ELSE NoMap
    /\ step' = IF IsMove THEN "locate" ELSE "flag"
    /\ arrived' = 0
    /\ UNCHANGED <<can, rowOf, model, clipped, gone, torn, uneven, trouble>>

\* The copies that storeFlagsByUID is about
Flagged(copies) ==
    {c \in copies : \E m \in Letter : model[m].folder = "source" /\ model[m].uid = c.uid}

\* \Deleted is set or cleared on some of the copies.
Marked(copies, some, b) ==
    {IF c \in some THEN [c EXCEPT !.deleted = b] ELSE c : c \in copies}

\* The error of STORE is overwritten by that of EXPUNGE.
StoreDeleted ==
    /\ step = "flag"
    /\ \/ /\ box' = [box EXCEPT !.source = Marked(@, Flagged(box.source), TRUE)]
          /\ UNCHANGED <<uneven, trouble>>
       \/ /\ Trouble
          /\ uneven' = TRUE
          /\ UNCHANGED box
    /\ step' = "expunge"
    /\ UNCHANGED <<uidNext, can, rowOf, model, uidMap, arrived, clipped, gone,
                   torn>>

Expunge ==
    /\ step = "expunge"
    /\ box' = [box EXCEPT !.source = Kept(@)]
    /\ step' = "locate"
    /\ UNCHANGED <<uidNext, can, rowOf, model, uidMap, arrived, clipped, gone,
                   torn, uneven, trouble>>

\* Faulty variant: the error of COPY is not looked at.
FailUnseen ==
    /\ step \in {"copy", "expunge"}
    /\ Trouble
    /\ uneven' = TRUE
    /\ step' = IF step = "copy" /\ ~IsMove THEN "flag" ELSE "failed"
    /\ UNCHANGED <<box, uidNext, can, rowOf, model, uidMap, arrived, clipped,
                   gone, torn>>

\* A failed COPY, MOVE or EXPUNGE ends the task: it is complete with an error.
FailMove ==
    /\ step \in {"copy", "expunge"}
    /\ Trouble
    /\ uneven' = TRUE
    /\ step' = "failed"
    /\ UNCHANGED <<box, uidNext, can, rowOf, model, uidMap, arrived, clipped,
                   gone, torn>>

\* The UIDs of the copies are known, or the task fails at the first that is not.
TakeUIDs ==
    /\ step = "locate"
    /\ uidMap.told
    /\ IF \A m \in Letter : uidMap.uid[m] # 0
       THEN /\ model' = [m \in Letter |-> [folder |-> "target", uid |-> uidMap.uid[m]]]
            /\ step' = "attributes"
       ELSE /\ step' = "failed"
            /\ UNCHANGED model
    /\ UNCHANGED <<box, uidNext, can, rowOf, uidMap, arrived, clipped, gone,
                   torn, uneven, trouble>>

\* Faulty variant: only as many messages are looked at as were moved.
BottomOfSize == IF uidNext = 2 * Size THEN 1 ELSE uidNext - Size

\* uidNext - 2n as an unsigned number, and at least 1: below 0 it wraps
Wraps == uidNext < 2 * Size
Bottom == IF uidNext = 2 * Size THEN 1 ELSE uidNext - 2 * Size

\* A range from a UID that is beyond the last message to the end of the folder
\* has the last message in it.
Last == {c \in box.target : \A d \in box.target : d.uid <= c.uid}
Newest == IF Wraps THEN Last ELSE {c \in box.target : c.uid >= Bottom}

\* Faulty variant: the messages are taken in their order, whatever they are.
MatchAny(found, m) == {c.uid : c \in found}

\* The first one with the id of the row is taken.
Match(found, m) == {c.uid : c \in {d \in found : d.of = m}}

\* What was not found keeps its place.
Placed(m, uid) == IF uid = 0 THEN model[m] ELSE [folder |-> "target", uid |-> uid]

LocateAmong(found) ==
    \E uid \in [Letter -> {c.uid : c \in found} \cup {0}] :
        /\ \A m \in Letter :
             IF Match(found, m) = {} THEN uid[m] = 0 ELSE uid[m] \in Match(found, m)
        /\ model' = [m \in Letter |-> Placed(m, uid[m])]

\* folderStatus and fetchMessagesByUID. A status that failed is all zero, so
\* that the subtraction wraps whatever the folder holds.
FindUIDs ==
    /\ step = "locate"
    /\ ~uidMap.told
    /\ \/ LocateAmong(Newest) /\ UNCHANGED <<uneven, trouble>>
       \/ LocateAmong(Last) /\ Trouble /\ uneven' = TRUE
    /\ clipped' = (Wraps \/ arrived > Size)
    /\ step' = "attributes"
    /\ UNCHANGED <<box, uidNext, can, rowOf, uidMap, arrived, gone, torn>>

\* The copies in the destination whose rows have flags
WithFlags ==
    {c \in box.target :
       \E m \in Letter \ Plain : model[m] = [folder |-> "target", uid |-> c.uid]}

\* The flags of a copy are set to those of its row, which clears \Deleted, but
\* not if there are none to set. There is a request for each, whose error is not
\* looked at.
ApplyAttributes ==
    /\ step = "attributes"
    /\ \E some \in SUBSET WithFlags :
         /\ box' = IF IsMove THEN box ELSE [box EXCEPT !.target = Marked(@, some, FALSE)]
         /\ IF IsMove \/ some = WithFlags THEN UNCHANGED <<uneven, trouble>>
            ELSE Trouble /\ uneven' = TRUE
    /\ step' = "save"
    /\ UNCHANGED <<uidNext, can, rowOf, model, uidMap, arrived, clipped, gone,
                   torn>>

SaveRows ==
    /\ step = "save"
    /\ rowOf' = model
    /\ step' = "done"
    /\ UNCHANGED <<box, uidNext, can, model, uidMap, arrived, clipped, gone,
                   torn, uneven, trouble>>

\* The task is still `remote`, and begins again. A fetchMessagesByUID that fails
\* is such a kill: there is no array to count.
KillMove ==
    /\ step \notin {"inflate", "done", "failed"}
    /\ Trouble
    /\ step' = "inflate"
    /\ torn' = (torn \/ \E c \in box.source : c.deleted)
    /\ uneven' = TRUE
    /\ UNCHANGED <<box, uidNext, can, rowOf, model, uidMap, arrived, clipped,
                   gone>>

-----------------------------------------------------------------------------
MoveNext ==
    \/ Inflate \/ CopyMessages \/ StoreDeleted \/ Expunge \/ FailMove \/ TakeUIDs
    \/ FindUIDs \/ ApplyAttributes \/ SaveRows \/ KillMove
    \/ DeliverTarget \/ DeleteSource \/ ExpungeTarget

MoveSpec == MoveInit /\ [][MoveNext]_moveVars

-----------------------------------------------------------------------------
\* Types of the variables of this module.
MoveTypeOK ==
    /\ box \in [{"source", "target"} -> SUBSET Copy]
    /\ uidNext \in Nat \ {0}
    /\ can \in SUBSET {"MOVE", "UIDPLUS"}
    /\ rowOf \in [Letter -> RowPlace] /\ model \in [Letter -> RowPlace]
    /\ step \in {"inflate", "copy", "flag", "expunge", "locate", "attributes",
                 "save", "done", "failed"}
    /\ uidMap \in [told: BOOLEAN, uid: [Letter -> Nat]]
    /\ arrived \in Nat /\ clipped \in BOOLEAN
    /\ gone \subseteq Letter
    /\ torn \in BOOLEAN /\ uneven \in BOOLEAN
    /\ trouble \in 0 .. MaxTrouble

CopiesOf(m) == {c \in box.source \cup box.target : c.of = m}

\* Whatever fails, a message that is being moved is somewhere on the server and
\* is not about to be expunged, unless the worker was killed when it had
\* flagged it: the next run then copies the flag.
NeverDoomed == torn \/ \A m \in Letter \ gone : \E c \in CopiesOf(m) : ~c.deleted

\* A row that was saved never points at another message.
RowTrue ==
    \A m \in Letter : \A c \in box[rowOf[m].folder] :
        c.uid = rowOf[m].uid => c.of = m

\* Without a failure or a crash, a task that is done has left each message once,
\* in the destination, and its row points at it: though it looks at the last 2n
\* messages only, it finds all, if no more than n others came and there are as
\* many to look at.
MovedAndFound ==
    (step = "done" /\ ~uneven) =>
        \A m \in Letter \ gone :
            /\ {c \in box.source : c.of = m} = {}
            /\ Cardinality(CopiesOf(m)) = 1
            /\ ~clipped => \E c \in CopiesOf(m) :
                 rowOf[m] = [folder |-> "target", uid |-> c.uid]
=============================================================================
