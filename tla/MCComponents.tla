----------------------------- MODULE MCComponents -----------------------------
(***************************************************************************)
(* The components of the system that share no state, checked in one run:   *)
(* a behaviour chooses one of them at its start, and only that one moves.  *)
(***************************************************************************)
EXTENDS MCDeltaStream, ThreadCounts, SendDraft, ForegroundIdle, Metadata, ServerMove, CardSync,
        FolderList

VARIABLE part   \* the component that moves

\* A multi-send with two recipients
Recipients == <<"a", "b">>

\* Three folders: one whose name says "archive", one whose name says nothing, and
\* the folder for snoozed messages. Flags may say "sent".
FolderPaths == <<"a", "b", "s">>
FolderRoles == <<"sent", "archive", "snoozed">>
FolderNames == [p \in {"a", "b", "s"} |->
                   CASE p = "a" -> "archive" [] p = "b" -> "" [] p = "s" -> "snoozed"]

\* The initial states of a component that rests are as good as one.
Resting ==
    /\ part # "deltas" => \A o \in Object : db[o] = 0
    /\ part # "send" => ~multisend /\ draftAt = {"local"} /\ gateway = "never"
    /\ part # "idle" => ~canIdle
    /\ part # "metadata" => present = {} /\ \A o \in Thing : heads[1][o] = 0
    /\ part # "folders" => \A p \in Path : mailbox[p] = "absent"
    /\ part # "move" => uidNext = 1 /\ can = {} /\ rowOf["m1"].uid = 1
    /\ part # "cards" => book["c1"].etag = 1

ComponentsInit ==
    /\ part \in {"deltas", "thread", "send", "idle", "metadata", "move", "cards", "folders"}
    /\ Init /\ ThreadInit /\ SendInit /\ IdleInit /\ MetaInit /\ MoveInit /\ CardInit
    /\ ListInit
    /\ Resting

ComponentsNext ==
    /\ UNCHANGED part
    /\ \/ /\ part = "deltas" /\ Next
          /\ UNCHANGED <<threadVars, sendVars, idleVars, metaVars, moveVars, cardVars, listVars>>
       \/ /\ part = "thread" /\ ThreadNext
          /\ UNCHANGED <<vars, sendVars, idleVars, metaVars, moveVars, cardVars, listVars>>
       \/ /\ part = "send" /\ SendNext
          /\ UNCHANGED <<vars, threadVars, idleVars, metaVars, moveVars, cardVars, listVars>>
       \/ /\ part = "idle" /\ IdleNext
          /\ UNCHANGED <<vars, threadVars, sendVars, metaVars, moveVars, cardVars, listVars>>
       \/ /\ part = "metadata" /\ MetaNext
          /\ UNCHANGED <<vars, threadVars, sendVars, idleVars, moveVars, cardVars, listVars>>
       \/ /\ part = "move" /\ MoveNext
          /\ UNCHANGED <<vars, threadVars, sendVars, idleVars, metaVars, cardVars, listVars>>
       \/ /\ part = "cards" /\ CardNext
          /\ UNCHANGED <<vars, threadVars, sendVars, idleVars, metaVars, moveVars, listVars>>
       \/ /\ part = "folders" /\ ListNext
          /\ UNCHANGED <<vars, threadVars, sendVars, idleVars, metaVars, moveVars, cardVars>>

\* The fairness of each component, while it is the one that moves.
ComponentsSpec ==
    /\ ComponentsInit
    /\ [][ComponentsNext]_<<vars, threadVars, sendVars, idleVars, metaVars, moveVars, cardVars,
                          listVars, part>>
    /\ WF_vars(part = "deltas" /\ FlushThread)
    /\ \A s \in Store : WF_vars(part = "deltas" /\ Emit(s))
    /\ WF_idleVars(part = "idle" /\ ForegroundStep)
    /\ WF_idleVars(part = "idle" /\ MainStep)
    /\ WF_idleVars(part = "idle" /\ WakerStep)
    /\ WF_metaVars(part = "metadata" /\ MetadataThread)

\* The types of all components
PartsTypeOK ==
    /\ TypeOK /\ ThreadTypeOK /\ SendTypeOK /\ IdleTypeOK
    /\ MetaTypeOK /\ MoveTypeOK /\ CardTypeOK /\ ListTypeOK
=============================================================================
