--------------------------- MODULE ComponentsProofs ---------------------------
(***************************************************************************)
(* What is proved of each component holds of the specification by which    *)
(* the components are checked together: the one that moves takes the steps *)
(* of its own specification, and the others take none.                     *)
(***************************************************************************)
EXTENDS MCComponents, DeltaStreamProofs, ForegroundIdleProofs, TaskProofs, RecordProofs, ListProofs

allVars == <<vars, threadVars, sendVars, idleVars, metaVars, moveVars, cardVars, listVars, part>>

\* Every step is one of each component, or leaves that component alone.
LEMMA StepOfParts ==
    ASSUME [ComponentsNext]_allVars
    PROVE  /\ [Next]_vars /\ [ThreadNext]_threadVars /\ [SendNext]_sendVars
           /\ [IdleNext]_idleVars /\ [MetaNext]_metaVars /\ [MoveNext]_moveVars
           /\ [CardNext]_cardVars /\ [ListNext]_listVars
<1>1. CASE UNCHANGED allVars
  BY <1>1, Zenon DEF allVars
<1>2. CASE ComponentsNext
  BY <1>2, Zenon DEF ComponentsNext
<1> QED
  BY <1>1, <1>2

\* Each component behaves as it is specified to behave alone.
THEOREM PartsBehave ==
    ComponentsSpec => /\ Spec /\ ThreadSpec /\ SendSpec /\ IdleSpec
                      /\ MetaSpec /\ MoveSpec /\ CardSpec /\ ListSpec
<1>1. ComponentsInit => /\ Init /\ ThreadInit /\ SendInit /\ IdleInit
                        /\ MetaInit /\ MoveInit /\ CardInit /\ ListInit
  BY Zenon DEF ComponentsInit
<1>2. ComponentsSpec => ComponentsInit /\ [][ComponentsNext]_allVars
  BY PTL DEF ComponentsSpec, allVars
<1> QED
  BY <1>1, <1>2, StepOfParts, PTL
     DEF Spec, ThreadSpec, SendSpec, IdleSpec, MetaSpec, MoveSpec, CardSpec, ListSpec

\* The variables of all components have their types, whichever of them moves.
THEOREM PartsTypeCorrect == ComponentsSpec => []PartsTypeOK
<1>1. /\ TypeOK /\ ThreadTypeOK /\ SendTypeOK /\ IdleTypeOK
      /\ MetaTypeOK /\ MoveTypeOK /\ CardTypeOK /\ ListTypeOK
      => PartsTypeOK
  BY DEF PartsTypeOK
<1> QED
  BY <1>1, PartsBehave, StreamTypeCorrect, ThreadTypeCorrect, SendTypeCorrect, IdleTypeCorrect,
     MetaTypeCorrect, MoveTypeCorrect, CardTypeCorrect, ListTypeCorrect, PTL

\* The invariants of the components, for the deltas and the tasks ...
FeedAndTasksSafe ==
    /\ NothingForgotten /\ ClientUpToDate /\ NotLeftParked
    /\ SentOncePerTask /\ DraftKept /\ ReportTrue /\ SuccessTrue /\ CancelledUnsent
    /\ OneSentCopy /\ NeverDoomed /\ RowTrue /\ MovedAndFound

\* ... and for the records that mirror something else.
RecordsSafe ==
    /\ CountersExact /\ CursorInclusive /\ MetadataAgrees /\ CardsAgree
    /\ FoldersAgree /\ OneRole /\ RolesAssigned /\ DiesOnce

\* What is proved of each component alone holds while the others stand by:
\* nothing a client is told gets lost, no bell but those missed in one of two ways
\* leaves the worker where it is, a draft is sent once and reported as it
\* was, and the counters, metadata, cards and folders of the database agree
\* with what they are computed or loaded from, in every reachable state.
THEOREM PartsSafe ==
    ComponentsSpec => [](FeedAndTasksSafe /\ RecordsSafe) /\ BufferFaithful /\ WakeupKept
<1>1. /\ NothingForgotten /\ ClientUpToDate /\ NotLeftParked
      /\ SentOncePerTask /\ DraftKept /\ ReportTrue /\ SuccessTrue /\ CancelledUnsent
      /\ OneSentCopy /\ NeverDoomed /\ RowTrue /\ MovedAndFound
      => FeedAndTasksSafe
  BY Zenon DEF FeedAndTasksSafe
<1>2. /\ CountersExact /\ CursorInclusive /\ MetadataAgrees /\ CardsAgree
      /\ FoldersAgree /\ OneRole /\ RolesAssigned /\ DiesOnce
      => RecordsSafe
  BY Zenon DEF RecordsSafe
<1>3. ComponentsSpec => []FeedAndTasksSafe
  BY <1>1, PartsBehave, NeverForgotten, ClientCurrent, NotLeftParkedHolds,
     SentOncePerTaskHolds, DraftKeptHolds, ReportTrueHolds, SuccessTrueHolds,
     CancelledUnsentHolds, OneSentCopyHolds, NeverDoomedHolds, RowTrueHolds,
     MovedAndFoundHolds, PTL
<1>4. ComponentsSpec => []RecordsSafe
  BY <1>2, PartsBehave, CountersExactHolds, CursorInclusiveHolds, MetadataAgreesHolds,
     CardsAgreeCorrect, FoldersAgreeCorrect, OneRoleCorrect, RolesAssignedCorrect,
     DiesOnceCorrect, PTL
<1> QED
  BY <1>3, <1>4, PartsBehave, FeedImplemented, WakeupImplemented, PTL
===============================================================================
