------------------------------ MODULE TaskProofs ------------------------------
(***************************************************************************)
(* Proofs about the two tasks that write messages to the server: SendDraft *)
(* and ServerMove.                                                         *)
(***************************************************************************)
EXTENDS SendQueue, ServerMove, FiniteSetTheorems, TLAPS

-----------------------------------------------------------------------------
(***************************************************************************)
(* SendDraft, for any recipients, any number of tasks and any number of    *)
(* crashes.                                                                *)
(***************************************************************************)

LEMMA SendConstants ==
    /\ Len(Order) \in Nat \ {0} /\ DOMAIN Order = 1 .. Len(Order)
    /\ \A i \in 1 .. Len(Order) : Order[i] \in Recipient
    /\ \A i, j \in 1 .. Len(Order) : Order[i] = Order[j] => i = j
    /\ MaxAttempts \in Nat /\ MaxKills \in Nat
<1>1. Len(Order) \in Nat /\ DOMAIN Order = 1 .. Len(Order) /\ Order # <<>>
  BY SendDraftAssumption
<1>2. Len(Order) # 0
  BY <1>1, SendDraftAssumption
<1> QED
  BY <1>1, <1>2, SendDraftAssumption DEF Recipient

LEMMA ReportTypes ==
    /\ NoReport \in Report /\ NoRow \in TaskRow
    /\ [NoRow EXCEPT !.status = "local"] \in TaskRow
    /\ \A n \in SUBSET Recipient :
         /\ [kind |-> "not-sent", names |-> n] \in Report
         /\ [kind |-> "send-failed", names |-> n] \in Report
         /\ [kind |-> "send-partially-failed", names |-> n] \in Report
BY DEF NoReport, Report, NoRow, TaskRow

LEMMA RecipientTypes ==
    ASSUME SendTypeOK
    PROVE  Succeeded \in SUBSET Recipient /\ Addressed \in SUBSET Recipient
<1>1. next \in 1 .. Len(Order)
  BY DEF SendTypeOK
<1>2. \A i \in 1 .. next - 1 : Order[i] \in Recipient
  BY <1>1, SendConstants
<1>3. Order[next] \in Recipient
  BY <1>1, SendConstants
<1> QED
  BY <1>2, <1>3 DEF Succeeded, Addressed

-----------------------------------------------------------------------------
LEMMA SendTypeInit == SendInit => SendTypeOK
<1> SUFFICES ASSUME SendInit PROVE SendTypeOK
  OBVIOUS
<1>1. got \in [Recipient -> Nat]
  BY DEF SendInit
<1>2. sentBox \in [filed: Nat, own: Nat]
  BY DEF SendInit
<1>3. NoRow \in TaskRow
  BY ReportTypes
<1>4. synced \in BOOLEAN /\ early \in BOOLEAN /\ mishap \in BOOLEAN
  BY Zenon DEF SendInit
<1>5. 1 \in 1 .. Len(Order)
  BY SendConstants
<1>6. owed \in Nat /\ attempts \in Nat /\ kills \in Nat
  BY DEF SendInit
<1> QED
  BY <1>1, <1>2, <1>3, <1>4, <1>5, <1>6, Zenon DEF SendInit, SendTypeOK

LEMMA FinishType ==
    ASSUME SendTypeOK, NEW s \in {"complete", "cancelled"}, NEW e \in Report, Finish(s, e)
    PROVE  row' \in TaskRow /\ at' = "idle"
BY DEF SendTypeOK, Finish, TaskRow

LEMMA FailType ==
    ASSUME SendTypeOK, Fail
    PROVE  row' \in TaskRow /\ at' = "idle"
<1>1. \E k \in {"send-failed", "send-partially-failed"} :
        Finish("complete", [kind |-> k, names |-> Succeeded])
  BY DEF Fail
<1> QED
  BY <1>1, RecipientTypes, ReportTypes, FinishType

LEMMA AcceptType ==
    ASSUME SendTypeOK, Accept
    PROVE  /\ got' \in [Recipient -> Nat] /\ handed' \in SUBSET Recipient
           /\ sentBox' \in [filed: Nat, own: Nat] /\ owed' \in Nat
<1>1. got' \in [Recipient -> Nat]
  BY DEF SendTypeOK, Accept
<1>2. sentBox' \in [filed: Nat, own: Nat]
  BY DEF SendTypeOK, Accept
<1>3. handed' \in SUBSET Recipient
  BY RecipientTypes DEF SendTypeOK, Accept
<1> QED
  BY <1>1, <1>2, <1>3 DEF SendTypeOK, Accept

LEMMA SendTypeStep == SendTypeOK /\ [SendNext]_sendVars => SendTypeOK'
<1> SUFFICES ASSUME SendTypeOK, [SendNext]_sendVars PROVE SendTypeOK'
  OBVIOUS
<1>1. CASE QueueSend
  <2>1. row' \in TaskRow
    BY <1>1, ReportTypes DEF QueueSend
  <2>2. early' \in BOOLEAN /\ handed' \in SUBSET Recipient
    BY <1>1, Zenon DEF QueueSend
  <2>3. attempts' \in Nat
    BY <1>1 DEF SendTypeOK, QueueSend
  <2> QED
    BY <1>1, <2>1, <2>2, <2>3, Zenon DEF SendTypeOK, QueueSend
<1>2. CASE LocalSend
  <2>1. row' \in TaskRow
    BY <1>2 DEF SendTypeOK, LocalSend, TaskRow
  <2> QED
    BY <1>2, <2>1 DEF SendTypeOK, LocalSend, setting, handing
<1>3. CASE CancelSend
  <2>1. row' \in TaskRow
    BY <1>3 DEF SendTypeOK, CancelSend, TaskRow
  <2> QED
    BY <1>3, <2>1 DEF SendTypeOK, CancelSend, handing
<1>4. CASE Load
  BY <1>4 DEF SendTypeOK, Load, setting, handing
<1>5. CASE Start
  <2>1. row' \in TaskRow /\ taken' \in TaskRow /\ at' \in {"idle", "prepare"}
    <3>1. CASE Finish("cancelled", NoReport) /\ UNCHANGED taken
      BY <3>1, FinishType, ReportTypes DEF SendTypeOK
    <3>2. CASE Finish("complete", NoReport) /\ UNCHANGED taken
      BY <3>2, FinishType, ReportTypes DEF SendTypeOK
    <3>3. CASE MarkRan /\ taken' = [taken EXCEPT !.ran = TRUE] /\ at' = "prepare"
      BY <3>3 DEF SendTypeOK, MarkRan, TaskRow
    <3> QED
      BY <1>5, <3>1, <3>2, <3>3 DEF Start, EndRan
  <2> QED
    BY <1>5, <2>1, SendConstants DEF SendTypeOK, Start, setting, handing
<1>6. CASE Prepare
  <2>1. row' \in TaskRow /\ at' \in {"idle", "send"}
    BY <1>6, FinishType, ReportTypes DEF SendTypeOK, Prepare
  <2> QED
    BY <1>6, <2>1 DEF SendTypeOK, Prepare, setting, handing
<1>7. CASE Send
  <2>1. /\ got' \in [Recipient -> Nat] /\ handed' \in SUBSET Recipient
        /\ sentBox' \in [filed: Nat, own: Nat] /\ owed' \in Nat
    BY <1>7, AcceptType DEF SendTypeOK, Send, handing
  <2>2. row' \in TaskRow /\ at' \in {"send", "idle", "removeRemote"}
    BY <1>7, FailType DEF SendTypeOK, Send
  <2>3. next' \in 1 .. Len(Order)
    BY <1>7, SendConstants DEF SendTypeOK, Send, More
  <2>4. mishap' \in BOOLEAN
    BY <1>7 DEF SendTypeOK, Send
  <2> QED
    BY <1>7, <2>1, <2>2, <2>3, <2>4 DEF SendTypeOK, Send, setting
<1>8. CASE RemoveRemoteDraft
  BY <1>8 DEF SendTypeOK, RemoveRemoteDraft, setting, handing
<1>9. CASE Scan
  <2>1. sentBox' \in [filed: Nat, own: Nat] /\ at' \in {"append", "fetch"}
    BY <1>9 DEF SendTypeOK, Scan, CleanFiled
  <2> QED
    BY <1>9, <2>1 DEF SendTypeOK, Scan, setting, handing
<1>10. CASE AppendSent
  <2>1. PICK placed \in BOOLEAN, known \in BOOLEAN :
         /\ sentBox' = IF placed THEN [sentBox EXCEPT !.own = @ + 1] ELSE sentBox
         /\ mishap' = (mishap \/ ~placed)
         /\ IF known THEN at' = "fetch" /\ UNCHANGED <<row, draftAt>>
            ELSE Finish("complete", NoReport) /\ RemoveDraft
    BY <1>10 DEF AppendSent
  <2>2. sentBox' \in [filed: Nat, own: Nat] /\ mishap' \in BOOLEAN
    BY <2>1 DEF SendTypeOK
  <2>3. row' \in TaskRow /\ at' \in {"idle", "fetch"} /\ draftAt' \in SUBSET {"local", "remote"}
    BY <2>1, FinishType, ReportTypes DEF SendTypeOK, RemoveDraft
  <2> QED
    BY <1>10, <2>2, <2>3 DEF SendTypeOK, AppendSent, setting, handing
<1>11. CASE Fetch
  <2>1. row' \in TaskRow /\ at' \in {"idle", "insert"}
    BY <1>11, FinishType, ReportTypes DEF SendTypeOK, Fetch
  <2> QED
    BY <1>11, <2>1 DEF SendTypeOK, Fetch, RemoveDraft, setting, handing
<1>12. CASE InsertSent
  <2>1. row' \in TaskRow /\ at' = "idle"
    BY <1>12, FinishType, ReportTypes DEF InsertSent
  <2> QED
    BY <1>12, <2>1 DEF SendTypeOK, InsertSent, setting, handing
<1>13. CASE FileLate
  BY <1>13 DEF SendTypeOK, FileLate, setting
<1>14. CASE KillSend
  BY <1>14, SendConstants, ReportTypes DEF SendTypeOK, KillSend, handing
<1>15. CASE UNCHANGED sendVars
  BY <1>15 DEF SendTypeOK, sendVars
<1> QED
  BY <1>1, <1>2, <1>3, <1>4, <1>5, <1>6, <1>7, <1>8, <1>9, <1>10, <1>11, <1>12,
     <1>13, <1>14, <1>15 DEF SendNext, WorkerStep

-----------------------------------------------------------------------------
(* Where the worker is in the task that the row stands for.                *)

Phases ==
    /\ at # "idle" => row.status = "remote" /\ taken.ran = row.ran
    /\ at # "idle" => taken.status = "remote" /\ taken.error = NoReport
    /\ at \notin {"idle", "start"} => row.ran
    /\ at = "prepare" => next = 1
    /\ row.status = "remote" => row.error = NoReport
    /\ row.status = "local" => row.error = NoReport /\ ~row.ran

\* What the row is when the task has ended
Ended(s, e) ==
    /\ row'.status = s /\ row'.error = e
    /\ row'.ran = taken.ran /\ row'.cancel = taken.cancel
    /\ at' = "idle"

LEMMA FinishFields ==
    ASSUME SendTypeOK, NEW s, NEW e, Finish(s, e)
    PROVE  Ended(s, e)
BY DEF SendTypeOK, Finish, TaskRow, Ended

\* The outcomes of a hand-over: it fails with a report of its own kind.
Failed ==
    \E k \in {"send-failed", "send-partially-failed"} :
      /\ Ended("complete", [kind |-> k, names |-> Succeeded])
      /\ k = "send-partially-failed" <=> Succeeded # {}

LEMMA FailFields ==
    ASSUME SendTypeOK, Fail
    PROVE  Failed
<1>1. CASE Succeeded = {}
  <2>1. Finish("complete", [kind |-> "send-failed", names |-> Succeeded])
    BY <1>1 DEF Fail
  <2>2. Ended("complete", [kind |-> "send-failed", names |-> Succeeded])
    BY <2>1, FinishFields
  <2> QED
    BY <1>1, <2>2 DEF Failed
<1>2. CASE Succeeded # {}
  <2>1. Finish("complete", [kind |-> "send-partially-failed", names |-> Succeeded])
    BY <1>2 DEF Fail
  <2>2. Ended("complete", [kind |-> "send-partially-failed", names |-> Succeeded])
    BY <2>1, FinishFields
  <2> QED
    BY <1>2, <2>2 DEF Failed
<1> QED
  BY <1>1, <1>2

LEMMA MarkFields ==
    ASSUME SendTypeOK, MarkRan, taken' = [taken EXCEPT !.ran = TRUE]
    PROVE  /\ row'.status = taken.status /\ row'.error = taken.error
           /\ row'.ran /\ row'.cancel = taken.cancel
           /\ taken'.status = taken.status /\ taken'.error = taken.error
           /\ taken'.ran /\ taken'.cancel = taken.cancel
BY DEF SendTypeOK, MarkRan, TaskRow

\* The ways in which a task starts
Starts ==
    \/ taken.cancel /\ Ended("cancelled", NoReport) /\ UNCHANGED taken
    \/ ~taken.cancel /\ taken.ran /\ Ended("complete", NoReport) /\ UNCHANGED taken
    \/ /\ ~taken.cancel /\ ~taken.ran /\ at' = "prepare"
       /\ row'.status = taken.status /\ row'.error = taken.error
       /\ row'.ran /\ row'.cancel = taken.cancel
       /\ taken'.status = taken.status /\ taken'.error = taken.error
       /\ taken'.ran /\ taken'.cancel = taken.cancel

LEMMA StartFields ==
    ASSUME SendTypeOK, Start
    PROVE  Starts
<1>1. CASE ShouldCancel /\ Finish("cancelled", NoReport) /\ UNCHANGED taken
  <2>1. Ended("cancelled", NoReport)
    BY <1>1, FinishFields
  <2> QED
    BY <1>1, <2>1 DEF Starts, ShouldCancel
<1>2. CASE ~ShouldCancel /\ taken.ran /\ EndRan /\ UNCHANGED taken
  <2>1. Ended("complete", NoReport)
    BY <1>2, FinishFields DEF EndRan
  <2> QED
    BY <1>2, <2>1 DEF Starts, ShouldCancel
<1>3. CASE /\ ~ShouldCancel /\ ~taken.ran /\ MarkRan
           /\ taken' = [taken EXCEPT !.ran = TRUE] /\ at' = "prepare"
  BY <1>3, MarkFields DEF Starts, ShouldCancel
<1> QED
  BY <1>1, <1>2, <1>3 DEF Start

LEMMA PhasesInit == SendInit => Phases
BY DEF SendInit, Phases, NoRow

LEMMA PhasesStep ==
    ASSUME SendTypeOK, Phases, [SendNext]_sendVars
    PROVE  Phases'
<1>1. CASE QueueSend
  BY <1>1 DEF Phases, SendTypeOK, TaskRow, QueueSend, NoRow
<1>2. CASE LocalSend
  BY <1>2 DEF Phases, SendTypeOK, TaskRow, LocalSend, setting, handing
<1>3. CASE CancelSend
  BY <1>3 DEF Phases, SendTypeOK, TaskRow, CancelSend, handing
<1>4. CASE Load
  BY <1>4 DEF Phases, SendTypeOK, TaskRow, Load, setting, handing
<1>5. CASE Start
  <2>1. Starts
    BY <1>5, StartFields
  <2> QED
    BY <1>5, <2>1 DEF Phases, Start, Starts, Ended, setting, handing
<1>6. CASE Prepare
  <2>1. CASE at' = "send" /\ UNCHANGED row
    BY <1>6, <2>1 DEF Phases, Prepare, setting, handing
  <2>2. CASE Finish("complete", [kind |-> "not-sent", names |-> {}])
    <3>1. Ended("complete", [kind |-> "not-sent", names |-> {}])
      BY <2>2, FinishFields
    <3> QED
      BY <1>6, <3>1 DEF Phases, Ended
  <2> QED
    BY <1>6, <2>1, <2>2 DEF Prepare
<1>7. CASE Send
  <2>1. CASE Fail
    <3>1. PICK k : Ended("complete", [kind |-> k, names |-> Succeeded])
      BY <2>1, FailFields DEF Failed
    <3> QED
      BY <3>1 DEF Phases, Ended
  <2>2. CASE UNCHANGED row /\ at' \in {"send", "removeRemote"}
    BY <1>7, <2>2 DEF Phases, Send, setting
  <2> QED
    BY <1>7, <2>1, <2>2 DEF Send
<1>8. CASE RemoveRemoteDraft
  BY <1>8 DEF Phases, SendTypeOK, TaskRow, RemoveRemoteDraft, setting, handing
<1>9. CASE Scan
  BY <1>9 DEF Phases, SendTypeOK, TaskRow, Scan, setting, handing
<1>10. CASE AppendSent
  BY <1>10 DEF Phases, SendTypeOK, TaskRow, AppendSent, setting, handing, Finish
<1>11. CASE Fetch
  BY <1>11 DEF Phases, SendTypeOK, TaskRow, Fetch, setting, handing, Finish
<1>12. CASE InsertSent
  BY <1>12 DEF Phases, SendTypeOK, TaskRow, InsertSent, setting, handing, Finish
<1>13. CASE FileLate
  BY <1>13 DEF Phases, SendTypeOK, TaskRow, FileLate, setting
<1>14. CASE KillSend
  BY <1>14 DEF Phases, SendTypeOK, TaskRow, KillSend, handing, NoRow
<1>15. CASE UNCHANGED sendVars
  BY <1>15 DEF Phases, SendTypeOK, TaskRow, sendVars
<1> QED
  BY <1>1, <1>2, <1>3, <1>4, <1>5, <1>6, <1>7, <1>8, <1>9, <1>10, <1>11, <1>12,
     <1>13, <1>14, <1>15 DEF SendNext, WorkerStep

-----------------------------------------------------------------------------
(* Who has got the mail from the task, and who may still get it.           *)

\* Nobody has got the mail from the task that the row stands for.
Fresh ==
    \/ row.status \in {"local", "remote"} /\ ~row.ran
    \/ at = "prepare"
    \/ at = "send" /\ ~multisend

HandOver ==
    /\ Fresh => handed = {} /\ \A r \in Recipient : got[r] < attempts
    /\ (at = "send" /\ multisend) =>
         /\ handed = {Order[i] : i \in 1 .. next - 1}
         /\ \A i \in next .. Len(Order) : got[Order[i]] < attempts
    /\ at \in {"removeRemote", "scan", "append", "fetch", "insert"} => handed = Recipient
    /\ \A r \in Recipient : got[r] <= attempts
    /\ \A r \in handed : got[r] > 0

LEMMA HandOverInit == SendInit => HandOver
BY DEF SendInit, HandOver, Fresh, NoRow

LEMMA HandOverStep ==
    ASSUME SendTypeOK, Phases, HandOver, [SendNext]_sendVars
    PROVE  HandOver'
<1>1. CASE QueueSend
  BY <1>1 DEF HandOver, Fresh, Phases, SendTypeOK, TaskRow, QueueSend, NoRow
<1>2. CASE LocalSend
  BY <1>2 DEF HandOver, Fresh, Phases, SendTypeOK, TaskRow, LocalSend, setting, handing
<1>3. CASE CancelSend
  BY <1>3 DEF HandOver, Fresh, Phases, SendTypeOK, TaskRow, CancelSend, handing
<1>4. CASE Load
  BY <1>4 DEF HandOver, Fresh, Phases, SendTypeOK, TaskRow, Load, setting, handing
<1>5. CASE Start
  <2>1. Starts
    BY <1>5, StartFields
  <2> QED
    BY <1>5, <2>1 DEF HandOver, Fresh, Phases, Start, Starts, Ended, setting, handing
<1>6. CASE Prepare
  <2>1. CASE at' = "send" /\ UNCHANGED row
    <3>1. handed = {} /\ next = 1 /\ \A r \in Recipient : got[r] < attempts
      BY <1>6 DEF HandOver, Fresh, Phases, Prepare
    <3>2. {Order[i] : i \in 1 .. next - 1} = {}
      BY <3>1
    <3> QED
      BY <1>6, <2>1, <3>1, <3>2, SendConstants DEF HandOver, Fresh, Prepare, setting, handing
  <2>2. CASE Finish("complete", [kind |-> "not-sent", names |-> {}])
    <3>1. Ended("complete", [kind |-> "not-sent", names |-> {}])
      BY <2>2, FinishFields
    <3> QED
      BY <1>6, <3>1 DEF HandOver, Fresh, Ended, Prepare, setting, handing
  <2> QED
    BY <1>6, <2>1, <2>2 DEF Prepare
<1>7. CASE Send
  <2> USE <1>7
  <2>1. next \in 1 .. Len(Order) /\ got \in [Recipient -> Nat] /\ attempts \in Nat
    BY DEF SendTypeOK
  <2>2. row.ran /\ attempts' = attempts /\ multisend' = multisend /\ at = "send"
    BY DEF Phases, Send, setting
  <2>3. \A r \in Addressed : r \in Recipient /\ got[r] < attempts
    BY <2>1, <2>2, SendConstants DEF Addressed, HandOver, Fresh
  <2>4. ASSUME Accept
        PROVE  /\ \A r \in Recipient : got'[r] <= attempts
               /\ \A r \in handed' : got'[r] > 0
    <3>1. /\ handed' = handed \cup Addressed
          /\ got' = [r \in Recipient |-> IF r \in Addressed THEN got[r] + 1 ELSE got[r]]
      BY <2>4 DEF Accept
    <3>2. handed \in SUBSET Recipient
      BY DEF SendTypeOK
    <3> QED
      BY <2>1, <2>3, <3>1, <3>2 DEF HandOver
  <2>5. CASE Fail
    <3>1. at' = "idle" /\ row'.status = "complete"
      BY <2>5, FailFields DEF Failed, Ended
    <3>2. CASE Accept
      BY <2>2, <2>4, <3>1, <3>2 DEF HandOver, Fresh
    <3>3. CASE UNCHANGED handing
      BY <2>2, <3>1, <3>3 DEF HandOver, Fresh, handing
    <3> QED
      BY <3>2, <3>3 DEF Send
  <2>6. CASE Accept /\ UNCHANGED row /\ More /\ next' = next + 1 /\ at' = at
    <3>1. multisend /\ next < Len(Order) /\ Addressed = {Order[next]}
      BY <2>6 DEF More, Addressed
    <3>2. handed = {Order[i] : i \in 1 .. next - 1}
      BY <2>2, <3>1 DEF HandOver
    <3>3. handed' = {Order[i] : i \in 1 .. next' - 1}
      BY <2>1, <2>6, <3>1, <3>2 DEF Accept
    <3>4. \A i \in next' .. Len(Order) : got'[Order[i]] < attempts
      <4> SUFFICES ASSUME NEW i \in next + 1 .. Len(Order) PROVE got'[Order[i]] < attempts
        BY <2>6
      <4>1. Order[i] \in Recipient /\ Order[i] # Order[next] /\ got[Order[i]] < attempts
        BY <2>1, <2>2, <3>1, SendConstants DEF HandOver
      <4> QED
        BY <2>1, <2>6, <3>1, <4>1 DEF Accept
    <3> QED
      BY <2>2, <2>4, <2>6, <3>1, <3>3, <3>4 DEF HandOver, Fresh
  <2>7. CASE Accept /\ UNCHANGED row /\ ~More /\ at' = "removeRemote"
    <3>1. handed' = Recipient
      <4>1. CASE ~multisend
        BY <2>2, <2>7, <4>1 DEF Accept, Addressed, HandOver, Fresh
      <4>2. CASE multisend
        <5>1. next = Len(Order)
          BY <2>1, <2>7, <4>2 DEF More
        <5>2. handed' = {Order[i] : i \in 1 .. next - 1} \cup {Order[next]}
          BY <2>2, <2>7, <4>2 DEF Accept, Addressed, HandOver
        <5> QED
          BY <2>1, <5>1, <5>2, SendConstants DEF Recipient
      <4> QED
        BY <4>1, <4>2
    <3> QED
      BY <2>2, <2>4, <2>7, <3>1 DEF HandOver, Fresh
  <2> QED
    BY <2>5, <2>6, <2>7 DEF Send
<1>8. CASE RemoveRemoteDraft
  BY <1>8 DEF HandOver, Fresh, Phases, SendTypeOK, TaskRow, RemoveRemoteDraft, setting, handing
<1>9. CASE Scan
  BY <1>9 DEF HandOver, Fresh, Phases, SendTypeOK, TaskRow, Scan, setting, handing
<1>10. CASE AppendSent
  <2>1. (at' = "fetch" /\ UNCHANGED row) \/ Ended("complete", NoReport)
    BY <1>10, FinishFields DEF AppendSent
  <2> QED
    BY <1>10, <2>1 DEF HandOver, Fresh, Ended, Phases, AppendSent, setting, handing
<1>11. CASE Fetch
  <2>1. (at' = "insert" /\ UNCHANGED row) \/ Ended("complete", NoReport)
    BY <1>11, FinishFields DEF Fetch
  <2> QED
    BY <1>11, <2>1 DEF HandOver, Fresh, Ended, Phases, Fetch, setting, handing
<1>12. CASE InsertSent
  <2>1. Ended("complete", NoReport)
    BY <1>12, FinishFields DEF InsertSent
  <2> QED
    BY <1>12, <2>1 DEF HandOver, Fresh, Ended, Phases, InsertSent, setting, handing
<1>13. CASE FileLate
  BY <1>13 DEF HandOver, Fresh, Phases, SendTypeOK, TaskRow, FileLate, setting
<1>14. CASE KillSend
  BY <1>14 DEF HandOver, Fresh, Phases, SendTypeOK, TaskRow, KillSend, handing, NoRow
<1>15. CASE UNCHANGED sendVars
  BY <1>15 DEF HandOver, Fresh, Phases, SendTypeOK, TaskRow, sendVars
<1> QED
  BY <1>1, <1>2, <1>3, <1>4, <1>5, <1>6, <1>7, <1>8, <1>9, <1>10, <1>11, <1>12,
     <1>13, <1>14, <1>15 DEF SendNext, WorkerStep

-----------------------------------------------------------------------------
(* A cancellation before the start.                                        *)

Cancelling ==
    early =>
        /\ handed = {}
        /\ row.status \notin {"none", "local"}
        /\ row.cancel
        /\ at \in {"idle", "start"}
        /\ at = "start" => taken.cancel

LEMMA CancellingInit == SendInit => Cancelling
BY DEF SendInit, Cancelling

LEMMA CancellingStep ==
    ASSUME SendTypeOK, Phases, HandOver, Cancelling, [SendNext]_sendVars
    PROVE  Cancelling'
<1>1. CASE QueueSend
  BY <1>1 DEF Cancelling, SendTypeOK, TaskRow, QueueSend, NoRow
<1>2. CASE LocalSend
  BY <1>2 DEF Cancelling, SendTypeOK, TaskRow, LocalSend, setting, handing
<1>3. CASE CancelSend
  <2>1. row'.status = row.status /\ row'.cancel
    BY <1>3 DEF CancelSend, SendTypeOK, TaskRow
  <2> QED
    BY <1>3, <2>1 DEF Cancelling, HandOver, Fresh, CancelSend, handing
<1>4. CASE Load
  BY <1>4 DEF Cancelling, SendTypeOK, TaskRow, Load, setting, handing
<1>5. CASE Start
  <2>1. Starts
    BY <1>5, StartFields
  <2> QED
    BY <1>5, <2>1 DEF Cancelling, Start, Starts, Ended, setting, handing
<1>6. CASE Prepare
  BY <1>6 DEF Cancelling, Prepare, setting
<1>7. CASE Send
  BY <1>7 DEF Cancelling, Send, setting
<1>8. CASE RemoveRemoteDraft
  BY <1>8 DEF Cancelling, RemoveRemoteDraft, setting
<1>9. CASE Scan
  BY <1>9 DEF Cancelling, Scan, setting
<1>10. CASE AppendSent
  BY <1>10 DEF Cancelling, AppendSent, setting
<1>11. CASE Fetch
  BY <1>11 DEF Cancelling, Fetch, setting
<1>12. CASE InsertSent
  BY <1>12 DEF Cancelling, InsertSent, setting
<1>13. CASE FileLate
  BY <1>13 DEF Cancelling, SendTypeOK, TaskRow, FileLate, setting
<1>14. CASE KillSend
  BY <1>14 DEF Cancelling, SendTypeOK, TaskRow, KillSend, handing, NoRow
<1>15. CASE UNCHANGED sendVars
  BY <1>15 DEF Cancelling, SendTypeOK, TaskRow, sendVars
<1> QED
  BY <1>1, <1>2, <1>3, <1>4, <1>5, <1>6, <1>7, <1>8, <1>9, <1>10, <1>11, <1>12,
     <1>13, <1>14, <1>15 DEF SendNext, WorkerStep

-----------------------------------------------------------------------------
(* The draft, and a task that ends without an error.                       *)

LEMMA DraftKeptInit == SendInit => DraftKept
BY DEF SendInit, DraftKept

LEMMA DraftKeptStep ==
    ASSUME SendTypeOK, HandOver, DraftKept, [SendNext]_sendVars
    PROVE  DraftKept'
<1>1. got \in [Recipient -> Nat] /\ handed \in SUBSET Recipient
  BY DEF SendTypeOK
<1>2. CASE Send
  <2>1. draftAt' = draftAt
    BY <1>2 DEF Send
  <2>2. CASE UNCHANGED handing
    BY <2>1, <2>2 DEF DraftKept, handing
  <2>3. CASE Accept
    <3>1. \A r \in Recipient : got[r] > 0 => got'[r] > 0
      BY <1>1, <2>3 DEF Accept
    <3> QED
      BY <2>1, <3>1 DEF DraftKept
  <2> QED
    BY <1>2, <2>2, <2>3 DEF Send
<1>3. CASE AppendSent \/ Fetch
  BY <1>1, <1>3 DEF AppendSent, Fetch, handing, HandOver, DraftKept
<1>4. CASE RemoveRemoteDraft
  BY <1>4 DEF RemoveRemoteDraft, handing, DraftKept
<1>5. ASSUME UNCHANGED <<draftAt, got>> PROVE DraftKept'
  BY <1>5 DEF DraftKept
<1> QED
  BY <1>2, <1>3, <1>4, <1>5 DEF SendNext, WorkerStep, QueueSend, LocalSend, CancelSend,
     Load, Start, Prepare, Scan, InsertSent, FileLate, KillSend, sendVars, handing

Success ==
    /\ (row.status = "remote" /\ row.ran /\ at \in {"idle", "start"}) => kills > 0
    /\ at = "insert" => "local" \notin draftAt
    /\ SuccessTrue

LEMMA SuccessInit == SendInit => Success
BY DEF SendInit, Success, SuccessTrue, NoRow

LEMMA SuccessStep ==
    ASSUME SendTypeOK, Phases, HandOver, Success, [SendNext]_sendVars
    PROVE  Success'
<1>1. CASE QueueSend
  BY <1>1 DEF Success, SuccessTrue, Phases, SendTypeOK, QueueSend, NoRow
<1>2. CASE LocalSend
  <2>1. row'.status = "remote" /\ row'.ran = row.ran /\ ~row.ran
    BY <1>2 DEF LocalSend, SendTypeOK, TaskRow, Phases
  <2> QED
    BY <1>2, <2>1 DEF Success, SuccessTrue, Phases, LocalSend, setting, handing
<1>3. CASE CancelSend
  <2>1. row'.status = row.status /\ row'.ran = row.ran /\ row'.error = row.error
    BY <1>3 DEF CancelSend, SendTypeOK, TaskRow
  <2> QED
    BY <1>3, <2>1 DEF Success, SuccessTrue, CancelSend, handing
<1>4. CASE Load
  BY <1>4 DEF Success, SuccessTrue, Phases, SendTypeOK, Load, setting, handing
<1>5. CASE Start
  <2>1. Starts
    BY <1>5, StartFields
  <2> QED
    BY <1>5, <2>1 DEF Success, SuccessTrue, Phases, Start, Starts, Ended, setting, handing
<1>6. CASE Prepare
  <2>1. (at' = "send" /\ UNCHANGED row) \/ Ended("complete", [kind |-> "not-sent", names |-> {}])
    BY <1>6, FinishFields DEF Prepare
  <2>2. [kind |-> "not-sent", names |-> {}] # NoReport
    BY DEF NoReport
  <2> QED
    BY <1>6, <2>1, <2>2 DEF Success, SuccessTrue, Phases, Ended, Prepare, setting, handing
<1>7. CASE Send
  <2>1. (at' \in {"send", "removeRemote"} /\ UNCHANGED row) \/ Failed
    BY <1>7, FailFields DEF Send
  <2>2. \A k \in {"send-failed", "send-partially-failed"} : \A n : [kind |-> k, names |-> n] # NoReport
    BY DEF NoReport
  <2>3. Failed => row'.status = "complete" /\ row'.error # NoReport /\ at' = "idle"
    BY <2>2 DEF Failed, Ended
  <2> QED
    BY <1>7, <2>1, <2>3 DEF Success, SuccessTrue, Phases, Send, setting
<1>8. CASE RemoveRemoteDraft
  BY <1>8 DEF Success, SuccessTrue, Phases, SendTypeOK, RemoveRemoteDraft, setting, handing
<1>9. CASE Scan
  BY <1>9 DEF Success, SuccessTrue, Phases, SendTypeOK, Scan, setting, handing
<1>10. CASE AppendSent
  <2>1. \/ at' = "fetch" /\ UNCHANGED <<row, draftAt>>
        \/ Ended("complete", NoReport) /\ RemoveDraft
    BY <1>10, FinishFields DEF AppendSent
  <2> QED
    BY <1>10, <2>1 DEF Success, SuccessTrue, HandOver, Phases, Ended, AppendSent, RemoveDraft, setting, handing
<1>11. CASE Fetch
  <2>1. (at' = "insert" /\ UNCHANGED row) \/ Ended("complete", NoReport)
    BY <1>11, FinishFields DEF Fetch
  <2> QED
    BY <1>11, <2>1 DEF Success, SuccessTrue, HandOver, Phases, Ended, Fetch, RemoveDraft, setting, handing
<1>12. CASE InsertSent
  <2>1. Ended("complete", NoReport)
    BY <1>12, FinishFields DEF InsertSent
  <2> QED
    BY <1>12, <2>1 DEF Success, SuccessTrue, HandOver, Ended, InsertSent, setting, handing
<1>13. CASE FileLate
  BY <1>13 DEF Success, SuccessTrue, FileLate, setting
<1>14. CASE KillSend
  <2>1. kills' > 0 /\ at' = "idle"
    BY <1>14 DEF KillSend, SendTypeOK
  <2> QED
    BY <2>1 DEF Success, SuccessTrue
<1>15. CASE UNCHANGED sendVars
  BY <1>15 DEF Success, SuccessTrue, Phases, SendTypeOK, sendVars
<1> QED
  BY <1>1, <1>2, <1>3, <1>4, <1>5, <1>6, <1>7, <1>8, <1>9, <1>10, <1>11, <1>12,
     <1>13, <1>14, <1>15 DEF SendNext, WorkerStep

-----------------------------------------------------------------------------
(* What the user is told of a failure.                                     *)

LEMMA ReportInit == SendInit => ReportTrue
<1>1. SendInit => row.error = NoReport
  BY DEF SendInit, NoRow
<1>2. NoReport.kind = ""
  BY DEF NoReport
<1> QED
  BY <1>1, <1>2 DEF ReportTrue

\* A failure names all who got the mail but, at most, the last one.
LEMMA FailTrue ==
    ASSUME SendTypeOK, Phases, HandOver, Send, Fail
    PROVE  ReportTrue'
<1>1. PICK k \in {"send-failed", "send-partially-failed"} :
        /\ Ended("complete", [kind |-> k, names |-> Succeeded])
        /\ k = "send-partially-failed" <=> Succeeded # {}
  BY FailFields DEF Failed
<1>2. /\ row'.error.kind = k /\ row'.error.names = Succeeded /\ multisend' = multisend
  BY <1>1 DEF Ended, Send, setting
<1>3. handed' = handed \/ handed' = handed \cup Addressed
  BY DEF Send, Accept, handing
<1>4. CASE ~multisend
  <2>1. Succeeded = {}
    BY <1>4 DEF Succeeded
  <2> QED
    BY <1>1, <1>2, <1>4, <2>1 DEF ReportTrue
<1>5. CASE multisend
  <2>1. Succeeded = handed /\ Addressed = {Order[next]}
    BY <1>5 DEF Succeeded, Addressed, HandOver, Send
  <2>2. handed' \ Succeeded = {} \/ handed' \ Succeeded = {Order[next]}
    BY <1>3, <2>1
  <2>3. Cardinality(handed' \ Succeeded) <= 1
    <3>1. Cardinality({}) = 0 /\ Cardinality({Order[next]}) = 1
      BY FS_EmptySet, FS_Singleton
    <3> QED
      BY <2>2, <3>1
  <2> QED
    BY <1>1, <1>2, <1>3, <2>1, <2>3 DEF ReportTrue
<1> QED
  BY <1>4, <1>5

LEMMA NoReportTrue ==
    ASSUME row'.error = NoReport \/ \E n : row'.error = [kind |-> "not-sent", names |-> n]
    PROVE  ReportTrue'
<1>1. NoReport.kind = "" /\ \A n : [kind |-> "not-sent", names |-> n].kind = "not-sent"
  BY DEF NoReport
<1>2. row'.error.kind \in {"", "not-sent"}
  BY <1>1
<1> QED
  BY <1>2 DEF ReportTrue

LEMMA ReportStep ==
    ASSUME SendTypeOK, Phases, HandOver, ReportTrue, [SendNext]_sendVars
    PROVE  ReportTrue'
<1>1. CASE QueueSend
  <2>1. row'.error = NoReport
    BY <1>1 DEF QueueSend, NoRow
  <2> QED
    BY <2>1, NoReportTrue
<1>2. CASE LocalSend
  <2>1. row'.error = NoReport
    BY <1>2 DEF LocalSend, SendTypeOK, TaskRow, Phases
  <2> QED
    BY <2>1, NoReportTrue
<1>3. CASE CancelSend
  <2>1. row'.error = row.error
    BY <1>3 DEF CancelSend, SendTypeOK, TaskRow
  <2> QED
    BY <1>3, <2>1 DEF ReportTrue, CancelSend, handing
<1>4. CASE Load
  BY <1>4 DEF ReportTrue, Load, setting, handing
<1>5. CASE Start
  <2>1. row'.error = NoReport
    BY <1>5, StartFields DEF Starts, Ended, Phases, Start
  <2> QED
    BY <2>1, NoReportTrue
<1>6. CASE Prepare
  <2>1. CASE UNCHANGED row
    BY <1>6, <2>1 DEF ReportTrue, Prepare, setting, handing
  <2>2. CASE Ended("complete", [kind |-> "not-sent", names |-> {}])
    BY <2>2, NoReportTrue DEF Ended
  <2> QED
    BY <1>6, <2>1, <2>2, FinishFields DEF Prepare
<1>7. CASE Send
  <2>1. CASE Fail
    BY <1>7, <2>1, FailTrue
  <2>2. CASE UNCHANGED row
    <3>1. row'.error = NoReport
      BY <1>7, <2>2 DEF Send, Phases
    <3> QED
      BY <3>1, NoReportTrue
  <2> QED
    BY <1>7, <2>1, <2>2 DEF Send
<1>8. CASE RemoveRemoteDraft
  BY <1>8 DEF ReportTrue, RemoveRemoteDraft, setting, handing
<1>9. CASE Scan
  BY <1>9 DEF ReportTrue, Scan, setting, handing
<1>10. CASE AppendSent
  <2>1. row' = row \/ row'.error = NoReport
    BY <1>10, FinishFields DEF AppendSent, Ended
  <2>2. CASE row' = row
    BY <1>10, <2>2 DEF ReportTrue, AppendSent, setting, handing
  <2> QED
    BY <2>1, <2>2, NoReportTrue
<1>11. CASE Fetch
  <2>1. row' = row \/ row'.error = NoReport
    BY <1>11, FinishFields DEF Fetch, Ended
  <2>2. CASE row' = row
    BY <1>11, <2>2 DEF ReportTrue, Fetch, setting, handing
  <2> QED
    BY <2>1, <2>2, NoReportTrue
<1>12. CASE InsertSent
  <2>1. row'.error = NoReport
    BY <1>12, FinishFields DEF InsertSent, Ended
  <2> QED
    BY <2>1, NoReportTrue
<1>13. CASE FileLate
  BY <1>13 DEF ReportTrue, FileLate, setting
<1>14. CASE KillSend
  <2>1. row' = row \/ row'.error = NoReport
    BY <1>14 DEF KillSend, NoRow
  <2>2. CASE row' = row
    BY <1>14, <2>2 DEF ReportTrue, KillSend, handing
  <2> QED
    BY <2>1, <2>2, NoReportTrue
<1>15. CASE UNCHANGED sendVars
  BY <1>15 DEF ReportTrue, sendVars
<1> QED
  BY <1>1, <1>2, <1>3, <1>4, <1>5, <1>6, <1>7, <1>8, <1>9, <1>10, <1>11, <1>12,
     <1>13, <1>14, <1>15 DEF SendNext, WorkerStep

-----------------------------------------------------------------------------
(* What the sent folder has.                                               *)

Copies == sentBox.filed + sentBox.own

Filing ==
    /\ synced => /\ at = "idle" /\ row.status \in {"complete", "cancelled"}
                 /\ "local" \notin draftAt
    /\ ~mishap =>
         /\ (row.status \in {"local", "remote"} /\ at # "insert") => "local" \in draftAt
         /\ (~multisend /\ "local" \in draftAt /\ at \in {"idle", "start", "prepare", "send"})
              => Copies = 0
         /\ (~multisend /\ at \in {"removeRemote", "scan"}) => Copies \in {0, 1}
         /\ at = "append" => Copies = 0
         /\ at \in {"fetch", "insert"} => Copies = 1
         /\ synced => Copies = 1

LEMMA FilingInit == SendInit => Filing
<1> SUFFICES ASSUME SendInit PROVE Filing
  OBVIOUS
<1>1. Copies = 0 /\ row.status = "none" /\ at = "idle" /\ ~synced
  BY DEF SendInit, Copies, NoRow
<1> QED
  BY <1>1 DEF Filing

LEMMA FilingStep ==
    ASSUME SendTypeOK, Phases, Success, Filing, [SendNext]_sendVars
    PROVE  Filing'
<1>1. CASE QueueSend
  <2>1. row'.status = "local" /\ at' = at /\ at = "idle"
    BY <1>1 DEF QueueSend, NoRow, Phases
  <2> QED
    BY <1>1, <2>1 DEF Filing, Copies, QueueSend
<1>2. CASE LocalSend
  <2>1. row'.status = "remote"
    BY <1>2 DEF LocalSend, SendTypeOK, TaskRow
  <2> QED
    BY <1>2, <2>1 DEF Filing, Copies, LocalSend, setting, handing
<1>3. CASE CancelSend
  <2>1. row'.status = row.status
    BY <1>3 DEF CancelSend, SendTypeOK, TaskRow
  <2> QED
    BY <1>3, <2>1 DEF Filing, Copies, CancelSend, handing
<1>4. CASE Load
  BY <1>4 DEF Filing, Copies, SendTypeOK, Load, setting, handing
<1>5. CASE Start
  <2>1. Starts
    BY <1>5, StartFields
  <2> QED
    BY <1>5, <2>1 DEF Filing, Copies, Phases, Start, Starts, Ended, setting, handing
<1>6. CASE Prepare
  <2>1. (at' = "send" /\ UNCHANGED row) \/ (at' = "idle" /\ row'.status = "complete")
    BY <1>6, FinishFields DEF Prepare, Ended
  <2> QED
    BY <1>6, <2>1 DEF Filing, Copies, Phases, Prepare, setting, handing
<1>7. CASE Send
  <2>1. ~synced /\ draftAt' = draftAt /\ synced' = synced /\ multisend' = multisend
    BY <1>7 DEF Filing, Send, setting
  <2>2. CASE Fail /\ UNCHANGED sentBox
    <3>1. at' = "idle" /\ row'.status = "complete"
      BY <2>2, FailFields DEF Failed, Ended
    <3> QED
      BY <1>7, <2>1, <2>2, <3>1 DEF Filing, Copies, Send, setting
  <2>3. CASE Fail /\ mishap'
    <3>1. at' = "idle" /\ row'.status = "complete"
      BY <2>3, FailFields DEF Failed, Ended
    <3> QED
      BY <2>1, <2>3, <3>1 DEF Filing
  <2>4. CASE Accept /\ UNCHANGED <<row, mishap>> /\ ((More /\ at' = at) \/ (~More /\ at' = "removeRemote"))
    <3>1. sentBox \in [filed: Nat, own: Nat]
      BY DEF SendTypeOK
    <3>2. sentBox' = [sentBox EXCEPT !.filed = @ + 1] \/ sentBox' = sentBox
      BY <2>4 DEF Accept
    <3>3. Copies' \in {Copies, Copies + 1}
      BY <3>1, <3>2 DEF Copies
    <3>4. at = "send" /\ row.status = "remote" /\ (More => multisend)
      BY <1>7 DEF Send, Phases, More
    <3>5. ~mishap => "local" \in draftAt /\ (~multisend => Copies = 0)
      BY <3>4 DEF Filing
    <3> QED
      BY <2>1, <2>4, <3>3, <3>4, <3>5 DEF Filing
  <2> QED
    BY <1>7, <2>2, <2>3, <2>4 DEF Send
<1>8. CASE RemoveRemoteDraft
  BY <1>8 DEF Filing, Copies, SendTypeOK, RemoveRemoteDraft, setting, handing
<1>9. CASE Scan
  <2>1. sentBox \in [filed: Nat, own: Nat]
    BY DEF SendTypeOK
  <2>2. at' \in {"append", "fetch"} /\ ~synced /\ row.status = "remote"
    BY <1>9 DEF Scan, Filing, Phases
  <2>3. ~mishap' => "local" \in draftAt /\ ~mishap
    BY <1>9, <2>2 DEF Scan, Filing
  <2>4. ~mishap' => (at' = "append" => Copies' = 0) /\ (at' = "fetch" => Copies' = 1)
    BY <1>9, <2>1, <2>3 DEF Scan, CleanFiled, Copies, Filing
  <2> QED
    BY <1>9, <2>2, <2>3, <2>4 DEF Filing, Scan, setting, handing
<1>10. CASE AppendSent
  <2>1. sentBox \in [filed: Nat, own: Nat] /\ mishap \in BOOLEAN
    BY DEF SendTypeOK
  <2>2. PICK placed \in BOOLEAN, known \in BOOLEAN :
         /\ sentBox' = IF placed THEN [sentBox EXCEPT !.own = @ + 1] ELSE sentBox
         /\ mishap' = (mishap \/ ~placed)
         /\ IF known THEN at' = "fetch" /\ UNCHANGED <<row, draftAt>>
            ELSE Finish("complete", NoReport) /\ RemoveDraft
    BY <1>10 DEF AppendSent
  <2>3. ~mishap' => ~mishap /\ Copies' = Copies + 1
    <3>1. ~mishap' => ~mishap /\ placed
      BY <2>2, Zenon
    <3>2. placed => Copies' = Copies + 1
      BY <2>1, <2>2 DEF Copies
    <3> QED
      BY <3>1, <3>2
  <2>4. \/ at' = "fetch" /\ UNCHANGED <<row, draftAt>>
        \/ at' = "idle" /\ row'.status = "complete" /\ "local" \notin draftAt'
    BY <2>2, FinishFields DEF Ended, RemoveDraft
  <2>5. ~synced /\ synced' = synced /\ at = "append"
    BY <1>10 DEF AppendSent, Filing
  <2> QED
    BY <1>10, <2>3, <2>4, <2>5 DEF Filing, AppendSent, setting, handing
<1>11. CASE Fetch
  <2>1. (at' = "insert" /\ UNCHANGED row) \/ (at' = "idle" /\ row'.status = "complete")
    BY <1>11, FinishFields DEF Fetch, Ended
  <2> QED
    BY <1>11, <2>1 DEF Filing, Copies, Phases, Fetch, RemoveDraft, setting, handing
<1>12. CASE InsertSent
  <2>1. at' = "idle" /\ row'.status = "complete"
    BY <1>12, FinishFields DEF InsertSent, Ended
  <2> QED
    BY <1>12, <2>1 DEF Filing, Success, Copies, InsertSent, setting, handing
<1>13. CASE FileLate
  BY <1>13 DEF Filing, FileLate, setting
<1>14. CASE KillSend
  <2>1. row' = row \/ row'.status = "none"
    BY <1>14 DEF KillSend, NoRow
  <2>2. ~mishap' => ~mishap /\ at = "idle"
    BY <1>14 DEF KillSend, SendTypeOK
  <2>3. at' = "idle" /\ UNCHANGED <<draftAt, sentBox, synced, multisend>>
    BY <1>14 DEF KillSend, handing
  <2>4. synced => row' = row
    BY <1>14 DEF KillSend, Filing
  <2> QED
    BY <2>1, <2>2, <2>3, <2>4 DEF Filing, Copies
<1>15. CASE UNCHANGED sendVars
  BY <1>15 DEF Filing, Copies, SendTypeOK, sendVars
<1> QED
  BY <1>1, <1>2, <1>3, <1>4, <1>5, <1>6, <1>7, <1>8, <1>9, <1>10, <1>11, <1>12,
     <1>13, <1>14, <1>15 DEF SendNext, WorkerStep

-----------------------------------------------------------------------------
SendInv ==
    /\ SendTypeOK /\ Phases /\ HandOver /\ Cancelling /\ DraftKept /\ Success
    /\ ReportTrue /\ Filing

LEMMA SendInvariant == SendSpec => []SendInv
<1>1. SendInit => SendInv
  BY SendTypeInit, PhasesInit, HandOverInit, CancellingInit, DraftKeptInit, SuccessInit,
     ReportInit, FilingInit DEF SendInv
<1>2. SendInv /\ [SendNext]_sendVars => SendInv'
  BY SendTypeStep, PhasesStep, HandOverStep, CancellingStep, DraftKeptStep, SuccessStep,
     ReportStep, FilingStep DEF SendInv
<1> QED
  BY <1>1, <1>2, PTL DEF SendSpec

\* The variables keep their types.
THEOREM SendTypeCorrect == SendSpec => []SendTypeOK
<1>1. SendInv => SendTypeOK
  BY DEF SendInv
<1> QED
  BY <1>1, SendInvariant, PTL

\* However often the process is killed, nobody gets the mail more often than
\* the user has asked for it: performRemoteSendDraft marks the task before it
\* hands the mail over.
THEOREM SentOncePerTaskHolds == SendSpec => []SentOncePerTask
<1>1. SendInv => SentOncePerTask
  BY DEF SendInv, HandOver, SentOncePerTask
<1> QED
  BY <1>1, SendInvariant, PTL

\* The local draft is removed only when every recipient has the mail.
THEOREM DraftKeptHolds == SendSpec => []DraftKept
<1>1. SendInv => DraftKept
  BY DEF SendInv
<1> QED
  BY <1>1, SendInvariant, PTL

\* The error that performRemoteSendDraft throws names recipients that have the
\* mail, and leaves out at most the one whose request was not answered.
THEOREM ReportTrueHolds == SendSpec => []ReportTrue
<1>1. SendInv => ReportTrue
  BY DEF SendInv
<1> QED
  BY <1>1, SendInvariant, PTL

\* Without a crash, a task that ends without an error has reached everybody.
THEOREM SuccessTrueHolds == SendSpec => []SuccessTrue
<1>1. SendInv => SuccessTrue
  BY DEF SendInv, Success
<1> QED
  BY <1>1, SendInvariant, PTL

\* A task that was cancelled while it waited hands the mail to nobody.
THEOREM CancelledUnsentHolds == SendSpec => []CancelledUnsent
<1>1. SendInv => CancelledUnsent
  BY DEF SendInv, Cancelling, CancelledUnsent
<1> QED
  BY <1>1, SendInvariant, PTL

\* Whether the gateway files the mail or the task appends it, the sent folder
\* ends with one copy, unless it was filed late or a request failed.
THEOREM OneSentCopyHolds == SendSpec => []OneSentCopy
<1>1. SendInv => OneSentCopy
  BY DEF SendInv, Filing, Copies, OneSentCopy
<1> QED
  BY <1>1, SendInvariant, PTL

\* However long the worker sleeps, whichever wake-ups are lost and wherever the
\* threads stop, the task takes the steps of SendDraft.
THEOREM QueueBehaves == QueueSpec => SendSpec
<1>1. QueueInit => SendInit
  BY DEF QueueInit
<1>2. QueueNext => [SendNext]_sendVars
  <2>1. CASE CommitSend \/ RunSend \/ Ask \/ RelaunchSender
    BY <2>1, Zenon DEF CommitSend, RunSend, Ask, RelaunchSender, SendNext
  <2>2. CASE LookForSend \/ ParkSender \/ Announce \/ WakeUp \/ LockOut
    BY <2>2, Zenon DEF LookForSend, ParkSender, Announce, WakeUp, LockOut
  <2> QED
    BY <2>1, <2>2, Zenon DEF QueueNext, Unlocked, Sender
<1>3. [QueueNext]_queueVars => [SendNext]_sendVars
  BY <1>2, Zenon DEF queueVars
<1> QED
  BY <1>1, <1>3, PTL DEF QueueSpec, SendSpec

\* A send that waits for the worker, or is killed while it waits, reaches nobody
\* twice either.
THEOREM QueueSendsOnce == QueueSpec => []SentOncePerTask
BY QueueBehaves, SentOncePerTaskHolds, PTL

-----------------------------------------------------------------------------
(***************************************************************************)
(* ServerMove, for any messages and any number of deliveries, failed       *)
(* requests and crashes.                                                   *)
(***************************************************************************)

\* What is assumed of the constants, the marker "" apart
LEMMA MoveConstants == IsFiniteSet(Letter) /\ Plain \subseteq Letter /\ MaxTrouble \in Nat
BY ServerMoveAssumption, Zenon

LEMMA NoLetter == "" \notin Letter
BY ServerMoveAssumption, Zenon

-----------------------------------------------------------------------------
(* Marking copies: the flags may change, what they are stays.              *)

LEMMA CopyFields ==
    ASSUME NEW c \in Copy, NEW b \in BOOLEAN
    PROVE  /\ [c EXCEPT !.deleted = b] \in Copy
           /\ [c EXCEPT !.deleted = b].uid = c.uid /\ [c EXCEPT !.deleted = b].of = c.of
           /\ [c EXCEPT !.deleted = b].deleted = b
           /\ c.uid \in Nat \ {0} /\ c.of \in Letter \cup {""} /\ c.deleted \in BOOLEAN
BY DEF Copy

\* d is what becomes of c when the copies in `some` are marked with b.
Marks(c, d, some, b) ==
    /\ d.uid = c.uid /\ d.of = c.of
    /\ c \in some => d.deleted = b
    /\ c \notin some => d.deleted = c.deleted

LEMMA Marking ==
    ASSUME NEW old \in SUBSET Copy, NEW some, NEW b \in BOOLEAN
    PROVE  /\ Marked(old, some, b) \in SUBSET Copy
           /\ \A d \in Marked(old, some, b) : \E c \in old : Marks(c, d, some, b)
           /\ \A c \in old : \E d \in Marked(old, some, b) : Marks(c, d, some, b)
           /\ IsFiniteSet(old) => IsFiniteSet(Marked(old, some, b))
<1> DEFINE mark(c) == IF c \in some THEN [c EXCEPT !.deleted = b] ELSE c
           marking == [c \in old |-> mark(c)]
<1>1. ASSUME NEW c \in old PROVE mark(c) \in Copy /\ Marks(c, mark(c), some, b)
  <2>0. c \in Copy
    OBVIOUS
  <2>1. CASE c \in some
    <3>1. mark(c) = [c EXCEPT !.deleted = b]
      BY <2>1
    <3> HIDE DEF mark
    <3>2. /\ [c EXCEPT !.deleted = b] \in Copy /\ [c EXCEPT !.deleted = b].uid = c.uid
          /\ [c EXCEPT !.deleted = b].of = c.of /\ [c EXCEPT !.deleted = b].deleted = b
      BY <2>0, CopyFields
    <3>3. mark(c) \in Copy /\ mark(c).uid = c.uid /\ mark(c).of = c.of /\ mark(c).deleted = b
      BY <3>1, <3>2, Zenon
    <3> QED
      BY <2>1, <3>3 DEF Marks
  <2>2. CASE c \notin some
    <3>1. mark(c) = c
      BY <2>2
    <3> HIDE DEF mark
    <3> QED
      BY <2>0, <2>2, <3>1 DEF Marks
  <2> QED
    BY <2>1, <2>2
<1>2. Marked(old, some, b) = {mark(c) : c \in old}
  BY DEF Marked
<1> HIDE DEF mark
<1>3. marking \in Surjection(old, Marked(old, some, b))
  BY <1>2 DEF Surjection
<1> HIDE DEF marking
<1>4. IsFiniteSet(old) => IsFiniteSet(Marked(old, some, b))
  BY <1>3, FS_Surjection
<1>5. \A d \in Marked(old, some, b) : \E c \in old : Marks(c, d, some, b)
  BY <1>1, <1>2
<1>6. \A c \in old : \E d \in Marked(old, some, b) : Marks(c, d, some, b)
  BY <1>1, <1>2
<1> QED
  BY <1>1, <1>2, <1>4, <1>5, <1>6

LEMMA BoxType ==
    ASSUME MoveTypeOK
    PROVE  /\ box.source \in SUBSET Copy /\ box.target \in SUBSET Copy
           /\ box = [source |-> box.source, target |-> box.target]
BY DEF MoveTypeOK

LEMMA NewBox ==
    ASSUME NEW source \in SUBSET Copy, NEW target \in SUBSET Copy
    PROVE  [source |-> source, target |-> target] \in [{"source", "target"} -> SUBSET Copy]
OBVIOUS

-----------------------------------------------------------------------------
(* The inductive invariant. It needs that the copies of the source are     *)
(* finitely many (or the next UIDNEXT is no number), that a UID stands for  *)
(* one message, that rows, models and the server's map point at theirs,    *)
(* and why it is safe to expunge: what was flagged has its copy.           *)

\* The place (folder, uid) is not that of another message than m, now or later.
Points(folder, uid, m) ==
    /\ folder = "target" => uid < uidNext
    /\ \A c \in box[folder] : c.uid = uid => c.of = m

SourceOK ==
    /\ IsFiniteSet(box.source)
    /\ \A c \in box.source : c.of \in Letter

TargetOK ==
    /\ \A c \in box.target : c.uid < uidNext
    /\ \A c, d \in box.target : c.uid = d.uid => c.of = d.of

RowsOK == \A m \in Letter : Points(rowOf[m].folder, rowOf[m].uid, m)

ModelsOK == \A m \in Letter : Points(model[m].folder, model[m].uid, m)

MapOK ==
    uidMap.told => \A m \in Letter : uidMap.uid[m] # 0 => Points("target", uidMap.uid[m], m)

Alive == \A m \in Letter \ gone : \E c \in CopiesOf(m) : ~c.deleted

Unmarked == step \in {"inflate", "copy", "flag"} => \A c \in box.source : ~c.deleted

Copied ==
    step = "flag" =>
        \A c \in Flagged(box.source) : \E d \in box.target : d.of = c.of /\ ~d.deleted

Doom == torn \/ (Alive /\ Unmarked /\ Copied)

MoveInv == MoveTypeOK /\ SourceOK /\ TargetOK /\ RowsOK /\ ModelsOK /\ MapOK /\ Doom

-----------------------------------------------------------------------------
(* What each step does to the two folders                                  *)

\* No copy gets the UID of another message, and UIDNEXT only grows.
Lasting ==
    /\ \A d \in box'.source : \E c \in box.source : d.uid = c.uid /\ d.of = c.of
    /\ \A d \in box'.target :
         (\E c \in box.target : d.uid = c.uid /\ d.of = c.of) \/ d.uid >= uidNext
    /\ uidNext' >= uidNext

\* A copy that is not flagged stays.
Keeping(folder) ==
    \A c \in box[folder] : ~c.deleted =>
        \E d \in box'[folder] : d.uid = c.uid /\ d.of = c.of /\ ~d.deleted

BoxKept ==
    /\ box' \in [{"source", "target"} -> SUBSET Copy]
    /\ uidNext' \in Nat \ {0}
    /\ IsFiniteSet(box'.source)
    /\ Lasting
    /\ TargetOK'

LEMMA SameBox ==
    ASSUME MoveTypeOK, SourceOK, TargetOK, box' = box, uidNext' = uidNext
    PROVE  BoxKept /\ Keeping("source") /\ Keeping("target")
<1>1. \A c \in box.source \cup box.target : c.uid \in Nat
  BY BoxType, CopyFields
<1>2. uidNext \in Nat
  BY DEF MoveTypeOK
<1> QED
  BY <1>1, <1>2 DEF MoveTypeOK, SourceOK, TargetOK, BoxKept, Lasting, Keeping

\* The target only loses copies, or is marked.
LEMMA TargetFewer ==
    ASSUME MoveTypeOK, TargetOK, uidNext' = uidNext,
           \A d \in box'.target : \E c \in box.target : d.uid = c.uid /\ d.of = c.of
    PROVE  TargetOK'
BY DEF TargetOK

LEMMA StoreBox ==
    ASSUME MoveTypeOK, SourceOK, TargetOK, StoreDeleted
    PROVE  /\ BoxKept /\ Keeping("target")
           /\ \A c \in box.source : ~c.deleted =>
                \E d \in box'.source :
                   /\ d.uid = c.uid /\ d.of = c.of
                   /\ ~d.deleted \/ c \in Flagged(box.source)
<1> DEFINE source == Marked(box.source, Flagged(box.source), TRUE)
<1>0. uidNext' = uidNext
  BY DEF StoreDeleted
<1>1. CASE box' = box
  BY <1>0, <1>1, SameBox DEF Keeping
<1>2. CASE box' = [box EXCEPT !.source = source]
  <2>0. box.source \in SUBSET Copy /\ TRUE \in BOOLEAN
    BY BoxType
  <2>1. /\ source \in SUBSET Copy
        /\ \A d \in source : \E c \in box.source : Marks(c, d, Flagged(box.source), TRUE)
        /\ \A c \in box.source : \E d \in source : Marks(c, d, Flagged(box.source), TRUE)
        /\ IsFiniteSet(box.source) => IsFiniteSet(source)
    BY <2>0, Marking, Zenon
  <2> HIDE DEF source
  <2>2. box' = [source |-> source, target |-> box.target]
    BY <1>2, BoxType
  <2>3. box'.source = source /\ box'.target = box.target
    BY <2>2
  <2>4. box' \in [{"source", "target"} -> SUBSET Copy]
    BY <2>1, <2>2, BoxType, NewBox
  <2>5. TargetOK'
    BY <1>0, <2>3, TargetFewer
  <2>6. Lasting
    BY <1>0, <2>1, <2>3 DEF Lasting, Marks, MoveTypeOK
  <2>7. IsFiniteSet(box'.source)
    BY <2>1, <2>3 DEF SourceOK
  <2>8. BoxKept
    BY <1>0, <2>4, <2>5, <2>6, <2>7 DEF BoxKept, MoveTypeOK
  <2>9. Keeping("target")
    BY <2>3 DEF Keeping
  <2>10. ASSUME NEW c \in box.source, ~c.deleted
         PROVE  \E d \in box'.source :
                   /\ d.uid = c.uid /\ d.of = c.of
                   /\ ~d.deleted \/ c \in Flagged(box.source)
    BY <2>1, <2>3, <2>10 DEF Marks
  <2> QED
    BY <2>8, <2>9, <2>10
<1>3. box' = box \/ box' = [box EXCEPT !.source = source]
  BY DEF StoreDeleted
<1> QED
  BY <1>1, <1>2, <1>3

LEMMA AttributesBox ==
    ASSUME MoveTypeOK, SourceOK, TargetOK, ApplyAttributes
    PROVE  BoxKept /\ Keeping("source") /\ Keeping("target")
<1>a. PICK some \in SUBSET WithFlags :
        box' = IF IsMove THEN box ELSE [box EXCEPT !.target = Marked(@, some, FALSE)]
  BY DEF ApplyAttributes
<1> DEFINE target == Marked(box.target, some, FALSE)
<1>0. uidNext' = uidNext
  BY DEF ApplyAttributes
<1>1. CASE box' = box
  BY <1>0, <1>1, SameBox
<1>2. CASE box' = [box EXCEPT !.target = target]
  <2>0. box.target \in SUBSET Copy /\ FALSE \in BOOLEAN
    BY BoxType
  <2>1. /\ target \in SUBSET Copy
        /\ \A d \in target : \E c \in box.target : Marks(c, d, some, FALSE)
        /\ \A c \in box.target : \E d \in target : Marks(c, d, some, FALSE)
    BY <2>0, Marking, Zenon
  <2> HIDE DEF target
  <2>2. box' = [source |-> box.source, target |-> target]
    BY <1>2, BoxType
  <2>3. box'.source = box.source /\ box'.target = target
    BY <2>2
  <2>4. box' \in [{"source", "target"} -> SUBSET Copy]
    BY <2>1, <2>2, BoxType, NewBox
  <2>5. TargetOK'
    BY <1>0, <2>1, <2>3, TargetFewer DEF Marks
  <2>6. Lasting
    BY <1>0, <2>1, <2>3 DEF Lasting, Marks, MoveTypeOK
  <2>7. IsFiniteSet(box'.source)
    BY <2>3 DEF SourceOK
  <2>8. BoxKept
    BY <1>0, <2>4, <2>5, <2>6, <2>7 DEF BoxKept, MoveTypeOK
  <2>9. Keeping("source")
    BY <2>3 DEF Keeping
  <2>10. Keeping("target")
    BY <2>1, <2>3 DEF Keeping, Marks
  <2> QED
    BY <2>8, <2>9, <2>10
<1>3. box' = box \/ box' = [box EXCEPT !.target = target]
  BY <1>a
<1> QED
  BY <1>1, <1>2, <1>3

LEMMA ExpungeBoxes ==
    ASSUME MoveTypeOK, SourceOK, TargetOK, Expunge \/ ExpungeTarget
    PROVE  /\ BoxKept /\ Keeping("source") /\ Keeping("target")
           /\ ExpungeTarget => box'.source = box.source
<1>0. uidNext' = uidNext
  BY DEF Expunge, ExpungeTarget
<1>1. \/ box' = [source |-> Kept(box.source), target |-> box.target]
      \/ box' = [source |-> box.source, target |-> Kept(box.target)]
  BY BoxType DEF Expunge, ExpungeTarget
<1>2. /\ Kept(box.source) \in SUBSET box.source /\ Kept(box.target) \in SUBSET box.target
      /\ \A c \in box.source : ~c.deleted => c \in Kept(box.source)
      /\ \A c \in box.target : ~c.deleted => c \in Kept(box.target)
  BY DEF Kept
<1>3. /\ box'.source \in SUBSET box.source /\ box'.target \in SUBSET box.target
      /\ \A c \in box.source : ~c.deleted => c \in box'.source
      /\ \A c \in box.target : ~c.deleted => c \in box'.target
  BY <1>1, <1>2
<1>4. box' \in [{"source", "target"} -> SUBSET Copy]
  BY <1>1, <1>2, BoxType, NewBox
<1>5. TargetOK'
  BY <1>0, <1>3, TargetFewer
<1>6. IsFiniteSet(box'.source)
  BY <1>3, FS_Subset DEF SourceOK
<1>7. Lasting
  BY <1>0, <1>3 DEF Lasting, MoveTypeOK
<1>8. BoxKept
  BY <1>0, <1>4, <1>5, <1>6, <1>7 DEF BoxKept, MoveTypeOK
<1>9. Keeping("source") /\ Keeping("target")
  BY <1>3 DEF Keeping
<1>10. ExpungeTarget => box'.source = box.source
  BY BoxType DEF ExpungeTarget
<1> QED
  BY <1>8, <1>9, <1>10

LEMMA DeleteBox ==
    ASSUME MoveTypeOK, SourceOK, TargetOK, DeleteSource
    PROVE  /\ BoxKept /\ box'.target = box.target
           /\ \E c \in box.source : box'.source = box.source \ {c} /\ gone' = gone \cup {c.of}
<1>0. uidNext' = uidNext
  BY DEF DeleteSource
<1>1. PICK c \in box.source :
        /\ box' = [box EXCEPT !.source = @ \ {c}]
        /\ gone' = gone \cup {c.of}
  BY DEF DeleteSource
<1> DEFINE source == box.source \ {c}
<1>2. box' = [source |-> source, target |-> box.target]
  BY <1>1, BoxType
<1>3. source \in SUBSET box.source
  OBVIOUS
<1> HIDE DEF source
<1>4. box'.source = source /\ box'.target = box.target
  BY <1>2
<1>5. box' \in [{"source", "target"} -> SUBSET Copy]
  BY <1>2, <1>3, BoxType, NewBox
<1>6. TargetOK'
  BY <1>0, <1>4, TargetFewer
<1>7. IsFiniteSet(box'.source)
  BY <1>3, <1>4, FS_Subset DEF SourceOK
<1>8. Lasting
  BY <1>0, <1>3, <1>4 DEF Lasting, MoveTypeOK
<1>9. BoxKept
  BY <1>0, <1>5, <1>6, <1>7, <1>8 DEF BoxKept, MoveTypeOK
<1> QED
  BY <1>1, <1>4, <1>9 DEF source

LEMMA DeliverBox ==
    ASSUME MoveTypeOK, SourceOK, TargetOK, DeliverTarget
    PROVE  BoxKept /\ box'.source = box.source /\ Keeping("target")
<1> DEFINE new == [uid |-> uidNext, of |-> "", deleted |-> FALSE]
           target == box.target \cup {new}
<1>0. uidNext' = uidNext + 1 /\ uidNext \in Nat \ {0}
  BY DEF DeliverTarget, MoveTypeOK
<1>1. box' = [source |-> box.source, target |-> target]
  BY BoxType DEF DeliverTarget
<1>2. new \in Copy /\ new.uid = uidNext
  BY <1>0 DEF Copy
<1>3. target \in SUBSET Copy
  BY <1>2, BoxType
<1>4. \A d \in target : d \in box.target \/ d = new
  OBVIOUS
<1>5. \A d \in box.target : d \in target
  OBVIOUS
<1> HIDE DEF new, target
<1>6. box'.source = box.source /\ box'.target = target
  BY <1>1
<1>7. box' \in [{"source", "target"} -> SUBSET Copy]
  BY <1>1, <1>3, BoxType, NewBox
<1>8. \A d \in target : d.uid \in Nat
  BY <1>3, CopyFields
<1>9. TargetOK'
  BY <1>0, <1>2, <1>4, <1>6, <1>8 DEF TargetOK
<1>10. Lasting
  BY <1>0, <1>2, <1>4, <1>6, <1>8 DEF Lasting
<1>11. BoxKept
  BY <1>0, <1>6, <1>7, <1>9, <1>10 DEF BoxKept, SourceOK
<1>12. Keeping("target")
  BY <1>5, <1>6 DEF Keeping
<1> QED
  BY <1>6, <1>11, <1>12
\* What the server made of the copies f numbers
NewCopies(f) == {[uid |-> f[c], of |-> c.of, deleted |-> c.deleted] : c \in Selected}

LEMMA NewCopyFields ==
    ASSUME MoveTypeOK, NEW f, \A c \in Selected : f[c] \in Nat \ {0}
    PROVE  /\ NewCopies(f) \in SUBSET Copy
           /\ \A d \in NewCopies(f) : \E c \in Selected :
                d.uid = f[c] /\ d.of = c.of /\ d.deleted = c.deleted
           /\ \A c \in Selected : \E d \in NewCopies(f) :
                d.uid = f[c] /\ d.of = c.of /\ d.deleted = c.deleted
<1>1. \A c \in Selected : c \in box.source
  BY DEF Selected
<1>2. \A c \in Selected : c.of \in Letter \cup {""} /\ c.deleted \in BOOLEAN
  BY <1>1, BoxType, CopyFields
<1> DEFINE copy(c) == [uid |-> f[c], of |-> c.of, deleted |-> c.deleted]
<1>3. \A c \in Selected :
        copy(c) \in Copy /\ copy(c).uid = f[c] /\ copy(c).of = c.of /\ copy(c).deleted = c.deleted
  BY <1>2 DEF Copy
<1>4. NewCopies(f) = {copy(c) : c \in Selected}
  BY DEF NewCopies
<1> HIDE DEF copy
<1> QED
  BY <1>3, <1>4

LEMMA CopyBox ==
    ASSUME MoveTypeOK, SourceOK, TargetOK, CopyMessages
    PROVE  /\ BoxKept /\ Keeping("target")
           /\ box'.source = IF IsMove THEN box.source \ Selected ELSE box.source
           /\ \A c \in Selected : \E d \in box'.target : d.of = c.of /\ d.deleted = c.deleted
           /\ uidMap' \in [told: BOOLEAN, uid: [Letter -> Nat]]
           /\ MapOK'
<1>1. PICK f \in Numberings :
         /\ box' = [source |-> IF IsMove THEN box.source \ Selected ELSE box.source,
                    target |-> box.target \cup NewCopies(f)]
         /\ uidNext' = uidNext + Cardinality(Selected)
         /\ uidMap' = IF "UIDPLUS" \in can /\ Selected # {}
                      THEN [told |-> TRUE,
                            uid |-> [m \in Letter |->
                              IF \E c \in Selected : c.of = m
                              THEN f[CHOOSE c \in Selected : c.of = m] ELSE 0]]
                      ELSE NoMap
  BY DEF CopyMessages, NewCopies
<1>2. Selected \in SUBSET box.source
  BY DEF Selected
<1>3. Cardinality(Selected) \in Nat /\ IsFiniteSet(Selected)
  BY <1>2, FS_Subset, FS_CardinalityType DEF SourceOK
<1>4. /\ uidNext \in Nat \ {0} /\ uidNext' \in Nat \ {0}
      /\ uidNext' = uidNext + Cardinality(Selected) /\ uidNext' >= uidNext
  BY <1>1, <1>3 DEF MoveTypeOK
<1>5. /\ \A c \in Selected : f[c] \in Nat \ {0} /\ f[c] >= uidNext /\ f[c] < uidNext'
      /\ \A c, d \in Selected : f[c] = f[d] => c = d
  <2>1. /\ f \in [Selected -> uidNext .. uidNext + Cardinality(Selected) - 1]
        /\ \A c, d \in Selected : f[c] = f[d] => c = d
    BY <1>1 DEF Numberings
  <2>2. \A c \in Selected : f[c] \in uidNext .. uidNext + Cardinality(Selected) - 1
    BY <2>1
  <2> QED
    BY <1>3, <1>4, <2>1, <2>2
<1>6. /\ NewCopies(f) \in SUBSET Copy
      /\ \A d \in NewCopies(f) : \E c \in Selected :
           d.uid = f[c] /\ d.of = c.of /\ d.deleted = c.deleted
      /\ \A c \in Selected : \E d \in NewCopies(f) :
           d.uid = f[c] /\ d.of = c.of /\ d.deleted = c.deleted
  BY <1>5, NewCopyFields
<1> DEFINE source == IF IsMove THEN box.source \ Selected ELSE box.source
           target == box.target \cup NewCopies(f)
<1>7. source \in SUBSET box.source
  OBVIOUS
<1>8. target \in SUBSET Copy
  BY <1>6, BoxType
<1>9. box'.source = source /\ box'.target = target
  BY <1>1
<1>10. \A d \in target : d \in box.target \/ d \in NewCopies(f)
  OBVIOUS
<1>11. box.target \in SUBSET target /\ NewCopies(f) \in SUBSET target
  OBVIOUS
<1>12. box' = [source |-> source, target |-> target]
  BY <1>1
<1> HIDE DEF source, target
<1>13. box' \in [{"source", "target"} -> SUBSET Copy]
  BY <1>7, <1>8, <1>12, BoxType, NewBox
<1>14. \A d \in target : d.uid \in Nat
  BY <1>8, CopyFields
<1>15. \A d \in NewCopies(f) : d.uid >= uidNext /\ d.uid < uidNext'
  BY <1>5, <1>6
<1>16. ASSUME NEW c \in target, NEW d \in target, c.uid = d.uid PROVE c.of = d.of
  <2>1. CASE c \in box.target /\ d \in box.target
    BY <1>16, <2>1 DEF TargetOK
  <2>2. CASE c \in NewCopies(f) /\ d \in NewCopies(f)
    BY <1>5, <1>6, <1>16, <2>2
  <2>3. CASE c \in box.target /\ d \in NewCopies(f)
    BY <1>4, <1>14, <1>15, <1>16, <2>3 DEF TargetOK
  <2>4. CASE c \in NewCopies(f) /\ d \in box.target
    BY <1>4, <1>14, <1>15, <1>16, <2>4 DEF TargetOK
  <2> QED
    BY <1>10, <2>1, <2>2, <2>3, <2>4
<1>17. \A c \in target : c.uid < uidNext'
  BY <1>4, <1>10, <1>14, <1>15 DEF TargetOK
<1>18. TargetOK'
  BY <1>9, <1>16, <1>17 DEF TargetOK
<1>19. Lasting
  BY <1>4, <1>7, <1>9, <1>10, <1>15 DEF Lasting
<1>20. IsFiniteSet(box'.source)
  BY <1>7, <1>9, FS_Subset DEF SourceOK
<1>21. BoxKept
  BY <1>4, <1>13, <1>18, <1>19, <1>20 DEF BoxKept
<1>22. Keeping("target")
  BY <1>9, <1>11 DEF Keeping
<1>23. \A c \in Selected : \E d \in box'.target : d.of = c.of /\ d.deleted = c.deleted
  BY <1>6, <1>9, <1>11
<1>24. uidMap' \in [told: BOOLEAN, uid: [Letter -> Nat]] /\ MapOK'
  <2>1. CASE uidMap' = NoMap
    <3>1. uidMap'.told = FALSE
      BY <2>1 DEF NoMap
    <3>2. uidMap' \in [told: BOOLEAN, uid: [Letter -> Nat]]
      BY <2>1 DEF NoMap
    <3> QED
      BY <3>1, <3>2 DEF MapOK
  <2>2. CASE uidMap' # NoMap
    <3> DEFINE first(m) == CHOOSE c \in Selected : c.of = m
               uid(m) == IF \E c \in Selected : c.of = m THEN f[first(m)] ELSE 0
    <3>1. uidMap' = [told |-> TRUE, uid |-> [m \in Letter |-> uid(m)]]
      BY <1>1, <2>2
    <3>2. ASSUME NEW m \in Letter, \E c \in Selected : c.of = m
          PROVE  first(m) \in Selected /\ first(m).of = m
      BY <3>2
    <3> HIDE DEF first
    <3>3. ASSUME NEW m \in Letter PROVE uid(m) \in Nat
      BY <1>5, <3>2
    <3>4. ASSUME NEW m \in Letter, uid(m) # 0
          PROVE  /\ uid(m) < uidNext'
                 /\ \A d \in target : d.uid = uid(m) => d.of = m
      <4>1. first(m) \in Selected /\ first(m).of = m /\ uid(m) = f[first(m)]
        BY <3>2, <3>4
      <4> HIDE DEF uid
      <4>2. \E d \in target : d.of = m /\ d.uid = uid(m)
        BY <1>6, <1>11, <4>1
      <4> QED
        BY <1>5, <1>16, <4>1, <4>2
    <3> HIDE DEF uid
    <3>5. \A m \in Letter : uidMap'.uid[m] = uid(m)
      BY <3>1
    <3>6. uidMap' \in [told: BOOLEAN, uid: [Letter -> Nat]]
      BY <3>1, <3>3
    <3>7. MapOK'
      BY <1>9, <3>4, <3>5 DEF MapOK, Points
    <3> QED
      BY <3>6, <3>7
  <2> QED
    BY <2>1, <2>2
<1> QED
  BY <1>9, <1>21, <1>22, <1>23, <1>24 DEF source
-----------------------------------------------------------------------------
(* What a step that only changes the folders leaves true                   *)

PointsThen(folder, uid, m) ==
    /\ folder = "target" => uid < uidNext'
    /\ \A c \in box'[folder] : c.uid = uid => c.of = m

LEMMA PointsLast ==
    ASSUME MoveTypeOK, BoxKept
    PROVE  \A p \in RowPlace, m \in Letter :
             Points(p.folder, p.uid, m) => PointsThen(p.folder, p.uid, m)
<1> SUFFICES ASSUME NEW p \in RowPlace, NEW m \in Letter, Points(p.folder, p.uid, m)
             PROVE  PointsThen(p.folder, p.uid, m)
  OBVIOUS
<1>1. p.uid \in Nat /\ (p.folder = "source" \/ p.folder = "target")
  BY DEF RowPlace
<1>2. uidNext \in Nat /\ uidNext' \in Nat /\ uidNext' >= uidNext
  BY DEF MoveTypeOK, BoxKept, Lasting
<1>3. CASE p.folder = "source"
  BY <1>3 DEF Points, PointsThen, BoxKept, Lasting
<1>4. CASE p.folder = "target"
  <2>1. ASSUME NEW d \in box'.target, d.uid = p.uid PROVE d.of = m
    <3>1. ~(d.uid >= uidNext)
      BY <1>1, <1>2, <1>4, <2>1 DEF Points
    <3>2. PICK c \in box.target : d.uid = c.uid /\ d.of = c.of
      BY <3>1 DEF BoxKept, Lasting
    <3> QED
      BY <1>4, <2>1, <3>2 DEF Points
  <2>2. p.uid < uidNext'
    BY <1>1, <1>2, <1>4 DEF Points
  <2> QED
    BY <1>4, <2>1, <2>2 DEF PointsThen
<1> QED
  BY <1>1, <1>3, <1>4

\* The rows, or the models, point at the same places as before.
LEMMA RowsLast ==
    ASSUME MoveTypeOK, BoxKept, RowsOK, rowOf' = rowOf
    PROVE  RowsOK'
<1>1. \A m \in Letter : rowOf[m] \in RowPlace
  BY DEF MoveTypeOK
<1> QED
  BY <1>1, PointsLast DEF RowsOK, Points, PointsThen

LEMMA ModelsLast ==
    ASSUME MoveTypeOK, BoxKept, ModelsOK, model' = model
    PROVE  ModelsOK'
<1>1. \A m \in Letter : model[m] \in RowPlace
  BY DEF MoveTypeOK
<1> QED
  BY <1>1, PointsLast DEF ModelsOK, Points, PointsThen

LEMMA MapLast ==
    ASSUME MoveTypeOK, BoxKept, MapOK, uidMap' = uidMap
    PROVE  MapOK'
<1> SUFFICES ASSUME uidMap.told, NEW m \in Letter, uidMap.uid[m] # 0
             PROVE  PointsThen("target", uidMap.uid[m], m)
  BY DEF MapOK, Points, PointsThen
<1> DEFINE p == [folder |-> "target", uid |-> uidMap.uid[m]]
<1>1. p \in RowPlace
  BY DEF MoveTypeOK, RowPlace
<1>2. p.folder = "target" /\ p.uid = uidMap.uid[m]
  OBVIOUS
<1> HIDE DEF p
<1> QED
  BY <1>1, <1>2, PointsLast DEF MapOK

LEMMA SourceLast ==
    ASSUME BoxKept, SourceOK
    PROVE  SourceOK'
BY DEF BoxKept, SourceOK, Lasting

\* The parts of the invariant that are not about flags
Places == SourceOK /\ TargetOK /\ RowsOK /\ ModelsOK /\ MapOK

LEMMA PlacesLast ==
    ASSUME MoveTypeOK, Places, BoxKept, rowOf' = rowOf, model' = model, uidMap' = uidMap
    PROVE  Places'
BY RowsLast, ModelsLast, MapLast, SourceLast DEF Places, BoxKept

LEMMA AliveLast ==
    ASSUME Alive, Keeping("source"), Keeping("target"), gone' = gone
    PROVE  Alive'
<1> SUFFICES ASSUME NEW m \in Letter \ gone
             PROVE  \E d \in box'.source \cup box'.target : d.of = m /\ ~d.deleted
  BY DEF Alive, CopiesOf
<1>1. PICK c \in box.source \cup box.target : c.of = m /\ ~c.deleted
  BY DEF Alive, CopiesOf
<1> QED
  BY <1>1 DEF Keeping
-----------------------------------------------------------------------------
(* The invariant holds at first.                                           *)

LEMMA MoveInitInv == MoveInit => MoveInv
<1> SUFFICES ASSUME MoveInit PROVE MoveInv
  OBVIOUS
<1> USE MoveConstants
<1>1. Size \in Nat
  BY FS_CardinalityType DEF Size
<1>2. PICK uids \in [Letter -> 1 .. Size] :
        /\ \A m, n \in Letter : uids[m] = uids[n] => m = n
        /\ box = [source |-> {[uid |-> uids[m], of |-> m, deleted |-> FALSE] : m \in Letter},
                  target |-> {}]
        /\ rowOf = [m \in Letter |-> [folder |-> "source", uid |-> uids[m]]]
  BY DEF MoveInit
<1> DEFINE copy(m) == [uid |-> uids[m], of |-> m, deleted |-> FALSE]
           source == {copy(m) : m \in Letter}
           copying == [m \in Letter |-> copy(m)]
           place(m) == [folder |-> "source", uid |-> uids[m]]
<1>3. \A m \in Letter : uids[m] \in Nat \ {0}
  BY <1>1, <1>2
<1>4. \A m \in Letter :
        /\ copy(m) \in Copy /\ copy(m).uid = uids[m] /\ copy(m).of = m
        /\ copy(m).deleted = FALSE
  BY <1>3 DEF Copy
<1>5. \A m \in Letter :
        place(m) \in RowPlace /\ place(m).folder = "source" /\ place(m).uid = uids[m]
  BY <1>3 DEF RowPlace
<1>6. box = [source |-> source, target |-> {}] /\ rowOf = [m \in Letter |-> place(m)]
  BY <1>2
<1> HIDE DEF copy, place
<1>7. copying \in Surjection(Letter, source)
  BY DEF Surjection
<1>8. IsFiniteSet(source)
  BY <1>7, FS_Surjection
<1>9. source \in SUBSET Copy
  BY <1>4
<1>10. \A c \in source : \E m \in Letter : c = copy(m)
  OBVIOUS
<1>11. \A m \in Letter : copy(m) \in source
  OBVIOUS
<1> HIDE DEF source, copying
<1>12. box.source = source /\ box.target = {} /\ \A m \in Letter : rowOf[m] = place(m)
  BY <1>6
<1>13. SourceOK /\ TargetOK
  BY <1>4, <1>8, <1>10, <1>12 DEF SourceOK, TargetOK
<1>14. RowsOK
  BY <1>2, <1>4, <1>5, <1>10, <1>12 DEF RowsOK, Points
<1>15. model = rowOf /\ uidMap = NoMap /\ gone = {} /\ step = "inflate"
  BY DEF MoveInit
<1>16. ModelsOK
  BY <1>14, <1>15 DEF RowsOK, ModelsOK
<1>17. uidMap.told = FALSE
  BY <1>15 DEF NoMap
<1>18. Alive
  BY <1>4, <1>11, <1>12 DEF Alive, CopiesOf
<1>19. Unmarked /\ Copied
  BY <1>4, <1>10, <1>12, <1>15 DEF Unmarked, Copied
<1>20. MoveTypeOK
  <2>1. box \in [{"source", "target"} -> SUBSET Copy]
    BY <1>6, <1>9, NewBox
  <2>2. rowOf \in [Letter -> RowPlace] /\ model \in [Letter -> RowPlace]
    BY <1>5, <1>6, <1>15
  <2>3. uidMap \in [told: BOOLEAN, uid: [Letter -> Nat]]
    BY <1>15 DEF NoMap
  <2>4. uidNext \in Nat \ {0} /\ trouble \in 0 .. MaxTrouble /\ arrived \in Nat
    BY DEF MoveInit
  <2>5. can \in SUBSET {"MOVE", "UIDPLUS"} /\ gone \subseteq Letter /\ step = "inflate"
    BY DEF MoveInit
  <2>6. clipped \in BOOLEAN /\ torn \in BOOLEAN /\ uneven \in BOOLEAN
    BY Zenon DEF MoveInit
  <2> QED
    BY <2>1, <2>2, <2>3, <2>4, <2>5, <2>6 DEF MoveTypeOK
<1> QED
  BY <1>13, <1>14, <1>16, <1>17, <1>18, <1>19, <1>20 DEF MoveInv, MapOK, Doom

-----------------------------------------------------------------------------
(* One lemma per action, or per group of actions of one kind.              *)

\* The steps that only other clients take
LEMMA OthersInv ==
    ASSUME MoveInv, DeliverTarget \/ DeleteSource \/ ExpungeTarget
    PROVE  MoveInv'
<1>0. MoveTypeOK /\ SourceOK /\ TargetOK /\ Places
  BY DEF MoveInv, Places
<1>1. UNCHANGED <<can, rowOf, model, step, uidMap, clipped, torn, uneven>>
  BY DEF DeliverTarget, DeleteSource, ExpungeTarget
<1>2. BoxKept
  BY <1>0, DeliverBox, DeleteBox, ExpungeBoxes
<1>3. Places'
  BY <1>0, <1>1, <1>2, PlacesLast
<1>4. arrived' \in Nat /\ gone' \subseteq Letter /\ trouble' \in 0 .. MaxTrouble
  <2>0. arrived \in Nat /\ gone \subseteq Letter /\ trouble \in 0 .. MaxTrouble
    BY <1>0 DEF MoveTypeOK
  <2>1. arrived' = arrived \/ arrived' = arrived + 1
    BY Zenon DEF DeliverTarget, DeleteSource, ExpungeTarget
  <2>2. trouble' = trouble \/ (trouble < MaxTrouble /\ trouble' = trouble + 1)
    BY Zenon DEF DeliverTarget, DeleteSource, ExpungeTarget, Trouble
  <2>3. gone' = gone \/ \E c \in box.source : gone' = gone \cup {c.of}
    BY DEF DeliverTarget, DeleteSource, ExpungeTarget
  <2>4. gone' \subseteq Letter
    BY <1>0, <2>0, <2>3 DEF SourceOK
  <2> QED
    BY <2>0, <2>1, <2>2, <2>4, MoveConstants
<1>5. MoveTypeOK'
  BY <1>0, <1>1, <1>2, <1>4 DEF MoveTypeOK, BoxKept
<1>6. Keeping("target")
  <2>1. DeleteSource => Keeping("target")
    BY <1>0, DeleteBox DEF Keeping
  <2> QED
    BY <1>0, <2>1, DeliverBox, ExpungeBoxes
<1>7. box'.source \in SUBSET box.source
  BY <1>0, DeliverBox, DeleteBox, ExpungeBoxes
<1>8. ASSUME Alive PROVE Alive'
  <2>1. CASE DeliverTarget \/ ExpungeTarget
    <3>1. box'.source = box.source /\ gone' = gone
      BY <1>0, <2>1, DeliverBox, ExpungeBoxes DEF DeliverTarget, ExpungeTarget
    <3> QED
      BY <1>6, <1>8, <3>1, AliveLast DEF Keeping
  <2>2. CASE DeleteSource
    <3>1. PICK d \in box.source :
            /\ box'.source = box.source \ {d} /\ gone' = gone \cup {d.of}
            /\ box'.target = box.target
      BY <1>0, <2>2, DeleteBox
    <3> QED
      BY <1>8, <3>1 DEF Alive, CopiesOf
  <2> QED
    BY <2>1, <2>2
<1>9. Unmarked => Unmarked'
  BY <1>1, <1>7 DEF Unmarked
<1>10. Copied => Copied'
  <2>1. Flagged(box.source)' \subseteq Flagged(box.source)
    BY <1>1, <1>7 DEF Flagged
  <2> QED
    BY <1>1, <1>6, <2>1 DEF Copied, Keeping
<1>11. Doom'
  BY <1>1, <1>8, <1>9, <1>10 DEF MoveInv, Doom
<1> QED
  BY <1>3, <1>5, <1>11 DEF MoveInv, Places
\* The steps before the messages are where they belong
LEMMA InflateInv ==
    ASSUME MoveInv, Inflate
    PROVE  MoveInv'
<1>0. MoveTypeOK /\ SourceOK /\ TargetOK /\ Places /\ RowsOK
  BY DEF MoveInv, Places
<1>1. /\ UNCHANGED <<box, uidNext, can, rowOf, arrived, gone, torn, uneven, trouble>>
      /\ model' = rowOf /\ uidMap' = NoMap /\ clipped' = FALSE
      /\ step = "inflate" /\ step' = "copy"
  BY DEF Inflate
<1>2. BoxKept /\ Keeping("source") /\ Keeping("target")
  BY <1>0, <1>1, SameBox
<1>3. NoMap.told = FALSE /\ NoMap \in [told: BOOLEAN, uid: [Letter -> Nat]]
  BY DEF NoMap
<1>4. MoveTypeOK'
  BY <1>0, <1>1, <1>3 DEF MoveTypeOK
<1>5. RowsOK' /\ SourceOK' /\ TargetOK'
  BY <1>0, <1>1, <1>2, RowsLast, SourceLast DEF BoxKept
<1>6. ModelsOK'
  BY <1>1, <1>5 DEF RowsOK, ModelsOK, Points
<1>7. MapOK'
  BY <1>1, <1>3 DEF MapOK
<1>8. Doom'
  BY <1>1 DEF MoveInv, Doom, Alive, CopiesOf, Unmarked, Copied
<1> QED
  BY <1>4, <1>5, <1>6, <1>7, <1>8 DEF MoveInv

LEMMA CopyInv ==
    ASSUME MoveInv, CopyMessages
    PROVE  MoveInv'
<1>0. MoveTypeOK /\ SourceOK /\ TargetOK /\ Places /\ RowsOK /\ ModelsOK
  BY DEF MoveInv, Places
<1>1. /\ UNCHANGED <<can, rowOf, model, clipped, gone, torn, uneven, trouble>>
      /\ arrived' = 0 /\ step = "copy" /\ step' = IF IsMove THEN "locate" ELSE "flag"
  BY DEF CopyMessages
<1>2. /\ BoxKept /\ Keeping("target")
      /\ box'.source = IF IsMove THEN box.source \ Selected ELSE box.source
      /\ \A c \in Selected : \E d \in box'.target : d.of = c.of /\ d.deleted = c.deleted
      /\ uidMap' \in [told: BOOLEAN, uid: [Letter -> Nat]]
      /\ MapOK'
  BY <1>0, CopyBox
<1>3. MoveTypeOK'
  <2>1. step' \in {"locate", "flag"}
    BY <1>1
  <2> QED
    BY <1>0, <1>1, <1>2, <2>1 DEF MoveTypeOK, BoxKept
<1>4. RowsOK' /\ ModelsOK' /\ SourceOK' /\ TargetOK'
  BY <1>0, <1>1, <1>2, RowsLast, ModelsLast, SourceLast DEF BoxKept
<1>5. ASSUME Alive PROVE Alive'
  <2> SUFFICES ASSUME NEW m \in Letter \ gone
               PROVE  \E d \in box'.source \cup box'.target : d.of = m /\ ~d.deleted
    BY <1>1 DEF Alive, CopiesOf
  <2>1. PICK c \in box.source \cup box.target : c.of = m /\ ~c.deleted
    BY <1>5 DEF Alive, CopiesOf
  <2>2. CASE c \in box.target
    BY <1>2, <2>1, <2>2 DEF Keeping
  <2>3. CASE c \in box.source /\ c \notin Selected
    BY <1>2, <2>1, <2>3
  <2>4. CASE c \in Selected
    BY <1>2, <2>1, <2>4
  <2> QED
    BY <2>1, <2>2, <2>3, <2>4
<1>6. box'.source \in SUBSET box.source
  BY <1>2
<1>7. Unmarked => Unmarked'
  BY <1>1, <1>6 DEF Unmarked
<1>8. ASSUME Unmarked PROVE Copied'
  <2> SUFFICES ASSUME step' = "flag", NEW c \in Flagged(box.source)'
               PROVE  \E d \in box'.target : d.of = c.of /\ ~d.deleted
    BY DEF Copied
  <2>1. c \in box.source /\ c \in Selected
    BY <1>1, <1>6 DEF Flagged, Selected
  <2>2. ~c.deleted
    BY <1>1, <1>8, <2>1 DEF Unmarked
  <2> QED
    BY <1>2, <2>1, <2>2
<1>9. Doom'
  BY <1>1, <1>5, <1>7, <1>8 DEF MoveInv, Doom
<1> QED
  BY <1>2, <1>3, <1>4, <1>9 DEF MoveInv

LEMMA StoreInv ==
    ASSUME MoveInv, StoreDeleted
    PROVE  MoveInv'
<1>0. MoveTypeOK /\ SourceOK /\ TargetOK /\ Places
  BY DEF MoveInv, Places
<1>1. /\ UNCHANGED <<uidNext, can, rowOf, model, uidMap, arrived, clipped, gone, torn>>
      /\ step = "flag" /\ step' = "expunge"
  BY DEF StoreDeleted
<1>2. /\ BoxKept /\ Keeping("target")
      /\ \A c \in box.source : ~c.deleted =>
           \E d \in box'.source :
              /\ d.uid = c.uid /\ d.of = c.of
              /\ ~d.deleted \/ c \in Flagged(box.source)
  BY <1>0, StoreBox
<1>3. uneven' \in BOOLEAN
  BY <1>0 DEF StoreDeleted, MoveTypeOK
<1>4. trouble' \in 0 .. MaxTrouble
  <2>1. trouble' = trouble \/ (trouble < MaxTrouble /\ trouble' = trouble + 1)
    BY Zenon DEF StoreDeleted, Trouble
  <2> QED
    BY <1>0, <2>1, MoveConstants DEF MoveTypeOK
<1>5. MoveTypeOK'
  BY <1>0, <1>1, <1>2, <1>3, <1>4 DEF MoveTypeOK, BoxKept
<1>6. Places'
  BY <1>0, <1>1, <1>2, PlacesLast
<1>7. ASSUME Alive, Copied PROVE Alive'
  <2> SUFFICES ASSUME NEW m \in Letter \ gone
               PROVE  \E d \in box'.source \cup box'.target : d.of = m /\ ~d.deleted
    BY <1>1 DEF Alive, CopiesOf
  <2>1. PICK c \in box.source \cup box.target : c.of = m /\ ~c.deleted
    BY <1>7 DEF Alive, CopiesOf
  <2>2. CASE c \in box.target
    BY <1>2, <2>1, <2>2 DEF Keeping
  <2>3. CASE c \in Flagged(box.source)
    <3>1. PICK d \in box.target : d.of = c.of /\ ~d.deleted
      BY <1>1, <1>7, <2>3 DEF Copied
    <3> QED
      BY <1>2, <2>1, <3>1 DEF Keeping
  <2>4. CASE c \in box.source /\ c \notin Flagged(box.source)
    BY <1>2, <2>1, <2>4
  <2> QED
    BY <2>1, <2>2, <2>3, <2>4
<1>8. Unmarked' /\ Copied'
  BY <1>1 DEF Unmarked, Copied
<1>9. Doom'
  BY <1>1, <1>7, <1>8 DEF MoveInv, Doom
<1> QED
  BY <1>5, <1>6, <1>9 DEF MoveInv, Places

\* The steps that end a request
LEMMA RequestInv ==
    ASSUME MoveInv, Expunge \/ FailMove \/ KillMove \/ ApplyAttributes
    PROVE  MoveInv'
<1>0. MoveTypeOK /\ SourceOK /\ TargetOK /\ Places
  BY DEF MoveInv, Places
<1>1. UNCHANGED <<can, rowOf, model, uidMap, arrived, clipped, gone>>
  BY DEF Expunge, FailMove, KillMove, ApplyAttributes
<1>2. BoxKept /\ Keeping("source") /\ Keeping("target")
  <2>1. FailMove \/ KillMove => box' = box /\ uidNext' = uidNext
    BY DEF FailMove, KillMove
  <2> QED
    BY <1>0, <2>1, SameBox, ExpungeBoxes, AttributesBox
<1>3. /\ step' \in {"locate", "failed", "inflate", "save"}
      /\ step' = "inflate" => KillMove
  BY DEF Expunge, FailMove, KillMove, ApplyAttributes
<1>4. uneven' \in BOOLEAN /\ torn' \in BOOLEAN
  <2>1. torn \in BOOLEAN /\ uneven \in BOOLEAN
    BY <1>0 DEF MoveTypeOK
  <2> QED
    BY <2>1, Zenon DEF Expunge, FailMove, KillMove, ApplyAttributes
<1>5. trouble' \in 0 .. MaxTrouble
  <2>1. trouble' = trouble \/ (trouble < MaxTrouble /\ trouble' = trouble + 1)
    BY Zenon DEF Expunge, FailMove, KillMove, ApplyAttributes, Trouble
  <2> QED
    BY <1>0, <2>1, MoveConstants DEF MoveTypeOK
<1>6. MoveTypeOK'
  BY <1>0, <1>1, <1>2, <1>3, <1>4, <1>5 DEF MoveTypeOK, BoxKept
<1>7. Places'
  BY <1>0, <1>1, <1>2, PlacesLast
<1>8. torn => torn'
  BY Zenon DEF Expunge, FailMove, KillMove, ApplyAttributes
<1>9. Alive => Alive'
  BY <1>1, <1>2, AliveLast
<1>10. torn' \/ Unmarked'
  <2>1. CASE KillMove
    BY <2>1 DEF KillMove, Unmarked
  <2>2. CASE ~KillMove
    BY <1>3, <2>2 DEF Unmarked
  <2> QED
    BY <2>1, <2>2
<1>11. Copied'
  BY <1>3 DEF Copied
<1>12. Doom'
  BY <1>8, <1>9, <1>10, <1>11 DEF MoveInv, Doom
<1> QED
  BY <1>6, <1>7, <1>12 DEF MoveInv, Places

\* The steps that look for the copies, and the last one
LEMMA LocateInv ==
    ASSUME MoveInv, TakeUIDs \/ FindUIDs \/ SaveRows
    PROVE  MoveInv'
<1>0. MoveTypeOK /\ SourceOK /\ TargetOK /\ Places /\ RowsOK /\ ModelsOK /\ MapOK
  BY DEF MoveInv, Places
<1>1. UNCHANGED <<box, uidNext, can, uidMap, arrived, gone, torn>>
  BY DEF TakeUIDs, FindUIDs, SaveRows
<1>2. BoxKept /\ Keeping("source") /\ Keeping("target")
  BY <1>0, <1>1, SameBox
<1>3. step' \in {"attributes", "failed", "done"}
  BY DEF TakeUIDs, FindUIDs, SaveRows
<1>4. clipped' \in BOOLEAN /\ uneven' \in BOOLEAN
  <2>1. clipped \in BOOLEAN /\ uneven \in BOOLEAN
    BY <1>0 DEF MoveTypeOK
  <2> QED
    BY <2>1, Zenon DEF TakeUIDs, FindUIDs, SaveRows
<1>4a. trouble' \in 0 .. MaxTrouble
  <2>1. trouble' = trouble \/ (trouble < MaxTrouble /\ trouble' = trouble + 1)
    BY Zenon DEF TakeUIDs, FindUIDs, SaveRows, Trouble
  <2> QED
    BY <1>0, <2>1, MoveConstants DEF MoveTypeOK
<1>5. model' \in [Letter -> RowPlace] /\ ModelsOK'
  <2>1. CASE model' = model
    BY <1>0, <1>2, <2>1, ModelsLast DEF MoveTypeOK
  <2>2. ASSUME TakeUIDs, model' # model
        PROVE  model' \in [Letter -> RowPlace] /\ ModelsOK'
    <3>1. /\ uidMap.told /\ \A m \in Letter : uidMap.uid[m] # 0
          /\ model' = [m \in Letter |-> [folder |-> "target", uid |-> uidMap.uid[m]]]
      BY <2>2 DEF TakeUIDs
    <3>2. \A m \in Letter : uidMap.uid[m] \in Nat \ {0}
      BY <1>0, <3>1 DEF MoveTypeOK
    <3>3. \A m \in Letter : Points("target", uidMap.uid[m], m)
      BY <1>0, <3>1 DEF MapOK
    <3>4. \A m \in Letter : model'[m].folder = "target" /\ model'[m].uid = uidMap.uid[m]
      BY <3>1
    <3>5. model' \in [Letter -> RowPlace]
      BY <3>1, <3>2 DEF RowPlace
    <3>6. ModelsOK'
      BY <1>1, <3>3, <3>4 DEF ModelsOK, Points
    <3> QED
      BY <3>5, <3>6
  <2>3. CASE FindUIDs
    <3>0. PICK found \in {Newest, Last} : LocateAmong(found)
      BY <2>3, Zenon DEF FindUIDs
    <3>1. PICK uid \in [Letter -> {c.uid : c \in found} \cup {0}] :
            /\ \A m \in Letter :
                 IF Match(found, m) = {} THEN uid[m] = 0 ELSE uid[m] \in Match(found, m)
            /\ model' = [m \in Letter |-> Placed(m, uid[m])]
      BY <3>0 DEF LocateAmong
    <3>2. ASSUME NEW m \in Letter
          PROVE  Placed(m, uid[m]) \in RowPlace /\ Points(Placed(m, uid[m]).folder, Placed(m, uid[m]).uid, m)
      <4>1. CASE uid[m] = 0
        <5>1. Placed(m, uid[m]) = model[m]
          BY <4>1 DEF Placed
        <5> QED
          BY <1>0, <5>1 DEF MoveTypeOK, ModelsOK
      <4>2. CASE uid[m] # 0
        <5>1. uid[m] \in Match(found, m)
          BY <3>1, <4>2
        <5>2. PICK c \in box.target : c.of = m /\ c.uid = uid[m]
          BY <5>1 DEF Match, Newest, Last
        <5>3. uid[m] \in Nat \ {0}
          BY <1>0, <5>2, BoxType, CopyFields
        <5>4. Points("target", uid[m], m)
          BY <1>0, <5>2 DEF Points, TargetOK
        <5>5. Placed(m, uid[m]) = [folder |-> "target", uid |-> uid[m]]
          BY <4>2 DEF Placed
        <5> QED
          BY <5>3, <5>4, <5>5 DEF RowPlace
      <4> QED
        BY <4>1, <4>2
    <3>3. \A m \in Letter : model'[m] = Placed(m, uid[m])
      BY <3>1
    <3>4. model' \in [Letter -> RowPlace]
      BY <3>1, <3>2
    <3>5. ModelsOK'
      BY <1>1, <3>2, <3>3 DEF ModelsOK, Points
    <3> QED
      BY <3>4, <3>5
  <2>4. SaveRows => model' = model
    BY DEF SaveRows
  <2> QED
    BY <2>1, <2>2, <2>3, <2>4
<1>6. rowOf' \in [Letter -> RowPlace] /\ RowsOK'
  <2>1. CASE rowOf' = rowOf
    BY <1>0, <1>2, <2>1, RowsLast DEF MoveTypeOK
  <2>2. CASE rowOf' = model
    BY <1>0, <1>1, <2>2 DEF MoveTypeOK, RowsOK, ModelsOK, Points
  <2> QED
    BY <2>1, <2>2 DEF TakeUIDs, FindUIDs, SaveRows
<1>7. MoveTypeOK'
  BY <1>0, <1>1, <1>3, <1>4, <1>4a, <1>5, <1>6 DEF MoveTypeOK
<1>8. SourceOK' /\ TargetOK' /\ MapOK'
  BY <1>0, <1>1, <1>2, SourceLast, MapLast DEF BoxKept
<1>9. Doom'
  BY <1>1, <1>2, <1>3, AliveLast DEF MoveInv, Doom, Unmarked, Copied
<1> QED
  BY <1>5, <1>6, <1>7, <1>8, <1>9 DEF MoveInv

LEMMA MoveStepInv == MoveInv /\ [MoveNext]_moveVars => MoveInv'
<1> SUFFICES ASSUME MoveInv, [MoveNext]_moveVars PROVE MoveInv'
  OBVIOUS
<1>1. CASE MoveNext
  BY <1>1, OthersInv, InflateInv, CopyInv, StoreInv, RequestInv, LocateInv DEF MoveNext
<1>2. CASE UNCHANGED moveVars
  BY <1>2 DEF moveVars, MoveInv, MoveTypeOK, SourceOK, TargetOK, RowsOK, ModelsOK, MapOK,
              Points, Doom, Alive, CopiesOf, Unmarked, Copied, Flagged
<1> QED
  BY <1>1, <1>2

-----------------------------------------------------------------------------
\* Every variable keeps its type, whatever the other clients do.
THEOREM MoveTypeCorrect == MoveSpec => []MoveTypeOK
<1>1. MoveInv => MoveTypeOK
  BY DEF MoveInv
<1> QED
  BY <1>1, MoveInitInv, MoveStepInv, PTL DEF MoveSpec

\* Copying, flagging and expunging never dooms a message, for any number of
\* messages and troubles, unless the worker was killed with messages flagged.
THEOREM NeverDoomedHolds == MoveSpec => []NeverDoomed
<1>1. MoveInv => NeverDoomed
  BY DEF MoveInv, Doom, Alive, NeverDoomed
<1> QED
  BY <1>1, MoveInitInv, MoveStepInv, PTL DEF MoveSpec

\* Whether the UIDs were told or looked for, a row never points at a copy of
\* another message.
THEOREM RowTrueHolds == MoveSpec => []RowTrue
<1>1. MoveInv => RowTrue
  BY DEF MoveInv, RowsOK, Points, RowTrue
<1> QED
  BY <1>1, MoveInitInv, MoveStepInv, PTL DEF MoveSpec

-----------------------------------------------------------------------------
(* The inductive invariant of MovedAndFound, for a task that no failure and *)
(* no crash interrupted. A message has one copy in each folder; until it is *)
(* copied the row points at it; the copies get UIDs that are not older than *)
(* the last n plus what arrived, which is why the search sees them.         *)

Single(copies) == \A c, d \in copies : c.of = d.of /\ c.of \in Letter => c = d

Before == {"inflate", "copy"}
Behind == {"locate", "attributes", "save", "done"}

\* What is not copied yet, or copied and not flagged
Unmoved ==
    step \in Before \cup {"flag"} =>
        \A c \in box.source :
            /\ ~c.deleted
            /\ rowOf[c.of] = [folder |-> "source", uid |-> c.uid]
            /\ step # "inflate" => model[c.of] = rowOf[c.of]

ToCopy ==
    step \in Before =>
        /\ \A d \in box.target : d.of \notin Letter
        /\ \A m \in Letter \ gone : \E c \in box.source : c.of = m

Emptied ==
    /\ step = "expunge" => \A c \in box.source : c.deleted
    /\ step \in Behind => box.source = {}

Delivered ==
    /\ \A d \in box.target : ~d.deleted
    /\ step \in Behind \cup {"flag", "expunge"} =>
         \A m \in Letter \ gone : \E d \in box.target : d.of = m

Recent == \A d \in box.target : d.of \in Letter => d.uid + arrived + Size >= uidNext

Told == uidMap.told => \A d \in box.target : d.of \in Letter => uidMap.uid[d.of] = d.uid

FoundAt(place) ==
    \A m \in Letter \ gone : \E d \in box.target :
        d.of = m /\ place[m] = [folder |-> "target", uid |-> d.uid]

Found ==
    /\ step \in {"attributes", "save"} /\ ~clipped => FoundAt(model)
    /\ step = "done" /\ ~clipped => FoundAt(rowOf)

Tidy ==
    /\ Single(box.source) /\ Single(box.target)
    /\ Unmoved /\ ToCopy /\ Emptied /\ Delivered /\ Recent /\ Told /\ Found

EvenInv == MoveInv /\ (uneven \/ Tidy)

\* A task that is even now was even before.
LEMMA UnevenStays ==
    ASSUME MoveTypeOK, MoveNext, uneven
    PROVE  uneven'
BY DEF MoveNext, Inflate, CopyMessages, StoreDeleted, Expunge, FailMove, TakeUIDs, FindUIDs,
       ApplyAttributes, SaveRows, KillMove, DeliverTarget, DeleteSource, ExpungeTarget

LEMMA SizeIsNat == Size \in Nat
BY MoveConstants, FS_CardinalityType DEF Size

\* The tidiness of folders that do not change, once the step is past the copy
LEMMA TidyBehind ==
    ASSUME Tidy, step \in Behind, step' \in Behind \cup {"failed"}, box' = box,
           UNCHANGED <<uidNext, arrived, gone, uidMap>>, Found'
    PROVE  Tidy'
BY DEF Tidy, Single, Behind, Before, Unmoved, ToCopy, Emptied, Delivered, Recent, Told

LEMMA InitTidy == MoveInit => Tidy
<1> SUFFICES ASSUME MoveInit PROVE Tidy
  OBVIOUS
<1>1. PICK uids \in [Letter -> 1 .. Size] :
        /\ \A m, n \in Letter : uids[m] = uids[n] => m = n
        /\ box = [source |-> {[uid |-> uids[m], of |-> m, deleted |-> FALSE] : m \in Letter},
                  target |-> {}]
        /\ rowOf = [m \in Letter |-> [folder |-> "source", uid |-> uids[m]]]
  BY DEF MoveInit
<1> DEFINE copy(m) == [uid |-> uids[m], of |-> m, deleted |-> FALSE]
           source == {copy(m) : m \in Letter}
<1>2. \A m \in Letter :
        copy(m).uid = uids[m] /\ copy(m).of = m /\ copy(m).deleted = FALSE
  OBVIOUS
<1>3. box.source = source /\ box.target = {}
  BY <1>1
<1>4. \A m \in Letter : rowOf[m] = [folder |-> "source", uid |-> uids[m]]
  BY <1>1
<1> HIDE DEF copy
<1>5. \A c \in source : \E m \in Letter : c = copy(m)
  OBVIOUS
<1>6. \A m \in Letter : copy(m) \in source
  OBVIOUS
<1> HIDE DEF source
<1>7. step = "inflate" /\ uidMap = NoMap
  BY DEF MoveInit
<1>8. Single(box.source) /\ Single(box.target)
  BY <1>2, <1>3, <1>5 DEF Single
<1>9. Unmoved
  BY <1>2, <1>3, <1>4, <1>5, <1>7 DEF Unmoved
<1>10. ToCopy
  BY <1>2, <1>3, <1>6 DEF ToCopy
<1>11. Emptied /\ Delivered /\ Recent /\ Told /\ Found
  BY <1>3, <1>7 DEF Emptied, Delivered, Recent, Told, Found, Behind
<1> QED
  BY <1>8, <1>9, <1>10, <1>11 DEF Tidy

\* A delivery is no copy of a message of the task, and counts in `arrived`.
LEMMA DeliverTidy ==
    ASSUME MoveInv, Tidy, DeliverTarget
    PROVE  Tidy'
<1> DEFINE new == [uid |-> uidNext, of |-> "", deleted |-> FALSE]
<1>0. MoveTypeOK /\ SourceOK /\ TargetOK
  BY DEF MoveInv
<1>1. /\ box' = [box EXCEPT !.target = @ \cup {new}]
      /\ uidNext' = uidNext + 1 /\ arrived' = arrived + 1
      /\ UNCHANGED <<rowOf, model, step, uidMap, clipped, gone>>
  BY DEF DeliverTarget
<1>2. box'.source = box.source /\ box'.target = box.target \cup {new}
  BY <1>0, <1>1 DEF MoveTypeOK
<1>3. new.of \notin Letter /\ ~new.deleted
  BY NoLetter
<1>4. /\ \A d \in box'.target : d \in box.target \/ d = new
      /\ \A d \in box.target : d \in box'.target
  BY <1>2
<1> HIDE DEF new
<1>5. Single(box'.source) /\ Single(box'.target)
  BY <1>2, <1>3, <1>4 DEF Tidy, Single
<1>6. Unmoved' /\ ToCopy' /\ Emptied' /\ Delivered'
  BY <1>1, <1>2, <1>3, <1>4 DEF Tidy, Unmoved, ToCopy, Emptied, Delivered
<1>7. Recent'
  <2>1. ASSUME NEW d \in box'.target, d.of \in Letter
        PROVE  d.uid + arrived' + Size >= uidNext'
    <3>1. d \in box.target /\ d.uid \in Nat
      BY <1>0, <1>3, <1>4, <2>1, BoxType, CopyFields
    <3> QED
      BY <1>0, <1>1, <2>1, <3>1, SizeIsNat DEF Tidy, Recent, MoveTypeOK
  <2> QED
    BY <2>1 DEF Recent, Size
<1>8. Told' /\ Found'
  BY <1>1, <1>3, <1>4 DEF Tidy, Told, Found, FoundAt
<1> QED
  BY <1>5, <1>6, <1>7, <1>8 DEF Tidy, Single

\* What another client deletes from the source is no message of this task any more.
LEMMA DeleteTidy ==
    ASSUME MoveInv, Tidy, DeleteSource
    PROVE  Tidy'
<1>0. MoveTypeOK /\ SourceOK /\ TargetOK
  BY DEF MoveInv
<1>1. PICK c \in box.source : box'.source = box.source \ {c} /\ gone' = gone \cup {c.of}
  BY <1>0, DeleteBox
<1>2. /\ box'.target = box.target
      /\ UNCHANGED <<uidNext, rowOf, model, step, uidMap, arrived, clipped>>
  BY <1>0, DeleteBox DEF DeleteSource
<1>3. Single(box'.source) /\ Single(box'.target) /\ Unmoved' /\ Emptied'
  BY <1>1, <1>2 DEF Tidy, Single, Unmoved, Emptied
<1>4. ToCopy' /\ Delivered'
  BY <1>1, <1>2 DEF Tidy, ToCopy, Delivered
<1>5. Recent' /\ Told' /\ Found'
  BY <1>1, <1>2 DEF Tidy, Recent, Told, Found, FoundAt, Size
<1> QED
  BY <1>3, <1>4, <1>5 DEF Tidy, Single

\* No copy in the destination is flagged: there is nothing to expunge.
LEMMA ExpungeTidy ==
    ASSUME MoveInv, Tidy, ExpungeTarget
    PROVE  FALSE
BY DEF ExpungeTarget, Tidy, Delivered

LEMMA InflateTidy ==
    ASSUME MoveInv, Tidy, Inflate
    PROVE  Tidy'
<1>1. /\ UNCHANGED <<box, uidNext, rowOf, arrived, gone>>
      /\ model' = rowOf /\ uidMap' = NoMap
      /\ step = "inflate" /\ step' = "copy"
  BY DEF Inflate
<1>2. uidMap'.told = FALSE
  BY <1>1 DEF NoMap
<1>3. Unmoved'
  BY <1>1 DEF Tidy, Unmoved, Before
<1>4. ToCopy' /\ Emptied' /\ Delivered' /\ Found'
  BY <1>1 DEF Tidy, ToCopy, Emptied, Delivered, Found, Before, Behind
<1>5. Recent' /\ Told'
  BY <1>1, <1>2 DEF Tidy, Recent, Told, Size
<1> QED
  BY <1>1, <1>3, <1>4, <1>5 DEF Tidy, Single

\* Each message of the source that is there is selected, and has the UID of its row.
LEMMA SelectedAll ==
    ASSUME MoveInv, Tidy, step \in {"copy", "flag"}
    PROVE  Selected = box.source /\ Flagged(box.source) = box.source
<1>1. \A c \in box.source : c.of \in Letter
  BY DEF MoveInv, SourceOK
<1>2. \A c \in box.source : model[c.of] = [folder |-> "source", uid |-> c.uid]
  BY DEF Tidy, Unmoved, Before
<1>3. ASSUME NEW c \in box.source
      PROVE  model[c.of].folder = "source" /\ model[c.of].uid = c.uid
  <2> DEFINE place == [folder |-> "source", uid |-> c.uid]
  <2>1. model[c.of] = place /\ place.folder = "source" /\ place.uid = c.uid
    BY <1>2
  <2> HIDE DEF place
  <2> QED
    BY <2>1
<1> QED
  BY <1>1, <1>3 DEF Selected, Flagged

\* As many copies are made as the task has messages, at most.
LEMMA SelectedSize ==
    ASSUME MoveInv, Tidy
    PROVE  Cardinality(Selected) \in Nat /\ Cardinality(Selected) <= Size
<1> DEFINE message == [c \in Selected |-> c.of]
<1>1. Selected \in SUBSET box.source
  BY DEF Selected
<1>2. \A c \in Selected : c.of \in Letter
  BY <1>1 DEF MoveInv, SourceOK
<1>3. message \in Injection(Selected, Letter)
  BY <1>1, <1>2 DEF Tidy, Single, Injection, IsInjective
<1> HIDE DEF message
<1>4. IsFiniteSet(Selected)
  BY <1>1, FS_Subset DEF MoveInv, SourceOK
<1> QED
  BY <1>3, <1>4, MoveConstants, FS_Injection, FS_CardinalityType DEF Size

LEMMA CopyTidy ==
    ASSUME MoveInv, Tidy, CopyMessages
    PROVE  Tidy'
<1>0. MoveTypeOK /\ SourceOK /\ TargetOK
  BY DEF MoveInv
<1>1. /\ UNCHANGED <<rowOf, model, clipped, gone>> /\ arrived' = 0
      /\ step = "copy" /\ step' = IF IsMove THEN "locate" ELSE "flag"
  BY DEF CopyMessages
<1>2. PICK f \in Numberings :
         /\ box' = [source |-> IF IsMove THEN box.source \ Selected ELSE box.source,
                    target |-> box.target \cup NewCopies(f)]
         /\ uidNext' = uidNext + Cardinality(Selected)
         /\ uidMap' = IF "UIDPLUS" \in can /\ Selected # {}
                      THEN [told |-> TRUE,
                            uid |-> [m \in Letter |->
                              IF \E c \in Selected : c.of = m
                              THEN f[CHOOSE c \in Selected : c.of = m] ELSE 0]]
                      ELSE NoMap
  BY DEF CopyMessages, NewCopies
<1>3. Selected = box.source
  BY <1>1, SelectedAll
<1>4. Cardinality(Selected) \in Nat /\ Cardinality(Selected) <= Size
  BY SelectedSize
<1>5. uidNext \in Nat \ {0}
  BY <1>0 DEF MoveTypeOK
<1>6. \A c \in Selected : f[c] \in Nat \ {0} /\ f[c] >= uidNext
  <2>1. f \in [Selected -> uidNext .. uidNext + Cardinality(Selected) - 1]
    BY <1>2 DEF Numberings
  <2>2. \A c \in Selected : f[c] \in uidNext .. uidNext + Cardinality(Selected) - 1
    BY <2>1
  <2> QED
    BY <1>4, <1>5, <2>2
<1>7. /\ \A d \in NewCopies(f) : \E c \in Selected :
           d.uid = f[c] /\ d.of = c.of /\ d.deleted = c.deleted
      /\ \A c \in Selected : \E d \in NewCopies(f) :
           d.uid = f[c] /\ d.of = c.of /\ d.deleted = c.deleted
  BY <1>0, <1>6, NewCopyFields
<1> DEFINE copy(c) == [uid |-> f[c], of |-> c.of, deleted |-> c.deleted]
<1>8. NewCopies(f) = {copy(c) : c \in Selected}
  BY DEF NewCopies
<1>9. \A c \in Selected : copy(c).of = c.of /\ copy(c).uid = f[c] /\ copy(c).deleted = c.deleted
  OBVIOUS
<1> HIDE DEF copy
<1>10. /\ box'.source = IF IsMove THEN {} ELSE box.source
       /\ box'.target = box.target \cup NewCopies(f)
  BY <1>2, <1>3
<1>11. \A d \in box'.target : d.of \in Letter => \E c \in Selected : d = copy(c)
  BY <1>1, <1>8, <1>10 DEF Tidy, ToCopy, Before
<1>12. \A c \in Selected : ~c.deleted /\ c.of \in Letter
  BY <1>0, <1>1, <1>3 DEF Tidy, Unmoved, Before, SourceOK
<1>13. Single(box'.target)
  BY <1>3, <1>9, <1>11 DEF Tidy, Single
<1>14. Single(box'.source)
  BY <1>10 DEF Tidy, Single
<1>15. Unmoved'
  BY <1>1, <1>10 DEF Tidy, Unmoved, Before
<1>16. ToCopy' /\ Emptied' /\ Found'
  BY <1>1, <1>10 DEF ToCopy, Emptied, Found, Before, Behind
<1>17. Delivered'
  <2>1. \A d \in box'.target : ~d.deleted
    BY <1>7, <1>10, <1>12 DEF Tidy, Delivered
  <2>2. ASSUME NEW m \in Letter \ gone PROVE \E d \in box'.target : d.of = m
    <3>1. PICK c \in Selected : c.of = m
      BY <1>1, <1>3 DEF Tidy, ToCopy, Before
    <3> QED
      BY <1>7, <1>10, <3>1
  <2> QED
    BY <1>1, <2>1, <2>2 DEF Delivered
<1>18. Recent'
  <2>1. ASSUME NEW d \in box'.target, d.of \in Letter
        PROVE  d.uid + 0 + Size >= uidNext'
    <3>1. PICK c \in Selected : d.uid = f[c]
      BY <1>9, <1>11, <2>1
    <3> QED
      BY <1>2, <1>4, <1>5, <1>6, <3>1, SizeIsNat
  <2> QED
    BY <1>1, <2>1 DEF Recent, Size
<1>19. Told'
  <2>1. ASSUME uidMap'.told, NEW d \in box'.target, d.of \in Letter
        PROVE  uidMap'.uid[d.of] = d.uid
    <3>1. PICK c \in Selected : d = copy(c)
      BY <1>11, <2>1
    <3>2. d.of = c.of /\ d.uid = f[c]
      BY <1>9, <3>1
    <3>3. uidMap' # NoMap
      BY <2>1 DEF NoMap
    <3> DEFINE first(m) == CHOOSE e \in Selected : e.of = m
    <3>4. uidMap'.uid[d.of] = IF \E e \in Selected : e.of = d.of THEN f[first(d.of)] ELSE 0
      BY <1>2, <2>1, <3>3
    <3>5. first(d.of) \in Selected /\ first(d.of).of = d.of
      BY <3>2
    <3> HIDE DEF first
    <3>6. first(d.of) = c
      BY <1>3, <2>1, <3>2, <3>5 DEF Tidy, Single
    <3> QED
      BY <3>2, <3>4, <3>6
  <2> QED
    BY <2>1 DEF Told
<1> QED
  BY <1>13, <1>14, <1>15, <1>16, <1>17, <1>18, <1>19 DEF Tidy, Single

\* The messages of the source are all flagged, or the task is uneven.
LEMMA StoreTidy ==
    ASSUME MoveInv, Tidy, StoreDeleted, ~uneven'
    PROVE  Tidy'
<1> DEFINE source == Marked(box.source, Flagged(box.source), TRUE)
<1>0. MoveTypeOK
  BY DEF MoveInv
<1>1. /\ UNCHANGED <<uidNext, rowOf, model, uidMap, arrived, clipped, gone>>
      /\ box' = [box EXCEPT !.source = source]
      /\ step = "flag" /\ step' = "expunge"
  BY DEF StoreDeleted
<1>2. box'.source = source /\ box'.target = box.target
  BY <1>0, <1>1 DEF MoveTypeOK
<1> DEFINE mark(c) == [c EXCEPT !.deleted = TRUE]
<1>3. Flagged(box.source) = box.source
  BY <1>1, SelectedAll
<1>4. source = {mark(c) : c \in box.source}
  BY <1>3 DEF Marked
<1>5. \A c \in box.source : mark(c).deleted = TRUE /\ mark(c).of = c.of
  BY <1>0, BoxType, CopyFields
<1> HIDE DEF mark, source
<1>6. Single(box'.source) /\ \A d \in box'.source : d.deleted
  BY <1>2, <1>4, <1>5 DEF Tidy, Single
<1>7. Unmoved' /\ ToCopy' /\ Emptied' /\ Found'
  BY <1>1, <1>6 DEF Unmoved, ToCopy, Emptied, Found, Before, Behind
<1>8. Delivered' /\ Recent' /\ Told'
  BY <1>1, <1>2 DEF Tidy, Delivered, Recent, Told, Size, Behind
<1> QED
  BY <1>2, <1>6, <1>7, <1>8 DEF Tidy, Single

LEMMA ExpungedTidy ==
    ASSUME MoveInv, Tidy, Expunge
    PROVE  Tidy'
<1>0. MoveTypeOK
  BY DEF MoveInv
<1>1. /\ UNCHANGED <<uidNext, rowOf, model, uidMap, arrived, clipped, gone>>
      /\ box' = [box EXCEPT !.source = Kept(@)]
      /\ step = "expunge" /\ step' = "locate"
  BY DEF Expunge
<1>2. box'.source = Kept(box.source) /\ box'.target = box.target
  BY <1>0, <1>1 DEF MoveTypeOK
<1>3. box'.source = {}
  BY <1>1, <1>2 DEF Kept, Tidy, Emptied
<1>4. Unmoved' /\ ToCopy' /\ Emptied' /\ Found' /\ Single(box'.source)
  BY <1>1, <1>3 DEF Unmoved, ToCopy, Emptied, Found, Before, Behind, Single
<1>5. Delivered' /\ Recent' /\ Told'
  BY <1>1, <1>2 DEF Tidy, Delivered, Recent, Told, Size, Behind
<1> QED
  BY <1>2, <1>4, <1>5 DEF Tidy, Single

\* The server told the UID of each copy.
LEMMA TakeTidy ==
    ASSUME MoveInv, Tidy, TakeUIDs
    PROVE  Tidy'
<1>1. /\ UNCHANGED <<box, uidNext, rowOf, uidMap, arrived, clipped, gone>>
      /\ step = "locate" /\ step' \in {"attributes", "failed"} /\ uidMap.told
  BY DEF TakeUIDs
<1>2. ASSUME step' = "attributes" PROVE FoundAt(model)'
  <2>1. model' = [m \in Letter |-> [folder |-> "target", uid |-> uidMap.uid[m]]]
    BY <1>2 DEF TakeUIDs
  <2>2. \A m \in Letter : model'[m] = [folder |-> "target", uid |-> uidMap.uid[m]]
    BY <2>1
  <2>3. \A m \in Letter \ gone : \E d \in box.target : d.of = m /\ uidMap.uid[m] = d.uid
    BY <1>1 DEF Tidy, Delivered, Told, Behind
  <2> QED
    BY <1>1, <2>2, <2>3 DEF FoundAt
<1>3. Found'
  BY <1>1, <1>2 DEF Found
<1> QED
  BY <1>1, <1>3, TidyBehind DEF Behind

\* A search that was not clipped sees the copy of each message.
LEMMA SeesCopy ==
    ASSUME MoveInv, Tidy, ~Wraps, arrived <= Size,
           NEW d \in box.target, d.of \in Letter
    PROVE  d \in Newest
<1>1. d.uid \in Nat \ {0} /\ d.uid + arrived + Size >= uidNext
  BY BoxType, CopyFields DEF MoveInv, Tidy, Recent
<1>2. uidNext \in Nat /\ arrived \in Nat /\ Size \in Nat
  BY SizeIsNat DEF MoveInv, MoveTypeOK
<1>3. d.uid >= Bottom
  BY <1>1, <1>2 DEF Bottom
<1> QED
  BY <1>3 DEF Newest

LEMMA FindTidy ==
    ASSUME MoveInv, Tidy, FindUIDs, ~uneven'
    PROVE  Tidy'
<1>0. MoveTypeOK
  BY DEF MoveInv
<1>1. /\ UNCHANGED <<box, uidNext, rowOf, uidMap, arrived, gone>>
      /\ step = "locate" /\ step' = "attributes" /\ clipped' = (Wraps \/ arrived > Size)
  BY DEF FindUIDs
<1>2a. LocateAmong(Newest)
  BY Zenon DEF FindUIDs
<1>2. PICK uid \in [Letter -> {c.uid : c \in Newest} \cup {0}] :
        /\ \A m \in Letter :
             IF Match(Newest, m) = {} THEN uid[m] = 0 ELSE uid[m] \in Match(Newest, m)
        /\ model' = [m \in Letter |-> Placed(m, uid[m])]
  BY <1>2a DEF LocateAmong
<1>3. \A m \in Letter : model'[m] = Placed(m, uid[m])
  BY <1>2
<1>4. ASSUME ~clipped' PROVE FoundAt(model)'
  <2>0. ~(Wraps \/ arrived > Size)
    BY <1>1, <1>4, Zenon
  <2>1. ~Wraps /\ arrived <= Size
    BY <2>0, SizeIsNat DEF MoveInv, MoveTypeOK
  <2>2. ASSUME NEW m \in Letter \ gone
        PROVE  \E d \in box.target : d.of = m /\ model'[m] = [folder |-> "target", uid |-> d.uid]
    <3>1. PICK d \in box.target : d.of = m
      BY <1>1 DEF Tidy, Delivered, Behind
    <3>2. d \in Newest
      BY <2>1, <3>1, SeesCopy
    <3>3. d.uid \in Match(Newest, m)
      BY <3>1, <3>2 DEF Match
    <3>4. uid[m] \in Match(Newest, m)
      BY <1>2, <3>3
    <3>5. PICK e \in Newest : e.of = m /\ e.uid = uid[m]
      BY <3>4 DEF Match
    <3>6. e \in box.target
      BY <3>5 DEF Newest, Last
    <3>7. uid[m] # 0
      <4>1. e \in Copy
        BY <1>0, <3>6, BoxType
      <4> QED
        BY <3>5, <4>1 DEF Copy
    <3>8. model'[m] = [folder |-> "target", uid |-> e.uid]
      BY <1>3, <3>5, <3>7 DEF Placed
    <3> QED
      BY <3>5, <3>6, <3>8
  <2> QED
    BY <1>1, <2>2 DEF FoundAt
<1>5. Found'
  BY <1>1, <1>4 DEF Found
<1> QED
  BY <1>1, <1>5, TidyBehind DEF Behind

\* No copy in the destination is flagged: the flags that are cleared were clear.
LEMMA AttributesTidy ==
    ASSUME MoveInv, Tidy, ApplyAttributes
    PROVE  Tidy'
<1>1. /\ UNCHANGED <<uidNext, rowOf, model, uidMap, arrived, clipped, gone>>
      /\ step = "attributes" /\ step' = "save"
  BY DEF ApplyAttributes
<1>2. ASSUME NEW c \in box.target PROVE [c EXCEPT !.deleted = FALSE] = c
  <2>1. c \in Copy /\ ~c.deleted
    BY BoxType DEF MoveInv, Tidy, Delivered
  <2> QED
    BY <2>1 DEF Copy
<1>3. \A some : Marked(box.target, some, FALSE) = box.target
  BY <1>2 DEF Marked
<1>4. box' = box
  <2>1. PICK some \in SUBSET WithFlags :
          box' = IF IsMove THEN box ELSE [box EXCEPT !.target = Marked(@, some, FALSE)]
    BY DEF ApplyAttributes
  <2>2. Marked(box.target, some, FALSE) = box.target
    BY <1>3
  <2> QED
    BY <2>1, <2>2 DEF MoveInv, MoveTypeOK
<1>5. Found'
  BY <1>1, <1>4 DEF Tidy, Found, FoundAt
<1> QED
  BY <1>1, <1>4, <1>5, TidyBehind DEF Behind

LEMMA SaveTidy ==
    ASSUME MoveInv, Tidy, SaveRows
    PROVE  Tidy'
<1>1. /\ UNCHANGED <<box, uidNext, uidMap, arrived, clipped, gone>>
      /\ rowOf' = model /\ step = "save" /\ step' = "done"
  BY DEF SaveRows
<1>2. Found'
  BY <1>1 DEF Tidy, Found, FoundAt
<1> QED
  BY <1>1, <1>2, TidyBehind DEF Behind

LEMMA EvenStep == EvenInv /\ [MoveNext]_moveVars => EvenInv'
<1> SUFFICES ASSUME EvenInv, [MoveNext]_moveVars PROVE EvenInv'
  OBVIOUS
<1>0. MoveInv /\ MoveInv' /\ MoveTypeOK
  BY MoveStepInv DEF EvenInv, MoveInv
<1>1. CASE UNCHANGED moveVars
  BY <1>0, <1>1
     DEF moveVars, EvenInv, Tidy, Single, Unmoved, ToCopy, Emptied, Delivered, Recent, Told,
         Found, FoundAt
<1>2. CASE MoveNext /\ uneven
  BY <1>0, <1>2, UnevenStays DEF EvenInv
<1>3. CASE MoveNext /\ ~uneven
  <2>0. Tidy
    BY <1>3 DEF EvenInv
  <2>1. FailMove \/ KillMove => uneven'
    BY DEF FailMove, KillMove
  <2>2. Tidy' \/ uneven'
    BY <1>0, <1>3, <2>0, <2>1, DeliverTidy, DeleteTidy, ExpungeTidy, InflateTidy, CopyTidy,
       StoreTidy, ExpungedTidy, TakeTidy, FindTidy, AttributesTidy, SaveTidy DEF MoveNext
  <2> QED
    BY <1>0, <2>2 DEF EvenInv
<1> QED
  BY <1>1, <1>2, <1>3

\* A task that is done, and that nothing interrupted, left each message once, in
\* the destination, and its row points at it: for any number of messages, and
\* whoever delivers, deletes and expunges meanwhile.
THEOREM MovedAndFoundHolds == MoveSpec => []MovedAndFound
<1>1. MoveInit => EvenInv
  BY MoveInitInv, InitTidy DEF EvenInv
<1>2. EvenInv => MovedAndFound
  <2> SUFFICES ASSUME Tidy, step = "done", NEW m \in Letter \ gone
               PROVE  /\ {c \in box.source : c.of = m} = {}
                      /\ Cardinality(CopiesOf(m)) = 1
                      /\ ~clipped => \E c \in CopiesOf(m) :
                           rowOf[m] = [folder |-> "target", uid |-> c.uid]
    BY DEF EvenInv, MovedAndFound
  <2>1. box.source = {}
    BY DEF Tidy, Emptied, Behind
  <2>2. PICK d \in box.target : d.of = m
    BY DEF Tidy, Delivered, Behind
  <2>3. CopiesOf(m) = {d}
    BY <2>1, <2>2 DEF CopiesOf, Tidy, Single
  <2>4. Cardinality(CopiesOf(m)) = 1
    BY <2>3, FS_Singleton
  <2>5. ASSUME ~clipped
        PROVE  \E c \in CopiesOf(m) : rowOf[m] = [folder |-> "target", uid |-> c.uid]
    <3>1. PICK c \in box.target :
            c.of = m /\ rowOf[m] = [folder |-> "target", uid |-> c.uid]
      BY <2>5 DEF Tidy, Found, FoundAt
    <3> QED
      BY <3>1 DEF CopiesOf
  <2> QED
    BY <2>1, <2>4, <2>5
<1> QED
  BY <1>1, <1>2, EvenStep, PTL DEF MoveSpec
=============================================================================
