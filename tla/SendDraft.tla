------------------------------- MODULE SendDraft -------------------------------
(***************************************************************************)
(* Sending a draft: the life of a SendDraftTask.                           *)
(*                                                                         *)
(* The client queues a task with the draft, the main thread saves it, the  *)
(* foreground worker hands the mail to the SMTP gateway, removes the draft *)
(* and sees to it that the sent folder has a copy. What the gateway took   *)
(* cannot be taken back, and the process may be killed at any step. A task *)
(* that fails is complete; sending again is a new task of the user.        *)
(*                                                                         *)
(* Multisend hands the mail to one recipient after the other, each with a  *)
(* body of its own, in the order of the keys of a JSON object.             *)
(***************************************************************************)
EXTENDS Integers, Sequences, FiniteSets

CONSTANTS
    Order,        \* the recipients, in the order of perRecipientBodies
    MaxAttempts,  \* bound on tasks that the user queues for the draft
    MaxKills      \* bound on crashes of the process

ASSUME SendDraftAssumption ==
    /\ Order \in Seq(STRING) \ {<< >>}
    /\ \A i, j \in DOMAIN Order : Order[i] = Order[j] => i = j
    /\ MaxAttempts \in Nat
    /\ MaxKills \in Nat

VARIABLES
    row,       \* the Task row of the current attempt
    taken,     \* the worker's model of it
    at,        \* where the worker is in performRemote
    next,      \* the recipient whose turn it is
    multisend, \* whether there are perRecipientBodies
    draftAt,     \* where the draft is: rows of "local", copies of "remote"
    sentBox,   \* mails in the sent folder: of the gateway, and appended
    synced,    \* whether the sent mail is in the local store, with metadata
    gateway,   \* whether the gateway files mails: "never", "now", "later"
    owed,      \* mails that the gateway has yet to file
    attempts,  \* tasks queued
    got,       \* history: how often each recipient got the mail
    handed,    \* history: who got it from the current task
    early,     \* history: the client cancelled the task before it started
    mishap,    \* history: something that copies in the sent folder suffer from
    kills

sendVars == <<row, taken, at, next, multisend, draftAt, sentBox, synced, gateway,
              owed, attempts, got, handed, early, mishap, kills>>

\* What the worker never changes, and what a hand-over changes.
setting == <<multisend, gateway, attempts, kills, early>>
handing == <<got, handed, owed>>

Recipient == {Order[i] : i \in DOMAIN Order}
NoReport == [kind |-> "", names |-> {}]
NoRow == [status |-> "none", ran |-> FALSE, cancel |-> FALSE, error |-> NoReport]

Report == [kind: {"", "not-sent", "send-failed", "send-partially-failed"},
           names: SUBSET Recipient]
TaskRow == [status: {"none", "local", "remote", "complete", "cancelled"},
            ran: BOOLEAN, cancel: BOOLEAN, error: Report]

-----------------------------------------------------------------------------
SendInit ==
    /\ row = NoRow
    /\ taken = NoRow
    /\ at = "idle"
    /\ next = 1
    /\ multisend \in BOOLEAN
    /\ draftAt \in {{"local"}, {"local", "remote"}}
    /\ sentBox = [filed |-> 0, own |-> 0]
    /\ synced = FALSE
    /\ gateway \in {"never", "now", "later"}
    /\ owed = 0
    /\ attempts = 0
    /\ got = [r \in Recipient |-> 0]
    /\ handed = {}
    /\ early = FALSE
    /\ mishap = FALSE
    /\ kills = 0

\* The client queues a task: at first, and again when it was told of a failure
\* or when the draft is still there. performLocal saves it as `local`.
QueueSend ==
    /\ row.status \in {"none", "complete", "cancelled"}
    /\ "local" \in draftAt
    /\ attempts < MaxAttempts
    /\ row' = [NoRow EXCEPT !.status = "local"]
    /\ attempts' = attempts + 1
    /\ handed' = {}
    /\ early' = FALSE
    /\ UNCHANGED <<taken, at, next, multisend, draftAt, sentBox, synced,
                   gateway, owed, got, mishap, kills>>

\* performLocal does nothing for this task, and saves it as `remote`.
LocalSend ==
    /\ row.status = "local"
    /\ row' = [row EXCEPT !.status = "remote"]
    /\ UNCHANGED <<taken, at, next, draftAt, sentBox, synced, mishap, setting,
                   handing>>

\* TaskProcessor::cancel, on the main thread
CancelSend ==
    /\ row.status \notin {"none", "local"}
    /\ ~row.cancel
    /\ row' = [row EXCEPT !.cancel = TRUE]
    /\ early' = (at = "idle" /\ row.status = "remote" /\ ~row.ran)
    /\ UNCHANGED <<taken, at, next, multisend, draftAt, sentBox, synced,
                   gateway, attempts, mishap, kills, handing>>

-----------------------------------------------------------------------------
(* The foreground worker: performRemote and performRemoteSendDraft.        *)

\* What performRemote saves in the end is the worker's model, whatever has
\* been saved in the row meanwhile.
Finish(status, error) ==
    /\ row' = [taken EXCEPT !.status = status, !.error = error]
    /\ at' = "idle"

Load ==
    /\ at = "idle"
    /\ row.status = "remote"
    /\ taken' = row
    /\ at' = "start"
    /\ UNCHANGED <<row, next, draftAt, sentBox, synced, mishap, setting,
                   handing>>

\* Faulty variant: a task that is to be cancelled starts.
NeverCancelled == FALSE

ShouldCancel == taken.cancel

\* A task that already ran, before a crash, ends without a word.
EndRan == Finish("complete", NoReport)

\* Faulty variant: that the task ran is not saved before it sends.
MarkUnsaved == row' = row

MarkRan == row' = [taken EXCEPT !.ran = TRUE]

Start ==
    /\ at = "start"
    /\ next' = 1
    /\ \/ /\ ShouldCancel
          /\ Finish("cancelled", NoReport)
          /\ UNCHANGED taken
       \/ /\ ~ShouldCancel
          /\ taken.ran
          /\ EndRan
          /\ UNCHANGED taken
       \/ /\ ~ShouldCancel
          /\ ~taken.ran
          /\ MarkRan
          /\ taken' = [taken EXCEPT !.ran = TRUE]
          /\ at' = "prepare"
    /\ UNCHANGED <<draftAt, sentBox, synced, mishap, setting, handing>>

\* A folder or a body is missing, or the mail is built.
Prepare ==
    /\ at = "prepare"
    /\ \/ at' = "send" /\ UNCHANGED row
       \/ Finish("complete", [kind |-> "not-sent", names |-> {}])
    /\ UNCHANGED <<taken, next, draftAt, sentBox, synced, mishap, setting,
                   handing>>

\* The recipients of the request whose turn it is
Addressed == IF multisend THEN {Order[next]} ELSE Recipient

\* Faulty variant: the recipient whose request failed is counted.
SucceededOrTried == IF multisend THEN {Order[i] : i \in 1 .. next} ELSE {}

\* The recipients whose requests the gateway has confirmed
Succeeded == IF multisend THEN {Order[i] : i \in 1 .. next - 1} ELSE {}

\* Faulty variant: sending goes on after an error.
CarryOn == at' = "removeRemote" /\ UNCHANGED row

Fail ==
    LET kind == IF Succeeded = {} THEN "send-failed" ELSE "send-partially-failed"
    IN Finish("complete", [kind |-> kind, names |-> Succeeded])

\* The gateway takes a mail for its recipients, and may file it as sent.
Accept ==
    /\ got' = [r \in Recipient |-> IF r \in Addressed THEN got[r] + 1 ELSE got[r]]
    /\ handed' = handed \cup Addressed
    /\ sentBox' = IF gateway = "now" THEN [sentBox EXCEPT !.filed = @ + 1]
                  ELSE sentBox
    /\ owed' = IF gateway = "later" THEN owed + 1 ELSE owed

\* Whether another recipient follows in the loop
More == multisend /\ next < Len(Order)

\* smtp.sendMessage: the request is confirmed, refused, or taken without the
\* answer getting through. The loop over the recipients ends at an error.
Send ==
    /\ at = "send"
    /\ \/ /\ Accept
          /\ IF More
             THEN next' = next + 1 /\ UNCHANGED at
             ELSE at' = "removeRemote" /\ UNCHANGED next
          /\ UNCHANGED <<row, mishap>>
       \/ /\ Fail
          /\ UNCHANGED <<next, sentBox, mishap, handing>>
       \/ /\ Accept
          /\ Fail
          /\ mishap' = TRUE
          /\ UNCHANGED next
    /\ UNCHANGED <<taken, draftAt, synced, setting>>

\* The errors of this request go unnoticed.
RemoveRemoteDraft ==
    /\ at = "removeRemote"
    /\ draftAt' \in {draftAt, draftAt \ {"remote"}}
    /\ at' = "scan"
    /\ UNCHANGED <<row, taken, next, sentBox, synced, mishap, setting, handing>>

\* Faulty variant: the mails of the gateway stay when each has a body of its own.
KeepFiled == sentBox' = sentBox

\* The mails of a multisend are removed from the sent folder.
CleanFiled == sentBox' = IF multisend THEN [filed |-> 0, own |-> 0] ELSE sentBox

\* The sent folder is searched for the Message-ID, up to four times: what the
\* gateway files later is not seen. The only mail of a send to all at once is
\* kept. Nothing is found or removed when a request fails, which goes unnoticed.
Scan ==
    /\ at = "scan"
    /\ \/ /\ at' = IF ~multisend /\ sentBox.filed + sentBox.own = 1
                   THEN "fetch" ELSE "append"
          /\ CleanFiled
          /\ UNCHANGED mishap
       \/ /\ at' = "append"
          /\ mishap' = TRUE
          /\ UNCHANGED sentBox
    /\ UNCHANGED <<row, taken, next, draftAt, synced, setting, handing>>

\* Faulty variant: the draft stays when the copy has no UID.
KeepDraft == draftAt' = draftAt

\* store->remove(&draft)
RemoveDraft == draftAt' = draftAt \ {"local"}

\* appendMessage may fail, and may succeed without telling the UID: without it
\* the draft is removed and nothing else can be done.
AppendSent ==
    /\ at = "append"
    /\ \E placed, known \in BOOLEAN :
         /\ known => placed
         /\ sentBox' = IF placed THEN [sentBox EXCEPT !.own = @ + 1] ELSE sentBox
         /\ mishap' = (mishap \/ ~placed)
         /\ IF known THEN at' = "fetch" /\ UNCHANGED <<row, draftAt>>
            ELSE Finish("complete", NoReport) /\ RemoveDraft
    /\ UNCHANGED <<taken, next, synced, setting, handing>>

\* The draft is removed before the answer is looked at.
Fetch ==
    /\ at = "fetch"
    /\ RemoveDraft
    /\ \/ at' = "insert" /\ UNCHANGED row
       \/ Finish("complete", NoReport)
    /\ UNCHANGED <<taken, next, sentBox, synced, mishap, setting, handing>>

\* insertFallbackToUpdateMessage, retrievedMessageBody, and a task for each
\* metadata of the draft; or no row came of it
InsertSent ==
    /\ at = "insert"
    /\ synced' \in {synced, TRUE}
    /\ Finish("complete", NoReport)
    /\ UNCHANGED <<taken, next, draftAt, sentBox, mishap, setting, handing>>

-----------------------------------------------------------------------------
\* The gateway files a mail in its own time.
FileLate ==
    /\ owed > 0
    /\ owed' = owed - 1
    /\ sentBox' = [sentBox EXCEPT !.filed = @ + 1]
    /\ mishap' = TRUE
    /\ UNCHANGED <<row, taken, at, next, draftAt, synced, got, handed, setting>>

\* The process is killed and launched again: cleanupTasksAfterLaunch removes
\* what was still `local`.
KillSend ==
    /\ kills < MaxKills
    /\ kills' = kills + 1
    /\ row' = IF row.status = "local" THEN NoRow ELSE row
    /\ taken' = NoRow
    /\ at' = "idle"
    /\ next' = 1
    /\ mishap' = (mishap \/ at # "idle")
    /\ UNCHANGED <<multisend, draftAt, sentBox, synced, gateway,
                   attempts, early, handing>>

WorkerStep ==
    Load \/ Start \/ Prepare \/ Send \/ RemoveRemoteDraft \/ Scan \/ AppendSent
         \/ Fetch \/ InsertSent

SendNext ==
    QueueSend \/ LocalSend \/ CancelSend \/ WorkerStep \/ FileLate \/ KillSend

SendSpec == SendInit /\ [][SendNext]_sendVars

-----------------------------------------------------------------------------
\* Types of the variables of this module.
SendTypeOK ==
    /\ row \in TaskRow /\ taken \in TaskRow
    /\ at \in {"idle", "start", "prepare", "send", "removeRemote", "scan",
               "append", "fetch", "insert"}
    /\ next \in 1 .. Len(Order)
    /\ multisend \in BOOLEAN
    /\ draftAt \in SUBSET {"local", "remote"}
    /\ sentBox \in [filed: Nat, own: Nat]
    /\ synced \in BOOLEAN
    /\ gateway \in {"never", "now", "later"}
    /\ owed \in Nat /\ attempts \in Nat /\ kills \in Nat
    /\ got \in [Recipient -> Nat]
    /\ handed \in SUBSET Recipient
    /\ early \in BOOLEAN /\ mishap \in BOOLEAN

\* "We never intend for a send task to run more than once": nobody gets the
\* mail more often than the user has asked for it, whatever was killed when.
SentOncePerTask == \A r \in Recipient : got[r] <= attempts

\* The draft is only given up for a mail that everybody has got.
DraftKept == "local" \in draftAt \/ \A r \in Recipient : got[r] > 0

\* A task that fails half way tells who got the mail: each of those it names
\* did, and the only one who may have got it unnamed is the recipient of the
\* request that went unanswered. A failure that names nobody was the first.
ReportTrue ==
    row.error.kind \in {"send-failed", "send-partially-failed"} =>
        /\ row.error.names \subseteq handed
        /\ multisend => Cardinality(handed \ row.error.names) <= 1
        /\ row.error.kind = "send-partially-failed" <=> row.error.names # {}

\* A task that ends without an error, and that was not killed, has reached all
\* recipients and has left no draft.
SuccessTrue ==
    (row.status = "complete" /\ row.error = NoReport /\ kills = 0) =>
        handed = Recipient /\ "local" \notin draftAt

\* A task cancelled before the worker took it hands the mail to nobody.
CancelledUnsent == early => handed = {}

\* When the task is done and nothing has gone wrong on the way, the sent folder
\* has the mail exactly once, whether or not the gateway files what it sends.
OneSentCopy ==
    (synced /\ at = "idle" /\ ~mishap) => sentBox.filed + sentBox.own = 1
=============================================================================
