----------------------------- MODULE ThreadCounts -----------------------------
(***************************************************************************)
(* The counters of a thread.                                               *)
(*                                                                         *)
(* A Thread row has, for each folder and label of its messages, a number   *)
(* of references and of unread messages. They are not recounted: each save *)
(* of a message subtracts the snapshot taken when that model was loaded    *)
(* and adds what is saved. The table ThreadCounts has, per folder or       *)
(* label, the number of threads and of unread ones; each save of a thread  *)
(* adds what changed in it.                                                *)
(*                                                                         *)
(* One thread. A worker may hold the model of a message over a request to  *)
(* the server (SyncWorker::syncMessageBody), or until its transaction      *)
(* begins (updateMessage), and save it when the row has changed. The stars *)
(* and attachments of a thread are counted exactly as its unread messages  *)
(* are, and stand behind them.                                             *)
(***************************************************************************)
EXTENDS Integers, FiniteSets

CONSTANTS
    Mail,       \* the messages of the thread
    Place,      \* folders
    Spam,       \* the folders whose role is spam or trash
    Tag,        \* labels
    MaxDrifts   \* bound on stale saves, after which no more models are held

ASSUME ThreadCountsAssumption ==
    /\ IsFiniteSet(Mail)
    /\ Spam \subseteq Place
    /\ Place \cap Tag = {}
    /\ "" \notin Place \cup Tag \cup Mail
    /\ MaxDrifts \in Nat

VARIABLES
    mail,       \* the Message rows
    thread,     \* the counters of the Thread row
    filed,      \* whether there is a Thread row
    counts,     \* what ThreadCounts has of this thread
    copy,       \* the model a worker holds: a message and its snapshot
    drifts,     \* history: how many snapshots were subtracted that were not
                \* the row
    exact,      \* history: none since the thread was last recounted
    leaked      \* history: the thread went while it still counted in a label

threadVars == <<mail, thread, filed, counts, copy, drifts, exact, leaked>>

Attributes == [folder: Place, unread: {0, 1}, tags: SUBSET Tag]

\* MessageEmptySnapshot: also what is left of a message that was removed.
Empty == [folder |-> "", unread |-> 0, tags |-> {}]

Snapshot == Attributes \cup {Empty}
Holding == [of: Mail, snapshot: Attributes]
NoCopy == [of |-> "", snapshot |-> Empty]

Counter == [refs: Nat, unread: Int]
Zero == [refs |-> 0, unread |-> 0]
Category == Place \cup Tag

InAllMail(s) == s.folder \in Place \ Spam

\* The value of a C++ `a && b`, where a is an Int.
And(a, b) == IF a # 0 /\ b THEN 1 ELSE 0

-----------------------------------------------------------------------------
(* Thread::applyMessageAttributeChanges, first for folders, then for       *)
(* labels: a category without references is taken out of the thread.       *)

\* Faulty variant: the unread count of a folder is forgotten when its message
\* leaves it.
DropFolderKeepsUnread(c, old) ==
    IF c.refs > 1 THEN [refs |-> c.refs - 1, unread |-> c.unread] ELSE Zero

DropFolder(c, old) ==
    IF c.refs > 1
    THEN [refs |-> c.refs - 1, unread |-> c.unread - old.unread]
    ELSE Zero

AddFolder(c, new) == [refs |-> c.refs + 1, unread |-> c.unread + new.unread]

\* Minus binds tighter than && in the code: the difference is made a Boolean.
DropTag(c, old) ==
    IF c.refs > 1
    THEN [refs |-> c.refs - 1,
          unread |-> And(c.unread - old.unread, InAllMail(old))]
    ELSE Zero

AddTag(c, new) ==
    IF c.refs > 0
    THEN [refs |-> c.refs + 1, unread |-> And(c.unread + new.unread, InAllMail(new))]
    ELSE [refs |-> 1, unread |-> And(new.unread, InAllMail(new))]

ApplyMessageAttributeChanges(t, old, new) ==
    [unread |-> t.unread - old.unread + new.unread,
     in |-> [c \in Category |->
        LET left == IF c = old.folder THEN DropFolder(t.in[c], old)
                    ELSE IF c \in old.tags THEN DropTag(t.in[c], old) ELSE t.in[c]
        IN IF c = new.folder THEN AddFolder(left, new)
           ELSE IF c \in new.tags THEN AddTag(left, new) ELSE left]]

\* resetCountedAttributes, and a new Thread
NoCounters == [unread |-> 0, in |-> [c \in Category |-> Zero]]

\* captureCategoryIDs: the categories of a thread, and which are unread.
CategoryIDs(t) ==
    [c \in Category |->
        [total |-> IF t.in[c].refs > 0 THEN 1 ELSE 0,
         unread |-> IF t.in[c].refs > 0 /\ t.in[c].unread > 0 THEN 1 ELSE 0]]

-----------------------------------------------------------------------------
ThreadInit ==
    /\ mail = [m \in Mail |-> Empty]
    /\ thread = NoCounters
    /\ filed = FALSE
    /\ counts = CategoryIDs(NoCounters)
    /\ copy = NoCopy
    /\ drifts = 0
    /\ exact = TRUE
    /\ leaked = FALSE

\* Thread::afterSave: the difference to what the model had when it was loaded.
CountThread(before, after) ==
    counts' = [c \in Category |->
        [total |-> counts[c].total + after[c].total - before[c].total,
         unread |-> counts[c].unread + after[c].unread - before[c].unread]]

\* A thread is found and saved in the transaction of its message: what the
\* model had when it was loaded is the row.
SaveThread(t) ==
    /\ thread' = t
    /\ CountThread(CategoryIDs(thread), CategoryIDs(t))

\* Message::afterSave. A thread that has gone is not made again.
AfterSave(old, new) ==
    IF filed THEN SaveThread(ApplyMessageAttributeChanges(thread, old, new))
    ELSE UNCHANGED <<thread, counts>>

\* MailProcessor::insertMessage: the thread is made with its first message.
InsertMail(m) ==
    /\ mail[m] = Empty
    /\ filed \/ \A n \in Mail : mail[n] = Empty
    /\ \E a \in Attributes :
         /\ mail' = [mail EXCEPT ![m] = a]
         /\ SaveThread(ApplyMessageAttributeChanges(thread, Empty, a))
    /\ filed' = TRUE
    /\ UNCHANGED <<copy, drifts, exact, leaked>>

\* A message is found, changed and saved in one transaction, as
\* performLocalChangeOnMessages does with messageIds.
ChangeMail(m) ==
    /\ mail[m] # Empty
    /\ \E a \in Attributes \ {mail[m]} :
         /\ mail' = [mail EXCEPT ![m] = a]
         /\ AfterSave(mail[m], a)
    /\ UNCHANGED <<filed, copy, drifts, exact, leaked>>

\* Message::afterRemove, and Thread::afterRemove if no folder is left.
RemoveMail(m) ==
    /\ mail[m] # Empty
    /\ mail' = [mail EXCEPT ![m] = Empty]
    /\ LET next == ApplyMessageAttributeChanges(thread, mail[m], Empty)
           kept == \E f \in Place : next.in[f].refs > 0
       IN IF filed
          THEN /\ CountThread(CategoryIDs(thread), CategoryIDs(next))
               /\ filed' = kept
               /\ thread' = IF kept THEN next ELSE NoCounters
               /\ leaked' = (leaked \/ (~kept /\ \E l \in Tag : next.in[l].refs > 0))
          ELSE UNCHANGED <<thread, filed, counts, leaked>>
    /\ UNCHANGED <<copy, drifts, exact>>

\* A worker finds a message, to fetch its body or to update it.
HoldModel(m) ==
    /\ copy = NoCopy
    /\ drifts < MaxDrifts
    /\ mail[m] # Empty
    /\ copy' = [of |-> m, snapshot |-> mail[m]]
    /\ UNCHANGED <<mail, thread, filed, counts, drifts, exact, leaked>>

\* The model is saved: as it was by retrievedMessageBody, with other attributes
\* by updateMessage. An UPDATE finds no row that has gone, but the thread is told
\* all the same.
SaveCopy ==
    LET stale == filed /\ mail[copy.of] # copy.snapshot
    IN /\ copy # NoCopy
       /\ \E a \in Attributes :
            /\ mail' = [mail EXCEPT ![copy.of] = IF @ = Empty THEN @ ELSE a]
            /\ AfterSave(copy.snapshot, a)
       /\ drifts' = IF stale THEN drifts + 1 ELSE drifts
       /\ exact' = (exact /\ ~stale)
       /\ copy' = NoCopy
       /\ UNCHANGED <<filed, leaked>>

\* What adding the messages one by one in the order `rank` to empty counters
\* comes to. The unread count of a label is made a Boolean by each addition:
\* it is 1 if nothing outside of All Mail was added after an unread message.
Recount(rows, rank) ==
    LET in(c) == {m \in Mail : rows[m].folder = c \/ c \in rows[m].tags}
        unread(ms) == {m \in ms : rows[m].unread = 1}
        survives(c, m) == \A n \in in(c) : rank[n] >= rank[m] => InAllMail(rows[n])
    IN [unread |-> Cardinality(unread(Mail)),
        in |-> [c \in Category |->
          [refs |-> Cardinality(in(c)),
           unread |-> IF c \in Place THEN Cardinality(unread(in(c)))
                      ELSE IF \E m \in unread(in(c)) : survives(c, m) THEN 1 ELSE 0]]]

\* performLocalChangeOnMessages with threadIds: one attribute is changed in
\* all messages, and the counters of the thread are made anew.
ChangeThread ==
    /\ filed
    /\ \E u \in {0, 1}, f \in Place, rank \in [Mail -> 1 .. Cardinality(Mail)] :
         /\ \A m, n \in Mail : rank[m] = rank[n] => m = n
         /\ \/ mail' = [m \in Mail |-> IF mail[m] = Empty THEN Empty
                                       ELSE [mail[m] EXCEPT !.unread = u]]
            \/ mail' = [m \in Mail |-> IF mail[m] = Empty THEN Empty
                                       ELSE [mail[m] EXCEPT !.folder = f]]
         /\ SaveThread(Recount(mail', rank))
    /\ exact' = (exact \/ \E m \in Mail : mail[m] # Empty)
    /\ UNCHANGED <<filed, copy, drifts, leaked>>

ThreadNext ==
    \/ \E m \in Mail : InsertMail(m) \/ ChangeMail(m) \/ RemoveMail(m) \/ HoldModel(m)
    \/ SaveCopy
    \/ ChangeThread

ThreadSpec == ThreadInit /\ [][ThreadNext]_threadVars

-----------------------------------------------------------------------------
\* Types of the variables of this module.
ThreadTypeOK ==
    /\ mail \in [Mail -> Snapshot]
    /\ thread \in [unread: Int, in: [Category -> Counter]]
    /\ filed \in BOOLEAN
    /\ counts \in [Category -> [total: Int, unread: Int]]
    /\ copy \in Holding \cup {NoCopy}
    /\ drifts \in 0 .. MaxDrifts
    /\ exact \in BOOLEAN
    /\ leaked \in BOOLEAN

In(c) == {m \in Mail : mail[m].folder = c \/ c \in mail[m].tags}
Unread(ms) == {m \in ms : mail[m].unread = 1}

\* Subtracting and adding comes to the same as counting: as long as no stale
\* model was saved since the last recount, there is a thread exactly while
\* there are messages, its counters are those of its messages, and so are the
\* totals that ThreadCounts has of it, whatever the order of the saves.
CountersExact ==
    exact =>
        /\ filed <=> \E m \in Mail : mail[m] # Empty
        /\ thread.unread = Cardinality(Unread(Mail))
        /\ \A c \in Category : thread.in[c].refs = Cardinality(In(c))
        /\ \A f \in Place : thread.in[f].unread = Cardinality(Unread(In(f)))
        /\ ~leaked => \A c \in Category :
             counts[c].total = IF In(c) = {} THEN 0 ELSE 1
        /\ ~leaked => \A f \in Place :
             counts[f].unread = IF Unread(In(f)) = {} THEN 0 ELSE 1

\* The comment in Thread.cpp: a message contributes to the unread count of a
\* label if, and only if, it is in All Mail.
LabelUnread ==
    (exact /\ ~leaked) =>
        \A l \in Tag :
            counts[l].unread > 0 <=> \E m \in Unread(In(l)) : InAllMail(mail[m])
=============================================================================
