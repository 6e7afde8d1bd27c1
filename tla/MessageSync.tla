----------------------------- MODULE MessageSync -----------------------------
(***************************************************************************)
(* The message lock of Mailspring-Sync: how a flag the user changes         *)
(* locally, the same flag on the IMAP server and the row in the database   *)
(* are kept together by three threads of one mailsync process.             *)
(*                                                                         *)
(*   - the main thread runs TaskProcessor::performLocal: it changes the    *)
(*     rows, takes a lock on each of them (the counter _suc and the time   *)
(*     _sa, 24 hours ahead) and leaves the task with status "remote";      *)
(*   - the foreground worker runs TaskProcessor::performRemote: IMAP       *)
(*     STORE, then one transaction that releases the locks;                *)
(*   - the workers that sync the folder (background, and foreground for    *)
(*     the inbox) run syncFolderChangesViaCondstore: everything that       *)
(*     changed since the folder's modseq cursor is fetched and written     *)
(*     over the local rows, unless a row says it is newer than the fetch;  *)
(*   - the same workers fetch the bodies of messages, and write the row    *)
(*     they began with back, with a snippet of the body (syncMessageBody). *)
(*                                                                         *)
(* A row is read (store->find) before the transaction that writes it, and  *)
(* the fetch, the STORE and every transaction are separate steps, so all   *)
(* their interleavings are here, with crashes between any two of them.     *)
(***************************************************************************)
EXTENDS Integers, FiniteSets

CONSTANTS
    Message,        \* the messages of one thread, in one folder
    Initially,      \* those already synced when the behaviour starts
    Recent,         \* those within the last MODSEQ_TRUNCATION_UID_COUNT UIDs
    Wanted,         \* those whose body is to be fetched
    Attr,           \* the flags of a message: unread, starred, ...
    Task,           \* the tasks the client may queue
    Scopes,         \* how a task names its messages: "ids", "thread"
    Worker,         \* the workers that sync this folder: "bg", "fg"
    Faults,         \* subset of {"offline", "status", "cancel"}
    LockSpan,       \* 24 * 60 * 60
    TruncationGap,  \* MODSEQ_TRUNCATION_THRESHOLD
    MaxTime,        \* bound of the clock
    MaxModSeq,      \* bound on the changes other clients make
    MaxCrashes      \* bound on the number of crashes

ASSUME MessageSyncAssumption ==
    /\ Initially \subseteq Message /\ Recent \subseteq Message
    /\ Wanted \subseteq Message
    /\ Attr # {}
    /\ IsFiniteSet(Task)
    /\ Scopes \subseteq {"ids", "thread"}
    /\ Worker \subseteq {"bg", "fg"}
    /\ Faults \subseteq {"offline", "status", "cancel"}
    /\ LockSpan \in Nat /\ MaxTime \in Nat /\ MaxTime < LockSpan
    /\ TruncationGap \in Nat /\ MaxModSeq \in Nat /\ MaxCrashes \in Nat

VARIABLES
    now,        \* time(0)
    crashes,    \* how many times the process was killed
    server,     \* the folder on the server
    stored,     \* the messages that have a row in the Message table
    db,         \* their rows
    bodies,     \* the messages that have a row in the MessageBody table
    cursor,     \* localStatus[LS_HIGHESTMODSEQ] as saved in the Folder row
    task,       \* the Task table
    main,       \* where the main thread is in performLocal
    remote,     \* where the foreground worker is in performRemote
    sync,       \* where each worker is in syncFolderChangesViaCondstore
    holders,    \* history: tasks that locked a message and did not release it
    latest,     \* history: the last task that changed a flag of a message
    miscounted, \* history: messages whose lock was lost or released by a
                \* task that never took it
    skipped,    \* history: messages with a fetched change that was ignored
    lastRow     \* history: rowid of the last task whose STORE was sent

vars == <<now, crashes, server, stored, db, bodies, cursor, task, main, remote,
          sync, holders, latest, miscounted, skipped, lastRow>>
history == <<holders, latest, miscounted, skipped, lastRow>>

Flags == [Attr -> BOOLEAN]
NoFlags == [a \in Attr |-> FALSE]
Row == [flags: Flags, suc: Int, syncedAt: Nat]
NoRow == [flags |-> NoFlags, suc |-> 0, syncedAt |-> 0]

\* The part of a task that performLocal and performRemote look at. A task
\* names its messages one by one (messageIds) or by thread (threadIds).
Change == [msgs: SUBSET Message, byThread: BOOLEAN, attr: Attr, val: BOOLEAN]
Status == {"none", "local", "remote", "complete", "cancelled", "removed"}
TaskRow == [status: Status, rowid: Nat, change: Change,
            cancel: BOOLEAN, error: BOOLEAN]
NoChange == [msgs |-> {}, byThread |-> FALSE,
             attr |-> CHOOSE a \in Attr : TRUE, val |-> FALSE]
NoTask == [status |-> "none", rowid |-> 0, change |-> NoChange,
           cancel |-> FALSE, error |-> FALSE]

Apply(f, c) == [f EXCEPT ![c.attr] = c.val]

\* inflateMessages: a task by thread is resolved again each time it is run.
inflateMessages(t) ==
    IF task[t].change.byThread THEN stored ELSE task[t].change.msgs \cap stored

IdleSync == [pc |-> "idle", base |-> 0, goal |-> 0, ts |-> 0, todo |-> {},
             seen |-> [m \in Message |-> NoFlags],
             found |-> {}, copy |-> NoRow]
SyncState == [pc: {"idle", "folder", "status", "apply", "found", "body", "wanted"},
              base: Nat, goal: Nat, ts: Nat, todo: SUBSET Message,
              seen: [Message -> Flags], found: SUBSET Message, copy: Row]
IdleRemote == [pc |-> "ready", batch |-> {}, cancelled |-> {}, msgs |-> {}]
RemoteState == [pc: {"ready", "stored", "released"}, batch: SUBSET Task,
                cancelled: SUBSET Task, msgs: SUBSET Message]

TypeOK ==
    /\ now \in 0..MaxTime /\ crashes \in 0..MaxCrashes
    /\ server \in [modseq: Nat, flags: [Message -> Flags],
                   changed: [Message -> Nat]]
    /\ stored \subseteq Message
    /\ db \in [Message -> Row]
    /\ bodies \subseteq Message
    /\ cursor \in Nat
    /\ task \in [Task -> TaskRow]
    /\ main \in {"idle", "saved", "applied"}
    /\ remote \in RemoteState
    /\ sync \in [Worker -> SyncState]
    /\ holders \in [Message -> SUBSET Task]
    /\ latest \in [Message -> [Attr -> SUBSET Task]]
    /\ miscounted \subseteq Message /\ skipped \subseteq Message
    /\ lastRow \in Nat

Init ==
    /\ now = 0 /\ crashes = 0
    /\ server = [modseq |-> 1, flags |-> [m \in Message |-> NoFlags],
                 changed |-> [m \in Message |-> IF m \in Initially THEN 1 ELSE 0]]
    /\ stored = Initially
    /\ db = [m \in Message |-> NoRow]
    /\ bodies = {}
    /\ cursor = 1
    /\ task = [t \in Task |-> NoTask]
    /\ main = "idle"
    /\ remote = IdleRemote
    /\ sync = [w \in Worker |-> IdleSync]
    /\ holders = [m \in Message |-> {}]
    /\ latest = [m \in Message |-> [a \in Attr |-> {}]]
    /\ miscounted = {} /\ skipped = {} /\ lastRow = 0

-----------------------------------------------------------------------------
(* The main thread: queue-task and cancel-task packets from the client.    *)

Queued == {t \in Task : task[t].status # "none"}

\* store->save(task) at the top of performLocal: the row exists, "local".
SaveTask(t, c) ==
    /\ main = "idle"
    /\ task[t].status = "none"
    /\ task' = [task EXCEPT ![t] =
                  [status |-> "local", rowid |-> Cardinality(Queued) + 1,
                   change |-> c, cancel |-> FALSE, error |-> FALSE]]
    /\ main' = "saved"
    /\ UNCHANGED <<now, bodies, crashes, server, stored, db, cursor, remote,
                   sync, history>>

\* Faulty variant: the lock is a mark, not a counter.
PerformLocalMarks(t) ==
    /\ main = "saved" /\ task[t].status = "local"
    /\ LET ms == inflateMessages(t) IN
       /\ db' = [m \in Message |->
                   IF m \in ms
                   THEN [flags |-> Apply(db[m].flags, task[t].change),
                         suc |-> 1, syncedAt |-> now + LockSpan]
                   ELSE db[m]]
       /\ holders' = [m \in Message |->
                        IF m \in ms THEN holders[m] \cup {t} ELSE holders[m]]
       /\ latest' = [m \in Message |->
                       IF m \in ms THEN [latest[m] EXCEPT ![task[t].change.attr] = {t}]
                       ELSE latest[m]]
    /\ main' = "applied"
    /\ UNCHANGED <<now, bodies, crashes, server, stored, cursor, task, remote,
                   sync, miscounted, skipped, lastRow>>

\* Faulty variant: the lock reaches into the past.
PerformLocalBackdates(t) ==
    /\ main = "saved" /\ task[t].status = "local"
    /\ db' = [m \in Message |->
                IF m \in inflateMessages(t)
                THEN [db[m] EXCEPT !.suc = @ + 1, !.syncedAt = now - LockSpan]
                ELSE db[m]]
    /\ main' = "applied"
    /\ UNCHANGED <<now, bodies, crashes, server, stored, cursor, task, remote,
                   sync, history>>

\* The transaction of performLocalChangeOnMessages.
PerformLocal(t) ==
    /\ main = "saved"
    /\ task[t].status = "local"
    /\ LET ms == inflateMessages(t) IN
       /\ db' = [m \in Message |->
                   IF m \in ms
                   THEN [flags |-> Apply(db[m].flags, task[t].change),
                         suc |-> db[m].suc + 1, syncedAt |-> now + LockSpan]
                   ELSE db[m]]
       /\ holders' = [m \in Message |->
                        IF m \in ms THEN holders[m] \cup {t} ELSE holders[m]]
       /\ latest' = [m \in Message |->
                       IF m \in ms THEN [latest[m] EXCEPT ![task[t].change.attr] = {t}]
                       ELSE latest[m]]
    /\ main' = "applied"
    /\ UNCHANGED <<now, bodies, crashes, server, stored, cursor, task, remote,
                   sync, miscounted, skipped, lastRow>>

\* task->setStatus("remote") and the save at the end of performLocal.
MarkRemote(t) ==
    /\ main = "applied"
    /\ task[t].status = "local"
    /\ task' = [task EXCEPT ![t].status = "remote"]
    /\ main' = "idle"
    /\ UNCHANGED <<now, bodies, crashes, server, stored, db, cursor, remote,
                   sync, history>>

\* TaskProcessor::cancel reads and writes the row in one transaction. The
\* flag is only ever read of a task that is "remote".
Cancel(t) ==
    /\ "cancel" \in Faults
    /\ main = "idle"
    /\ task[t].status = "remote"
    /\ ~task[t].cancel
    /\ task' = [task EXCEPT ![t].cancel = TRUE]
    /\ UNCHANGED <<now, bodies, crashes, server, stored, db, cursor, main,
                   remote, sync, history>>

-----------------------------------------------------------------------------
(* The foreground worker: performRemote of every task that is "remote".    *)

RemoteIdle == remote.batch = {}
SyncIdle(w) == w \in Worker => sync[w].pc = "idle"
Pending == {t \in Task : task[t].status = "remote"}

\* The rows are loaded as a batch; should_cancel is read now, not later.
LoadTasks ==
    /\ RemoteIdle /\ SyncIdle("fg")
    /\ Pending # {}
    /\ remote' = [IdleRemote EXCEPT !.batch = Pending,
                                    !.cancelled = {t \in Pending : task[t].cancel}]
    /\ UNCHANGED <<now, bodies, crashes, server, stored, db, cursor, task,
                   main, sync, history>>

\* Faulty variant: the query has no ORDER BY.
IsAny(t) == t \in remote.batch

\* The tasks of a batch are run in the order of their rowids.
IsNext(t) == /\ t \in remote.batch
             /\ \A u \in remote.batch : task[t].rowid <= task[u].rowid

\* store->save(task) at the end of performRemote writes the whole row, and
\* with it the should_cancel that was read when the batch was loaded.
SaveDone(t, status, error) ==
    /\ task' = [task EXCEPT ![t] =
                  [@ EXCEPT !.status = status, !.error = error,
                            !.cancel = t \in remote.cancelled]]
    /\ remote' = [remote EXCEPT !.pc = "ready", !.batch = @ \ {t},
                                !.cancelled = @ \ {t}, !.msgs = {}]

PerformCancelled(t) ==
    /\ remote.pc = "ready" /\ IsNext(t)
    /\ t \in remote.cancelled
    /\ SaveDone(t, "cancelled", FALSE)
    /\ UNCHANGED <<now, bodies, crashes, server, stored, db, cursor, main,
                   sync, history>>

\* applyInFolder: the flag is stored on the server, which numbers the change.
ApplyOnServer(t) ==
    /\ LET ms == inflateMessages(t)
           new(m) == Apply(server.flags[m], task[t].change)
           hit == {m \in ms : new(m) # server.flags[m]}
           seq == IF hit = {} THEN server.modseq ELSE server.modseq + 1
       IN server' = [modseq |-> seq,
                     flags |-> [m \in Message |-> IF m \in hit THEN new(m)
                                                  ELSE server.flags[m]],
                     changed |-> [m \in Message |-> IF m \in hit THEN seq
                                                    ELSE server.changed[m]]]
    /\ lastRow' = task[t].rowid

\* The messages were read outside of any transaction, at the same moment.
StoreOnServer(t) ==
    /\ remote.pc = "ready" /\ IsNext(t)
    /\ t \notin remote.cancelled
    /\ ApplyOnServer(t)
    /\ remote' = [remote EXCEPT !.pc = "stored", !.msgs = inflateMessages(t)]
    /\ UNCHANGED <<now, bodies, crashes, stored, db, cursor, task, main, sync,
                   holders, latest, miscounted, skipped>>

\* applyInFolder throws a SyncException, before the server has done it or
\* after: the task is over, with an error. No lock is released and nothing
\* is tried again.
StoreFails(t) ==
    /\ "offline" \in Faults
    /\ remote.pc = "ready" /\ IsNext(t)
    /\ t \notin remote.cancelled
    /\ ApplyOnServer(t) \/ UNCHANGED <<server, lastRow>>
    /\ SaveDone(t, "complete", TRUE)
    /\ UNCHANGED <<now, bodies, crashes, stored, db, cursor, main, sync,
                   holders, latest, miscounted, skipped>>

\* The transaction of performRemoteChangeOnMessages: the messages are loaded
\* again and the lock of those that were part of the STORE is decremented.
ReleaseLocks(t) ==
    /\ remote.pc = "stored" /\ IsNext(t)
    /\ LET ms == inflateMessages(t) \cap remote.msgs IN
       /\ db' = [m \in Message |->
                   IF m \in ms
                   THEN [flags |-> db[m].flags, suc |-> db[m].suc - 1,
                         syncedAt |-> IF db[m].suc = 1 THEN now ELSE db[m].syncedAt]
                   ELSE db[m]]
       /\ holders' = [m \in Message |->
                        IF m \in ms THEN holders[m] \ {t} ELSE holders[m]]
       /\ miscounted' = miscounted \cup {m \in ms : t \notin holders[m]}
    /\ remote' = [remote EXCEPT !.pc = "released", !.msgs = {}]
    /\ UNCHANGED <<now, bodies, crashes, server, stored, cursor, task, main,
                   sync, latest, skipped, lastRow>>

SaveComplete(t) ==
    /\ remote.pc = "released" /\ IsNext(t)
    /\ SaveDone(t, "complete", FALSE)
    /\ UNCHANGED <<now, bodies, crashes, server, stored, db, cursor, main,
                   sync, history>>

-----------------------------------------------------------------------------
(* The workers: syncFolderChangesViaCondstore of this folder.              *)

\* The Folder row is loaded, and with it the cursor. The foreground worker
\* only gets here when its query for "remote" tasks returned nothing.
LoadFolder(w) ==
    /\ sync[w].pc = "idle"
    /\ w = "fg" => RemoteIdle /\ Pending = {}
    /\ sync' = [sync EXCEPT ![w] = [IdleSync EXCEPT !.pc = "folder", !.base = cursor]]
    /\ UNCHANGED <<now, bodies, crashes, server, stored, db, cursor, task,
                   main, remote, history>>

\* syncDataTimestamp = time(0). With nothing new on the server the worker goes
\* on to the bodies.
Answered(w, modseq) ==
    sync' = [sync EXCEPT ![w] =
               [@ EXCEPT !.pc = IF modseq = sync[w].base THEN "apply" ELSE "status",
                         !.goal = modseq, !.ts = now]]

\* The foreground worker does not look at the error of folderStatus and goes
\* on with a status that is all zero.
StatusOf(w) ==
    IF w = "fg" /\ "status" \in Faults THEN {server.modseq, 0} ELSE {server.modseq}

\* session.folderStatus
QueryStatus(w) ==
    /\ sync[w].pc = "folder"
    /\ \E modseq \in StatusOf(w) : Answered(w, modseq)
    /\ UNCHANGED <<now, bodies, crashes, server, stored, db, cursor, task,
                   main, remote, history>>

\* Only the foreground worker truncates: it passes mustSyncAll = false. The
\* difference is unsigned, so that a goal behind the base counts as far away.
Truncated(w) ==
    w = "fg" /\ (\/ sync[w].goal < sync[w].base
                 \/ sync[w].goal - sync[w].base > TruncationGap)

\* The UIDs of the request. A status that failed has uidNext 0, and then the
\* recent ones begin with the first.
Asked(w) == IF Truncated(w) /\ sync[w].goal # 0 THEN Recent ELSE Message

\* session.syncMessagesByUID: the flags, now, of what changed since base.
Fetch(w) ==
    /\ sync[w].pc = "status"
    /\ LET got == {m \in Asked(w) : server.changed[m] > sync[w].base}
       IN sync' = [sync EXCEPT ![w] =
                     [@ EXCEPT !.pc = "apply", !.todo = got,
                               !.seen = [m \in Message |-> IF m \in got
                                           THEN server.flags[m] ELSE NoFlags]]]
    /\ UNCHANGED <<now, bodies, crashes, server, stored, db, cursor, task,
                   main, remote, history>>

\* Faulty variant: INSERT OR REPLACE, without looking for the row first.
ReplaceMessage(w, m) ==
    /\ sync[w].pc = "apply" /\ m \in sync[w].todo
    /\ stored' = stored \cup {m}
    /\ db' = [db EXCEPT ![m] = [flags |-> sync[w].seen[m], suc |-> 0,
                                syncedAt |-> sync[w].ts]]
    /\ sync' = [sync EXCEPT ![w].todo = @ \ {m}]
    /\ UNCHANGED <<now, bodies, crashes, server, cursor, task, main, remote,
                   history>>

\* A message without a row: insertMessage. When another worker inserts it
\* first the constraint fails and the row is found after all, which is
\* FindLocal at that moment.
InsertMessage(w, m) ==
    /\ sync[w].pc = "apply" /\ m \in sync[w].todo
    /\ m \notin stored
    /\ stored' = stored \cup {m}
    /\ db' = [db EXCEPT ![m] = [flags |-> sync[w].seen[m], suc |-> 0,
                                syncedAt |-> sync[w].ts]]
    /\ sync' = [sync EXCEPT ![w].todo = @ \ {m}]
    /\ UNCHANGED <<now, bodies, crashes, server, cursor, task, main, remote,
                   history>>

\* store->find<Message>: the worker now holds a copy of the row.
FindLocal(w, m) ==
    /\ sync[w].pc = "apply" /\ m \in sync[w].todo
    /\ m \in stored
    /\ sync' = [sync EXCEPT ![w] = [@ EXCEPT !.pc = "found", !.found = {m},
                                             !.copy = db[m]]]
    /\ UNCHANGED <<now, bodies, crashes, server, stored, db, cursor, task,
                   main, remote, history>>

NextMessage(w, m) ==
    sync' = [sync EXCEPT ![w] = [@ EXCEPT !.pc = "apply",
                                          !.todo = sync[w].todo \ {m},
                                          !.found = {}, !.copy = NoRow]]

\* updateMessage, first early return: the copy says the row is newer.
UpdateIgnored(w, m) ==
    /\ sync[w].pc = "found" /\ m \in sync[w].found
    /\ sync[w].copy.syncedAt > sync[w].ts
    /\ NextMessage(w, m)
    /\ skipped' = IF sync[w].copy.flags = sync[w].seen[m]
                  THEN skipped ELSE skipped \cup {m}
    /\ UNCHANGED <<now, bodies, crashes, server, stored, db, cursor, task,
                   main, remote, holders, latest, miscounted, lastRow>>

\* updateMessage, second early return: nothing to change.
UpdateSame(w, m) ==
    /\ sync[w].pc = "found" /\ m \in sync[w].found
    /\ sync[w].copy.syncedAt <= sync[w].ts
    /\ sync[w].copy.flags = sync[w].seen[m]
    /\ NextMessage(w, m)
    /\ skipped' = skipped \ {m}
    /\ UNCHANGED <<now, bodies, crashes, server, stored, db, cursor, task,
                   main, remote, holders, latest, miscounted, lastRow>>

\* Faulty variant: the time stamps are not compared.
UpdateUnchecked(w, m) ==
    /\ sync[w].pc = "found" /\ m \in sync[w].found
    /\ sync[w].copy.flags # sync[w].seen[m]
    /\ db' = [db EXCEPT ![m] = [flags |-> sync[w].seen[m],
                                suc |-> sync[w].copy.suc,
                                syncedAt |-> sync[w].ts]]
    /\ miscounted' = IF db[m] = sync[w].copy THEN miscounted ELSE miscounted \cup {m}
    /\ skipped' = skipped \ {m}
    /\ NextMessage(w, m)
    /\ UNCHANGED <<now, bodies, crashes, server, stored, cursor, task, main,
                   remote, holders, latest, lastRow>>

\* updateMessage, the transaction: the copy, lock counter included, is
\* written over whatever the row is by now.
UpdateMessage(w, m) ==
    /\ sync[w].pc = "found" /\ m \in sync[w].found
    /\ sync[w].copy.syncedAt <= sync[w].ts
    /\ sync[w].copy.flags # sync[w].seen[m]
    /\ db' = [db EXCEPT ![m] = [flags |-> sync[w].seen[m],
                                suc |-> sync[w].copy.suc,
                                syncedAt |-> sync[w].ts]]
    /\ miscounted' = IF db[m] = sync[w].copy THEN miscounted ELSE miscounted \cup {m}
    /\ skipped' = skipped \ {m}
    /\ NextMessage(w, m)
    /\ UNCHANGED <<now, bodies, crashes, server, stored, cursor, task, main,
                   remote, holders, latest, lastRow>>

\* syncMessageBodies, before the folder is saved: one transaction reads the
\* row and reserves the body, which nobody asks the server for again.
ReserveBody(w, m) ==
    /\ sync[w].pc = "apply" /\ sync[w].todo = {}
    /\ m \in (Wanted \cap stored) \ bodies
    /\ bodies' = bodies \cup {m}
    /\ sync' = [sync EXCEPT ![w] = [@ EXCEPT !.pc = "body", !.found = {m},
                                             !.copy = db[m]]]
    /\ UNCHANGED <<now, crashes, server, stored, db, cursor, task, main,
                   remote, history>>

\* idleCycleIteration begins with the bodies the client needs.
WantBody(m) ==
    /\ "fg" \in Worker /\ sync["fg"].pc = "idle" /\ RemoteIdle
    /\ m \in Wanted \cap stored
    /\ sync' = [sync EXCEPT !["fg"] = [@ EXCEPT !.pc = "wanted", !.found = {m},
                                                !.copy = db[m]]]
    /\ UNCHANGED <<now, bodies, crashes, server, stored, db, cursor, task,
                   main, remote, history>>

AfterBody(w) ==
    sync' = [sync EXCEPT ![w] =
               IF sync[w].pc = "wanted" THEN IdleSync
               ELSE [sync[w] EXCEPT !.pc = "apply", !.found = {}, !.copy = NoRow]]

\* retrievedMessageBody: the body is stored, and the row the worker read
\* before it asked the server is saved, whatever the row is by now.
StoreBody(w, m) ==
    /\ sync[w].pc \in {"body", "wanted"} /\ m \in sync[w].found
    /\ db' = [db EXCEPT ![m] = sync[w].copy]
    /\ bodies' = bodies \cup {m}
    /\ miscounted' = IF db[m] = sync[w].copy THEN miscounted ELSE miscounted \cup {m}
    /\ AfterBody(w)
    /\ UNCHANGED <<now, crashes, server, stored, cursor, task, main, remote,
                   holders, latest, skipped, lastRow>>

\* An ErrorFetch is ignored, any other error thrown.
BodyFails(w) ==
    /\ "offline" \in Faults
    /\ sync[w].pc \in {"body", "wanted"}
    /\ AfterBody(w) \/ sync' = [sync EXCEPT ![w] = IdleSync]
    /\ UNCHANGED <<now, bodies, crashes, server, stored, db, cursor, task,
                   main, remote, history>>

\* Faulty variant: the cursor is what the server says after the fetch.
SaveCursorLate(w) ==
    /\ sync[w].pc = "apply" /\ sync[w].todo = {}
    /\ cursor' = server.modseq
    /\ sync' = [sync EXCEPT ![w] = IdleSync]
    /\ UNCHANGED <<now, bodies, crashes, server, stored, db, task, main,
                   remote, history>>

\* Faulty variant: the status that was loaded is saved again.
SaveCursorStale(w) ==
    /\ sync[w].pc = "apply" /\ sync[w].todo = {}
    /\ cursor' = sync[w].base
    /\ sync' = [sync EXCEPT ![w] = IdleSync]
    /\ UNCHANGED <<now, bodies, crashes, server, stored, db, task, main,
                   remote, history>>

\* LS_HIGHESTMODSEQ is set if there was something new, and saveFolderStatus
\* merges what has been set into the row.
SaveCursor(w) ==
    /\ sync[w].pc = "apply" /\ sync[w].todo = {}
    /\ cursor' = IF sync[w].goal = sync[w].base THEN cursor ELSE sync[w].goal
    /\ sync' = [sync EXCEPT ![w] = IdleSync]
    /\ UNCHANGED <<now, bodies, crashes, server, stored, db, task, main,
                   remote, history>>

\* The request throws: what was applied stays, the cursor is not saved.
SyncThrows(w) ==
    /\ "offline" \in Faults
    /\ sync[w].pc \in {"folder", "status"}
    /\ sync' = [sync EXCEPT ![w] = IdleSync]
    /\ UNCHANGED <<now, bodies, crashes, server, stored, db, cursor, task,
                   main, remote, history>>

-----------------------------------------------------------------------------
(* The environment.                                                        *)

\* The server gives each change to a message the next number.
Touch(m, flags) ==
    /\ server.modseq < MaxModSeq
    /\ server' = [modseq |-> server.modseq + 1,
                  flags |-> [server.flags EXCEPT ![m] = flags],
                  changed |-> [server.changed EXCEPT ![m] = server.modseq + 1]]
    /\ UNCHANGED <<now, bodies, crashes, stored, db, cursor, task, main,
                   remote, sync, history>>

\* Another client of the account changes a flag.
OtherClient(m, a) ==
    /\ server.changed[m] > 0
    /\ Touch(m, [server.flags[m] EXCEPT ![a] = ~@])

\* A message of the thread is delivered to the folder.
Deliver(m) ==
    /\ server.changed[m] = 0
    /\ Touch(m, server.flags[m])

Tick ==
    /\ now < MaxTime
    /\ now' = now + 1
    /\ UNCHANGED <<bodies, crashes, server, stored, db, cursor, task, main,
                   remote, sync, history>>

\* The process is killed and started again: the database is what it was, and
\* cleanupTasksAfterLaunch removes the tasks that are still "local".
Crash ==
    /\ crashes < MaxCrashes
    /\ crashes' = crashes + 1
    /\ task' = [t \in Task |-> IF task[t].status = "local"
                               THEN [task[t] EXCEPT !.status = "removed"]
                               ELSE task[t]]
    /\ main' = "idle"
    /\ remote' = IdleRemote
    /\ sync' = [w \in Worker |-> IdleSync]
    /\ UNCHANGED <<now, bodies, server, stored, db, cursor, history>>

-----------------------------------------------------------------------------
\* What the client can ask for: some messages it knows, or the thread.
ClientChange ==
    {c \in Change : \/ "thread" \in Scopes /\ c.byThread /\ c.msgs = {}
                    \/ "ids" \in Scopes /\ ~c.byThread
                       /\ c.msgs # {} /\ c.msgs \subseteq stored}

MainStep == \E t \in Task : PerformLocal(t) \/ MarkRemote(t)
RemoteStep ==
    \/ LoadTasks
    \/ \E t \in Task : \/ PerformCancelled(t) \/ StoreOnServer(t) \/ StoreFails(t)
                       \/ ReleaseLocks(t) \/ SaveComplete(t)
ApplyStep(w) ==
    \E m \in Message : \/ InsertMessage(w, m) \/ FindLocal(w, m)
                       \/ UpdateIgnored(w, m) \/ UpdateSame(w, m)
                       \/ UpdateMessage(w, m)
BodyStep(w) == \/ BodyFails(w)
               \/ \E m \in Message : ReserveBody(w, m) \/ StoreBody(w, m)
SyncStep(w) == \/ LoadFolder(w) \/ QueryStatus(w) \/ Fetch(w)
               \/ ApplyStep(w) \/ BodyStep(w) \/ SaveCursor(w) \/ SyncThrows(w)

Next ==
    \/ \E t \in Task : \/ \E c \in ClientChange : SaveTask(t, c)
                       \/ Cancel(t)
    \/ MainStep
    \/ RemoteStep
    \/ \E w \in Worker : SyncStep(w)
    \/ \E m \in Message : WantBody(m)
    \/ \E m \in Message : Deliver(m) \/ \E a \in Attr : OtherClient(m, a)
    \/ Tick
    \/ Crash

Spec == Init /\ [][Next]_vars

\* The background worker goes round for ever: between two rounds it sleeps for
\* a limited time. The foreground worker, which may wait without a limit, owes
\* nothing, nor do the user, the other clients and the clock.
FairSpec == Spec /\ \A w \in Worker \cap {"bg"} : WF_vars(SyncStep(w))

-----------------------------------------------------------------------------
(* Safety.                                                                 *)

\* The lock counter of a row is the number of tasks that still hold it,
\* except where a lost update or a release without a lock broke the count.
LockCount ==
    \A m \in Message \ miscounted : db[m].suc = Cardinality(holders[m])

\* What the user last did to a message is what the database shows for as
\* long as the task holds the lock: sync does not revert it, whatever it
\* fetches and whenever it does. The same exception applies.
PendingChangeVisible ==
    \A m \in Message \ miscounted, a \in Attr : \A t \in latest[m][a] :
        t \in holders[m] => db[m].flags[a] = task[t].change.val

\* The comment of performLocalChangeOnMessages promises it for every message.
LocalChangeNeverReverted ==
    \A m \in Message, a \in Attr : \A t \in latest[m][a] :
        t \in holders[m] => db[m].flags[a] = task[t].change.val

\* When one worker syncs the folder, a change the cursor has passed is in the
\* row, or was ignored in favour of a lock and counted as skipped.
CursorCovers ==
    \A m \in Message :
        server.changed[m] \in 1..cursor =>
            /\ m \in stored
            /\ \/ db[m].flags = server.flags[m]
               \/ m \in skipped
               \/ holders[m] # {}

\* STOREs reach the server in the order in which the user acted, also when
\* a crash makes the worker run a task again.
StoredInOrder == [][lastRow' >= lastRow]_lastRow

-----------------------------------------------------------------------------
(* Liveness.                                                               *)

\* Once the server rests, every row that no task holds shows the server's
\* flags: what the comment on truncated requests promises of the deep scan.
FlagsConverge ==
    <>[](\A m \in stored \ skipped : holders[m] = {} => db[m].flags = server.flags[m])

\* Once the server rests, the cursor reaches it and stays there.
CursorCatchesUp == <>[](cursor = server.modseq)
=============================================================================
