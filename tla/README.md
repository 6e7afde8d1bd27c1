# Mailspring-Sync in TLA+

Specifications of the sync engine in `src/MailSync`: TLA+ modules translated from
the C++ source, TLC configurations that check them on small instances, and
proofs for TLAPS. `PROJECT.json` maps every definition to the lines it models
and lists the runs, the hazards, the findings and the theorems.

    tlc -workers 2 -config MessageSyncInbox.cfg MCMessageSync
    tlapm MessageSyncProofs.tla

## 1. The system

One `mailsync` process syncs one account between an IMAP server, an SQLite
database and a client (the Mailspring application), which sends packets on stdin
and reads changed objects from stdout. It is killed without notice and restarted.

| component | state | operations | interacts with |
|---|---|---|---|
| main thread (`main.cpp`) | wake flags | `queue-task`, `cancel-task`, `need-bodies`, `wake-workers` | calls `TaskProcessor::performLocal`, wakes the workers |
| foreground worker (`SyncWorker::idleCycleIteration`) | IMAP session, unlink phase of its own, queue of bodies | bodies, `performRemote` of tasks, sync of the inbox, IDLE | tasks, messages, inbox folder |
| background worker (`SyncWorker::syncNow`) | IMAP session, unlink phase, loop counter | folder list, every folder in turn, deletion of unlinked rows | messages, folders |
| tasks (`TaskProcessor`) | Task rows: `local`, `remote`, `complete`, `cancelled` | `performLocal`, `performRemote`, `cancel`, clean-up at launch and at run time | messages, server |
| messages (`MailProcessor`, `Models/Message`) | Message rows with lock counter `_suc`, time `_sa`, UID and folder | insert, update, unlink, delete, body | threads |
| folder status (`Models/Folder`) | `localStatus`: uidnext, lowest synced UID, modseq cursor, times of scans | `saveFolderStatus` (a merge) | both workers |
| folder list (`SyncWorker::syncFoldersAndLabels`, category tasks) | Folder rows, known by the hash of their first path; one role each | list and transaction per round; create, rename, delete, move a role | main thread, both workers, server |
| threads (`Models/Thread`) | counters per folder and label | differences on every saved message | messages |
| store (`MailStore`) | one connection per thread, deltas of the open transaction | begin, commit, rollback, save, remove | delta stream |
| delta stream (`DeltaStream`) | buffer per class, scheduled flush | emit, merge, flush | client |
| metadata (`MetadataWorker`, `MetadataExpirationWorker`) | cursor, waiting table, wake time | page, stream, expire | models, client |
| contacts, calendars (`DAVWorker`, `GoogleContactsWorker`) | etags, sync tokens | difference, fetch, write back | server, tasks |
| tokens (`XOAuth2TokenManager`) | cache | refresh under one mutex | all sessions |

What makes it hard: three threads change the same rows; `SyncWorker` reads rows,
asks the network and writes rows later; a transaction protects the write and not
the read that led to it; the process may die between any two transactions;
a message is moved on the server by one step and appears here as a deletion and
an insertion, in either order.

What makes each component correct:

* **Message lock**: a change of the user is visible from `performLocal` until the
  server has it; the lock is released once per holder; nothing the server
  changed is lost for ever; tasks finish, in order, unless the worker is not woken.
* **Folder scan**: a row is deleted only when its message is gone; a moved message
  survives; once the server rests, the rows are what the server has.
* **Tasks**: each queued task ends; clean-up does not remove one that is pending.
* **Sending**: a draft is sent at most once, and one copy ends in the sent folder.
* **Wake-up**: a bell sends the worker to its tasks; it is lost in no other way than two that are known.
* **Store and deltas**: what the client has seen last of an object is its row.
* **Folder list**: after an undisturbed list, the rows are the folders of the server; a role has one folder, and
  each role that a folder claims is given.
* **Threads**: the counters are the recount of the thread's messages.
* **Metadata**: an object has the newest version; an expiration is announced in time.
* **Contacts and calendars**: after a run, the local etags are the remote ones.

## 2. Modules

| module | what it is |
|---|---|
| `MessageSync` | one folder with CONDSTORE, flag tasks, the message lock, bodies |
| `MCMessageSync` | its instance for TLC (symmetry of tasks) |
| `MessageSyncProofs` | types, the lock, the order of STOREs and the cursor, proved; and that `ForegroundTasks` behaves as `MessageSync` |
| `ForegroundTasks` | `MessageSync` composed with `Wakeup`: tasks for a worker that may not be awake |
| `FolderSync` | several folders without CONDSTORE, ranges of UIDs, unlink and delete |
| `MCFolderSync` | its instance for TLC (symmetry of messages) |
| `FolderSyncProofs` | types, the grace of unlinked messages and what a round keeps, proved |
| `ClientFeed` | abstract: what deltas promise to the client |
| `DeltaStream` | transactions, their deltas, the buffer and the flush thread; implements `ClientFeed` |
| `MCDeltaStream` | its instance for TLC |
| `DeltaStreamProofs` | types, the buffer, the refinement and the client's view, proved |
| `SendDraft` | the life of a SendDraftTask: gateway, sent folder, draft, crashes |
| `SendQueue` | `SendDraft` composed with `Wakeup`: a send for a worker that may not be awake |
| `MCForeground` | `ForegroundTasks` and `SendQueue` for TLC, with the fairness of the foreground worker |
| `ServerMove` | a ChangeFolderTask on the server: copy, flag, expunge, and the search for the new UIDs |
| `TaskProofs` | `SendDraft` and `ServerMove`: types and all their safety properties, proved; and that `SendQueue` behaves as `SendDraft` |
| `Wakeup` | abstract: what a worker that waits may rely on |
| `ForegroundIdle` | how the main thread wakes the parked foreground worker; the queue of bodies; implements `Wakeup` |
| `ForegroundIdleProofs` | types, "not left parked" and the refinement of `Wakeup`, proved |
| `ThreadCounts` | the counters of a thread, kept by differences, against a recount |
| `Metadata` | the metadata stream: cursor, pages, deltas, what waits for its object |
| `RecordProofs` | `ThreadCounts` and `Metadata`: types, the counters, the cursor and the agreement with the server, proved |
| `CardSync` | an address book: the difference of etags against tasks and other clients |
| `FolderList` | the rows of the folders and their roles, against category tasks and other clients |
| `ListProofs` | `CardSync` and `FolderList`: types and all their safety properties, proved |
| `MCComponents` | `DeltaStream`, `SendDraft`, `ServerMove`, `ForegroundIdle`, `ThreadCounts`, `Metadata`, `CardSync` and `FolderList` for TLC, in one run |
| `ComponentsProofs` | what is proved of these components alone holds of that run's specification |

The definitions whose comment begins with "Faulty variant" are not part of any
specification: each is a plausible mistake in the code, used to see that a
property notices it.

### 2.1 MessageSync

State: `db` (rows: flags, `suc`, `syncedAt`), `stored` (which rows exist), `bodies`,
`cursor` (`LS_HIGHESTMODSEQ` as saved), `task` (Task rows), `main` and `remote`
(program counters of `performLocal` and `performRemote`), `sync[w]` (what each worker holds in
local variables: base and goal of the cursor, time of the fetch, fetched flags,
the copy of the row it works on), `server` (flags and modseq). Five history variables
(`holders`, `latest`, `miscounted`, `skipped`, `lastRow`) only serve the properties.

| code | actions |
|---|---|
| `performLocal`: save, transaction, save | `SaveTask`, `PerformLocal`, `MarkRemote` |
| `cancel` | `Cancel` |
| query of `remote` tasks in `idleCycleIteration` | `LoadTasks`, `IsNext` |
| `performRemote` of a flag task | `PerformCancelled`, `StoreOnServer`, `StoreFails`, `ReleaseLocks`, `SaveComplete` |
| `syncFolderChangesViaCondstore` | `LoadFolder`, `QueryStatus`, `Fetch`, `InsertMessage`, `FindLocal`, `UpdateIgnored`, `UpdateSame`, `UpdateMessage`, `SaveCursor`, `SyncThrows` |
| `syncMessageBodies`, `syncMessageBody`, `retrievedMessageBody` | `ReserveBody`, `WantBody`, `StoreBody`, `BodyFails` |
| `cleanupTasksAfterLaunch` after a kill | `Crash` |
| server and other clients (external) | `ApplyOnServer`, `OtherClient`, `Deliver`, `Touch`, `Tick` |

Properties: `LockCount` (the counter is the number of holders), `PendingChangeVisible`
(no revert while the lock is held), `CursorCovers` (a change behind the cursor is in
the row), `StoredInOrder`, and the liveness property `CursorCatchesUp`. That tasks end is `TasksFinish` of `ForegroundTasks` (2.11).

`StoredInOrder` rests on the order in which SQLite returns the rows. The query at `SyncWorker.cpp:144` has no ORDER BY; it is answered from the
index `TaskByStatus`, whose entries of one account and status are in the order of the rowids, which is the order that `IsNext` has.
A query plan that did not use an index of this kind would be another program: the mutant `IsAny` is that program, and breaks the property.

A folder that has nothing new (`Answered`, `SyncWorker.cpp:840`) is not fetched, but its bodies are (`SyncWorker.cpp:205`). After a status that failed, the
foreground worker has a uidNext of 0, so that its truncated range begins with the first UID (`Asked`).

`miscounted` collects the messages whose lock was lost because a worker wrote
a row that had changed since it was read, or released by a task that had not taken it (a
message that joined a thread later, or a task run again after a crash). The first
two properties except these messages: the code does lose the lock there. The finding
`LocalChangeNeverReverted` is the same statement without the exception.

### 2.2 FolderSync

State: `server` and `uidnext` (UID of each message in each folder), `validity`, `row`
(folder and UID of each row, or unlinked with a phase), `locked`, `status` (the saved
`localStatus`), `round` (where the background worker is in its loop, and `iterations`), `scan[w]` (the local
variables of a range scan), `phase` of each worker, history of who unlinked what
and since when a message rests.

| code | actions |
|---|---|
| `syncNow`, one folder after the other | `StartRound`, `BeginFolder`, `ResetFolder`, `UnlinkAll`, `SkipFolder`, `PlanFolder`, `SaveStatus` |
| `syncFolderUIDRange` | `ListLocal`, `FetchRange`, `FetchHeaders`, `InsertMessage`, `FindLocal`, `UpdateIgnored`, `UpdateMessage`, `UnlinkGone` |
| end of `syncNow` | `FlipPhase`, `DeleteUnlinked` |
| inbox scan of the foreground worker | `BeginInbox` and the range actions |
| lock of a task | `Lock`, `Release` |
| a throw, a kill | `Throws`, `Crash` |
| server and other clients (external) | `Deliver`, `Move`, `Copy`, `Expunge`, `Renumber` |

Properties: `Grace` (nothing is deleted in the round that unlinked it), `SettledKept`
(a message that rests in a folder for a whole round is not deleted at its end), `Converges`.

### 2.3 DeltaStream

State: `db` and `draft` (committed rows, and rows as the open transaction sees them; a row is a
stamp, its content), `found[s]` (models a thread holds whose version is above 0), `pending[s]`
(`_transactionDeltas`), `sending[s]` (what `emit` has yet to queue), `pc[s]`, and the stream's `buffer`
(per class), `scheduled`, `due` (the delay behind `scheduledTime`) and `flusher` (the detached thread: waiting, or woken
and holding `bufferFlushMtx`). `view` is what the client shows, and `told` what it would show if no delta were buffered.

| code | actions |
|---|---|
| `find` | `Find` |
| `MailStoreTransaction`, `beginTransaction`, `commitTransaction`, `rollbackTransaction` | `Begin`, `Commit`, `Rollback` |
| `save`, `remove`, `_emit` in and out of a transaction | `Save`, `Remove`, `SaveAlone`, `RemoveAlone` |
| `unsafeEraseTransactionDeltas` | `Erase` |
| `emit`: `queueDeltaForDelivery` and merging, `flushWithin` | `EmitOne`, `FlushWithin`, `Notify` |
| the flush thread, `flushBuffer` | `Wake`, `Flush` |

The two mutexes are in the guards: `bufferMtx` is held across steps only by a store in `notify`, `bufferFlushMtx`
only by a flush thread that has woken. Time is not modelled: a flush thread may wake at any moment, since the time may
have come, it may have been notified, or `wait_until` may return for no reason.

Properties:

* `BufferFaithful`: `ClientFeed` is implemented. A flush shows exactly what printing each delta at once would
  have shown, whatever was merged, and what only the first delta of a message has (`headersSyncComplete`) survives.
* `NothingForgotten` and `FlushedOrStuck`: a buffered delta has a flush coming, and is printed unless the
  two threads have locked each other out.
* `ClientUpToDate`: when nothing about an object is on its way, the client shows its row. The exceptions are collected
  in `excused`, object by object and until it changes again undisputed: its deltas were erased (internal
  fields); its last delta is of no row (an UPDATE of a row that has gone, or what a rollback has left behind);
  or another thread was still emitting an older one when it was committed, and the two may arrive in either order.

### 2.4 SendDraft

State: `row` and `taken` (the Task row, and the model of it that the worker holds and will save), `at`, `next` (position in
`performRemoteSendDraft`, recipient of the loop), `draftAt`, `sentBox`, `synced`, and the gateway (external): `gateway`, `owed`.
`got`, `handed`, `early` and `mishap` are history.

| code | actions |
|---|---|
| `queue-task`, `performLocal`, `cancel` on the main thread | `QueueSend`, `LocalSend`, `CancelSend` |
| `performRemote`: load, cancel, the marker against a second run | `Load`, `Start` |
| building the mail; the loop over `smtp.sendMessage` | `Prepare`, `Send` |
| removal of the remote draft, the scan of the sent folder, `appendMessage` | `RemoveRemoteDraft`, `Scan`, `AppendSent` |
| fetch of the copy, `store->remove(&draft)`, `insertFallbackToUpdateMessage` | `Fetch`, `InsertSent` |
| a kill and `cleanupTasksAfterLaunch` | `KillSend` |
| the gateway files in its own time (external) | `FileLate` |

Properties: `SentOncePerTask` (nobody gets more mails than tasks were queued, whatever is killed when), `DraftKept`, `ReportTrue`
(whom a failed task names), `SuccessTrue`, `CancelledUnsent`, `OneSentCopy`. That a send ends is `SendEnds` of `SendQueue` (2.11).
`OneSentCopy` counts as a `mishap` a request that fails, a kill, and a copy that the gateway files after the second scan. The code cannot know of the
last: the property covers the gateway that files in time and the one that never files. `InsertSent` may find that nothing was inserted
(`TaskProcessor.cpp:1602`), and the task then ends without the body.

### 2.5 ServerMove

State: `box` and `uidNext` (copies in the two folders, UIDNEXT of the destination), `can` (MOVE, UIDPLUS), `rowOf` and `model` (folder
and UID in the rows, and in the worker's models), `step`, `uidMap` (COPYUID).

| code | actions |
|---|---|
| `performRemoteChangeOnMessages`: read the rows, and save them | `Inflate`, `SaveRows` |
| `_moveMessagesResilient`: MOVE, or COPY, STORE and EXPUNGE | `CopyMessages`, `StoreDeleted`, `Expunge`, `FailMove` |
| COPYUID, or the newest messages of the destination | `TakeUIDs`, `FindUIDs` |
| flags of the copies | `ApplyAttributes` |
| a kill: the task is still `remote` and begins again | `KillMove` |
| other clients (external) | `DeliverTarget`, `DeleteSource`, `ExpungeTarget` |

Properties: `NeverDoomed` (an undeleted copy of each message is left), `RowTrue` (no row points at another message), `MovedAndFound`.
`NeverDoomed` excepts a worker that is killed while messages are flagged for deletion (`torn`): the next run of the task moves what it can still find.
Errors within the search and of the STORE of the flags are in the model: a status that failed asks for the last message only (`FindUIDs`), a fetch that
failed is a null pointer and so a kill, and a STORE that failed leaves any of the flags unset (`ApplyAttributes`), whose error nobody looks at.

### 2.6 ForegroundIdle

State: `jobs`, `bodies` and `queue` (what the client asked for), `fg` and `holding` (where the worker is), `reloop`, `rung`, `canIdle`
(the flag, the stream, the capability), `asking`, `woke`, `waker`, `ringer` (the main thread, `queuedForegroundWake`, the detached
thread, the holder of `idleMtx`). `lost` is history.

| code | actions |
|---|---|
| packets `queue-task`, `need-bodies`, `wake-workers` | `QueueJob`, `NeedBody`, `WakeWorkers` |
| the debounce of 300 ms | `SpawnWaker`, `SetWoke`, `WakerFindsNone`, `ClearWoke` |
| `idleInterrupt` | `Raise`, `Ring` |
| `idleCycleIteration` | `ReadBody`, `PopBody`, `FetchBody`, `Connect`, `RunTasks`, `SyncInbox`, `Park`, `LeaveIdle` |
| start, exception and sleep of the thread | `StartForeground`, `Throw`, `Awake` |

Properties: `NotLeftParked`, the refinement `WakeupKept` and the liveness property `IdleServes`. `idleCv.wait` has no predicate, and `queuedForegroundWake` is set after
its thread was started and cleared after it has rung: a wake-up may be lost in these two ways, which `lost` records until the worker
next looks for tasks. The worker then stays parked until the client or, in IDLE, the clock wakes it.

`WakeupKept` says that `Wakeup` is implemented: seen by those who wait for a task, the worker is in its cycle, has looked for tasks in vain, or is
parked (`Position`), and every bell that is on its way sends a worker that has looked or is parked back to its tasks, but for those that are `missed`. `Wakeup` says so in
seven actions, where `ForegroundIdle` has flags, a stream, a condition variable and a detached thread. It is what the
modules of the tasks are composed with.

### 2.7 ThreadCounts

State: `mail` (Message rows), `thread` and `filed` (the Thread row), `counts` (its share of the table ThreadCounts), `copy` (a model a
worker holds over a request). `drifts`, `exact` and `leaked` are history.

| code | actions |
|---|---|
| `insertMessage`, `performLocalChangeOnMessages` by message | `InsertMail`, `ChangeMail` |
| `performLocalChangeOnMessages` by thread, which recounts | `ChangeThread` |
| `Message::afterRemove`, `Thread::afterRemove` | `RemoveMail` |
| `find`, a request, `save` | `HoldModel`, `SaveCopy` |

`applyMessageAttributeChanges` is the operator `ApplyMessageAttributeChanges`, with the folds `DropFolder`, `AddFolder`, `DropTag`,
`AddTag`; `Recount` says what adding all messages to empty counters comes to. Property: `CountersExact`.

### 2.8 Metadata

State: `heads` (the history of the server, external), `cursor`, `phase`, `toPage`, `position`, `partial` (the thread and its connection),
`present`, `meta`, `waiting` (rows, and the table of what waits), `held`, `unsent`. `spoiled` is history.

| code | actions |
|---|---|
| `fetchDeltaCursor`, `fetchMetadata`, `fetchDeltasBlocking` | `FetchDeltaCursor`, `FetchMetadata`, `FetchDeltas` |
| `onDeltaData`, `onDelta`, `setDeltaCursor` | `OnDelta`, `SetDeltaCursor`, `Garbled`, `Heartbeat` |
| an exception in `run`, a kill | `Retry`, `KillMetadata` |
| `beforeSave`, `afterRemove` of an object | `SaveThing`, `RemoveThing` |
| a model held over a request | `HoldThing`, `SaveHeld` |
| SyncbackMetadataTask | `LocalMetadata`, `SendMetadata` |

Properties: `CursorInclusive` (the promise of the comment in `MetadataWorker::run`), `MetadataAgrees`, and `CursorArrives` (liveness).
All three except the objects in `spoiled`: those on pages that a kill kept from being fetched (`MetadataWorker.cpp:59`), in a delta that was glued to half of
another (`:153`), or overwritten by a stale model. The code does lose these, so the properties say that nothing else is lost, and do not catch the loss itself.

### 2.9 CardSync

State: `book` (the cards of the server with their etags, external), `contact` (the rows), `errands` and `hand` (the Task rows, and where the
foreground worker is with the first), `run[w]` (where each DAVWorker is, with the lists it holds between two requests), `fresh` (UIDs that
nobody has used), `version` (the last etag and text). `failed` and `settled` are history.

| code | actions |
|---|---|
| `DAVWorker::runForAddressBook` | `ListEtags`, `Compare`, `Multiget`, `StorePage`, `FinishRun`, `RunThrows` |
| `performLocalSyncbackContact`, `performLocalDestroyContact` | `EditContact`, `HideContact` |
| `performRemoteSyncbackContact`, `writeAndResyncContact` | `LoadContact`, `PostCard`, `PutCard`, `ReadCard`, `SaveRead`, `RemoveContact` |
| `performRemoteDestroyContact`, `deleteContact` | `LoadContact`, `DeleteCard`, `RemoveContact` |
| end of `performRemote`, an exception in it | `CompleteErrand`, `FailErrand` |
| an answer without the card; a null pointer; a kill | `ReadNothing`; `NullContact`; `KillCards` |
| other clients (external) | `OtherWrites`, `OtherRemoves` |

Every version of a card has an etag of its own, in the model: a row is compared, and removed, by its etag alone (`DAVWorker.cpp:296`, the
lists of a run), so that two cards with one etag would be taken for one another. The code counts on a server that does not do that.

Property: `CardsAgree`. It excepts the contacts whose task failed, since no run looks again at a row whose etag is right. What it does not
say is that an edit survives, or that a run under way deletes nothing that was made meanwhile (`DAVWorker.cpp:300`): it says that the next run that
nobody disturbs sets the row right. A run or a read-back that was under way overwrites an edit, and the row then shows the server's text. A task whose
contact has gone before it is run dereferences a null pointer (`TaskProcessor.cpp:1128`) and does so at each launch: `NullContact`. So does one whose card was
removed between its write and the read-back, if the answer names the card without a text (`DAVWorker.cpp:232`); if it does not name it, nothing is saved (`ReadNothing`).

### 2.10 FolderList

State: `mailbox` (the folders of the server and the role that their flags say, external), `category` (the Folder rows), `chores` and `chore`
(the Task rows, and where the foreground worker is with the first), `listing` (where the background worker is, and the folders it was told),
`opened` (the foreground worker starts after the first list). `vacated`, `reborn`, `clobbered`, `died` and `quiet` are history.
The id of a row is a hash of the path the folder had when the row was made; the model takes that path for the id.

| code | actions |
|---|---|
| `syncFoldersAndLabels`, `ensureRootMailspringFolder` | `FetchAllFolders`, `EnsureRoot`, `CreateSnoozed`, `SaveList` |
| `SyncbackCategoryTask`, `DestroyCategoryTask` on the main thread | `QueueCategoryTask` |
| `performLocalChangeRoleMapping` | `ChangeRoleMapping` |
| `performRemoteSyncbackCategory`, `performRemoteDestroyCategory` | `AskServer`, `FindCategory`, `SaveCategory`, `CompleteChore`, `FailChore` |
| an INSERT that fails and ends the process, a kill | `InsertThrows`, `KillLists` |
| other clients (external) | `OtherChanges` |

Properties: `FoldersAgree`, `OneRole`, `RolesAssigned`, `DiesOnce`. A list that was disturbed is excused by `FoldersAgree`: a folder that a task made
after the list was asked for loses its row until the next list (`SyncWorker.cpp:618`). The other exceptions are what the code does, too:

* A folder that is renamed, while another with its old path comes to exist before a list is made, keeps a row with the new path for good:
  the list finds the row by its id and takes it as it is (`reborn`, `SyncWorker.cpp:618`).
* A folder that is created or renamed to the path of a row that exists, or that a list makes meanwhile, is inserted again: SQLite throws, and
  nobody catches it (`InsertThrows`). `DiesOnce` says that the next launch does not meet it again.
* A rename saves the row that it read before, with the role that the user may have given to another folder since (`clobbered`, `TaskProcessor.cpp:1205`).
* A list gives a role that no folder has to the first folder that claims it, whatever role that folder has: what the user mapped onto a
  folder that claims another role is taken back (`SyncWorker.cpp:657`). Several lists may pass until every role is given.

### 2.11 ForegroundTasks and SendQueue

`MessageSync` and `SendDraft` say what the foreground worker does with a task; these two modules say when it is there to do it. Each adds the variables of
`Wakeup` (`worker`, `bell`, `missed`) and `locked`, and takes an action of the component together with one of `Wakeup`.

| code | in `ForegroundTasks` | in `SendQueue` | with |
|---|---|---|---|
| the last save of `performLocal`; the main thread announces the task | `CommitTask` | `CommitSend` | `Commit` |
| the loop over the tasks, `performRemote` | `RunTasks` | `RunSend` | `Perform` |
| the query that finds none, and the next check of `idleShouldReloop` | `LookAround` | `LookForSend` | `Look` |
| the inbox, an exception in it | `SyncInbox` | | `Again` |
| IDLE, `idleCv.wait` (`SyncWorker.cpp:225`) | `ParkWorker` | `ParkSender` | `Park` |
| `idleInterrupt`, in time or not | `Announce` | `Announce` | `Ring`, `Lose` |
| other packets, news of the server, 28 minutes of IDLE | `WakeUp` | `WakeUp` | `Again` |
| the deadlock of `DeltaStream.cpp:164` | `LockOut` | `LockOut` | |
| a kill, and the new process | `Relaunch` | `RelaunchSender` | |

`LockOut` may strike at any step and stops every thread (`Unlocked`), which is more than the code does: only threads that emit are stopped.

Properties: `TasksFinish` and `SendEnds`. A task that was handed over ends, unless, from some time on, the threads have locked each other out or the worker is
parked after a wake-up that was lost (`ParkedInVain`). Both cases are real: the first is finding 4, the second the two windows that `lost` names in `ForegroundIdle`.
A lost wake-up does not excuse for ever: as soon as anything wakes the worker, the task is due again.

## 3. Runs

| run | question | result |
|---|---|---|
| `MessageSyncInbox` | two tasks, two workers, bodies and failing requests on one message | holds, 4.1 M states |
| `MessageSyncArchive` | a thread task that may be cancelled, a late message, a crash, one worker | holds, 1.2 M states |
| `Foreground` | do tasks, and a send, end, with a worker that waits and may not be woken? | holds, 0.6 M states |
| `MessageSyncRace` | is a local change ever reverted? | violated: finding |
| `MessageSyncTruncated` | does a truncated request lose changes? | violated: finding |
| `FolderSyncRound` | two messages moved between two folders, failing requests | holds, 3.0 M states |
| `FolderSyncFaults` | one message, every fault and a crash, background worker alone | holds, 5.3 M states |
| `FolderSyncConverges` | both workers, one message, liveness | holds, 0.3 M states |
| `FolderSyncGrace` | the grace with the foreground worker too | violated: finding |
| `DeltaStreamStuck` | is everything that is modified emitted? | violated: finding |
| `Components` | the eight components that share no state, with their failures and crashes | holds, 0.5 M states |
| `LabelUnread` | does the unread count of a label count what the comment says? | violated: finding |

`Components` checks `DeltaStream` (two threads save, remove and emit one object), `ThreadCounts`, `SendDraft`, `ForegroundIdle`, `Metadata`,
`ServerMove`, `CardSync` and `FolderList`. Its initial state chooses one of them, only that one moves, and the others rest in one of their
initial states: the run explores the sum of the eight state spaces, exactly as eight runs would, and each property is about one of them.
`PartsTypeOK` is the conjunction of their type invariants. `Foreground` has two parts in the same way: two flag tasks of `MessageSync` with every fault of
the module, and a multisend.

Findings, in short:

1. A stale row is saved over a locked one when a body arrives (`MailProcessor.cpp:340`),
   which reverts what the user did. A narrower window is at `SyncWorker.cpp:878`.
2. A truncated CONDSTORE request moves the cursor over changes it did not fetch
   (`SyncWorker.cpp:850`), and the deep scan the comment relies on does not run for
   such accounts.
3. The foreground worker's unlink phase never changes (`SyncWorker.cpp:456`), so what it has
   just unlinked may be deleted at once.
4. `flushWithin` and the flush thread take two mutexes in opposite orders (`DeltaStream.cpp:164` and `:159`). Two emits of the
   main thread in a row suffice while a worker's flush is scheduled: the first wakes the flush thread, the second meets it.
   Every thread that emits then waits for ever.
5. The unread count of a label is `a - b && c` where a sum is meant (`Thread.cpp:215` and `:289`): it becomes 0 or 1, and forgets
   unread messages of All Mail as soon as another message leaves the label or one in the trash joins it.

### Bounds

One or two messages, one flag, two tasks: the lock concerns one row at a time, and
a second message is there only where the code relates messages (a thread, a moved
pair). `MaxModSeq` of 2 or 3 leaves one or two changes by other clients
(1, in `Foreground`, leaves none: there the question is whether the tasks end; one attempt and one kill for its send);
`MaxTime` of 1 separates a fetch before from a fetch after a lock; `MaxTime < LockSpan` keeps
the clock within the 24 hours of a lock. One crash is enough to interrupt any step.
In `FolderSync`, a folder has one to three UIDs, a first request covers one of them and a shallow
scan looks back to the newest local message, so that new-message, shallow, deep and backfill ranges
differ; chunks of one message and one round of deletion (`DeleteChunk`, `DeleteRounds`) leave rows for later.
`HeaderCap` is not exceeded where `SettledKept` is checked. A round may be repeated
without limit: only deeds of other clients, faults and crashes are bounded.
`iterations` is one of -1, 0, 1: the code only compares `iterationsSinceLaunch` with zero, and the
constructor leaves it uninitialised, so its first sign is arbitrary.

In `DeltaStream`, deltas of one object are merged and judged by themselves, so one object shows all of it; four stamps
are a row that is there or not and three changes. The run that looks for the lock-out has a message and its
thread, saved in one transaction. `Delay` has the two values of the code (`main.cpp:393`, `SyncWorker.cpp:62`).

In the other components: two recipients, so that a multisend can stop between them; two tasks for one draft (the second is the user's
retry) and one kill. Two letters with UIDs in either order, one of which gets no flags; two troubles let a delivery meet a kill or a failure.
Two tasks, two bodies and two packets, one failure: a packet that is lost needs another one just before it. Two messages in a thread with a normal folder, a
spam folder and a label, and one stale save. Two objects with metadata and three deeds (a change, a fault and what another thread does).
Three cards: two in the book, and one that the user makes or whose UID the server or another client chooses; chunks of one card, so that a run has
several pages; two changes, failures or kills. Three folders, three roles of which one has a flag, and two tasks or deeds: a task and what
disturbs it (`FolderList` was also run alone with three, 1.6 M states).

### What the models leave out

* `MessageSync`: VANISHED responses, labels and folders of a message, `ChangeFolder` and
  `ChangeLabels` tasks. A body request is served when the worker is idle;
  the run of `TasksFinish` has none (`Wanted = {}` in `Foreground`), because a client that keeps asking keeps
  the tasks waiting for ever: the loop at `SyncWorker.cpp:93` ends only with the queue.
* `DeltaStream`: a kill while the buffer is not empty (the client loads the database again when it starts the process
  again), deltas that are not rows (connection errors, secrets, expirations), messages emitted again with their summary
  (`MailStore.cpp:975`), the clock. What a client does with a delta is external: `persist` replaces, `unpersist` removes.
* `SendDraft`: the MIME message, attachments, the folders and labels a copy may be given. A step between two requests is where a kill may
  come; within a request it comes before or after.
* `ServerMove`: labels, `_removeMessagesResilient` (trash, then expunge), SaveDraft and DestroyDraft. Folders keep their UIDVALIDITY. The search
  for the new UIDs is exact for the range of UIDs it asks for; `clipped` excuses it when more was delivered meanwhile than the range allows for, and when
  the destination has fewer messages than the unsigned difference assumes.
* `ForegroundIdle`: what a task or a body does (see `MessageSync`), and the time of IDLE and of the sleep: they may end at once. `RunTasks` runs all
  tasks that are there and looks again. The data race on the vector of bodies is its two real outcomes: an id is read and another one popped, or not.
* `ThreadCounts`: one thread; the counters of stars and attachments, which are computed as the unread ones are.
* `Metadata`: one plugin, one account; expirations; the times between retries. An HTTP connection delivers in order, whole or in part.
* `CardSync`: discovery of the book, groups and their members, vCards, calendars (which follow the same difference of etags), the sync tokens of
  Google. The run has one DAVWorker; the module allows several. A find and a save with no request between them are one step.
* `ForegroundTasks`, `SendQueue`: the background worker and other clients, for which no task waits; the tasks that are not run by the foreground worker.
* `FolderList`: the labels of Gmail, prefixes, the table of names (`NameRole` is a constant), the messages of a folder that is
  removed, `localStatus` (see `FolderSync`).
* `CursorCovers` and `CursorCatchesUp` are checked with one worker: two workers may move the cursor back.
* `FolderSync`: the flags of messages, CONDSTORE, Gmail labels, bodies. A range request is answered at one
  moment. Unlinking in chunks of 200 is one transaction. Moves by tasks of this client are not told from moves by others.
* `SettledKept` does not hold for a locked message, for one with copies in two folders, in a round that
  skips a folder, or below the oldest UID the backfill has reached; these cases are
  excluded by the run (first three) or in the property (the last), and are listed as hazards.

### Fairness

What no thread of this program is granted is that it gets on whatever happens: the foreground worker may wait on `idleCv` for a wake-up that was lost
(`ForegroundIdle`), and whoever emits may be locked out for good (finding 4). Fairness is assumed of threads that are not in such a place:

* `ForegroundSpec` (`MCForeground`): the foreground worker goes on unless it is parked, and a thread that is about to ring does so or fails to
  (`Announce`), both only while the threads are not locked out. That anything else wakes the worker is not assumed. `TasksFinish` and `SendEnds` name both ways out.
* `MessageSync!FairSpec`, for `CursorCatchesUp`: the background worker only. Between two rounds it sleeps for at most 120 seconds
  (`main.cpp`, `MailUtils::sleepWorkerUntilWakeOrSec`), so that it needs nobody to wake it. Its
  steps emit, so the property is about a process in which the lock-out of finding 4 does not strike.
* `FolderSync!FairSpec`, for `Converges`: the same of the background worker, under the same assumption, and of the steps within one
  scan of a range, which waits for requests only. The foreground worker is not assumed to begin any.
* Requests have time-outs; a failed one ends the round or the task, which the faults include. Where a property waits for the server, it
  is assumed that it can be reached in the end, as a failed round is tried again for ever.

Users, clients and the clock owe nothing.
`FolderSync!FairSpec` also has that a deep scan of each folder is eventually chosen when it is
possible again and again (strong fairness): the choice stands for the clock passing
`DEEP_SCAN_INTERVAL`, which it does in a process that is not restarted for ever.
`DeltaStream!FairSpec`: weak fairness of the flush thread and of each thread that is in `emit`. Both are threads with only
mutexes in their way, and `wait_until` ends at its time. That anything is saved, or committed, is not assumed.
`ComponentsSpec` has the same for `DeltaStream` and, for the others: the foreground worker (`ForegroundStep`), the main thread within a
packet (`MainStep`), the detached thread (`WakerStep`) and the metadata thread (`MetadataThread`) go on. They are threads of one process; requests
have time-outs, sleeps end, IDLE ends after 28 minutes. A worker that waits on `idleCv` has no step of its own, so fairness does not wake it, and `IdleServes` is
about connections with IDLE. Here, too, `IdleServes` and `CursorArrives` suppose that finding 4 does not strike.

## 4. Proofs

`MessageSyncProofs`, for every set of messages and flags, any finite set of tasks, both
workers, any faults, any number of crashes; the assumption that matters is `MaxTime < LockSpan`.

* `TypeCorrect`: `Spec => []TypeOK`.
* `LockInvariant`: `Spec => []LockInv`. `LockCount` and `PendingChangeVisible` are not inductive: that a
  worker writes fetched flags over a row only when nobody holds it follows from the times.
  `LockInv` adds `LockHeld` (a held row bears a time no fetch reaches), `FetchedBefore` (a fetch is in the
  past), `HoldersKnown` (only queued tasks hold locks, only on rows that exist) and `OneLocalTask` (the main thread has one task
  in its hands, which has locked nothing before its transaction).
* `LockCounted` and `ChangeKept` follow.
* `StoresOrdered`: `Spec => StoredInOrder`, from `OrderInv`: the batch of the worker is older than every unfinished
  task outside of it, and no unfinished task is older than the last STORE.
* `CursorCovered`: `Spec => []CursorCovers` when `"fg" \notin Worker`, with tasks, bodies, faults and crashes as everywhere. What is inductive is
  weaker than the property in one place and says much more in all others: a row behind the cursor agrees with the server except where a task that
  holds it *owes* a STORE (`Owes`), in the order of the tasks; that STORE will get a number above the goal of any round under way. `CoverInv`
  says so of the rows (`BehindCursor`), of the answer a round works on and of the copy of the row in its hands (`RoundOK`), and needs `LockInv`, `OrderInv`,
  `HoldersMeant` and `RowidsDistinct`. The other worker moves the cursor back, which is why it is excluded.
* `TasksBehave`: `TasksSpec => Spec` if there is a foreground worker: waiting, losing wake-ups and locking out change nothing of what
  tasks and sync do, so that every theorem above holds of `ForegroundTasks`. `TasksOrdered` is that for `StoredInOrder`, which the run `Foreground` checks.

`FolderSyncProofs`, for every set of folders and messages, all bounds and faults:

* `FolderTypeCorrect`: `Spec => []TypeOK`.
* `GraceKept`: `Spec => Grace` when the background worker is the only one. The invariant `FreshInv`
  says that what was unlinked in this round (`fresh`) bears the current phase up to the flip, and the phase
  that is not deleted after it. It is about the background worker's own phase, which is why it fails as soon as another worker
  unlinks with another one.
* `SettledKeptHolds`: `Spec => SettledKept` under `PlainRounds`, which is what the run `FolderSyncRound` has: the background worker alone, no locked
  messages, other clients that deliver, move and expunge, no folder left out, and no answer that is cut off (`HeaderCap`). Requests may fail and, other than in
  the run, the process may be killed; messages, folders, UIDs and sizes of the requests are any. The invariant is `RoundInv`. Its last three parts carry the argument:
  between the oldest UID and UIDNEXT of a *saved* status every row is in its place (`ReachedOK`); in the folders a round has done, so is that of every settled
  message (`SettledOK`); in the folder under way, so is every one whose UID no request that is still to come, or answer that is still to be applied, is due to
  mention (`CoveredOK`, `Due`). That no range leaves a gap between the chunk, the new messages and the scan is `BeginStep`; that a placed row is not
  unlinked, `GoneStep`, from `ScanOK`: what an answer did not mention is nobody's UID, now and later. `AnswerOK` says that an old answer misleads only about a message
  that moved meanwhile, whose new UID no status has reached.

`DeltaStreamProofs`, for every set of stores and objects, any classes and delays, and any bound on the stamps:

* `StreamTypeCorrect`: `Spec => []TypeOK`. `NeverForgotten`: `Spec => []NothingForgotten`, which is inductive with the types.
* `FeedImplemented`: `Spec => BufferFaithful`. The invariant `FeedInv` says that `told` is `view` after the buffered items.
  Its core is `ShownQueued`: queueing a delta changes what the items show as hearing the delta would. `Shown` is a closed form
  (the last item about an object decides), so that no induction over the buffer is needed.
* `ClientCurrent`: `Spec => []ClientUpToDate`, from `FeedInv` and `ClientInv`: one transaction is open at a time (`Turns`); the
  deltas of the open transaction end in its rows, and those a rollback left are phantom (`Noted`); an object that is not
  excused is in the hands of one store at most, whose last delta is the row (`Owed`); the first delta of a row has been
  heard or is on its way (`Introduced`).

`TaskProofs`, first part (`SendDraft`), for any non-empty sequence of recipients, any number of tasks and kills. All safety properties of the module follow from
`SendInv`: `Phases` (the row is `remote` and has no error while the worker has it, and is marked from "prepare" on), `HandOver` (while the task is `Fresh`, or in a
multisend for the recipients from `next` on, fewer mails than tasks were got: the marker is what makes this inductive), `Cancelling`,
`Success` (a marked row that no worker has means a kill) and `Filing` (what the sent folder has at each step).

* `SendTypeCorrect`, `SentOncePerTaskHolds`, `DraftKeptHolds`, `ReportTrueHolds`, `SuccessTrueHolds`, `CancelledUnsentHolds`, `OneSentCopyHolds`.
* `QueueBehaves`: `QueueSpec => SendSpec`, so that these hold of `SendQueue`; `QueueSendsOnce` is that for `SentOncePerTask`.

`TaskProofs`, second part (`ServerMove`), for any finite set of messages (none of which is the empty name, which stands for no message) and any troubles, from `MoveInv`: `SourceOK` and `TargetOK` (a UID of the destination stands for one
message and is below UIDNEXT), `RowsOK`, `ModelsOK`, `MapOK` (places in rows, models and COPYUID are those of their messages, now and
whatever is delivered later) and `Doom`: before the messages are flagged nothing is, and what is about to be flagged has an unflagged copy.

* `MoveTypeCorrect`, `NeverDoomedHolds`, `RowTrueHolds`.
* `MovedAndFoundHolds`, from `EvenInv`: while nothing uneven has happened (a failure, a kill), `Tidy` says where each message is at each step:
  one copy of it at most in a folder (`Single`), none in the destination before the copy (`Unmoved`, `ToCopy`), none in the source after EXPUNGE (`Emptied`, `Delivered`).
  `Recent` is the core: the new copies have the UIDs from the UIDNEXT before the copy on, and as long as no more than n messages came since, all are among the last 2n.
  The rest is counting: the UIDs are one to one with the messages, so the last 2n hold each of the n once (`Told`, `Found`).

`RecordProofs`, second part (`Metadata`), for any objects and any number of deeds, from `MetaInv`: `Timeline` (versions of the server grow, one object at a time),
`Stages`, `Covered` (everything up to the cursor and up to the position of the connection is known), `Detached` (only what is absent
waits), `Ceiling` (nothing newer than the server's is known, but for what is to be sent).

* `MetaTypeCorrect`, `CursorInclusiveHolds`, `MetadataAgreesHolds`.

`ForegroundIdleProofs`, for any tasks, bodies, packets and failures, from `IdleInv`: while there are bodies (`BodiesSeen`) or tasks (`TasksSeen`), the worker is
on its way to look for them, or somebody is on the way to wake it, or `reloop` is up where the worker will still check it, or the stream was told, or a wake-up
was lost. `RingFollows` and `Handles` relate the threads to their flags and mutexes.

* `IdleTypeCorrect`, `NotLeftParkedHolds`.
* `WakeupImplemented`: `IdleSpec => WakeupKept`. Each step is one of the seven of `Wakeup` or leaves its state alone (`WakeupStep`). The bell
  of the detached thread is the case that matters: when it has rung, the worker is on its way, or a wake-up was missed, or there is nothing to do; `TasksSeen` gives this.

`RecordProofs`, first part (`ThreadCounts`), for any messages, folders and labels, and any number of stale saves, from `CountInv`: while no stale model was saved, the Thread row is there
if and only if a message is, and `Counted` relates each counter to the set of rows it counts; while no row was leaked, the table has what the
Thread row has. The core is `ApplyCounts`: subtracting the snapshot and adding the message changes each cardinality as exchanging the message does.

* `ThreadTypeCorrect`, `CountersExactHolds`.

`ListProofs`, first part (`FolderList`), for any paths and roles and any number of deeds, from `ListInv`: `ToldInv` (a calm list is the list of the server),
`RowsInv` (after a calm list the rows are the folders), `PathInv` (a row has another path only if its folder was made again), `RoleInv` (two rows with one role are a task's
stale save), `ChoreInv` and `DiedInv` (where a task is that has ended the process, and that the server refuses what it asks for again) and `SettleInv`, for
`RolesAssigned`: the number of roles that are misplaced falls with every undisturbed list, so that as many lists as there are roles suffice.
The loop over the roles is a fold; that each of its rounds keeps what the next one needs is an induction over a set of numbers (`SetInduction`, from the
library's `NatLessThanWellFounded`), which the provers can do, as it takes no operator.

* `ListTypeCorrect`, `FoldersAgreeCorrect`, `OneRoleCorrect`, `RolesAssignedCorrect`, `DiesOnceCorrect`.

`ListProofs`, second part (`CardSync`), for any cards, DAVWorkers, sizes of a page and numbers of deeds, from `CardInv`. Its core is `Truth(owner, said)`: there is an account of
which card each etag was given to and which text it stands for, and everybody who has an etag in his hands (the server, a page, the card a task read back, a row) has it
with that card and that text; a row that a task has yet to deal with, or whose task failed, may show another text. The account grows with each version and no entry changes. `CalmInv` says
what a run that nobody disturbs knows of the book at each of its steps, `SettledInv` what it leaves, `HandInv` and `FreshInv` what a task holds and which UIDs
nobody has used. The proof found a flaw of the model: cards that were in the book at the start had one and the same etag, where the account cannot begin; they now
have one each, and the run has two such cards.

* `CardTypeCorrect`, `CardsAgreeCorrect`.

`ComponentsProofs`: `PartsBehave` (`ComponentsSpec` implies the specification of each of the eight components, as the one that moves takes its own steps and the others take
none), `PartsTypeCorrect` (`PartsTypeOK`), and `PartsSafe`: all twenty invariants and the two refinements that are proved of the components hold of the run in which they are
checked, whichever of them moves.

Only model-checked: the liveness properties (`TasksFinish`, `CursorCatchesUp`, `Converges`, `FlushedOrStuck`, `SendEnds`, `IdleServes`, `CursorArrives`), as fairness and ENABLED are
outside of the provers. Every other property of a passing run is proved, with two limits: `CursorCovers` without the foreground worker, and `Grace` and
`SettledKept` with the background worker alone, which is how the runs check them. The inductive invariants are stated in the modules of the
proofs; their conjuncts were tried in TLC before they were proved.

## 5. Plan

In this order, the most important behaviour first:

1. `MessageSync` (done): the lock, bodies, tasks, the cursor.
2. `FolderSync` (done): ranges, unlink phases, deletion, convergence. To prove next: `SettledKept` with copies of a message in several
   folders left out only where two scans take the row from one another.
3. `DeltaStream` (done): transactions with their deltas, buffer and flush thread against `ClientFeed`. Next: messages
   emitted again with their summary, connection errors, a restart of the process.
4. `SendDraft` (done), `ServerMove` (done), `ForegroundIdle` (done), `ThreadCounts` (done), `Metadata` (done), each with its proofs.
5. `Wakeup`, which `ForegroundIdle` implements, composed with the tasks: `ForegroundTasks` (done), `SendQueue` (done). Next: the same for
   `ServerMove` and the category tasks, and the lock-out only where a thread emits.
6. `TaskQueue`: `cleanupOldTasksAtRuntime` against tasks of every kind. `DraftTasks`: SaveDraft and DestroyDraft, `_removeMessagesResilient`.
7. `CardSync` (done), `FolderList` (done). Next: events and sync tokens beside `CardSync`, the labels of Gmail in `FolderList`.
8. `queriesForUIDRangesInIndexSet` as a pure operator against its set of UIDs.

### Not modelled

* Third-party code in `src/Vendor` (MailCore2, libetpan, SQLite, json, spdlog, curl and their build files): it is nearly all of the lines of the
  repository, and none of them is the program's own. The models see it through its calls.
* Metadata expiration: what it promises is how late an announcement may be. The models have no clock that this could be measured with.
* SQL text, JSON accessors, formatting, hashing (no behaviour of their own), the token cache (one mutex held over one
  request), logging and progress.
* Calendars, groups of contacts, Google contacts, the labels of Gmail and the remaining tasks: each is one request and one local write, or planned above.
