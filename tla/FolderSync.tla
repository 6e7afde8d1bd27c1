------------------------------ MODULE FolderSync ------------------------------
(***************************************************************************)
(* Which messages of the account have a row, and in which folder, on a     *)
(* server without CONDSTORE: SyncWorker::syncNow, syncFolderUIDRange and    *)
(* the part of MailProcessor they call.                                    *)
(*                                                                         *)
(* The background worker goes round all folders. A folder is scanned by    *)
(* ranges of UIDs: the rows are listed, the server is asked, what is new   *)
(* is inserted or linked again, and the rows the server did not mention    *)
(* are unlinked: their UID becomes UINT32_MAX - phase. A message another   *)
(* client has moved is so unlinked in one folder and linked in another;    *)
(* what is still unlinked at the end of the next round is deleted. The     *)
(* foreground worker scans the inbox in the same way, with a phase of its  *)
(* own, whenever it wakes up.                                              *)
(*                                                                         *)
(* The flags of a message are the subject of MessageSync. Here a row is a  *)
(* place, and "locked" stands for a time stamp (_sa) in the future.        *)
(***************************************************************************)
EXTENDS Integers, Sequences, FiniteSets

CONSTANTS
    Message,        \* the messages of the account
    Order,          \* its folders in the order of syncNow, the inbox first
    Worker,         \* {"bg"} or {"bg", "fg"}
    Lockable,       \* the messages the user may change
    Clients,        \* what other clients do: subset of ClientDeeds
    Faults,         \* subset of {"offline", "skip", "status"}
    MaxUID,         \* UINT32_MAX
    MaxNext,        \* bound on UIDNEXT
    MaxValidity,    \* bound on UIDVALIDITY
    MaxCrashes,     \* bound on the number of crashes
    FirstChunk, NextChunk,      \* 750 and 5000: UIDs of an initial request
    ShallowDepth, IdleDepth,    \* 399 and 100: messages a scan looks back
    HeaderCap,                  \* MAX_FULL_HEADERS_REQUEST_SIZE
    DeleteChunk, DeleteRounds   \* 100 and 10: messages deleted at a time

ClientDeeds == {"deliver", "move", "copy", "expunge", "renumber"}
Folder == {Order[i] : i \in DOMAIN Order}
Inbox == Order[1]

ASSUME FolderSyncAssumption ==
    /\ Order \in Seq(STRING) /\ Order # <<>> /\ "none" \notin Folder
    /\ \A i, j \in DOMAIN Order : Order[i] = Order[j] => i = j
    /\ IsFiniteSet(Message) /\ Lockable \subseteq Message
    /\ "bg" \in Worker /\ Worker \subseteq {"bg", "fg"}
    /\ Clients \subseteq ClientDeeds
    /\ Faults \subseteq {"offline", "skip", "status"}
    /\ MaxNext \in Nat /\ MaxUID \in Nat /\ Cardinality(Message) < MaxNext
    /\ MaxNext < MaxUID - 5
    /\ MaxValidity \in Nat /\ MaxCrashes \in Nat
    /\ FirstChunk \in Nat \ {0} /\ NextChunk \in Nat \ {0}
    /\ ShallowDepth \in Nat /\ IdleDepth \in Nat /\ HeaderCap \in Nat \ {0}
    /\ DeleteChunk \in Nat \ {0} /\ DeleteRounds \in Nat \ {0}

VARIABLES
    server,     \* the UID of each message in each folder, 0 where it is not
    validity,   \* UIDVALIDITY of each folder
    uidnext,    \* UIDNEXT of each folder
    row,        \* the Message table: remoteFolder and remoteUID
    locked,     \* the rows whose time stamp is in the future
    status,     \* the Folder table: localStatus
    phase,      \* SyncWorker::unlinkPhase of each worker
    round,      \* where the background worker is in syncNow
    scan,       \* where each worker is in the folder it syncs
    crashes,    \* how many times the process was killed
    fresh,      \* history: messages unlinked since the round began
    settled     \* history: messages that did not move since it began

vars == <<server, validity, uidnext, row, locked, status, phase, round, scan,
          crashes, fresh, settled>>
remote == <<server, validity, uidnext>>
history == <<fresh, settled>>

Nowhere == [folder |-> "none", uid |-> 0]
Place == [folder: Folder \cup {"none"}, uid: Nat]
Unlinked(p) == MaxUID - p
IsLinked(r) == r.uid <= MaxUID - 5
On(m) == {f \in Folder : server[m][f] # 0}

\* localStatus: LS_UIDVALIDITY, LS_UIDNEXT and LS_SYNCED_MIN_UID.
Status == [validity: Nat, next: Nat, min: Nat]
NoStatus == [validity |-> 0, next |-> 0, min |-> 0]

\* A request of syncFolderUIDRange. That of a shallow scan begins at a UID
\* which is looked up when its turn comes, among those below "below".
UidRange == [from: Nat, to: Nat, heavy: BOOLEAN, below: Nat]
NoRange == [from |-> 0, to |-> 0, heavy |-> FALSE, below |-> 0]
Item == [msg: Message, uid: Nat]

\* "iterations" is the sign of iterationsSinceLaunch, which the constructor
\* leaves unset: a deep scan is possible once it is positive.
Round == [at: Nat, loaded: [Folder -> Status], left: Int, iterations: -1..1]
IdleScan == [pc |-> "idle", folder |-> Inbox, init |-> NoStatus, st |-> NoStatus,
             plan |-> <<>>, range |-> NoRange, local |-> {}, need |-> {},
             todo |-> {}, gone |-> {}, newer |-> {}, later |-> FALSE,
             copy |-> Nowhere, held |-> FALSE]
Scan == [pc: {"idle", "reset", "plan", "fetch", "headers", "apply", "found"},
         folder: Folder, init: Status, st: Status, plan: Seq(UidRange),
         range: UidRange, local: SUBSET Nat, need: SUBSET Nat,
         todo: SUBSET Item, gone: SUBSET Nat, newer: SUBSET Message,
         later: BOOLEAN, copy: Place, held: BOOLEAN]

TypeOK ==
    /\ server \in [Message -> [Folder -> Nat]]
    /\ validity \in [Folder -> Nat]
    /\ uidnext \in [Folder -> Nat]
    /\ row \in [Message -> Place]
    /\ locked \subseteq Message
    /\ status \in [Folder -> Status]
    /\ phase \in [Worker -> {1, 2}]
    /\ round \in Round
    /\ scan \in [Worker -> Scan]
    /\ crashes \in Nat
    /\ fresh \subseteq Message /\ settled \subseteq Message

\* The account is new: its messages are in the inbox, the database is empty.
Init ==
    /\ \E uid \in [Message -> 1..Cardinality(Message)] :
         /\ \A m, n \in Message : uid[m] = uid[n] => m = n
         /\ server = [m \in Message |-> [f \in Folder |-> IF f = Inbox THEN uid[m] ELSE 0]]
    /\ validity = [f \in Folder |-> 1]
    /\ uidnext = [f \in Folder |-> IF f = Inbox THEN Cardinality(Message) + 1 ELSE 1]
    /\ row = [m \in Message |-> Nowhere]
    /\ locked = {}
    /\ status = [f \in Folder |-> NoStatus]
    /\ phase = [w \in Worker |-> 1]
    /\ \E n \in -1..1 :
         round = [at |-> 0, loaded |-> [f \in Folder |-> NoStatus], left |-> 0,
                  iterations |-> n]
    /\ scan = [w \in Worker |-> IdleScan]
    /\ crashes = 0 /\ fresh = {} /\ settled = {}

-----------------------------------------------------------------------------
(* What MailStore and the server are asked.                                *)

Within(r, u) == r.from <= u /\ u <= r.to
LocalUids(f) == {row[m].uid : m \in {n \in Message : row[n].folder = f}}
AtLeast(u, v) == IF u < v THEN v ELSE u

\* fetchMessageUIDAtDepth.
UidAtDepth(f, depth, before) ==
    LET below == {u \in LocalUids(f) : u < before}
        at == {u \in below : Cardinality({v \in below : v > u}) = depth}
    IN IF at = {} THEN 1 ELSE CHOOSE u \in at : TRUE

\* The UIDs a light request is followed up for: the highest ones.
Highest(uids) == {u \in uids : Cardinality({v \in uids : v > u}) < HeaderCap}

\* What the server has in a folder with one of these UIDs.
Answer(f, uids) ==
    {i \in [msg: Message, uid: uids] : server[i.msg][f] = i.uid}
RemoteUids(f) == {server[m][f] : m \in Message} \ {0}

-----------------------------------------------------------------------------
(* syncFolderUIDRange.                                                     *)

Depth(w) == IF w = "bg" THEN ShallowDepth ELSE IdleDepth

\* The next request of the plan. The start of a shallow scan is looked up
\* now; a range whose end is before its start wraps around.
NextRange(w) ==
    LET r == Head(scan[w].plan)
        from == AtLeast(UidAtDepth(scan[w].folder, Depth(w), r.below), scan[w].st.min)
    IN IF r.below = 0 THEN r
       ELSE [r EXCEPT !.from = from, !.to = IF @ < from THEN MaxUID ELSE @]

\* Step 1: fetchMessagesAttributesInRange, before the server is asked. The
\* rows that are unlinked already are in a range without end.
ListLocal(w) ==
    /\ scan[w].pc = "plan" /\ scan[w].plan # <<>>
    /\ scan' = [scan EXCEPT ![w] =
                  [@ EXCEPT !.pc = "fetch", !.range = NextRange(w),
                            !.plan = Tail(scan[w].plan),
                            !.local = {u \in LocalUids(scan[w].folder) :
                                         Within(NextRange(w), u)}]]
    /\ UNCHANGED <<remote, row, locked, status, phase, round, crashes, history>>

\* syncDataTimestamp = time(0), and the request. It is later than that of
\* the other worker by a second or more, or it is not.
Request(w, fields) ==
    \E later \in BOOLEAN :
        /\ later => \E v \in Worker \ {w} : scan[v].pc \in {"headers", "apply", "found"}
        /\ scan' = [v \in Worker |-> IF v = w
                      THEN [fields EXCEPT !.newer = {}, !.later = later]
                      ELSE [scan[v] EXCEPT !.later = FALSE]]

\* Step 2: fetchMessagesByUID. A heavy request returns the headers too;
\* after a light one they are asked for where the UID is not known.
FetchRange(w) ==
    /\ scan[w].pc = "fetch"
    /\ LET f == scan[w].folder
           uids == {u \in RemoteUids(f) : Within(scan[w].range, u)}
           new == uids \ scan[w].local
           light == ~scan[w].range.heavy /\ new # {}
       IN Request(w, [scan[w] EXCEPT !.pc = IF light THEN "headers" ELSE "apply",
                                     !.gone = scan[w].local \ uids, !.local = {},
                                     !.need = IF light THEN Highest(new) ELSE {},
                                     !.todo = IF light THEN {} ELSE Answer(f, new)])
    /\ UNCHANGED <<remote, row, locked, status, phase, round, crashes, history>>

\* The second request, with a time stamp of its own.
FetchHeaders(w) ==
    /\ scan[w].pc = "headers"
    /\ Request(w, [scan[w] EXCEPT !.pc = "apply", !.need = {},
                                  !.todo = Answer(scan[w].folder, scan[w].need)])
    /\ UNCHANGED <<remote, row, locked, status, phase, round, crashes, history>>

\* The answer is gone through from the highest UID down.
IsNext(w, i) == /\ i \in scan[w].todo
                /\ \A j \in scan[w].todo : j.uid <= i.uid

\* The worker goes on to the next message. What it wrote bears its time
\* stamp, which may be newer than that of the other worker.
Applied(w, i, written) ==
    scan' = [v \in Worker |->
               IF v = w
               THEN [scan[w] EXCEPT !.pc = "apply", !.todo = @ \ {i},
                                    !.copy = Nowhere, !.held = FALSE]
               ELSE [scan[v] EXCEPT !.newer =
                       IF scan[w].later THEN @ \cup written ELSE @]]

\* Step 4: insertMessage, where the message has no row.
InsertMessage(w, i) ==
    /\ scan[w].pc = "apply" /\ IsNext(w, i)
    /\ row[i.msg] = Nowhere
    /\ row' = [row EXCEPT ![i.msg] = [folder |-> scan[w].folder, uid |-> i.uid]]
    /\ Applied(w, i, {i.msg})
    /\ UNCHANGED <<remote, locked, status, phase, round, crashes, history>>

\* The constraint fails and the row is found: insertFallbackToUpdateMessage
\* goes on with a copy of it.
FindLocal(w, i) ==
    /\ scan[w].pc = "apply" /\ IsNext(w, i)
    /\ row[i.msg] # Nowhere
    /\ scan' = [scan EXCEPT ![w] =
                  [@ EXCEPT !.pc = "found", !.copy = row[i.msg],
                            !.held = i.msg \in locked \cup scan[w].newer]]
    /\ UNCHANGED <<remote, row, locked, status, phase, round, crashes, history>>

\* updateMessage returns early: the copy is newer than the answer, or says
\* the same.
UpdateIgnored(w, i) ==
    /\ scan[w].pc = "found" /\ IsNext(w, i)
    /\ \/ scan[w].held
       \/ scan[w].copy = [folder |-> scan[w].folder, uid |-> i.uid]
    /\ Applied(w, i, {})
    /\ UNCHANGED <<remote, row, locked, status, phase, round, crashes, history>>

\* Faulty variant: the folder of the copy is not set.
UpdateMessageStays(w, i) ==
    /\ scan[w].pc = "found" /\ IsNext(w, i)
    /\ ~scan[w].held
    /\ scan[w].copy # [folder |-> scan[w].folder, uid |-> i.uid]
    /\ row' = [row EXCEPT ![i.msg].uid = IF row[i.msg] = Nowhere THEN @ ELSE i.uid]
    /\ Applied(w, i, {i.msg})
    /\ UNCHANGED <<remote, locked, status, phase, round, crashes, history>>

\* updateMessage saves the copy. With the row gone its UPDATE finds nothing.
UpdateMessage(w, i) ==
    /\ scan[w].pc = "found" /\ IsNext(w, i)
    /\ ~scan[w].held
    /\ scan[w].copy # [folder |-> scan[w].folder, uid |-> i.uid]
    /\ IF row[i.msg] = Nowhere
       THEN Applied(w, i, {}) /\ UNCHANGED <<row, locked, fresh>>
       ELSE /\ row' = [row EXCEPT ![i.msg] = [folder |-> scan[w].folder, uid |-> i.uid]]
            /\ locked' = locked \ {i.msg}
            /\ fresh' = fresh \ {i.msg}
            /\ Applied(w, i, {i.msg})
    /\ UNCHANGED <<remote, status, phase, round, crashes, settled>>

\* unlinkMessagesMatchingQuery leaves alone what is unlinked already.
Unlink(w, uids) ==
    LET hit == {m \in Message : /\ row[m].folder = scan[w].folder
                                /\ row[m].uid \in uids /\ IsLinked(row[m])}
    IN /\ row' = [m \in Message |-> IF m \in hit
                    THEN [row[m] EXCEPT !.uid = Unlinked(phase[w])] ELSE row[m]]
       /\ fresh' = fresh \cup hit

\* Step 5: what the answer did not mention is unlinked.
UnlinkGone(w) ==
    /\ scan[w].pc = "apply" /\ scan[w].todo = {}
    /\ Unlink(w, scan[w].gone)
    /\ scan' = [scan EXCEPT ![w] = [@ EXCEPT !.pc = "plan", !.gone = {},
                                             !.range = NoRange, !.later = FALSE]]
    /\ UNCHANGED <<remote, locked, status, phase, round, crashes, settled>>

-----------------------------------------------------------------------------
(* syncNow: the round of the background worker.                            *)

\* The first part of syncNow loads all folders, with their status.
StartRound ==
    /\ round.at = 0
    /\ round' = [round EXCEPT !.at = 1, !.loaded = status]
    /\ fresh' = {}
    /\ settled' = {m \in Message : On(m) # {}}
    /\ UNCHANGED <<remote, row, locked, status, phase, scan, crashes>>

\* Faulty variant: the request begins after the first new message.
HeadersPast(from, to) ==
    [from |-> from + 1, to |-> to, heavy |-> to - from <= HeaderCap, below |-> 0]

\* A heavy request becomes a light one when its range is too large.
Headers(from, to) ==
    [from |-> AtLeast(from, 1), to |-> to, heavy |-> to - from <= HeaderCap, below |-> 0]
Attributes(from, to, below) ==
    [from |-> from, to |-> to, heavy |-> FALSE, below |-> below]

\* What syncNow does with a folder whose UIDVALIDITY is as it was: a chunk
\* of older messages, the new messages, and a shallow or a deep scan.
PlanFolder(f, kind, st) ==
    LET size == IF round.loaded[f].validity = 0 THEN FirstChunk ELSE NextChunk
        chunkMin == IF st.min <= size \/ Cardinality(RemoteUids(f)) < size
                    THEN 1 ELSE st.min - size
        min == IF st.min > 1 THEN chunkMin ELSE st.min
        chunk == IF st.min > 1 THEN <<Headers(chunkMin, st.min)>> ELSE <<>>
        new == IF uidnext[f] > st.next THEN <<Headers(st.next, uidnext[f])>> ELSE <<>>
        look == CASE kind = "none" -> <<>>
                  [] kind = "shallow" -> <<Attributes(0, uidnext[f], AtLeast(st.next, 1))>>
                  [] kind = "deep" -> <<Attributes(min, MaxUID, 0)>>
    IN [plan |-> chunk \o new \o look,
        st |-> [st EXCEPT !.min = min, !.next = IF kind = "none" THEN @ ELSE uidnext[f]]]

\* Which scan it is depends on the clock and on iterationsSinceLaunch. A folder
\* that is new is due for both.
DueScans(f) ==
    IF round.loaded[f].validity = 0 THEN {IF round.iterations > 0 THEN "deep" ELSE "shallow"}
    ELSE {"none", "shallow"} \cup (IF round.iterations > 0 THEN {"deep"} ELSE {})

InFolder == round.at \in 1..Len(Order) /\ scan["bg"].pc = "idle"

BeginFolder(kind) ==
    /\ InFolder
    /\ LET f == Order[round.at]
           init == round.loaded[f]
           st == IF init.validity = 0
                 THEN [validity |-> validity[f], next |-> uidnext[f], min |-> uidnext[f]]
                 ELSE init
           do == PlanFolder(f, kind, st)
       IN /\ st.validity = validity[f]
          /\ kind \in DueScans(f)
          /\ scan' = [scan EXCEPT !["bg"] =
                        [IdleScan EXCEPT !.pc = "plan", !.folder = f, !.init = init,
                                         !.st = do.st, !.plan = do.plan]]
    /\ UNCHANGED <<remote, row, locked, status, phase, round, crashes, history>>

\* UIDVALIDITY has changed: the whole folder is unlinked and scanned again.
ResetFolder ==
    /\ InFolder
    /\ LET f == Order[round.at]
           init == round.loaded[f]
       IN /\ init.validity \notin {0, validity[f]}
          /\ scan' = [scan EXCEPT !["bg"] =
                        [IdleScan EXCEPT !.pc = "reset", !.folder = f, !.init = init,
                                         !.st = [validity |-> validity[f],
                                                 next |-> uidnext[f], min |-> 1],
                                         !.plan = <<Attributes(1, MaxUID, 0)>>]]
    /\ UNCHANGED <<remote, row, locked, status, phase, round, crashes, history>>

UnlinkAll ==
    /\ scan["bg"].pc = "reset"
    /\ Unlink("bg", LocalUids(scan["bg"].folder))
    /\ scan' = [scan EXCEPT !["bg"] = [@ EXCEPT !.pc = "plan"]]
    /\ UNCHANGED <<remote, locked, status, phase, round, crashes, settled>>

\* folderStatus returns an error: the folder is left out of the round.
SkipFolder ==
    /\ "skip" \in Faults
    /\ InFolder
    /\ round' = [round EXCEPT !.at = @ + 1]
    /\ UNCHANGED <<remote, row, locked, status, phase, scan, crashes, history>>

Merged(saved, init, st) ==
    [validity |-> IF st.validity # init.validity THEN st.validity ELSE saved.validity,
     next |-> IF st.next # init.next THEN st.next ELSE saved.next,
     min |-> IF st.min # init.min THEN st.min ELSE saved.min]

\* saveFolderStatus: the keys this worker has changed go into the row.
SaveStatus(w) ==
    /\ scan[w].pc = "plan" /\ scan[w].plan = <<>>
    /\ status' = [status EXCEPT ![scan[w].folder] =
                    Merged(@, scan[w].init, scan[w].st)]
    /\ round' = IF w = "bg" THEN [round EXCEPT !.at = @ + 1] ELSE round
    /\ scan' = [scan EXCEPT ![w] = IdleScan]
    /\ UNCHANGED <<remote, row, locked, phase, crashes, history>>

\* A request, or one for the bodies before saveFolderStatus, throws: the
\* status is not saved and the background worker begins a new round.
Throws(w) ==
    /\ "offline" \in Faults
    /\ \/ scan[w].pc \in {"fetch", "headers"}
       \/ scan[w].pc = "plan" /\ scan[w].plan = <<>>
    /\ round' = IF w = "bg" THEN [round EXCEPT !.at = 0] ELSE round
    /\ scan' = [scan EXCEPT ![w] = IdleScan]
    /\ UNCHANGED <<remote, row, locked, status, phase, crashes, history>>

\* Faulty variant: the phase is not flipped before the messages are deleted.
KeepPhase ==
    /\ round.at = Len(Order) + 1
    /\ round' = [round EXCEPT !.at = @ + 1, !.left = DeleteRounds]
    /\ UNCHANGED <<remote, row, locked, status, phase, scan, crashes, history>>

\* What was unlinked in this round is safe from the deletion that follows.
FlipPhase ==
    /\ round.at = Len(Order) + 1
    /\ phase' = [phase EXCEPT !["bg"] = IF @ = 1 THEN 2 ELSE 1]
    /\ round' = [round EXCEPT !.at = @ + 1, !.left = DeleteRounds]
    /\ UNCHANGED <<remote, row, locked, status, scan, crashes, history>>

Count(n) == IF n < 1 THEN n + 1 ELSE 1

\* One transaction of deleteMessagesStillUnlinkedFromPhase. The loop ends
\* with a chunk that is not full, or after DeleteRounds of them.
DeleteUnlinked ==
    /\ round.at = Len(Order) + 2
    /\ \E gone \in SUBSET {m \in Message : row[m].uid = Unlinked(phase["bg"])} :
         /\ Cardinality(gone) <= DeleteChunk
         /\ \/ Cardinality(gone) = DeleteChunk
            \/ gone = {m \in Message : row[m].uid = Unlinked(phase["bg"])}
         /\ row' = [m \in Message |-> IF m \in gone THEN Nowhere ELSE row[m]]
         /\ locked' = locked \ gone
         /\ round' = IF Cardinality(gone) < DeleteChunk \/ round.left = 1
                     THEN [round EXCEPT !.at = 0, !.left = 0,
                                        !.iterations = Count(round.iterations)]
                     ELSE [round EXCEPT !.left = @ - 1]
    /\ UNCHANGED <<remote, status, phase, scan, crashes, history>>

-----------------------------------------------------------------------------
(* The foreground worker, the user, the process and the server.            *)

\* idleCycleIteration scans the newest messages of the inbox, and the whole
\* inbox when folderStatus fails and leaves a status that is all zero.
BeginInbox ==
    /\ "fg" \in Worker
    /\ scan["fg"].pc = "idle" /\ status[Inbox].min # 0
    /\ \E next \in {uidnext[Inbox]} \cup (IF "status" \in Faults THEN {0} ELSE {}) :
         scan' = [scan EXCEPT !["fg"] =
                    [IdleScan EXCEPT !.pc = "plan", !.folder = Inbox,
                                     !.init = status[Inbox],
                                     !.st = [status[Inbox] EXCEPT !.next = next],
                                     !.plan = <<Attributes(0, next, AtLeast(next, 1))>>]]
    /\ UNCHANGED <<remote, row, locked, status, phase, round, crashes, history>>

\* performLocal: the time stamp is set 24 hours ahead.
Lock(m) ==
    /\ m \in Lockable \ locked /\ row[m] # Nowhere
    /\ locked' = locked \cup {m}
    /\ UNCHANGED <<remote, row, status, phase, round, scan, crashes, history>>

\* performRemote: the time stamp is now, which is later than that of a
\* request under way by a second or more, or is not.
Release(m) ==
    /\ m \in locked
    /\ locked' = locked \ {m}
    /\ \E W \in SUBSET {w \in Worker : scan[w].pc \in {"headers", "apply", "found"}} :
         scan' = [w \in Worker |-> IF w \in W
                    THEN [scan[w] EXCEPT !.newer = @ \cup {m}] ELSE scan[w]]
    /\ UNCHANGED <<remote, row, status, phase, round, crashes, history>>

\* Faulty variant: the constructor does not set the phase.
CrashUnset ==
    /\ crashes < MaxCrashes
    /\ crashes' = crashes + 1
    /\ phase' = [w \in Worker |-> 0]
    /\ \E n \in -1..1 :
         round' = [round EXCEPT !.at = 0, !.left = 0, !.iterations = n]
    /\ scan' = [w \in Worker |-> IdleScan]
    /\ UNCHANGED <<remote, row, locked, status, history>>

\* The process is killed and started again.
Crash ==
    /\ crashes < MaxCrashes
    /\ crashes' = crashes + 1
    /\ phase' = [w \in Worker |-> 1]
    /\ \E n \in -1..1 :
         round' = [round EXCEPT !.at = 0, !.left = 0, !.iterations = n]
    /\ scan' = [w \in Worker |-> IdleScan]
    /\ UNCHANGED <<remote, row, locked, status, history>>

\* A message gets places on the server; each new one takes the next UID.
Put(m, to, from) ==
    /\ \A f \in to : server[m][f] = 0 /\ uidnext[f] < MaxNext
    /\ server' = [server EXCEPT ![m] = [f \in Folder |-> IF f \in to THEN uidnext[f]
                                          ELSE IF f \in from THEN 0 ELSE @[f]]]
    /\ uidnext' = [f \in Folder |-> IF f \in to THEN uidnext[f] + 1 ELSE uidnext[f]]
    /\ settled' = settled \ {m}
    /\ UNCHANGED <<validity, row, locked, status, phase, round, scan, crashes, fresh>>

Deliver(m) == "deliver" \in Clients /\ On(m) = {} /\ Put(m, {Inbox}, {})
Move(m) == "move" \in Clients /\ \E f \in On(m) : \E g \in Folder \ On(m) : Put(m, {g}, {f})
Copy(m) == "copy" \in Clients /\ On(m) # {} /\ \E g \in Folder \ On(m) : Put(m, {g}, {})
Expunge(m) == "expunge" \in Clients /\ \E f \in On(m) : Put(m, {}, {f})

\* The server numbers the messages of a folder anew.
Renumber(f) ==
    /\ "renumber" \in Clients /\ validity[f] < MaxValidity
    /\ LET in == {m \in Message : f \in On(m)} IN
       /\ \E uid \in [in -> 1..Cardinality(in)] :
            /\ \A m, n \in in : uid[m] = uid[n] => m = n
            /\ server' = [m \in Message |-> IF m \in in
                            THEN [server[m] EXCEPT ![f] = uid[m]] ELSE server[m]]
       /\ uidnext' = [uidnext EXCEPT ![f] = Cardinality(in) + 1]
       /\ settled' = settled \ in
    /\ validity' = [validity EXCEPT ![f] = @ + 1]
    /\ UNCHANGED <<row, locked, status, phase, round, scan, crashes, fresh>>

-----------------------------------------------------------------------------
ApplyStep(w) ==
    \E m \in Message, u \in 1..MaxNext :
        LET i == [msg |-> m, uid |-> u] IN
        \/ InsertMessage(w, i) \/ FindLocal(w, i)
        \/ UpdateIgnored(w, i) \/ UpdateMessage(w, i)
RangeStep(w) == \/ ListLocal(w) \/ FetchRange(w) \/ FetchHeaders(w)
                \/ ApplyStep(w) \/ UnlinkGone(w) \/ SaveStatus(w)
RoundStep == \/ StartRound \/ ResetFolder \/ UnlinkAll \/ FlipPhase \/ DeleteUnlinked
             \/ \E kind \in {"none", "shallow", "deep"} : BeginFolder(kind)
ClientStep == \/ \E m \in Message : Deliver(m) \/ Move(m) \/ Copy(m) \/ Expunge(m)
              \/ \E f \in Folder : Renumber(f)

Next ==
    \/ \E w \in Worker : RangeStep(w) \/ Throws(w)
    \/ RoundStep \/ SkipFolder
    \/ BeginInbox
    \/ \E m \in Message : Lock(m) \/ Release(m)
    \/ Crash
    \/ ClientStep

Spec == Init /\ [][Next]_vars

\* The background worker goes on, and the ten minutes after which a folder
\* is due for a deep scan pass again and again. Nobody owes the foreground
\* worker a wake-up.
FairSpec ==
    /\ Spec
    /\ \A w \in Worker : WF_vars(RangeStep(w))
    /\ WF_vars(RoundStep)
    /\ \A i \in DOMAIN Order : SF_vars(round.at = i /\ BeginFolder("deep"))

-----------------------------------------------------------------------------
Deleted(m) == row[m] # Nowhere /\ row'[m] = Nowhere

\* The comment at the end of syncNow: what was discovered missing in this
\* round gets one cycle to appear in another folder before it is deleted.
Grace == [][\A m \in Message : Deleted(m) => m \notin fresh]_vars

\* A message that did not move on the server for the whole of a round is not
\* deleted at its end: the requests of the round have found it, unless it is
\* in the older part of a folder that the first sync has not reached yet.
SettledKept ==
    [][\A m \in settled : Deleted(m) =>
         \A f \in On(m) : server[m][f] < status[f].min]_vars

\* Once the server rests, every message has a row that says where it is, and
\* only the messages of the account have one.
Converges ==
    <>[](\A m \in Message :
            IF On(m) = {} THEN row[m] = Nowhere
            ELSE row[m].folder \in On(m) /\ row[m].uid = server[m][row[m].folder])
=============================================================================
