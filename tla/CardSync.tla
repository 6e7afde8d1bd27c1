-------------------------------- MODULE CardSync --------------------------------
(***************************************************************************)
(* The contacts of an address book, and those who change them.             *)
(*                                                                         *)
(* A run of DAVWorker compares the etags of the server with those of the   *)
(* rows: what the server has and no row has is fetched, what a row has and *)
(* the server has not is deleted. Two threads may be in such a run: the    *)
(* one that does it every 45 minutes, and the one that "sync-calendar"     *)
(* starts. The foreground worker meanwhile writes the contacts that the    *)
(* user changed, and reads them back; other clients change the book.       *)
(* Nothing locks a contact: each of them overwrites what it finds.         *)
(*                                                                         *)
(* A card is its UID. A row whose etag is 0 is not in the book yet: it has *)
(* neither an href nor a bookId. A find and a save with no request between *)
(* them are one step.                                                      *)
(***************************************************************************)
EXTENDS Integers, FiniteSets, Sequences

CONSTANTS
    Card,       \* UIDs of vCards
    InBook,     \* those of the book when the process starts
    Runner,     \* the threads that run a DAVWorker
    Chunk,      \* hrefs in one request, 90 in the code
    MaxChanges  \* bound on changes, failures and kills

ASSUME CardSyncAssumption ==
    /\ IsFiniteSet(Card)
    /\ InBook \subseteq Card
    /\ Chunk \in Nat \ {0}
    /\ MaxChanges \in Nat

VARIABLES
    book,       \* the cards on the server, with their etags
    contact,    \* the Contact rows
    errands,    \* the Task rows in status remote, in order
    hand,       \* where the foreground worker is with the first of them
    run,        \* where each DAVWorker is, and what it holds
    fresh,      \* UIDs that nobody has used
    version,    \* the last etag, and the last text that was written
    failed,     \* history: contacts whose task failed since the row was read
    settled,    \* history: a run that nobody disturbed has just ended
    changes

cardVars == <<book, contact, errands, hand, run, fresh, version, failed, settled, changes>>

VCard == [etag: Nat, text: Nat]
NoCard == [etag |-> 0, text |-> 0]
Row == [etag: Nat, text: Nat, hidden: BOOLEAN]
NoContact == [etag |-> 0, text |-> 0, hidden |-> FALSE]
Errand == [card: Card, kind: {"edit", "destroy"}]

NoPage == [c \in Card |-> NoCard]
NoEtags == [c \in Card |-> 0]
RunRest == [at |-> "rest", remote |-> NoEtags, needed |-> {}, deleted |-> {},
            page |-> NoPage, calm |-> FALSE]
HandRest == [at |-> "rest", model |-> NoContact, target |-> {}, page |-> NoCard]

\* No two cards have the same etag: the code takes an etag for its card.
CardInit ==
    /\ \E first \in [InBook -> 1 .. Cardinality(InBook)] :
         /\ \A c, d \in InBook : first[c] = first[d] => c = d
         /\ book = [c \in Card |-> IF c \in InBook THEN [etag |-> first[c], text |-> first[c]]
                                   ELSE NoCard]
    /\ contact = [c \in Card |-> NoContact]
    /\ errands = <<>>
    /\ hand = HandRest
    /\ run = [w \in Runner |-> RunRest]
    /\ fresh = Card \ InBook
    /\ version = Cardinality(InBook)
    /\ failed = {}
    /\ settled = FALSE
    /\ changes = 0

-----------------------------------------------------------------------------
(* What a run does to the rows.                                            *)

\* Faulty variant: the etags of all rows, also of those that are in no book.
EtagsOfAll(rows) == {rows[c].etag : c \in {d \in Card : rows[d].text # 0}}

\* SELECT etag FROM Contact WHERE bookId = ?
EtagsOf(rows) == {rows[c].etag : c \in {d \in Card : rows[d].etag # 0}}

\* ingestContactDeletions
Purge(rows, etags) ==
    [c \in Card |-> IF rows[c].text # 0 /\ rows[c].etag \in etags THEN NoContact ELSE rows[c]]

\* Faulty variant: neither the etag nor the book is set.
IngestTextOnly(rows, page) ==
    [c \in Card |-> IF page[c] = NoCard THEN rows[c] ELSE [rows[c] EXCEPT !.text = page[c].text]]

\* ingestAddressDataNode, setBookId and save. A response without a vCard is
\* ignored. A row that exists stays hidden, whoever hid it.
Ingest(rows, page) ==
    [c \in Card |->
        IF page[c] = NoCard THEN rows[c]
        ELSE [etag |-> page[c].etag, text |-> page[c].text, hidden |-> rows[c].hidden]]

\* The failures that the row still shows: it was not written from the server.
StillFailed(rows) == {c \in failed : rows[c] = contact[c] \/ rows[c].hidden}

\* Somebody else acted: no run under way is calm any more.
Disturbed(r) == [w \in Runner |-> [r[w] EXCEPT !.calm = FALSE]]

OthersDisturbed(w, next) == [Disturbed(run) EXCEPT ![w] = next]

-----------------------------------------------------------------------------
(* DAVWorker::runForAddressBook                                            *)

ListEtags(w) ==
    /\ run[w].at = "rest"
    /\ run' = OthersDisturbed(w, [RunRest EXCEPT !.at = "listed", !.calm = TRUE,
                                  !.remote = [c \in Card |-> book[c].etag]])
    /\ settled' = FALSE
    /\ UNCHANGED <<book, contact, errands, hand, fresh, version, failed, changes>>

\* Only etags are compared, and the rows are read after the server was asked.
Compare(w) ==
    LET remote == {run[w].remote[c] : c \in Card} \ {0}
        local == EtagsOf(contact)
    IN /\ run[w].at = "listed"
       /\ run' = OthersDisturbed(w, [run[w] EXCEPT
              !.at = "fetch", !.remote = NoEtags,
              !.needed = {c \in Card : run[w].remote[c] \in remote \ local},
              !.deleted = local \ remote])
       /\ settled' = FALSE
       /\ UNCHANGED <<book, contact, errands, hand, fresh, version, failed, changes>>

Multiget(w) ==
    /\ run[w].at = "fetch"
    /\ \E chunk \in SUBSET run[w].needed :
         /\ chunk # {}
         /\ Cardinality(chunk) = Chunk \/ (Cardinality(chunk) < Chunk /\ chunk = run[w].needed)
         /\ run' = OthersDisturbed(w, [run[w] EXCEPT !.at = "page", !.needed = @ \ chunk,
                !.page = [c \in Card |-> IF c \in chunk THEN book[c] ELSE NoCard]])
    /\ settled' = FALSE
    /\ UNCHANGED <<book, contact, errands, hand, fresh, version, failed, changes>>

\* The transaction of a page: all deletions go with the first one.
StorePage(w) ==
    LET next == Ingest(Purge(contact, run[w].deleted), run[w].page)
    IN /\ run[w].at = "page"
       /\ contact' = next
       /\ failed' = StillFailed(next)
       /\ run' = OthersDisturbed(w, [run[w] EXCEPT !.at = "fetch", !.deleted = {},
                                                   !.page = NoPage])
       /\ settled' = FALSE
       /\ UNCHANGED <<book, errands, hand, fresh, version, changes>>

\* The deletions, if no page took them along.
FinishRun(w) ==
    LET next == Purge(contact, run[w].deleted)
    IN /\ run[w].at = "fetch" /\ run[w].needed = {}
       /\ contact' = next
       /\ failed' = StillFailed(next)
       /\ run' = OthersDisturbed(w, RunRest)
       /\ settled' = run[w].calm
       /\ UNCHANGED <<book, errands, hand, fresh, version, changes>>

\* A request throws: the run ends with what it has stored.
RunThrows(w) ==
    /\ run[w].at = "fetch" /\ run[w].needed # {}
    /\ changes < MaxChanges
    /\ changes' = changes + 1
    /\ run' = OthersDisturbed(w, RunRest)
    /\ settled' = FALSE
    /\ UNCHANGED <<book, contact, errands, hand, fresh, version, failed>>

-----------------------------------------------------------------------------
(* The user, and other clients.                                            *)

Change ==
    /\ changes < MaxChanges
    /\ changes' = changes + 1
    /\ run' = Disturbed(run)
    /\ settled' = FALSE

\* performLocalSyncbackContact: the text changes, the etag does not. A new
\* contact gets a random UID and is in no book.
EditContact(c) ==
    /\ Change
    /\ \/ contact[c].text # 0 /\ ~contact[c].hidden
       \/ c \in fresh
    /\ contact' = [contact EXCEPT ![c].text = version + 1]
    /\ version' = version + 1
    /\ fresh' = fresh \ {c}
    /\ errands' = Append(errands, [card |-> c, kind |-> "edit"])
    /\ UNCHANGED <<book, hand, failed>>

\* performLocalDestroyContact
HideContact(c) ==
    /\ Change
    /\ contact[c].text # 0 /\ ~contact[c].hidden
    /\ contact' = [contact EXCEPT ![c].hidden = TRUE]
    /\ errands' = Append(errands, [card |-> c, kind |-> "destroy"])
    /\ UNCHANGED <<book, hand, fresh, version, failed>>

\* Another client writes a card, or removes it.
OtherWrites(c) ==
    /\ Change
    /\ book[c] # NoCard \/ c \in fresh
    /\ book' = [book EXCEPT ![c] = [etag |-> version + 1, text |-> version + 1]]
    /\ version' = version + 1
    /\ fresh' = fresh \ {c}
    /\ UNCHANGED <<contact, errands, hand, failed>>

OtherRemoves(c) ==
    /\ Change
    /\ book[c] # NoCard
    /\ book' = [book EXCEPT ![c] = NoCard]
    /\ UNCHANGED <<contact, errands, hand, fresh, version, failed>>

-----------------------------------------------------------------------------
(* The foreground worker: performRemoteSyncbackContact with                *)
(* writeAndResyncContact, and performRemoteDestroyContact with             *)
(* deleteContact.                                                          *)

Mine == Head(errands).card
Doing(at, kind) == errands # <<>> /\ hand.at = at /\ Head(errands).kind = kind

Work ==
    /\ run' = Disturbed(run)
    /\ settled' = FALSE

\* A task by which contacts are destroyed skips one that has gone.
LoadContact ==
    /\ Work
    /\ errands # <<>> /\ hand.at = "rest"
    /\ \/ /\ contact[Mine].text # 0
          /\ hand' = [hand EXCEPT !.at = "loaded", !.model = contact[Mine]]
       \/ /\ contact[Mine].text = 0 /\ Head(errands).kind = "destroy"
          /\ hand' = [hand EXCEPT !.at = "done"]
    /\ UNCHANGED <<book, contact, errands, fresh, version, failed, changes>>

\* A new contact: the server keeps its UID, or gives it another. Some servers
\* say nothing of where it is: the task ends there.
PostCard ==
    /\ Work
    /\ Doing("loaded", "edit") /\ hand.model.etag = 0
    /\ \E u \in {Mine} \cup fresh :
         /\ book[u] = NoCard
         /\ book' = [book EXCEPT ![u] = [etag |-> version + 1, text |-> hand.model.text]]
         /\ fresh' = fresh \ {u}
         /\ \/ hand' = [hand EXCEPT !.at = "written", !.target = {u}] /\ failed' = failed
            \/ hand' = [hand EXCEPT !.at = "done"] /\ failed' = failed \cup {Mine}
    /\ version' = version + 1
    /\ UNCHANGED <<contact, errands, changes>>

\* The PUT names the etag that the row had, and has no effect if it is not the
\* card's. An answer 403 is as good as success: the row is read back.
PutCard ==
    /\ Work
    /\ Doing("loaded", "edit") /\ hand.model.etag # 0
    /\ hand' = [hand EXCEPT !.at = "written", !.target = {Mine}]
    /\ \/ /\ book[Mine].etag = hand.model.etag
          /\ book' = [book EXCEPT ![Mine] = [etag |-> version + 1, text |-> hand.model.text]]
          /\ version' = version + 1 /\ changes' = changes
       \/ /\ changes < MaxChanges /\ changes' = changes + 1
          /\ UNCHANGED <<book, version>>
    /\ UNCHANGED <<contact, errands, fresh, failed>>

\* The REPORT after a write
ReadCard ==
    /\ Work
    /\ hand.at = "written"
    /\ hand' = [hand EXCEPT !.at = "read", !.page = book[CHOOSE u \in hand.target : TRUE]]
    /\ UNCHANGED <<book, contact, errands, fresh, version, failed, changes>>

\* What was read is saved, over whatever the row has become. If the server has
\* given another UID, the row of the old one is removed next.
SaveRead ==
    LET next == Ingest(contact, [c \in Card |-> IF c \in hand.target THEN hand.page ELSE NoCard])
    IN /\ Work
       /\ hand.at = "read" /\ hand.page # NoCard
       /\ contact' = next
       /\ failed' = StillFailed(next)
       /\ hand' = [hand EXCEPT !.at = IF Mine \in hand.target THEN "done" ELSE "renamed"]
       /\ UNCHANGED <<book, errands, fresh, version, changes>>

\* The answer says nothing of the card: nothing is saved, and the task goes on to
\* its end.
ReadNothing ==
    /\ Work
    /\ hand.at = "read" /\ hand.page = NoCard
    /\ hand' = [hand EXCEPT !.at = "done"]
    /\ failed' = failed \cup {Mine}
    /\ UNCHANGED <<book, contact, errands, fresh, version, changes>>

DeleteCard ==
    /\ Work
    /\ Doing("loaded", "destroy")
    /\ \/ /\ hand.model.etag # 0 /\ book[Mine].etag = hand.model.etag
          /\ book' = [book EXCEPT ![Mine] = NoCard]
          /\ hand' = [hand EXCEPT !.at = "deleted"] /\ failed' = failed
       \/ /\ hand.model.etag = 0
          /\ book' = book
          /\ hand' = [hand EXCEPT !.at = "done"] /\ failed' = failed \cup {Mine}
    /\ UNCHANGED <<contact, errands, fresh, version, changes>>

\* store->remove(contact): what was destroyed, or had another UID
RemoveContact ==
    /\ Work
    /\ hand.at \in {"deleted", "renamed"}
    /\ contact' = [contact EXCEPT ![Mine] = NoContact]
    /\ failed' = failed \ {Mine}
    /\ hand' = [hand EXCEPT !.at = "done"]
    /\ UNCHANGED <<book, errands, fresh, version, changes>>

\* performRemote saves the task: complete.
CompleteErrand ==
    /\ Work
    /\ hand.at = "done"
    /\ errands' = Tail(errands)
    /\ hand' = HandRest
    /\ UNCHANGED <<book, contact, fresh, version, failed, changes>>

\* The server refuses: the etag is not that of the card, or the UID is in use.
Refused ==
    /\ hand.at = "loaded"
    /\ \/ hand.model.etag # 0 /\ book[Mine].etag # hand.model.etag
       \/ hand.model.etag = 0 /\ Head(errands).kind = "edit" /\ book[Mine] # NoCard

\* A request throws: the task is complete, with an error. The server may have
\* done what it was asked.
FailErrand ==
    /\ Work
    /\ \/ Refused /\ changes' = changes
       \/ /\ hand.at \in {"loaded", "written", "deleted"}
          /\ changes < MaxChanges /\ changes' = changes + 1
    /\ failed' = failed \cup {Mine}
    /\ errands' = Tail(errands)
    /\ hand' = HandRest
    /\ UNCHANGED <<book, contact, fresh, version>>

-----------------------------------------------------------------------------
Restart ==
    /\ hand' = HandRest
    /\ run' = [w \in Runner |-> RunRest]
    /\ settled' = FALSE
    /\ UNCHANGED <<book, contact, errands, fresh, version, failed>>

\* The contact of a task has gone, or the card that was written and the answer
\* names it without its text: the code uses a null pointer. The task is still
\* `remote` when the process starts again.
NullContact ==
    /\ Restart
    /\ \/ Doing("rest", "edit") /\ contact[Mine].text = 0
       \/ hand.at = "read" /\ hand.page = NoCard
    /\ UNCHANGED changes

KillCards ==
    /\ Restart
    /\ changes < MaxChanges
    /\ changes' = changes + 1

CardNext ==
    \/ \E w \in Runner : \/ ListEtags(w) \/ Compare(w) \/ Multiget(w)
                         \/ StorePage(w) \/ FinishRun(w) \/ RunThrows(w)
    \/ \E c \in Card : EditContact(c) \/ HideContact(c) \/ OtherWrites(c) \/ OtherRemoves(c)
    \/ LoadContact \/ PostCard \/ PutCard \/ ReadCard \/ SaveRead \/ ReadNothing
    \/ DeleteCard \/ RemoveContact \/ CompleteErrand \/ FailErrand
    \/ NullContact \/ KillCards

CardSpec == CardInit /\ [][CardNext]_cardVars

-----------------------------------------------------------------------------
\* Types of the variables of this module.
CardTypeOK ==
    /\ book \in [Card -> VCard]
    /\ contact \in [Card -> Row]
    /\ errands \in Seq(Errand)
    /\ hand \in [at: {"rest", "loaded", "written", "read", "deleted", "renamed", "done"},
                 model: Row, target: SUBSET Card, page: VCard]
    /\ run \in [Runner -> [at: {"rest", "listed", "fetch", "page"}, remote: [Card -> Nat],
                           needed: SUBSET Card, deleted: SUBSET (Nat \ {0}),
                           page: [Card -> VCard], calm: BOOLEAN]]
    /\ fresh \subseteq {c \in Card : book[c] = NoCard /\ contact[c] = NoContact}
    /\ version \in Nat
    /\ failed \subseteq Card
    /\ settled \in BOOLEAN
    /\ changes \in 0 .. MaxChanges

Waiting(c) == \E i \in DOMAIN errands : errands[i].card = c

\* One run that nobody disturbs sets everything right, whatever was done and
\* left half done before: the rows of the book are the cards of the server,
\* with their etags. A row shows what the server has, and a contact that is not
\* in the book or is hidden has a task that waits, unless its task failed: the
\* etag of such a row is right, and no run looks at it again.
CardsAgree ==
    settled => \A c \in Card :
        /\ contact[c].etag = book[c].etag
        /\ (contact[c].text # 0 /\ ~Waiting(c) /\ c \notin failed) =>
              contact[c].text = book[c].text /\ ~contact[c].hidden
=============================================================================
