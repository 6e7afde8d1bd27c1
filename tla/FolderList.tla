------------------------------- MODULE FolderList -------------------------------
(***************************************************************************)
(* The list of folders and their roles.                                    *)
(*                                                                         *)
(* At the start of each round the background worker asks for the folders   *)
(* of the server and makes the Folder rows like it, in one transaction: it *)
(* creates and removes rows, and gives each role that no folder has to the *)
(* first folder that claims it, by its flags or else by its name. The      *)
(* foreground worker creates, renames and deletes folders for the user,    *)
(* and writes the rows of its own. The main thread moves a role to the     *)
(* folder that the user chose.                                             *)
(*                                                                         *)
(* A row is known by its id, the hash of the path that the folder had when *)
(* the row was made: here that path itself. A renamed folder keeps its row *)
(* until the next list, which makes another one. The account is not one of *)
(* Gmail: it has no labels.                                                *)
(***************************************************************************)
EXTENDS Integers, FiniteSets, Sequences

CONSTANTS
    Paths,      \* the paths of folders, in the order in which the server lists them
    Roles,      \* the roles, in the order in which they are given
    Flag,       \* the roles that a server marks by a flag
    NameRole,   \* roleForFolderViaPath: the role that goes with a path, or ""
    Snoozed,    \* the path of the folder that mailsync needs
    Container,  \* the path of the folder that it goes into
    MaxUpdates  \* bound on tasks, deeds of other clients, failures and kills

Path == {Paths[i] : i \in DOMAIN Paths}
Role == {Roles[i] : i \in DOMAIN Roles}

ASSUME FolderListAssumption ==
    /\ Paths \in Seq(STRING) /\ Roles \in Seq(STRING)
    /\ "" \notin Path \cup Role
    /\ {"absent", "noselect"} \cap Role = {}
    /\ Flag \subseteq Role
    /\ NameRole \in [Path -> Role \cup {""}]
    /\ Snoozed \in Path /\ NameRole[Snoozed] = "snoozed"
    /\ Container \in Path
    /\ MaxUpdates \in Nat

VARIABLES
    mailbox,    \* the folders of the server, with the role that their flags say
    category,   \* the Folder rows, by their ids
    chores,     \* the Task rows in status remote, in order
    chore,      \* where the foreground worker is with the first of them
    listing,    \* where the background worker is, and the folders it was told
    opened,     \* the foreground worker has started
    vacated,    \* history: ids whose folder was renamed since a list was saved
    reborn,     \* history: those of them whose path came to exist again
    clobbered,  \* history: roles that a stale row brought back
    died,       \* history: the first task has ended the process, and no other client
                \* has acted since it was sent
    quiet,      \* history: lists saved in a row while nobody else acted
    updates

listVars == <<mailbox, category, chores, chore, listing, opened, vacated, reborn,
              clobbered, died, quiet, updates>>

Mailbox == {"absent", "noselect", ""} \cup Flag
CategoryRow == [path: Path \cup {""}, role: Role \cup {""}]
NoCategory == [path |-> "", role |-> ""]
FolderTask == [kind: {"create", "rename", "destroy"}, from: Path \cup {""}, to: Path \cup {""}]

ListRest == [at |-> "rest", told |-> [p \in Path |-> "absent"], calm |-> FALSE]
ChoreRest == [at |-> "rest", id |-> "", model |-> NoCategory, insert |-> FALSE,
              calm |-> FALSE]

ListInit ==
    /\ mailbox \in {boxes \in [Path -> Mailbox] : boxes[Snoozed] = "absent"}
    /\ category = [p \in Path |-> NoCategory]
    /\ chores = <<>>
    /\ chore = ChoreRest
    /\ listing = ListRest
    /\ opened = FALSE
    /\ vacated = {} /\ reborn = {} /\ clobbered = {}
    /\ died = FALSE
    /\ quiet = 0
    /\ updates = 0

Update ==
    /\ updates < MaxUpdates
    /\ updates' = updates + 1

\* Somebody acts beside the background worker.
Aside ==
    /\ listing' = [listing EXCEPT !.calm = FALSE]
    /\ quiet' = 0

-----------------------------------------------------------------------------
(* The background worker: syncFoldersAndLabels                             *)

Selectable(told) == {p \in Path : told[p] \notin {"absent", "noselect"}}

\* roleForFolder
RoleForFolder(p, told) == IF told[p] \in Flag THEN told[p] ELSE NameRole[p]

HasSnoozed(told) == \E p \in Path : told[p] # "absent" /\ RoleForFolder(p, told) = "snoozed"

ByFlag(r, told) == {p \in Path : told[p] = r}

\* Faulty variant: names do not count.
ByFlagOnly(r, told) == {}

ByName(r, told) == {p \in Selectable(told) : NameRole[p] = r}

\* The first folder of the list that is in some
FirstOf(some) ==
    Paths[CHOOSE i \in DOMAIN Paths :
             Paths[i] \in some /\ \A j \in 1 .. i - 1 : Paths[j] \notin some]

\* The folder that claims a role: the first one with its flag, or else with its name.
Claimant(r, told) ==
    IF ByFlag(r, told) # {} THEN FirstOf(ByFlag(r, told)) ELSE FirstOf(ByName(r, told))

\* Whatever role the folder had before is lost.
GiveRole(rows, r, told) ==
    IF ByFlag(r, told) \cup ByName(r, told) = {} \/ \E p \in Path : rows[p].role = r THEN rows
    ELSE [rows EXCEPT ![Claimant(r, told)].role = r]

\* Faulty variant: rows of folders that have gone are left.
KeepAll(told) ==
    [p \in Path |-> IF category[p] = NoCategory /\ p \in Selectable(told)
                    THEN [path |-> p, role |-> ""] ELSE category[p]]

\* The rows like the folders. A row that exists is taken as it is.
MatchRemote(told) ==
    [p \in Path |->
        IF p \notin Selectable(told) THEN NoCategory
        ELSE IF category[p] = NoCategory THEN [path |-> p, role |-> ""] ELSE category[p]]

WithRoles(rows, told) ==
    LET given[i \in 0 .. Len(Roles)] ==
            IF i = 0 THEN rows ELSE GiveRole(given[i - 1], Roles[i], told)
    IN given[Len(Roles)]

FetchAllFolders ==
    /\ listing.at = "rest"
    /\ listing' = [at |-> "told", told |-> mailbox, calm |-> TRUE]
    /\ UNCHANGED <<mailbox, category, chores, chore, opened, vacated, reborn,
                   clobbered, died, quiet, updates>>

\* ensureRootMailspringFolder: the container is created, if the server did not
\* tell of it. It is not added to the list. An error is only logged.
EnsureRoot ==
    /\ listing.at = "told" /\ ~HasSnoozed(listing.told)
    /\ \/ /\ listing.told[Container] = "absent" /\ mailbox[Container] = "absent"
          /\ mailbox' = [mailbox EXCEPT ![Container] = ""]
          /\ listing' = [listing EXCEPT !.at = "rooted", !.calm = FALSE]
          /\ reborn' = reborn \cup ({Container} \cap vacated)
          /\ UNCHANGED updates
       \/ /\ \/ Update
             \/ /\ listing.told[Container] # "absent" \/ mailbox[Container] # "absent"
                /\ UNCHANGED updates
          /\ listing' = [listing EXCEPT !.at = "rooted"]
          /\ UNCHANGED <<mailbox, reborn>>
    /\ quiet' = 0
    /\ UNCHANGED <<category, chores, chore, opened, vacated, clobbered, died>>

\* An error is only logged.
CreateSnoozed ==
    /\ listing.at = "rooted"
    /\ \/ /\ mailbox[Snoozed] = "absent"
          /\ mailbox' = [mailbox EXCEPT ![Snoozed] = ""]
          /\ listing' = [listing EXCEPT !.at = "made", !.told[Snoozed] = ""]
          /\ reborn' = reborn \cup ({Snoozed} \cap vacated)
          /\ UNCHANGED updates
       \/ /\ (mailbox[Snoozed] # "absent" /\ UNCHANGED updates) \/ Update
          /\ listing' = [listing EXCEPT !.at = "made"]
          /\ UNCHANGED <<mailbox, reborn>>
    /\ quiet' = 0
    /\ UNCHANGED <<category, chores, chore, opened, vacated, clobbered, died>>

\* The ids whose row the foreground worker holds for a rename.
Renaming == IF chore.at \in {"asked", "found"} /\ Head(chores).kind = "rename"
            THEN {Head(chores).from} ELSE {}

\* The transaction. The foreground worker starts after the first one.
SaveList ==
    LET told == listing.told
        removed == (Path \ Selectable(told)) \ Renaming
    IN /\ listing.at = "made" \/ (listing.at = "told" /\ HasSnoozed(told))
       /\ category' = WithRoles(MatchRemote(told), told)
       /\ opened' = TRUE
       /\ listing' = ListRest
       /\ quiet' = IF ~listing.calm THEN 0 ELSE IF quiet < Len(Roles) THEN quiet + 1 ELSE quiet
       /\ vacated' = vacated \ removed
       /\ reborn' = reborn \ removed
       /\ UNCHANGED <<mailbox, chores, chore, clobbered, died, updates>>

-----------------------------------------------------------------------------
(* The main thread, and other clients.                                     *)

\* A category task: performLocal does nothing.
QueueCategoryTask ==
    /\ Update /\ Aside
    /\ \E task \in FolderTask :
         /\ task.kind \in {"rename", "destroy"} <=> task.from # ""
         /\ task.kind \in {"create", "rename"} <=> task.to # ""
         /\ task.from # "" => \E p \in Path : category[p].path = task.from
         /\ task.from # task.to
         /\ chores' = Append(chores, task)
    /\ UNCHANGED <<mailbox, category, chore, opened, vacated, reborn, clobbered, died>>

\* Faulty variant: the role is not taken from the folder that has it.
MoveRoleTo(rows, p, holder, r) == [rows EXCEPT ![p].role = r]

\* The role goes from its holder, if there is one, to p.
MoveRole(rows, p, holder, r) ==
    [q \in Path |-> IF q = p THEN [rows[q] EXCEPT !.role = r]
                    ELSE IF q \in holder THEN [rows[q] EXCEPT !.role = ""] ELSE rows[q]]

\* One category has its role cleared, even if two had it.
ChangeRoleMapping ==
    /\ Update /\ Aside
    /\ \E p \in Path, r \in Role :
         LET holders == {q \in Path : category[q].role = r}
         IN /\ category[p] # NoCategory
            /\ \E holder \in IF holders = {} THEN {{}} ELSE {{q} : q \in holders} :
                  category' = MoveRole(category, p, holder, r)
    /\ UNCHANGED <<mailbox, chores, chore, opened, vacated, reborn, clobbered, died>>

\* Another client creates a folder, deletes it or changes its flags.
OtherChanges ==
    /\ Update /\ Aside
    /\ \E p \in Path, m \in Mailbox :
         /\ m # mailbox[p]
         /\ mailbox' = [mailbox EXCEPT ![p] = m]
         /\ reborn' = IF mailbox[p] = "absent" THEN reborn \cup ({p} \cap vacated) ELSE reborn
    /\ died' = FALSE
    /\ chore' = [chore EXCEPT !.calm = FALSE]
    /\ UNCHANGED <<category, chores, opened, vacated, clobbered>>

-----------------------------------------------------------------------------
(* The foreground worker: performRemoteSyncbackCategory and                *)
(* performRemoteDestroyCategory                                            *)

NextChore == Head(chores)

Foreground ==
    /\ opened /\ chores # <<>>
    /\ Aside

\* Whether the server can do what the task asks
Possible ==
    \/ NextChore.kind = "create" /\ mailbox[NextChore.to] \in {"absent", "noselect"}
    \/ NextChore.kind = "rename" /\ mailbox[NextChore.from] # "absent" /\ mailbox[NextChore.to] = "absent"
    \/ NextChore.kind = "destroy" /\ mailbox[NextChore.from] # "absent"

\* RENAME may lose the flags.
OnServer ==
    /\ Possible
    /\ \E m \in IF NextChore.kind = "rename" THEN {mailbox[NextChore.from], ""} ELSE {""} :
          mailbox' = [p \in Path |-> IF p = NextChore.to THEN m
                                     ELSE IF p = NextChore.from THEN "absent" ELSE mailbox[p]]
    /\ vacated' = IF NextChore.kind = "rename" THEN vacated \cup {NextChore.from} ELSE vacated
    /\ reborn' = (reborn \ {NextChore.from}) \cup ({NextChore.to} \cap vacated)

\* Faulty variant: the error of the request is not looked at.
AskServerUnchecked ==
    /\ Foreground
    /\ chore.at = "rest"
    /\ OnServer \/ (~Possible /\ UNCHANGED <<mailbox, vacated, reborn>>)
    /\ chore' = [chore EXCEPT !.calm = TRUE,
                                !.at = IF NextChore.kind = "destroy" THEN "done" ELSE "asked"]
    /\ UNCHANGED <<category, chores, opened, clobbered, died, updates>>

\* The row of a folder that is deleted is left to the next list.
AskServer ==
    /\ Foreground
    /\ chore.at = "rest"
    /\ OnServer
    /\ chore' = [chore EXCEPT !.calm = TRUE,
                                !.at = IF NextChore.kind = "destroy" THEN "done" ELSE "asked"]
    /\ UNCHANGED <<category, chores, opened, clobbered, died, updates>>

\* The server refuses, or the answer is lost: the task is complete, with an error.
FailChore ==
    /\ Foreground
    /\ chore.at = "rest"
    /\ \/ ~Possible /\ UNCHANGED <<mailbox, vacated, reborn, updates>>
       \/ Update /\ UNCHANGED <<mailbox, vacated, reborn>>
       \/ Update /\ OnServer
    /\ chores' = Tail(chores) /\ died' = FALSE
    /\ UNCHANGED <<category, chore, opened, clobbered>>

\* The row of the folder that was renamed, or else a new one
FindCategory ==
    LET new == NextChore.kind = "create" \/ category[NextChore.from] = NoCategory
    IN /\ Foreground
       /\ chore.at = "asked"
       /\ chore' = IF new
            THEN [chore EXCEPT !.at = "found", !.id = NextChore.to, !.insert = TRUE,
                               !.model = [path |-> NextChore.to, role |-> ""]]
            ELSE [chore EXCEPT !.at = "found", !.id = NextChore.from,
                               !.model = [category[NextChore.from] EXCEPT !.path = NextChore.to]]
       /\ UNCHANGED <<mailbox, category, chores, opened, vacated, reborn, clobbered, died,
                      updates>>

\* INSERT, or an UPDATE that has no effect if the row has gone
SaveCategory ==
    /\ Foreground
    /\ chore.at = "found"
    /\ chore.insert => category[chore.id] = NoCategory
    /\ LET row == category[chore.id]
       IN IF chore.insert \/ row # NoCategory
          THEN /\ category' = [category EXCEPT ![chore.id] = chore.model]
               /\ clobbered' = IF chore.insert \/ row.role = chore.model.role THEN clobbered
                               ELSE clobbered \cup {chore.model.role}
          ELSE UNCHANGED <<category, clobbered>>
    /\ chore' = [chore EXCEPT !.at = "done"]
    /\ UNCHANGED <<mailbox, chores, opened, vacated, reborn, died, updates>>

\* performRemote saves the task: complete.
CompleteChore ==
    /\ Foreground
    /\ chore.at = "done"
    /\ chores' = Tail(chores) /\ died' = FALSE
    /\ chore' = ChoreRest
    /\ UNCHANGED <<mailbox, category, opened, vacated, reborn, clobbered, updates>>

-----------------------------------------------------------------------------
Relaunch ==
    /\ chore' = ChoreRest
    /\ listing' = ListRest
    /\ opened' = FALSE
    /\ quiet' = 0
    /\ UNCHANGED <<mailbox, category, chores, vacated, reborn, clobbered>>

\* The row is there, and INSERT fails: the process ends, since nobody catches
\* what SQLite throws. The task is still `remote` when it starts again.
InsertThrows ==
    /\ Relaunch
    /\ chore.at = "found" /\ chore.insert /\ category[chore.id] # NoCategory
    /\ died' = chore.calm
    /\ UNCHANGED updates

KillLists == Relaunch /\ Update /\ UNCHANGED died

ListNext ==
    \/ FetchAllFolders \/ EnsureRoot \/ CreateSnoozed \/ SaveList
    \/ QueueCategoryTask \/ ChangeRoleMapping \/ OtherChanges
    \/ AskServer \/ FailChore \/ FindCategory \/ SaveCategory \/ CompleteChore
    \/ InsertThrows \/ KillLists

ListSpec == ListInit /\ [][ListNext]_listVars

-----------------------------------------------------------------------------
\* Types of the variables of this module.
ListTypeOK ==
    /\ mailbox \in [Path -> Mailbox]
    /\ category \in [Path -> CategoryRow]
    /\ \A p \in Path : category[p].path = "" => category[p].role = ""
    /\ chores \in Seq(FolderTask)
    /\ chore \in [at: {"rest", "asked", "found", "done"}, id: Path \cup {""},
                  model: CategoryRow, insert: BOOLEAN, calm: BOOLEAN]
    /\ listing \in [at: {"rest", "told", "rooted", "made"}, told: [Path -> Mailbox], calm: BOOLEAN]
    /\ opened \in BOOLEAN
    /\ reborn \subseteq vacated /\ vacated \subseteq Path
    /\ clobbered \subseteq Role \cup {""}
    /\ died \in BOOLEAN
    /\ quiet \in 0 .. Len(Roles)
    /\ updates \in 0 .. MaxUpdates

\* After one list that nobody disturbed, and that created no container, the rows
\* are the folders that can be selected, whatever tasks and older lists did before. A row has the
\* path of its folder, unless that folder was renamed and made again before a
\* list noticed: its row then keeps the other path.
FoldersAgree ==
    quiet > 0 => \A p \in Path :
        /\ category[p] # NoCategory <=> p \in Selectable(mailbox)
        /\ category[p].path \in {"", p} \/ p \in reborn

\* No two folders have one role. The exception is a role that a rename brought
\* back, with the row it had read before the user gave the role to another.
OneRole ==
    \A r \in Role \ clobbered : Cardinality({p \in Path : category[p].role = r}) <= 1

\* Its flags and its name claim two different roles for the folder.
Twofold(p) == mailbox[p] \in Flag /\ NameRole[p] \notin {"", mailbox[p]}

\* When the list has been saved undisturbed as often as there are roles, each
\* role that a folder claims is given. One list may not be enough: what the
\* user gave to a folder that claims another role is taken back, and the role
\* that this leaves without a folder was already passed. A folder that claims
\* two roles ends with the later one.
RolesAssigned ==
    quiet = Len(Roles) => \A r \in Role :
        LET claims == {p \in Selectable(mailbox) : r \in {mailbox[p], NameRole[p]}}
        IN (claims # {} /\ \A p \in claims : ~Twofold(p)) => \E p \in Path : category[p].role = r

\* A task does not end the process twice, unless another client acted in between:
\* when it is run again, the server refuses what has been done.
DiesOnce == died => ~(chore.at = "found" /\ chore.insert /\ category[chore.id] # NoCategory)
=============================================================================
