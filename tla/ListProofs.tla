------------------------------ MODULE ListProofs ------------------------------
(***************************************************************************)
(* Proofs about what is kept in step with a list of the server: the folders*)
(* of FolderList and the contacts of CardSync.                             *)
(***************************************************************************)
EXTENDS FolderList, CardSync, FiniteSetTheorems, WellFoundedInduction, TLAPS

-----------------------------------------------------------------------------
(***************************************************************************)
(* FolderList, for any folders, any number of roles, any flags and names,  *)
(* and any number of changes, failed requests and kills.                   *)
(***************************************************************************)

\* Induction on a set of numbers.
LEMMA SetInduction ==
    ASSUME NEW S \in SUBSET Nat, 0 \in S, \A n \in S : n + 1 \in S
    PROVE  S = Nat
<1> DEFINE Less == {ss \in Nat \X Nat : ss[1] < ss[2]}
<1>1. IsWellFoundedOn(Less, Nat)
  BY NatLessThanWellFounded DEF OpToRel
<1>2. SUFFICES ASSUME Nat \ S # {} PROVE FALSE
  OBVIOUS
<1> HIDE DEF Less
<1>3. PICK x \in Nat \ S : \A y \in Nat \ S : ~ (<<y, x>> \in Less)
  <2>1. (Nat \ S) \subseteq Nat
    OBVIOUS
  <2> QED
    BY <1>1, <1>2, <2>1, WFMin
<1>4. x # 0 /\ x - 1 \in Nat
  BY <1>3
<1>5. <<x - 1, x>> \in Less
  BY <1>4 DEF Less
<1>6. x - 1 \in S
  BY <1>3, <1>4, <1>5
<1> QED
  BY <1>3, <1>4, <1>6

-----------------------------------------------------------------------------
\* What is assumed of the constants.
LEMMA PathsAndRoles ==
    /\ Len(Paths) \in Nat /\ DOMAIN Paths = 1 .. Len(Paths)
    /\ \A i \in 1 .. Len(Paths) : Paths[i] \in Path
    /\ \A p \in Path : \E i \in 1 .. Len(Paths) : Paths[i] = p
    /\ Len(Roles) \in Nat /\ DOMAIN Roles = 1 .. Len(Roles)
    /\ \A i \in 1 .. Len(Roles) : Roles[i] \in Role
    /\ \A r \in Role : \E i \in 1 .. Len(Roles) : Roles[i] = r
    /\ "" \notin Path /\ "" \notin Role /\ "absent" \notin Role /\ "noselect" \notin Role
    /\ Flag \subseteq Role /\ Snoozed \in Path /\ Container \in Path
    /\ NameRole \in [Path -> Role \cup {""}]
    /\ MaxUpdates \in Nat
<1>1. Paths \in Seq(STRING) /\ Roles \in Seq(STRING)
  BY FolderListAssumption
<1>2. Len(Paths) \in Nat /\ DOMAIN Paths = 1 .. Len(Paths)
  BY <1>1
<1>3. Len(Roles) \in Nat /\ DOMAIN Roles = 1 .. Len(Roles)
  BY <1>1
<1>4. /\ \A i \in 1 .. Len(Paths) : Paths[i] \in Path
      /\ \A p \in Path : \E i \in 1 .. Len(Paths) : Paths[i] = p
  <2> QED
    BY <1>2, Zenon DEF Path
<1>5. /\ \A i \in 1 .. Len(Roles) : Roles[i] \in Role
      /\ \A r \in Role : \E i \in 1 .. Len(Roles) : Roles[i] = r
  BY <1>3, Zenon DEF Role
<1>6. /\ "" \notin Path /\ "" \notin Role /\ "absent" \notin Role /\ "noselect" \notin Role
      /\ Flag \subseteq Role /\ Snoozed \in Path /\ Container \in Path
      /\ NameRole \in [Path -> Role \cup {""}]
      /\ MaxUpdates \in Nat
  BY FolderListAssumption
<1> QED
  BY <1>2, <1>3, <1>4, <1>5, <1>6

\* Someone claims a role.
Claimed(r, told) == ByFlag(r, told) \cup ByName(r, told) # {}

\* The first folder of a set is one of them.
LEMMA FirstOfSome ==
    ASSUME NEW some \in SUBSET Path, some # {}
    PROVE  FirstOf(some) \in some
<1> DEFINE S == {n \in Nat : \A i \in 1 .. Len(Paths) : i <= n => Paths[i] \notin some}
<1> DEFINE Least(i) == Paths[i] \in some /\ \A j \in 1 .. i - 1 : Paths[j] \notin some
<1>0. /\ Len(Paths) \in Nat /\ DOMAIN Paths = 1 .. Len(Paths)
      /\ \A p \in Path : \E i \in 1 .. Len(Paths) : Paths[i] = p
  BY PathsAndRoles
<1>1. \E i \in 1 .. Len(Paths) : Least(i)
  <2>1. SUFFICES ASSUME \A i \in 1 .. Len(Paths) : ~Least(i) PROVE FALSE
    OBVIOUS
  <2>2. 0 \in S
    BY <1>0
  <2>3. ASSUME NEW n \in S PROVE n + 1 \in S
    <3>1. \A i \in 1 .. Len(Paths) : i <= n => Paths[i] \notin some
      OBVIOUS
    <3>2. ASSUME NEW i \in 1 .. Len(Paths), i <= n + 1 PROVE Paths[i] \notin some
      <4>1. \A j \in 1 .. i - 1 : Paths[j] \notin some
        BY <1>0, <3>1, <3>2
      <4> QED
        BY <2>1, <4>1
    <3> QED
      BY <3>2
  <2>4. S = Nat
    <3> HIDE DEF S
    <3>1. S \in SUBSET Nat
      BY DEF S
    <3> QED
      BY <2>2, <2>3, <3>1, SetInduction
  <2>5. Len(Paths) \in S
    BY <1>0, <2>4
  <2>6. \A i \in 1 .. Len(Paths) : Paths[i] \notin some
    BY <1>0, <2>5
  <2> QED
    BY <1>0, <2>6
<1>2. FirstOf(some) = Paths[CHOOSE i \in 1 .. Len(Paths) : Least(i)]
  BY <1>0 DEF FirstOf
<1> HIDE DEF Least
<1>3. Least(CHOOSE i \in 1 .. Len(Paths) : Least(i))
  BY <1>1
<1> QED
  BY <1>2, <1>3 DEF Least

\* The folder that claims a role can be selected.
LEMMA ClaimantClaims ==
    ASSUME NEW r \in Role, NEW told \in [Path -> Mailbox], Claimed(r, told)
    PROVE  /\ Claimant(r, told) \in Selectable(told)
           /\ Claimant(r, told) \in ByFlag(r, told) \cup ByName(r, told)
<1>1. ByFlag(r, told) \subseteq Selectable(told) /\ ByName(r, told) \subseteq Selectable(told)
  BY PathsAndRoles DEF ByFlag, ByName, Selectable
<1>2. Selectable(told) \subseteq Path
  BY DEF Selectable
<1>3. CASE ByFlag(r, told) # {}
  BY <1>1, <1>2, <1>3, FirstOfSome DEF Claimant
<1>4. CASE ByFlag(r, told) = {}
  <2>1. ByName(r, told) # {}
    BY <1>4 DEF Claimed
  <2> QED
    BY <1>1, <1>2, <1>4, <2>1, FirstOfSome DEF Claimant
<1> QED
  BY <1>3, <1>4

\* A row with another role
LEMMA RowWithRole ==
    ASSUME NEW row \in CategoryRow, NEW r
    PROVE  [row EXCEPT !.role = r] = [path |-> row.path, role |-> r]
<1>1. PICK a, b : row = [path |-> a, role |-> b]
  BY DEF CategoryRow
<1>2. [row EXCEPT !.role = r] = [path |-> a, role |-> r]
  BY <1>1
<1> QED
  BY <1>1, <1>2

\* What a role's turn does: nothing, or one row gets the role.
LEMMA GiveRoleCases ==
    ASSUME NEW r \in Role, NEW told \in [Path -> Mailbox], NEW rows \in [Path -> CategoryRow],
           NEW next, next = GiveRole(rows, r, told)
    PROVE  /\ next \in [Path -> CategoryRow]
           /\ \/ /\ next = rows
                 /\ ~Claimed(r, told) \/ \E p \in Path : rows[p].role = r
              \/ /\ Claimed(r, told) /\ \A p \in Path : rows[p].role # r
                 /\ next[Claimant(r, told)] = [path |-> rows[Claimant(r, told)].path, role |-> r]
                 /\ \A p \in Path : p # Claimant(r, told) => next[p] = rows[p]
<1>1. CASE ~Claimed(r, told) \/ \E p \in Path : rows[p].role = r
  BY <1>1 DEF Claimed, GiveRole
<1>2. CASE Claimed(r, told) /\ \A p \in Path : rows[p].role # r
  <2> DEFINE c == Claimant(r, told)
  <2>1. next = [rows EXCEPT ![c] = [rows[c] EXCEPT !.role = r]]
    BY <1>2, Zenon DEF Claimed, GiveRole
  <2>2. c \in Path
    BY <1>2, ClaimantClaims DEF Selectable
  <2> HIDE DEF c
  <2>3. [rows[c] EXCEPT !.role = r] = [path |-> rows[c].path, role |-> r]
    <3>1. rows[c] \in CategoryRow
      BY <2>2
    <3> QED
      BY <3>1, RowWithRole, Zenon
  <2> DEFINE row == [path |-> rows[c].path, role |-> r]
  <2>4. next = [rows EXCEPT ![c] = row] /\ row \in CategoryRow
    <3>1. row \in CategoryRow
      BY <2>2 DEF CategoryRow
    <3> QED
      BY <2>1, <2>3, <3>1, Zenon
  <2> HIDE DEF row
  <2>5. /\ next[c] = row
        /\ \A p \in Path : p # c => next[p] = rows[p]
        /\ next \in [Path -> CategoryRow]
    BY <2>2, <2>4
  <2> QED
    BY <1>2, <2>5 DEF c, row
<1> QED
  BY <1>1, <1>2

\* The loop over the roles: what each turn keeps holds of the rows in the end.
\* loop[i] are the rows that are allowed after turn i.
LEMMA RolesLoop ==
    ASSUME NEW rows, NEW told, NEW G, NEW loop \in [0 .. Len(Roles) -> SUBSET G],
           rows \in loop[0],
           \A i \in 1 .. Len(Roles) : \A x \in loop[i - 1] : GiveRole(x, Roles[i], told) \in loop[i]
    PROVE  WithRoles(rows, told) \in loop[Len(Roles)]
<1> DEFINE Turn(g, i) == IF i = 0 THEN rows ELSE GiveRole(g[i - 1], Roles[i], told)
<1> DEFINE Good(n, g) == /\ g \in [0 .. n -> G]
                         /\ \A i \in 0 .. n : g[i] \in loop[i] /\ g[i] = Turn(g, i)
<1> DEFINE S == {n \in Nat : n <= Len(Roles) => \E g : Good(n, g)}
<1>1. Len(Roles) \in Nat
  BY PathsAndRoles
<1>2. 0 \in S
  <2>1. [i \in 0 .. 0 |-> rows] \in [0 .. 0 -> G]
    BY <1>1
  <2>2. Good(0, [i \in 0 .. 0 |-> rows])
    BY <2>1
  <2> HIDE DEF Good
  <2> QED
    BY <2>2
<1>3. ASSUME NEW n \in S PROVE n + 1 \in S
  <2>0. n \in Nat
    OBVIOUS
  <2>1. SUFFICES ASSUME n + 1 <= Len(Roles) PROVE \E g : Good(n + 1, g)
    <3> HIDE DEF Good
    <3> QED
      BY <2>0
  <2>2. PICK g : Good(n, g)
    <3>1. n <= Len(Roles)
      BY <1>1, <2>1
    <3> HIDE DEF Good
    <3> QED
      BY <3>1
  <2> DEFINE more == [i \in 0 .. n + 1 |-> IF i = n + 1 THEN GiveRole(g[n], Roles[n + 1], told)
                                           ELSE g[i]]
  <2>3. g[n] \in loop[n] /\ n + 1 \in 1 .. Len(Roles)
    BY <1>1, <2>1, <2>2
  <2>4. more[n + 1] \in loop[n + 1] /\ more[n + 1] = Turn(more, n + 1)
    <3>1. n + 1 - 1 = n
      OBVIOUS
    <3>2. n \in 0 .. n + 1 /\ n + 1 \in 0 .. n + 1 /\ n # n + 1 /\ n + 1 # 0
      OBVIOUS
    <3>3. more[n] = g[n] /\ more[n + 1] = GiveRole(g[n], Roles[n + 1], told)
      BY <3>2
    <3>4. Turn(more, n + 1) = GiveRole(more[n], Roles[n + 1], told)
      BY <3>1, <3>2
    <3>5. GiveRole(g[n], Roles[n + 1], told) \in loop[n + 1]
      BY <2>3, <3>1
    <3> HIDE DEF more, Turn
    <3> QED
      BY <3>3, <3>4, <3>5
  <2>5. ASSUME NEW i \in 0 .. n PROVE more[i] \in loop[i] /\ more[i] = Turn(more, i)
    <3>1. i \in 0 .. n + 1 /\ i # n + 1 /\ (i # 0 => i - 1 \in 0 .. n + 1 /\ i - 1 # n + 1)
      OBVIOUS
    <3>2. more[i] = g[i] /\ (i # 0 => more[i - 1] = g[i - 1])
      BY <3>1
    <3>3. g[i] \in loop[i] /\ g[i] = Turn(g, i)
      BY <2>2
    <3>4. Turn(more, i) = Turn(g, i)
      BY <3>2
    <3> HIDE DEF more, Turn
    <3> QED
      BY <3>2, <3>3, <3>4
  <2>6. \A i \in 0 .. n + 1 : more[i] \in loop[i] /\ more[i] = Turn(more, i)
    <3>1. \A i \in 0 .. n + 1 : i = n + 1 \/ i \in 0 .. n
      OBVIOUS
    <3> HIDE DEF more, Turn
    <3> QED
      BY <2>4, <2>5, <3>1
  <2>7. more \in [0 .. n + 1 -> G]
    <3>1. \A i \in 0 .. n + 1 : more[i] \in G
      <4>1. \A i \in 0 .. n + 1 : loop[i] \subseteq G
        <5> HIDE DEF S
        <5>1. \A i \in 0 .. n + 1 : i \in 0 .. Len(Roles)
          BY <1>1, <2>0, <2>1
        <5> QED
          BY <5>1
      <4> HIDE DEF more, Turn
      <4> QED
        BY <2>6, <4>1
    <3> QED
      BY <3>1
  <2> HIDE DEF more, Turn
  <2> QED
    BY <2>6, <2>7
<1>4. S = Nat
  <2> HIDE DEF S
  <2>1. S \in SUBSET Nat
    BY DEF S
  <2> QED
    BY <1>2, <1>3, <2>1, SetInduction
<1>5. PICK g : Good(Len(Roles), g)
  BY <1>1, <1>4
<1> DEFINE Rec(f) == f = [i \in 0 .. Len(Roles) |-> Turn(f, i)]
<1>6. Rec(g)
  BY <1>5
<1> DEFINE given == CHOOSE f : Rec(f)
<1>7. Rec(given)
  BY <1>6
<1>8. WithRoles(rows, told) = given[Len(Roles)]
  BY DEF WithRoles
<1>9. \A i \in 0 .. Len(Roles) : given[i] = Turn(given, i)
  <2> HIDE DEF given
  <2> QED BY <1>7
<1> DEFINE T == {n \in Nat : n <= Len(Roles) => given[n] \in loop[n]}
<1> HIDE DEF given
<1>10. 0 \in T
  BY <1>1, <1>9
<1>11. ASSUME NEW n \in T PROVE n + 1 \in T
  <2>1. SUFFICES ASSUME n + 1 <= Len(Roles) PROVE given[n + 1] \in loop[n + 1]
    OBVIOUS
  <2>2. given[n] \in loop[n] /\ n + 1 \in 1 .. Len(Roles) /\ n + 1 - 1 = n
    BY <1>1, <2>1
  <2>3. given[n + 1] = GiveRole(given[n], Roles[n + 1], told)
    BY <1>1, <1>9, <2>2
  <2> QED
    BY <2>2, <2>3
<1>12. T = Nat
  <2> HIDE DEF T
  <2>1. T \in SUBSET Nat
    BY DEF T
  <2> QED
    BY <1>10, <1>11, <2>1, SetInduction
<1> QED
  BY <1>1, <1>8, <1>12

\* The roles change neither which rows there are nor their paths.
LEMMA RolesShape ==
    ASSUME NEW told \in [Path -> Mailbox], NEW rows \in [Path -> CategoryRow],
           NEW next, next = WithRoles(rows, told)
    PROVE  /\ next \in [Path -> CategoryRow]
           /\ \A p \in Path : next[p].path = rows[p].path
           /\ \A p \in Path : p \notin Selectable(told) => next[p] = rows[p]
<1> DEFINE G == [Path -> CategoryRow]
<1> DEFINE Kept(x) == \A p \in Path : /\ x[p].path = rows[p].path
                                      /\ p \notin Selectable(told) => x[p] = rows[p]
<1> DEFINE loop == [i \in 0 .. Len(Roles) |-> {x \in G : Kept(x)}]
<1>1. Len(Roles) \in Nat /\ \A i \in 1 .. Len(Roles) : Roles[i] \in Role
  BY PathsAndRoles
<1>2. ASSUME NEW r \in Role, NEW x \in {y \in G : Kept(y)}
      PROVE  GiveRole(x, r, told) \in {y \in G : Kept(y)}
  <2> DEFINE new == GiveRole(x, r, told)
  <2> HIDE DEF new
  <2>1. /\ new \in G
        /\ \/ new = x
           \/ /\ Claimed(r, told)
              /\ new[Claimant(r, told)] = [path |-> x[Claimant(r, told)].path, role |-> r]
              /\ \A p \in Path : p # Claimant(r, told) => new[p] = x[p]
    BY GiveRoleCases DEF new
  <2>2. Claimed(r, told) => Claimant(r, told) \in Selectable(told)
    BY ClaimantClaims
  <2>3. Kept(new)
    BY <2>1, <2>2
  <2> QED
    BY <2>1, <2>3 DEF new
<1>3. loop \in [0 .. Len(Roles) -> SUBSET G]
  OBVIOUS
<1>4. rows \in loop[0]
  BY <1>1
<1>5. ASSUME NEW i \in 1 .. Len(Roles), NEW x \in loop[i - 1]
      PROVE  GiveRole(x, Roles[i], told) \in loop[i]
  <2>1. i - 1 \in 0 .. Len(Roles) /\ i \in 0 .. Len(Roles)
    BY <1>1
  <2>2. loop[i - 1] = {y \in G : Kept(y)} /\ loop[i] = {y \in G : Kept(y)}
    BY <2>1
  <2> HIDE DEF loop, G, Kept
  <2> QED
    BY <1>1, <1>2, <2>2
<1>6. WithRoles(rows, told) \in loop[Len(Roles)]
  <2> HIDE DEF loop, G
  <2> QED
    BY <1>3, <1>4, <1>5, RolesLoop
<1>7. WithRoles(rows, told) \in {y \in G : Kept(y)}
  <2>1. Len(Roles) \in 0 .. Len(Roles)
    BY <1>1
  <2> HIDE DEF G, Kept
  <2> QED
    BY <1>6, <2>1
<1> QED
  BY <1>7

\* No two rows have a role of a set.
Unique(rows, some) ==
    \A r \in some : \A p, q \in Path : rows[p].role = r /\ rows[q].role = r => p = q

\* The roles that only one row had are still given only once.
LEMMA RolesUnique ==
    ASSUME NEW told \in [Path -> Mailbox], NEW rows \in [Path -> CategoryRow],
           NEW some \in SUBSET Role, Unique(rows, some)
    PROVE  Unique(WithRoles(rows, told), some)
<1> DEFINE G == [Path -> CategoryRow]
<1> DEFINE loop == [i \in 0 .. Len(Roles) |-> {x \in G : Unique(x, some)}]
<1>1. Len(Roles) \in Nat /\ \A i \in 1 .. Len(Roles) : Roles[i] \in Role
  BY PathsAndRoles
<1>2. ASSUME NEW r \in Role, NEW x \in {y \in G : Unique(y, some)}
      PROVE  GiveRole(x, r, told) \in {y \in G : Unique(y, some)}
  <2> DEFINE new == GiveRole(x, r, told)
  <2> HIDE DEF new
  <2>1. /\ new \in G
        /\ \/ new = x
           \/ /\ Claimed(r, told) /\ \A p \in Path : x[p].role # r
              /\ new[Claimant(r, told)] = [path |-> x[Claimant(r, told)].path, role |-> r]
              /\ \A p \in Path : p # Claimant(r, told) => new[p] = x[p]
    BY GiveRoleCases DEF new
  <2>2. Unique(new, some)
    BY <2>1 DEF Unique
  <2> QED
    BY <2>1, <2>2 DEF new
<1>3. loop \in [0 .. Len(Roles) -> SUBSET G]
  OBVIOUS
<1>4. rows \in loop[0]
  BY <1>1
<1>5. ASSUME NEW i \in 1 .. Len(Roles), NEW x \in loop[i - 1]
      PROVE  GiveRole(x, Roles[i], told) \in loop[i]
  <2>1. i - 1 \in 0 .. Len(Roles) /\ i \in 0 .. Len(Roles)
    BY <1>1
  <2>2. loop[i - 1] = {y \in G : Unique(y, some)} /\ loop[i] = {y \in G : Unique(y, some)}
    BY <2>1
  <2> HIDE DEF loop, G
  <2> QED
    BY <1>1, <1>2, <2>2
<1>6. WithRoles(rows, told) \in loop[Len(Roles)]
  <2> HIDE DEF loop, G
  <2> QED
    BY <1>3, <1>4, <1>5, RolesLoop
<1> QED
  BY <1>1, <1>6

-----------------------------------------------------------------------------
(* Why the roles settle. Some roles are with a folder that does not claim  *)
(* them, since the user gave them. A list that leaves a role without a     *)
(* folder has taken it from such a folder, and such roles only get fewer.  *)

\* p is the folder to which a list gives the role r.
Rightful(p, r, told) == r \in Role /\ Claimed(r, told) /\ p = Claimant(r, told)

\* The roles that some folder has without being the one to which lists give them
Misplaced(rows, told) == {r \in Role : \E p \in Path : rows[p].role = r /\ ~Rightful(p, r, told)}

\* If no folder has the role, the folder to which lists give it has another of its own.
InPlaceFor(s, rows, told) ==
    Claimed(s, told) /\ (\A p \in Path : rows[p].role # s) =>
        Rightful(Claimant(s, told), rows[Claimant(s, told)].role, told)

InPlace(rows, told) == \A s \in Role : InPlaceFor(s, rows, told)

\* What the turn of a role does to the others
LEMMA TurnOfRole ==
    ASSUME NEW r \in Role, NEW told \in [Path -> Mailbox], NEW x \in [Path -> CategoryRow],
           NEW new, new = GiveRole(x, r, told)
    PROVE  /\ new \in [Path -> CategoryRow]
           /\ Misplaced(new, told) \subseteq Misplaced(x, told)
           /\ new # x => Misplaced(x, told) # Role
           /\ Misplaced(new, told) = Misplaced(x, told) =>
                 /\ InPlaceFor(r, new, told)
                 /\ \A s \in Role : InPlaceFor(s, x, told) => InPlaceFor(s, new, told)
           /\ InPlace(x, told) => InPlace(new, told)
<1> DEFINE c == Claimant(r, told)
<1>1. /\ new \in [Path -> CategoryRow]
      /\ \/ /\ new = x
            /\ ~Claimed(r, told) \/ \E p \in Path : x[p].role = r
         \/ /\ Claimed(r, told) /\ \A p \in Path : x[p].role # r
            /\ new[c] = [path |-> x[c].path, role |-> r]
            /\ \A p \in Path : p # c => new[p] = x[p]
  BY GiveRoleCases
<1>2. CASE new = x /\ (~Claimed(r, told) \/ \E p \in Path : x[p].role = r)
  BY <1>1, <1>2 DEF InPlaceFor
<1>3. CASE /\ Claimed(r, told) /\ \A p \in Path : x[p].role # r
           /\ new[c] = [path |-> x[c].path, role |-> r]
           /\ \A p \in Path : p # c => new[p] = x[p]
  <2>1. c \in Path /\ new[c].role = r /\ Rightful(c, r, told)
    BY <1>3, ClaimantClaims DEF Selectable, Rightful
  <2> HIDE DEF c
  <2>2. Misplaced(new, told) \subseteq Misplaced(x, told)
    BY <1>3, <2>1 DEF Misplaced
  <2>3. Misplaced(x, told) # Role
    BY <1>3 DEF Misplaced
  <2>4. ASSUME NEW s \in Role, Claimed(s, told), \A p \in Path : new[p].role # s,
               \/ InPlaceFor(s, x, told) /\ Misplaced(new, told) = Misplaced(x, told)
               \/ InPlace(x, told)
        PROVE  Rightful(Claimant(s, told), new[Claimant(s, told)].role, told)
    <3>1. Claimant(s, told) \in Path
      BY <2>4, ClaimantClaims DEF Selectable
    <3>2. Claimant(s, told) = c => Rightful(Claimant(s, told), new[Claimant(s, told)].role, told)
      BY <2>1
    <3>3. InPlaceFor(s, x, told)
      BY <2>4 DEF InPlace
    <3>4. CASE \A p \in Path : x[p].role # s
      <4>1. Rightful(Claimant(s, told), x[Claimant(s, told)].role, told)
        BY <2>4, <3>3, <3>4 DEF InPlaceFor
      <4>2. Claimant(s, told) # c => new[Claimant(s, told)] = x[Claimant(s, told)]
        BY <1>3, <3>1
      <4> QED
        BY <3>2, <4>1, <4>2
    <3>5. CASE \E p \in Path : x[p].role = s
      <4>1. x[c].role = s
        BY <1>3, <2>4, <3>5
      <4>2. Misplaced(new, told) = Misplaced(x, told) => Rightful(c, s, told)
        BY <2>1, <2>4, <4>1 DEF Misplaced
      <4>3. InPlace(x, told) => Rightful(c, s, told)
        <5>1. SUFFICES ASSUME InPlace(x, told) PROVE Rightful(c, s, told)
          OBVIOUS
        <5>2. InPlaceFor(r, x, told)
          BY <5>1 DEF InPlace
        <5> QED
          BY <1>3, <4>1, <5>2 DEF InPlaceFor, c
      <4>4. Rightful(c, s, told)
        BY <2>4, <4>2, <4>3
      <4> QED
        BY <3>2, <4>4 DEF Rightful
    <3> QED
      BY <3>4, <3>5
  <2>5. InPlaceFor(r, new, told)
    BY <2>1 DEF InPlaceFor
  <2>6. ASSUME NEW s \in Role, InPlaceFor(s, x, told), Misplaced(new, told) = Misplaced(x, told)
        PROVE  InPlaceFor(s, new, told)
    BY <2>4, <2>6 DEF InPlaceFor
  <2>7. InPlace(x, told) => InPlace(new, told)
    BY <2>4 DEF InPlace, InPlaceFor
  <2> QED
    BY <1>1, <2>2, <2>3, <2>5, <2>6, <2>7
<1> QED
  BY <1>1, <1>2, <1>3

\* A list makes misplaced roles fewer, unless the roles are placed; and then they remain so.
LEMMA RolesSettle ==
    ASSUME NEW told \in [Path -> Mailbox], NEW rows \in [Path -> CategoryRow],
           NEW next, next = WithRoles(rows, told)
    PROVE  /\ InPlace(rows, told) => InPlace(next, told)
           /\ \/ InPlace(next, told)
              \/ /\ Misplaced(next, told) \subseteq Misplaced(rows, told)
                 /\ Misplaced(next, told) # Misplaced(rows, told)
                 /\ Misplaced(rows, told) # Role
<1> DEFINE G == [Path -> CategoryRow]
<1>1. /\ Len(Roles) \in Nat /\ \A i \in 1 .. Len(Roles) : Roles[i] \in Role
      /\ \A r \in Role : \E i \in 1 .. Len(Roles) : Roles[i] = r
  BY PathsAndRoles
<1>2. ASSUME InPlace(rows, told) PROVE InPlace(next, told)
  <2> DEFINE loop == [i \in 0 .. Len(Roles) |-> {x \in G : InPlace(x, told)}]
  <2>1. loop \in [0 .. Len(Roles) -> SUBSET G]
    OBVIOUS
  <2>2. rows \in loop[0]
    BY <1>1, <1>2
  <2>3. ASSUME NEW i \in 1 .. Len(Roles), NEW x \in loop[i - 1]
        PROVE  GiveRole(x, Roles[i], told) \in loop[i]
    <3>1. i - 1 \in 0 .. Len(Roles) /\ i \in 0 .. Len(Roles) /\ Roles[i] \in Role
      BY <1>1
    <3>2. x \in {y \in G : InPlace(y, told)} /\ loop[i] = {y \in G : InPlace(y, told)}
      BY <3>1
    <3> HIDE DEF loop
    <3> QED
      BY <3>1, <3>2, TurnOfRole
  <2>4. WithRoles(rows, told) \in loop[Len(Roles)]
    <3> HIDE DEF loop, G
    <3> QED
      BY <2>1, <2>2, <2>3, RolesLoop
  <2> QED
    BY <1>1, <2>4
<1>3. \/ InPlace(next, told)
      \/ /\ Misplaced(next, told) \subseteq Misplaced(rows, told)
         /\ Misplaced(next, told) # Misplaced(rows, told)
         /\ Misplaced(rows, told) # Role
  <2> DEFINE Fewer(x) == /\ Misplaced(x, told) \subseteq Misplaced(rows, told)
                         /\ Misplaced(x, told) # Misplaced(rows, told)
                         /\ Misplaced(rows, told) # Role
  <2> DEFINE Same(i, x) == /\ Misplaced(x, told) = Misplaced(rows, told)
                           /\ \A j \in 1 .. i : InPlaceFor(Roles[j], x, told)
  <2> DEFINE loop == [i \in 0 .. Len(Roles) |-> {x \in G : Fewer(x) \/ Same(i, x)}]
  <2>1. loop \in [0 .. Len(Roles) -> SUBSET G]
    OBVIOUS
  <2>2. rows \in loop[0]
    BY <1>1
  <2>3. ASSUME NEW i \in 1 .. Len(Roles), NEW x \in loop[i - 1]
        PROVE  GiveRole(x, Roles[i], told) \in loop[i]
    <3> DEFINE new == GiveRole(x, Roles[i], told)
    <3>1. i - 1 \in 0 .. Len(Roles) /\ i \in 0 .. Len(Roles) /\ Roles[i] \in Role
      BY <1>1
    <3>2. /\ x \in G /\ (Fewer(x) \/ Same(i - 1, x))
          /\ (new \in G /\ (Fewer(new) \/ Same(i, new))) => new \in loop[i]
      <4>1. loop[i - 1] = {y \in G : Fewer(y) \/ Same(i - 1, y)}
        BY <3>1
      <4>2. loop[i] = {y \in G : Fewer(y) \/ Same(i, y)}
        BY <3>1
      <4> HIDE DEF loop, Fewer, Same, G, new
      <4> QED
        BY <4>1, <4>2
    <3> HIDE DEF loop, new
    <3>3. /\ new \in G
          /\ Misplaced(new, told) \subseteq Misplaced(x, told)
          /\ new # x => Misplaced(x, told) # Role
          /\ Misplaced(new, told) = Misplaced(x, told) =>
                /\ InPlaceFor(Roles[i], new, told)
                /\ \A s \in Role : InPlaceFor(s, x, told) => InPlaceFor(s, new, told)
      BY <3>1, <3>2, TurnOfRole DEF new
    <3>4. CASE Fewer(x)
      BY <3>2, <3>3, <3>4 DEF new
    <3>5. CASE Same(i - 1, x) /\ Misplaced(new, told) # Misplaced(x, told)
      BY <3>2, <3>3, <3>5 DEF new
    <3>6. CASE Same(i - 1, x) /\ Misplaced(new, told) = Misplaced(x, told)
      <4>1. ASSUME NEW j \in 1 .. i PROVE InPlaceFor(Roles[j], new, told)
        <5>1. j = i \/ (j \in 1 .. i - 1 /\ Roles[j] \in Role)
          BY <1>1
        <5> QED
          BY <3>3, <3>6, <5>1
      <4>2. Same(i, new)
        BY <3>6, <4>1
      <4> HIDE DEF Same, Fewer
      <4> QED
        BY <3>2, <3>3, <4>2 DEF new
    <3> QED
      BY <3>2, <3>4, <3>5, <3>6
  <2>4. WithRoles(rows, told) \in loop[Len(Roles)]
    <3> HIDE DEF loop, G
    <3> QED
      BY <2>1, <2>2, <2>3, RolesLoop
  <2>5. Fewer(next) \/ Same(Len(Roles), next)
    <3>1. Len(Roles) \in 0 .. Len(Roles)
      BY <1>1
    <3> HIDE DEF Fewer, Same
    <3> QED
      BY <2>4, <3>1
  <2>6. Same(Len(Roles), next) => InPlace(next, told)
    BY <1>1 DEF InPlace
  <2> QED
    BY <2>5, <2>6
<1> QED
  BY <1>2, <1>3

-----------------------------------------------------------------------------
(* Types, and what the foreground worker holds.                            *)

\* Tasks as the main thread makes them
Sensible == {task \in FolderTask :
    /\ task.kind \in {"rename", "destroy"} <=> task.from # ""
    /\ task.kind \in {"create", "rename"} <=> task.to # ""
    /\ task.from # task.to}

\* What the worker holds belongs to the first task.
ChoreInv ==
    /\ chores \in Seq(Sensible)
    /\ chore.at # "rest" => chores # <<>>
    /\ chore.at \in {"rest", "asked"} => ~chore.insert
    /\ chore.at \in {"asked", "found"} => NextChore.kind \in {"create", "rename"}
    /\ chore.at = "found" /\ chore.insert =>
          chore.id = NextChore.to /\ chore.model = [path |-> NextChore.to, role |-> ""]
    /\ chore.at = "found" /\ ~chore.insert =>
          /\ NextChore.kind = "rename" /\ chore.id = NextChore.from
          /\ chore.model.path = NextChore.to

\* The first task
LEMMA FirstChore ==
    ASSUME ChoreInv, chores # <<>>
    PROVE  /\ NextChore \in Sensible /\ NextChore \in FolderTask
           /\ NextChore.kind \in {"create", "rename", "destroy"}
           /\ NextChore.from \in Path \cup {""} /\ NextChore.to \in Path \cup {""}
           /\ NextChore.kind \in {"rename", "destroy"} <=> NextChore.from # ""
           /\ NextChore.kind \in {"create", "rename"} <=> NextChore.to # ""
           /\ NextChore.from # NextChore.to
           /\ Tail(chores) \in Seq(Sensible)
<1>0. chores \in Seq(Sensible) /\ chores # <<>>
  BY DEF ChoreInv
<1>1. NextChore \in Sensible /\ Tail(chores) \in Seq(Sensible)
  BY <1>0 DEF NextChore
<1>2. NextChore \in FolderTask
  BY <1>1 DEF Sensible
<1> QED
  BY <1>1, <1>2 DEF Sensible, FolderTask

\* A row that moves with its folder
LEMMA RowWithPath ==
    ASSUME NEW row \in CategoryRow, NEW p \in Path
    PROVE  /\ [row EXCEPT !.path = p] = [path |-> p, role |-> row.role]
           /\ [row EXCEPT !.path = p] \in CategoryRow
<1>0. row.role \in Role \cup {""}
  BY DEF CategoryRow
<1>1. PICK a, b : row = [path |-> a, role |-> b]
  BY DEF CategoryRow
<1>2. [row EXCEPT !.path = p] = [path |-> p, role |-> b] /\ b = row.role
  BY <1>1
<1>3. [path |-> p, role |-> b] \in CategoryRow
  BY <1>0, <1>2 DEF CategoryRow
<1> QED
  BY <1>2, <1>3

\* The fields of what the foreground worker holds
LEMMA ChoreFields ==
    ListTypeOK => /\ chore.at \in {"rest", "asked", "found", "done"}
                  /\ chore.id \in Path \cup {""} /\ chore.model \in CategoryRow
                  /\ chore.insert \in BOOLEAN /\ chore.calm \in BOOLEAN
BY DEF ListTypeOK

\* What the transaction makes of the rows
LEMMA SavedRows ==
    ASSUME ListTypeOK, NEW told \in [Path -> Mailbox],
           NEW next, next = WithRoles(MatchRemote(told), told)
    PROVE  /\ MatchRemote(told) \in [Path -> CategoryRow]
           /\ next \in [Path -> CategoryRow]
           /\ \A p \in Path : p \notin Selectable(told) => next[p] = NoCategory
           /\ \A p \in Path : p \in Selectable(told) =>
                 /\ next[p].path # ""
                 /\ next[p].path = IF category[p] = NoCategory THEN p ELSE category[p].path
<1>1. /\ category \in [Path -> CategoryRow] /\ "" \notin Path
      /\ \A p \in Path : category[p].path = "" => category[p].role = ""
  BY PathsAndRoles DEF ListTypeOK
<1>2. ASSUME NEW p \in Path, category[p] # NoCategory PROVE category[p].path # ""
  <2>1. PICK a, b : category[p] = [path |-> a, role |-> b]
    BY <1>1 DEF CategoryRow
  <2> QED
    BY <1>1, <1>2, <2>1 DEF NoCategory
<1>3. \A p \in Path : [path |-> p, role |-> ""] \in CategoryRow /\ NoCategory \in CategoryRow
  BY DEF CategoryRow, NoCategory
<1>4. MatchRemote(told) \in [Path -> CategoryRow]
  BY <1>1, <1>3 DEF MatchRemote
<1>5. /\ next \in [Path -> CategoryRow]
      /\ \A p \in Path : next[p].path = MatchRemote(told)[p].path
      /\ \A p \in Path : p \notin Selectable(told) => next[p] = MatchRemote(told)[p]
  BY <1>4, RolesShape
<1>6. ASSUME NEW p \in Path, p \notin Selectable(told) PROVE next[p] = NoCategory
  BY <1>5, <1>6 DEF MatchRemote
<1>7. ASSUME NEW p \in Path, p \in Selectable(told)
      PROVE  next[p].path = IF category[p] = NoCategory THEN p ELSE category[p].path
  BY <1>5, <1>7 DEF MatchRemote
<1> QED
  BY <1>1, <1>2, <1>4, <1>5, <1>6, <1>7

\* A new account has the types, and no tasks.
LEMMA ListTypesInit == ListInit => ListTypeOK /\ ChoreInv
<1> SUFFICES ASSUME ListInit PROVE ListTypeOK /\ ChoreInv
  OBVIOUS
<1> USE DEF ListInit
<1>1. chore \in [at: {"rest", "asked", "found", "done"}, id: Path \cup {""},
                 model: CategoryRow, insert: BOOLEAN, calm: BOOLEAN]
  BY DEF ChoreRest, NoCategory, CategoryRow
<1>2. listing \in [at: {"rest", "told", "rooted", "made"}, told: [Path -> Mailbox], calm: BOOLEAN]
  BY DEF ListRest, Mailbox
<1>3. /\ category \in [Path -> CategoryRow]
      /\ \A p \in Path : category[p].path = "" => category[p].role = ""
  <2>1. NoCategory \in CategoryRow /\ NoCategory.role = ""
    BY DEF NoCategory, CategoryRow
  <2>2. category = [p \in Path |-> NoCategory]
    OBVIOUS
  <2> QED
    BY <2>1, <2>2
<1>4. quiet \in 0 .. Len(Roles) /\ updates \in 0 .. MaxUpdates
  <2>1. quiet = 0 /\ updates = 0
    OBVIOUS
  <2>2. Len(Roles) \in Nat /\ MaxUpdates \in Nat
    BY PathsAndRoles
  <2> QED
    BY <2>1, <2>2
<1>5. chore.at = "rest" /\ ~chore.insert /\ chores \in Seq(FolderTask) /\ chores \in Seq(Sensible)
  <2>1. chores = <<>> /\ chore = ChoreRest
    OBVIOUS
  <2>2. <<>> \in Seq(FolderTask) /\ <<>> \in Seq(Sensible)
    <3> HIDE DEF ListInit
    <3> QED
      OBVIOUS
  <2> HIDE DEF ListInit
  <2> QED
    BY <2>1, <2>2 DEF ChoreRest
<1> QED
  BY <1>1, <1>2, <1>3, <1>4, <1>5 DEF ListTypeOK, ChoreInv

\* The counters of a step
LEMMA ListCounters ==
    ASSUME ListTypeOK
    PROVE  /\ Update => updates' \in 0 .. MaxUpdates
           /\ UNCHANGED updates => updates' \in 0 .. MaxUpdates
           /\ 0 \in 0 .. Len(Roles)
           /\ quiet < Len(Roles) => quiet + 1 \in 0 .. Len(Roles)
<1>1. Len(Roles) \in Nat /\ MaxUpdates \in Nat
  BY PathsAndRoles
<1>2. updates \in 0 .. MaxUpdates /\ quiet \in 0 .. Len(Roles)
  BY DEF ListTypeOK
<1> QED
  BY <1>1, <1>2 DEF Update

\* The steps by which somebody acts beside the background worker
LEMMA AsideTypes ==
    ASSUME ListTypeOK, Aside
    PROVE  /\ listing' \in [at: {"rest", "told", "rooted", "made"}, told: [Path -> Mailbox], calm: BOOLEAN]
           /\ ~listing'.calm /\ quiet' = 0 /\ quiet' \in 0 .. Len(Roles)
<1>1. listing \in [at: {"rest", "told", "rooted", "made"}, told: [Path -> Mailbox], calm: BOOLEAN]
  BY DEF ListTypeOK
<1>2. /\ listing' \in [at: {"rest", "told", "rooted", "made"}, told: [Path -> Mailbox], calm: BOOLEAN]
      /\ ~listing'.calm
  BY <1>1 DEF Aside
<1> QED
  BY <1>2, ListCounters DEF Aside

\* What a request does to the folders of the server
LEMMA ServerTypes ==
    ASSUME ListTypeOK, ChoreInv, chores # <<>>, OnServer
    PROVE  /\ mailbox' \in [Path -> Mailbox]
           /\ reborn' \subseteq vacated' /\ vacated' \subseteq Path
           /\ Possible
           /\ NextChore.to \in Path => mailbox'[NextChore.to] \notin {"absent"}
           /\ NextChore.kind = "create" => mailbox'[NextChore.to] = ""
           /\ NextChore.from \in Path => mailbox'[NextChore.from] = "absent"
           /\ \A p \in Path : p \notin {NextChore.to, NextChore.from} => mailbox'[p] = mailbox[p]
<1>1. /\ mailbox \in [Path -> Mailbox] /\ reborn \subseteq vacated /\ vacated \subseteq Path
      /\ "absent" \in Mailbox /\ "" \in Mailbox /\ "absent" # ""
  BY DEF ListTypeOK, Mailbox
<1>2. /\ NextChore.kind \in {"create", "rename", "destroy"}
      /\ NextChore.from \in Path \cup {""} /\ NextChore.to \in Path \cup {""}
      /\ NextChore.kind \in {"rename", "destroy"} <=> NextChore.from # ""
      /\ NextChore.from # NextChore.to
      /\ "" \notin Path
  BY FirstChore, PathsAndRoles
<1>3. PICK m \in IF NextChore.kind = "rename" THEN {mailbox[NextChore.from], ""} ELSE {""} :
          mailbox' = [p \in Path |-> IF p = NextChore.to THEN m
                                     ELSE IF p = NextChore.from THEN "absent" ELSE mailbox[p]]
  BY DEF OnServer
<1>4. Possible
  BY DEF OnServer
<1>5. m \in Mailbox /\ m # "absent" /\ (NextChore.kind = "create" => m = "")
  BY <1>1, <1>2, <1>3, <1>4 DEF Possible
<1>6. mailbox' \in [Path -> Mailbox]
  BY <1>1, <1>3, <1>5
<1>7. reborn' \subseteq vacated' /\ vacated' \subseteq Path
  BY <1>1, <1>2 DEF OnServer
<1>8. NextChore.kind = "create" => NextChore.to \in Path
  BY FirstChore
<1> QED
  BY <1>2, <1>3, <1>4, <1>5, <1>6, <1>7, <1>8

LEMMA ListTypesStep ==
    ASSUME ListTypeOK, ChoreInv, [ListNext]_listVars
    PROVE  ListTypeOK' /\ ChoreInv'
<1>1. /\ mailbox \in [Path -> Mailbox] /\ category \in [Path -> CategoryRow]
      /\ \A p \in Path : category[p].path = "" => category[p].role = ""
      /\ chores \in Seq(FolderTask)
      /\ chore \in [at: {"rest", "asked", "found", "done"}, id: Path \cup {""},
                    model: CategoryRow, insert: BOOLEAN, calm: BOOLEAN]
      /\ listing \in [at: {"rest", "told", "rooted", "made"}, told: [Path -> Mailbox], calm: BOOLEAN]
      /\ opened \in BOOLEAN /\ reborn \subseteq vacated /\ vacated \subseteq Path
      /\ clobbered \subseteq Role \cup {""} /\ died \in BOOLEAN
      /\ quiet \in 0 .. Len(Roles) /\ updates \in 0 .. MaxUpdates
  BY DEF ListTypeOK
<1>2. /\ listing.at \in {"rest", "told", "rooted", "made"} /\ listing.told \in [Path -> Mailbox]
      /\ listing.calm \in BOOLEAN
  BY <1>1
<1>3. /\ Snoozed \in Path /\ Container \in Path
      /\ "" \in Mailbox /\ "absent" \in Mailbox /\ "" \notin Path
  BY PathsAndRoles DEF Mailbox
<1>4. UNCHANGED <<chores, chore>> => ChoreInv'
  BY DEF ChoreInv, NextChore
<1>5. CASE FetchAllFolders
  <2>1. listing' \in [at: {"rest", "told", "rooted", "made"}, told: [Path -> Mailbox], calm: BOOLEAN]
    BY <1>1, <1>5 DEF FetchAllFolders
  <2> QED
    BY <1>1, <1>4, <1>5, <2>1 DEF FetchAllFolders, ListTypeOK
<1>6a. CASE EnsureRoot
  <2>1. /\ UNCHANGED <<category, chores, chore, opened, vacated, clobbered, died>> /\ quiet' = 0
        /\ UNCHANGED updates \/ Update
    BY <1>6a DEF EnsureRoot
  <2>2. \/ /\ mailbox' = [mailbox EXCEPT ![Container] = ""]
           /\ listing' = [listing EXCEPT !.at = "rooted", !.calm = FALSE]
           /\ reborn' = reborn \cup ({Container} \cap vacated)
        \/ UNCHANGED <<mailbox, reborn>> /\ listing' = [listing EXCEPT !.at = "rooted"]
    BY <1>6a DEF EnsureRoot
  <2>3. /\ mailbox' \in [Path -> Mailbox] /\ reborn' \subseteq vacated
        /\ listing' \in [at: {"rest", "told", "rooted", "made"}, told: [Path -> Mailbox],
                         calm: BOOLEAN]
    <3>1. CASE /\ mailbox' = [mailbox EXCEPT ![Container] = ""]
               /\ listing' = [listing EXCEPT !.at = "rooted", !.calm = FALSE]
               /\ reborn' = reborn \cup ({Container} \cap vacated)
      <4>1. mailbox' \in [Path -> Mailbox] /\ reborn' \subseteq vacated
        BY <1>1, <1>3, <3>1
      <4>2. listing' \in [at: {"rest", "told", "rooted", "made"}, told: [Path -> Mailbox],
                          calm: BOOLEAN]
        BY <1>1, <3>1
      <4> QED
        BY <4>1, <4>2
    <3>2. CASE UNCHANGED <<mailbox, reborn>> /\ listing' = [listing EXCEPT !.at = "rooted"]
      BY <1>1, <3>2
    <3> QED
      BY <2>2, <3>1, <3>2
  <2> QED
    BY <1>1, <1>4, <2>1, <2>3, ListCounters DEF ListTypeOK
<1>6. CASE CreateSnoozed
  <2>1. /\ UNCHANGED <<category, chores, chore, opened, vacated, clobbered, died>> /\ quiet' = 0
        /\ UNCHANGED updates \/ Update
    BY <1>6 DEF CreateSnoozed
  <2>2. /\ mailbox' \in [Path -> Mailbox] /\ reborn' \subseteq vacated
        /\ listing' \in [at: {"rest", "told", "rooted", "made"}, told: [Path -> Mailbox], calm: BOOLEAN]
    <3>1. CASE /\ mailbox' = [mailbox EXCEPT ![Snoozed] = ""]
               /\ listing' = [listing EXCEPT !.at = "made", !.told[Snoozed] = ""]
               /\ reborn' = reborn \cup ({Snoozed} \cap vacated)
      <4>1. mailbox' \in [Path -> Mailbox] /\ reborn' \subseteq vacated
        BY <1>1, <1>3, <3>1
      <4>2. [listing.told EXCEPT ![Snoozed] = ""] \in [Path -> Mailbox]
        BY <1>2, <1>3
      <4>3. listing' \in [at: {"rest", "told", "rooted", "made"}, told: [Path -> Mailbox], calm: BOOLEAN]
        BY <1>1, <3>1, <4>2
      <4> QED
        BY <4>1, <4>3
    <3>2. CASE UNCHANGED <<mailbox, reborn>> /\ listing' = [listing EXCEPT !.at = "made"]
      BY <1>1, <3>2
    <3> QED
      BY <1>6, <3>1, <3>2 DEF CreateSnoozed
  <2> QED
    BY <1>1, <1>4, <2>1, <2>2, ListCounters DEF ListTypeOK
<1>7. CASE SaveList
  <2> DEFINE told == listing.told
  <2>1. /\ category' = WithRoles(MatchRemote(told), told) /\ opened' = TRUE
        /\ listing' = ListRest
        /\ quiet' \in {0, quiet} \/ (quiet' = quiet + 1 /\ quiet < Len(Roles))
        /\ \E gone : vacated' = vacated \ gone /\ reborn' = reborn \ gone
        /\ UNCHANGED <<mailbox, chores, chore, clobbered, died, updates>>
    BY <1>7 DEF SaveList
  <2> told \in [Path -> Mailbox]
    BY <1>2
  <2> HIDE DEF told
  <2>2. /\ category' \in [Path -> CategoryRow]
        /\ \A p \in Path : p \notin Selectable(told) => category'[p] = NoCategory
        /\ \A p \in Path : p \in Selectable(told) => category'[p].path # ""
    <3> DEFINE rows == category'
    <3>1. rows = WithRoles(MatchRemote(told), told)
      BY <2>1
    <3> HIDE DEF rows
    <3>2. /\ rows \in [Path -> CategoryRow]
          /\ \A p \in Path : p \notin Selectable(told) => rows[p] = NoCategory
          /\ \A p \in Path : p \in Selectable(told) => rows[p].path # ""
      BY <3>1, SavedRows
    <3> QED
      BY <3>2 DEF rows
  <2>3. \A p \in Path : category'[p].path = "" => category'[p].role = ""
    <3>1. \A p \in Path : category'[p].path = "" => category'[p] = NoCategory
      BY <2>2
    <3>2. NoCategory.role = ""
      BY DEF NoCategory
    <3> QED
      BY <3>1, <3>2
  <2>4. listing' \in [at: {"rest", "told", "rooted", "made"}, told: [Path -> Mailbox], calm: BOOLEAN]
    BY <1>3, <2>1 DEF ListRest
  <2>5. quiet' \in 0 .. Len(Roles)
    BY <1>1, <2>1, ListCounters
  <2>6. reborn' \subseteq vacated' /\ vacated' \subseteq Path
    BY <1>1, <2>1
  <2> QED
    BY <1>1, <1>4, <2>1, <2>2, <2>3, <2>4, <2>5, <2>6 DEF ListTypeOK
<1>8. CASE QueueCategoryTask
  <2>1. PICK task \in FolderTask :
          /\ task.kind \in {"rename", "destroy"} <=> task.from # ""
          /\ task.kind \in {"create", "rename"} <=> task.to # ""
          /\ task.from # task.to
          /\ chores' = Append(chores, task)
    BY <1>8 DEF QueueCategoryTask
  <2>2. task \in Sensible /\ chores \in Seq(Sensible)
    BY <2>1 DEF Sensible, ChoreInv
  <2>3. /\ chores' \in Seq(FolderTask) /\ chores' \in Seq(Sensible) /\ chores' # <<>>
        /\ chores # <<>> => Head(chores') = Head(chores)
    <3>1. chores \in Seq(FolderTask) /\ task \in FolderTask /\ chores' = Append(chores, task)
      BY <1>1, <2>1
    <3> QED
      BY <2>2, <3>1
  <2>4. /\ Update /\ Aside
        /\ UNCHANGED <<mailbox, category, chore, opened, vacated, reborn, clobbered, died>>
    BY <1>8 DEF QueueCategoryTask
  <2>5. ChoreInv'
    BY <2>3, <2>4 DEF ChoreInv, NextChore
  <2> QED
    BY <1>1, <2>3, <2>4, <2>5, AsideTypes, ListCounters DEF ListTypeOK
<1>9. CASE ChangeRoleMapping
  <2>1. PICK p \in Path, r \in Role, holder \in SUBSET Path :
          category' = MoveRole(category, p, holder, r) /\ category[p] # NoCategory
    BY <1>9 DEF ChangeRoleMapping
  <2>2. \A q \in Path : category'[q] \in {category[q], [category[q] EXCEPT !.role = r],
                                          [category[q] EXCEPT !.role = ""]}
    BY <2>1 DEF MoveRole
  <2>3. category' = [q \in Path |-> category'[q]]
    BY <2>1 DEF MoveRole
  <2>4. ASSUME NEW q \in Path
        PROVE  /\ category'[q] \in CategoryRow /\ category'[q].path = category[q].path
               /\ category'[q].role \in Role \cup {""}
               /\ category'[q].path = "" => category'[q].role = ""
    <3>1. category[q] \in CategoryRow /\ category[q].path \in Path \cup {""}
          /\ category[q].role \in Role \cup {""}
      BY <1>1 DEF CategoryRow
    <3>2. /\ [category[q] EXCEPT !.role = r] = [path |-> category[q].path, role |-> r]
          /\ [category[q] EXCEPT !.role = ""] = [path |-> category[q].path, role |-> ""]
      BY <3>1, RowWithRole, Zenon
    <3>3. category'[q] \in CategoryRow /\ category'[q].path = category[q].path
      BY <2>2, <3>1, <3>2 DEF CategoryRow
    <3>4. ASSUME category[q].path = "" PROVE category'[q].role = ""
      <4>1. category[q].role = ""
        BY <1>1, <3>4
      <4>2. category[q] = NoCategory
        <5>1. PICK a, b : category[q] = [path |-> a, role |-> b]
          BY <3>1 DEF CategoryRow
        <5> QED
          BY <3>4, <4>1, <5>1 DEF NoCategory
      <4>3. q # p
        BY <2>1, <4>2
      <4>4. category'[q] \in {category[q], [category[q] EXCEPT !.role = ""]}
        BY <2>1, <4>3 DEF MoveRole
      <4> QED
        BY <3>2, <4>1, <4>4
    <3>5. category'[q].role \in Role \cup {""}
      BY <3>3 DEF CategoryRow
    <3> QED
      BY <3>3, <3>4, <3>5
  <2>5. /\ category' \in [Path -> CategoryRow]
        /\ \A q \in Path : category'[q].path = "" => category'[q].role = ""
    BY <2>3, <2>4
  <2>6. /\ Update /\ Aside
        /\ UNCHANGED <<mailbox, chores, chore, opened, vacated, reborn, clobbered, died>>
    BY <1>9 DEF ChangeRoleMapping
  <2> QED
    BY <1>1, <1>4, <2>5, <2>6, AsideTypes, ListCounters DEF ListTypeOK
<1>10. CASE OtherChanges
  <2>1. PICK p \in Path, m \in Mailbox :
          /\ mailbox' = [mailbox EXCEPT ![p] = m]
          /\ reborn' = IF mailbox[p] = "absent" THEN reborn \cup ({p} \cap vacated) ELSE reborn
    BY <1>10 DEF OtherChanges
  <2>2. /\ Update /\ Aside /\ died' = FALSE
        /\ chore' = [chore EXCEPT !.calm = FALSE]
        /\ UNCHANGED <<category, chores, opened, vacated, clobbered>>
    BY <1>10 DEF OtherChanges
  <2>3. mailbox' \in [Path -> Mailbox] /\ reborn' \subseteq vacated'
    BY <1>1, <2>1, <2>2
  <2>4. /\ chore' \in [at: {"rest", "asked", "found", "done"}, id: Path \cup {""},
                       model: CategoryRow, insert: BOOLEAN, calm: BOOLEAN]
        /\ chore'.at = chore.at /\ chore'.id = chore.id /\ chore'.model = chore.model
        /\ chore'.insert = chore.insert
    BY <1>1, <2>2
  <2>5. ChoreInv'
    BY <2>2, <2>4 DEF ChoreInv, NextChore
  <2> QED
    BY <1>1, <2>2, <2>3, <2>4, <2>5, AsideTypes, ListCounters DEF ListTypeOK
<1>11. CASE AskServer
  <2>1. /\ Aside /\ chores # <<>> /\ OnServer
        /\ chore' = [chore EXCEPT !.calm = TRUE,
                                  !.at = IF NextChore.kind = "destroy" THEN "done" ELSE "asked"]
        /\ UNCHANGED <<category, chores, opened, clobbered, died, updates>>
    BY <1>11 DEF AskServer, Foreground
  <2>2. /\ chore' \in [at: {"rest", "asked", "found", "done"}, id: Path \cup {""},
                       model: CategoryRow, insert: BOOLEAN, calm: BOOLEAN]
        /\ chore'.at = IF NextChore.kind = "destroy" THEN "done" ELSE "asked"
        /\ chore'.insert = chore.insert
    BY <1>1, <2>1
  <2>3. NextChore.kind \in {"create", "rename", "destroy"}
    BY <2>1, FirstChore
  <2>4. ChoreInv'
    <3>1. ~chore.insert
      BY <1>11 DEF ChoreInv, AskServer
    <3> QED
      BY <2>1, <2>2, <2>3, <3>1 DEF ChoreInv, NextChore
  <2> QED
    BY <1>1, <2>1, <2>2, <2>4, AsideTypes, ServerTypes DEF ListTypeOK
<1>12. CASE FailChore
  <2>1. /\ Aside /\ chores # <<>> /\ chore.at = "rest" /\ chores' = Tail(chores) /\ died' = FALSE
        /\ UNCHANGED <<mailbox, vacated, reborn>> \/ OnServer
        /\ UNCHANGED updates \/ Update
        /\ UNCHANGED <<category, chore, opened, clobbered>>
    BY <1>12 DEF FailChore, Foreground
  <2>2. chores' \in Seq(Sensible) /\ chores' \in Seq(FolderTask)
    <3>1. chores' \in Seq(Sensible)
      BY <2>1, FirstChore
    <3>2. chores \in Seq(FolderTask) /\ chores # <<>> /\ chores' = Tail(chores)
      BY <1>1, <2>1
    <3> QED
      BY <3>1, <3>2
  <2>3. ChoreInv'
    BY <2>1, <2>2 DEF ChoreInv
  <2>4. mailbox' \in [Path -> Mailbox] /\ reborn' \subseteq vacated' /\ vacated' \subseteq Path
    BY <1>1, <2>1, ServerTypes
  <2> QED
    BY <1>1, <2>1, <2>2, <2>3, <2>4, AsideTypes, ListCounters DEF ListTypeOK
<1>13. CASE FindCategory
  <2> DEFINE new == NextChore.kind = "create" \/ category[NextChore.from] = NoCategory
  <2> DEFINE moved == [category[NextChore.from] EXCEPT !.path = NextChore.to]
  <2> DEFINE made == [path |-> NextChore.to, role |-> ""]
  <2>1. /\ Aside /\ chores # <<>> /\ chore.at = "asked"
        /\ chore' = IF new
            THEN [chore EXCEPT !.at = "found", !.id = NextChore.to, !.insert = TRUE, !.model = made]
            ELSE [chore EXCEPT !.at = "found", !.id = NextChore.from, !.model = moved]
        /\ UNCHANGED <<mailbox, category, chores, opened, vacated, reborn, clobbered, died, updates>>
    BY <1>13, Zenon DEF FindCategory, Foreground
  <2>2. /\ NextChore.kind \in {"create", "rename"} /\ NextChore.to \in Path
        /\ NextChore.kind = "rename" => NextChore.from \in Path
    BY <2>1, FirstChore DEF ChoreInv
  <2>3. made \in CategoryRow
    BY <2>2 DEF CategoryRow
  <2>4. ~new => moved \in CategoryRow /\ moved.path = NextChore.to /\ NextChore.kind = "rename"
    <3>1. SUFFICES ASSUME ~new
                   PROVE  moved \in CategoryRow /\ moved.path = NextChore.to
                          /\ NextChore.kind = "rename"
      BY Zenon
    <3>2. category[NextChore.from] \in CategoryRow /\ NextChore.kind = "rename"
      BY <1>1, <2>2, <3>1
    <3>3. /\ moved = [path |-> NextChore.to, role |-> category[NextChore.from].role]
          /\ moved \in CategoryRow
      BY <2>2, <3>2, RowWithPath, Zenon
    <3> QED
      BY <3>2, <3>3
  <2> HIDE DEF made, moved, new
  <2>5. /\ chore' \in [at: {"rest", "asked", "found", "done"}, id: Path \cup {""},
                       model: CategoryRow, insert: BOOLEAN, calm: BOOLEAN]
        /\ chore'.at = "found"
        /\ new => chore'.insert /\ chore'.id = NextChore.to /\ chore'.model = made
        /\ ~new => /\ chore'.insert = chore.insert /\ chore'.id = NextChore.from
                   /\ chore'.model = moved
    BY <1>1, <2>1, <2>2, <2>3, <2>4
  <2>6. ~chore.insert
    BY <2>1 DEF ChoreInv
  <2>7. ChoreInv'
    BY <2>1, <2>2, <2>4, <2>5, <2>6 DEF ChoreInv, NextChore, made
  <2> QED
    BY <1>1, <2>1, <2>5, <2>7, AsideTypes DEF ListTypeOK
<1>14. CASE SaveCategory
  <2>1. /\ Aside /\ chore.at = "found"
        /\ \/ /\ category' = [category EXCEPT ![chore.id] = chore.model]
              /\ clobbered' \in {clobbered, clobbered \cup {chore.model.role}}
           \/ UNCHANGED <<category, clobbered>>
        /\ chore' = [chore EXCEPT !.at = "done"]
        /\ UNCHANGED <<mailbox, chores, opened, vacated, reborn, died, updates>>
    BY <1>14 DEF SaveCategory, Foreground
  <2>2. /\ chore.model \in CategoryRow /\ chore.model.role \in Role \cup {""}
        /\ chore.model.path # ""
    <3>1. chore.model \in CategoryRow
      BY <1>1
    <3>2. chore.model.path = NextChore.to /\ NextChore.to # ""
      <4>1. chores # <<>>
        BY <2>1 DEF ChoreInv
      <4>2. NextChore.kind \in {"create", "rename"} /\ NextChore.to # ""
        BY <2>1, <4>1, FirstChore DEF ChoreInv
      <4>3. chore.insert => chore.model.path = NextChore.to
        <5>1. SUFFICES ASSUME chore.insert PROVE chore.model.path = NextChore.to
          OBVIOUS
        <5>2. chore.model = [path |-> NextChore.to, role |-> ""]
          BY <2>1, <5>1, Zenon DEF ChoreInv
        <5> DEFINE row == [path |-> NextChore.to, role |-> ""]
        <5>3. row.path = NextChore.to
          OBVIOUS
        <5> HIDE DEF row
        <5> QED
          BY <5>2, <5>3, Zenon DEF row
      <4>4. ~chore.insert => chore.model.path = NextChore.to
        BY <2>1 DEF ChoreInv
      <4> QED
        BY <4>2, <4>3, <4>4
    <3> QED
      BY <3>1, <3>2 DEF CategoryRow
  <2>3. /\ category' \in [Path -> CategoryRow]
        /\ \A p \in Path : category'[p].path = "" => category'[p].role = ""
    BY <1>1, <2>1, <2>2
  <2>4. clobbered' \subseteq Role \cup {""}
    BY <1>1, <2>1, <2>2
  <2>5. /\ chore' \in [at: {"rest", "asked", "found", "done"}, id: Path \cup {""},
                       model: CategoryRow, insert: BOOLEAN, calm: BOOLEAN]
        /\ chore'.at = "done"
    BY <1>1, <2>1
  <2>6. ChoreInv'
    BY <2>1, <2>5 DEF ChoreInv
  <2> QED
    BY <1>1, <2>1, <2>3, <2>4, <2>5, <2>6, AsideTypes DEF ListTypeOK
<1>15. ChoreRest \in [at: {"rest", "asked", "found", "done"}, id: Path \cup {""},
                      model: CategoryRow, insert: BOOLEAN, calm: BOOLEAN]
       /\ ChoreRest.at = "rest" /\ ~ChoreRest.insert
  BY DEF ChoreRest, NoCategory, CategoryRow
<1>16. CASE CompleteChore
  <2>1. /\ Aside /\ chores # <<>> /\ chores' = Tail(chores) /\ died' = FALSE /\ chore' = ChoreRest
        /\ UNCHANGED <<mailbox, category, opened, vacated, reborn, clobbered, updates>>
    BY <1>16 DEF CompleteChore, Foreground
  <2>2. chores' \in Seq(Sensible) /\ chores' \in Seq(FolderTask)
    <3>1. chores' \in Seq(Sensible)
      BY <2>1, FirstChore
    <3>2. chores \in Seq(FolderTask) /\ chores # <<>> /\ chores' = Tail(chores)
      BY <1>1, <2>1
    <3> QED
      BY <3>1, <3>2
  <2>3. ChoreInv'
    BY <1>15, <2>1, <2>2 DEF ChoreInv
  <2> QED
    BY <1>1, <1>15, <2>1, <2>2, <2>3, AsideTypes DEF ListTypeOK
<1>17. CASE InsertThrows \/ KillLists
  <2>1. /\ Relaunch /\ (UNCHANGED updates \/ Update)
        /\ died' = chore.calm \/ UNCHANGED died
    BY <1>17 DEF InsertThrows, KillLists
  <2>2. ListRest \in [at: {"rest", "told", "rooted", "made"}, told: [Path -> Mailbox], calm: BOOLEAN]
    BY <1>3 DEF ListRest
  <2>3. ChoreInv'
    BY <1>15, <2>1 DEF ChoreInv, Relaunch
  <2>4. died' \in BOOLEAN
    BY <1>1, <2>1, ChoreFields
  <2> QED
    BY <1>1, <1>15, <2>1, <2>2, <2>3, <2>4, ListCounters DEF ListTypeOK, Relaunch
<1>18. CASE UNCHANGED listVars
  BY <1>18 DEF listVars, ListTypeOK, ChoreInv, NextChore
<1> QED
  BY <1>5, <1>6, <1>6a, <1>7, <1>8, <1>9, <1>10, <1>11, <1>12, <1>13, <1>14, <1>16, <1>17, <1>18
  DEF ListNext

-----------------------------------------------------------------------------
(* What the lists that nobody disturbed know.                              *)

\* A list that nobody disturbed holds what the server has.
ToldInv == listing.calm => listing.told = mailbox

\* After such a list, the rows are the folders that can be selected.
RowsInv == quiet > 0 => \A p \in Path : category[p] # NoCategory <=> p \in Selectable(mailbox)

\* The roles settle with as many lists as there are roles.
SettleInv ==
    quiet > 0 => \/ InPlace(category, mailbox)
                 \/ Cardinality(Misplaced(category, mailbox)) <= Len(Roles) - 1 - quiet

\* There are at most as many roles as places in the list of them.
LEMMA RolesFinite == IsFiniteSet(Role) /\ Cardinality(Role) <= Len(Roles)
<1>1. Len(Roles) \in Nat /\ DOMAIN Roles = 1 .. Len(Roles)
  BY PathsAndRoles
<1>2. IsFiniteSet(1 .. Len(Roles)) /\ Cardinality(1 .. Len(Roles)) = Len(Roles)
  <2>1. 1 \in Int /\ Len(Roles) \in Int
    BY <1>1
  <2>2. /\ IsFiniteSet(1 .. Len(Roles))
        /\ Cardinality(1 .. Len(Roles)) = IF 1 > Len(Roles) THEN 0 ELSE Len(Roles) - 1 + 1
    BY <2>1, FS_Interval
  <2> QED
    BY <1>1, <2>2
<1> DEFINE f == [i \in 1 .. Len(Roles) |-> Roles[i]]
<1>3. f \in Surjection(1 .. Len(Roles), Role)
  BY PathsAndRoles DEF Surjection
<1> QED
  BY <1>1, <1>2, <1>3, FS_Surjection

\* Any step but those of the list itself
LEMMA OthersDisturb ==
    ASSUME ListTypeOK, [ListNext]_listVars
    PROVE  \/ FetchAllFolders \/ EnsureRoot \/ CreateSnoozed \/ SaveList
           \/ UNCHANGED listVars
           \/ ~listing'.calm /\ quiet' = 0
<1>1. Aside => ~listing'.calm /\ quiet' = 0
  BY AsideTypes
<1>2. Relaunch => ~listing'.calm /\ quiet' = 0
  BY DEF Relaunch, ListRest
<1>3. QueueCategoryTask \/ ChangeRoleMapping \/ OtherChanges => Aside
  BY DEF QueueCategoryTask, ChangeRoleMapping, OtherChanges
<1>4. AskServer \/ FailChore \/ FindCategory \/ SaveCategory \/ CompleteChore => Aside
  BY DEF AskServer, FailChore, FindCategory, SaveCategory, CompleteChore, Foreground
<1>5. InsertThrows \/ KillLists => Relaunch
  BY DEF InsertThrows, KillLists
<1> QED
  BY <1>1, <1>2, <1>3, <1>4, <1>5 DEF ListNext

\* A row is there if and only if it has a path.
LEMMA RowHasPath ==
    ASSUME ListTypeOK, NEW p \in Path
    PROVE  category[p] # NoCategory <=> category[p].path # ""
<1>1. category[p] \in CategoryRow /\ (category[p].path = "" => category[p].role = "")
  BY DEF ListTypeOK
<1> DEFINE row == category[p]
<1> HIDE DEF row
<1>2. row \in CategoryRow /\ (row.path = "" => row.role = "")
  BY <1>1 DEF row
<1>3. row.path = "" => row = NoCategory
  <2>1. PICK a, b : row = [path |-> a, role |-> b]
    BY <1>2 DEF CategoryRow
  <2> QED
    BY <1>2, <2>1 DEF NoCategory
<1>4. NoCategory.path = ""
  BY DEF NoCategory
<1> QED
  BY <1>3, <1>4 DEF row

\* What a list that is saved makes of the rows
LEMMA ListSaved ==
    ASSUME ListTypeOK, ListTypeOK', SaveList
    PROVE  /\ category' = WithRoles(MatchRemote(listing.told), listing.told)
           /\ listing.told \in [Path -> Mailbox]
           /\ \A p \in Path : category'[p] # NoCategory <=> p \in Selectable(listing.told)
           /\ \A p \in Path : p \in Selectable(listing.told) =>
                 category'[p].path = IF category[p] = NoCategory THEN p ELSE category[p].path
           /\ ~listing'.calm
           /\ UNCHANGED <<mailbox, chores, chore, clobbered, died>>
<1> DEFINE told == listing.told
<1> DEFINE rows == category'
<1>1. /\ rows = WithRoles(MatchRemote(told), told) /\ listing' = ListRest
      /\ UNCHANGED <<mailbox, chores, chore, clobbered, died>>
  BY DEF SaveList
<1>2. told \in [Path -> Mailbox]
  BY DEF ListTypeOK
<1> HIDE DEF told, rows
<1>3. /\ \A p \in Path : p \notin Selectable(told) => rows[p] = NoCategory
      /\ \A p \in Path : p \in Selectable(told) =>
            /\ rows[p].path # ""
            /\ rows[p].path = IF category[p] = NoCategory THEN p ELSE category[p].path
  BY <1>1, <1>2, SavedRows
<1>4. NoCategory.path = "" /\ ~ListRest.calm
  BY DEF NoCategory, ListRest
<1>5. \A p \in Path : rows[p] # NoCategory <=> p \in Selectable(told)
  BY <1>3, <1>4
<1> QED
  BY <1>1, <1>2, <1>3, <1>4, <1>5 DEF rows, told

\* What the lists know is kept.
LEMMA QuietStep ==
    ASSUME ListTypeOK, ListTypeOK', ToldInv, RowsInv, SettleInv, [ListNext]_listVars
    PROVE  ToldInv' /\ RowsInv' /\ SettleInv'
<1>1. /\ mailbox \in [Path -> Mailbox] /\ category \in [Path -> CategoryRow]
      /\ listing.told \in [Path -> Mailbox] /\ quiet \in 0 .. Len(Roles)
  BY DEF ListTypeOK
<1>2. Len(Roles) \in Nat /\ Snoozed \in Path
  BY PathsAndRoles
<1>3. CASE FetchAllFolders
  <2>1. /\ listing' = [at |-> "told", told |-> mailbox, calm |-> TRUE]
        /\ UNCHANGED <<mailbox, category, quiet>>
    BY <1>3 DEF FetchAllFolders
  <2>2. listing'.told = mailbox
    BY <2>1
  <2> QED
    BY <2>1, <2>2 DEF ToldInv, RowsInv, SettleInv
<1>4a. CASE EnsureRoot
  <2>1. /\ quiet' = 0
        /\ \/ listing' = [listing EXCEPT !.at = "rooted", !.calm = FALSE]
           \/ mailbox' = mailbox /\ listing' = [listing EXCEPT !.at = "rooted"]
    BY <1>4a DEF EnsureRoot
  <2>2. CASE listing' = [listing EXCEPT !.at = "rooted", !.calm = FALSE]
    <3>1. ~listing'.calm
      BY <2>2 DEF ListTypeOK
    <3> QED
      BY <2>1, <3>1 DEF ToldInv, RowsInv, SettleInv
  <2>3. CASE mailbox' = mailbox /\ listing' = [listing EXCEPT !.at = "rooted"]
    <3>1. listing'.calm = listing.calm /\ listing'.told = listing.told
      BY <1>1, <2>3 DEF ListTypeOK
    <3> QED
      BY <2>1, <2>3, <3>1 DEF ToldInv, RowsInv, SettleInv
  <2> QED
    BY <2>1, <2>2, <2>3
<1>4. CASE CreateSnoozed
  <2>1. quiet' = 0
    BY <1>4 DEF CreateSnoozed
  <2>2. CASE /\ mailbox' = [mailbox EXCEPT ![Snoozed] = ""]
             /\ listing' = [listing EXCEPT !.at = "made", !.told[Snoozed] = ""]
    <3>1. listing'.calm = listing.calm /\ listing'.told = [listing.told EXCEPT ![Snoozed] = ""]
      <4> DEFINE told == [listing.told EXCEPT ![Snoozed] = ""]
      <4>1. listing' = [listing EXCEPT !.at = "made", !.told = told]
        BY <2>2, Zenon
      <4> HIDE DEF told
      <4>2. listing \in [at: {"rest", "told", "rooted", "made"}, told: [Path -> Mailbox], calm: BOOLEAN]
        BY DEF ListTypeOK
      <4>3. listing'.calm = listing.calm /\ listing'.told = told
        BY <4>1, <4>2
      <4> QED
        BY <4>3 DEF told
    <3>2. ToldInv'
      BY <2>2, <3>1 DEF ToldInv
    <3> QED
      BY <2>1, <3>2 DEF RowsInv, SettleInv
  <2>3. CASE mailbox' = mailbox /\ listing' = [listing EXCEPT !.at = "made"]
    <3>1. listing'.calm = listing.calm /\ listing'.told = listing.told
      BY <1>1, <2>3 DEF ListTypeOK
    <3> QED
      BY <2>1, <2>3, <3>1 DEF ToldInv, RowsInv, SettleInv
  <2> QED
    BY <1>4, <2>2, <2>3 DEF CreateSnoozed
<1>5. CASE SaveList
  <2>1. /\ category' = WithRoles(MatchRemote(listing.told), listing.told)
        /\ \A p \in Path : category'[p] # NoCategory <=> p \in Selectable(listing.told)
        /\ ~listing'.calm /\ mailbox' = mailbox
    BY <1>5, ListSaved
  <2>2. quiet' = IF ~listing.calm THEN 0 ELSE IF quiet < Len(Roles) THEN quiet + 1 ELSE quiet
    BY <1>5 DEF SaveList
  <2>3. CASE quiet' = 0
    BY <2>1, <2>3 DEF ToldInv, RowsInv, SettleInv
  <2>4. CASE quiet' # 0
    <3>1. listing.calm /\ listing.told = mailbox
      BY <2>2, <2>4 DEF ToldInv
    <3>2. RowsInv' /\ ToldInv'
      BY <2>1, <3>1 DEF RowsInv, ToldInv, Selectable
    <3> DEFINE rows == MatchRemote(mailbox)
    <3> DEFINE next == category'
    <3>3. rows \in [Path -> CategoryRow] /\ next = WithRoles(rows, mailbox)
      BY <1>1, <2>1, <3>1, SavedRows
    <3>4. quiet > 0 => rows = category
      <4>1. SUFFICES ASSUME quiet > 0 PROVE rows = category
        OBVIOUS
      <4>2. \A p \in Path : category[p] # NoCategory <=> p \in Selectable(mailbox)
        BY <4>1 DEF RowsInv
      <4>3. category = [p \in Path |-> category[p]]
        BY <1>1
      <4> QED
        BY <4>2, <4>3, Zenon DEF MatchRemote
    <3> HIDE DEF rows, next
    <3> DEFINE M == Misplaced(next, mailbox)
    <3> DEFINE N == Misplaced(rows, mailbox)
    <3>5. /\ InPlace(rows, mailbox) => InPlace(next, mailbox)
          /\ InPlace(next, mailbox) \/ (M \subseteq N /\ M # N /\ N # Role)
      BY <1>1, <3>3, RolesSettle
    <3>6. N \subseteq Role
      BY DEF Misplaced
    <3> HIDE DEF M, N
    <3>7. ASSUME ~InPlace(next, mailbox)
          PROVE  /\ Cardinality(M) \in Nat /\ Cardinality(N) \in Nat
                 /\ Cardinality(M) + 1 <= Cardinality(N)
                 /\ Cardinality(N) + 1 <= Len(Roles)
      <4>1. IsFiniteSet(Role) /\ Cardinality(Role) <= Len(Roles) /\ Cardinality(Role) \in Nat
        BY RolesFinite, FS_CardinalityType
      <4>2. /\ IsFiniteSet(N) /\ Cardinality(N) <= Cardinality(Role)
            /\ Cardinality(N) # Cardinality(Role)
        BY <3>5, <3>6, <3>7, <4>1, FS_Subset
      <4>3. /\ IsFiniteSet(M) /\ Cardinality(M) <= Cardinality(N)
            /\ Cardinality(M) # Cardinality(N)
        BY <3>5, <3>7, <4>2, FS_Subset
      <4>4. Cardinality(M) \in Nat /\ Cardinality(N) \in Nat
        BY <4>2, <4>3, FS_CardinalityType
      <4> QED
        BY <1>2, <4>1, <4>2, <4>3, <4>4
    <3>8. InPlace(next, mailbox) \/ Cardinality(M) <= Len(Roles) - 1 - quiet'
      <4>1. SUFFICES ASSUME ~InPlace(next, mailbox)
                     PROVE  Cardinality(M) <= Len(Roles) - 1 - quiet'
        OBVIOUS
      <4>2. CASE quiet = 0
        BY <1>1, <1>2, <2>2, <2>4, <3>1, <3>7, <4>1, <4>2
      <4>3. CASE quiet > 0
        <5>1. Cardinality(N) <= Len(Roles) - 1 - quiet
          BY <3>4, <3>5, <4>1, <4>3 DEF SettleInv, N
        <5> QED
          BY <1>1, <1>2, <2>2, <3>1, <3>7, <4>1, <5>1
      <4> QED
        BY <1>1, <4>2, <4>3
    <3>9. SettleInv'
      BY <2>1, <3>8 DEF SettleInv, M, next
    <3> QED
      BY <3>2, <3>9
  <2> QED
    BY <2>3, <2>4
<1>6. CASE UNCHANGED listVars
  BY <1>6 DEF listVars, ToldInv, RowsInv, SettleInv
<1>7. CASE ~listing'.calm /\ quiet' = 0
  BY <1>7 DEF ToldInv, RowsInv, SettleInv
<1> QED
  BY <1>3, <1>4, <1>4a, <1>5, <1>6, <1>7, OthersDisturb

-----------------------------------------------------------------------------
(* The paths of the rows.                                                  *)

\* Only the row of a folder that was renamed has another path than its own. A
\* folder that was renamed is not there, unless it was made again.
PathInv ==
    /\ \A p \in Path : category[p].path \in {"", p} \/ p \in vacated
    /\ \A p \in vacated \ reborn : mailbox[p] = "absent"
    /\ Renaming \subseteq vacated

\* What the worker holds when it has found the row, field by field
LEMMA HeldRow ==
    ASSUME ListTypeOK, ChoreInv, chore.at = "found"
    PROVE  /\ chores # <<>> /\ NextChore.kind \in {"create", "rename"} /\ NextChore.to \in Path
           /\ chore.model \in CategoryRow /\ chore.model.path = NextChore.to
           /\ chore.id \in Path
           /\ chore.insert => chore.id = NextChore.to /\ chore.model.role = ""
           /\ ~chore.insert => NextChore.kind = "rename" /\ chore.id = NextChore.from
<1>1. chores # <<>> /\ NextChore.kind \in {"create", "rename"} /\ chore.model \in CategoryRow
  BY ChoreFields DEF ChoreInv
<1>2. /\ NextChore.to \in Path /\ (NextChore.kind = "rename" => NextChore.from \in Path)
  BY <1>1, FirstChore
<1>3. CASE chore.insert
  <2>1. chore.id = NextChore.to /\ chore.model = [path |-> NextChore.to, role |-> ""]
    BY <1>3, Zenon DEF ChoreInv
  <2> DEFINE row == [path |-> NextChore.to, role |-> ""]
  <2>2. row.path = NextChore.to /\ row.role = ""
    OBVIOUS
  <2> HIDE DEF row
  <2>3. chore.model.path = NextChore.to /\ chore.model.role = ""
    BY <2>1, <2>2, Zenon DEF row
  <2> QED
    BY <1>1, <1>2, <1>3, <2>1, <2>3
<1>4. CASE ~chore.insert
  <2>1. NextChore.kind = "rename" /\ chore.id = NextChore.from /\ chore.model.path = NextChore.to
    BY <1>4, Zenon DEF ChoreInv
  <2> QED
    BY <1>1, <1>2, <1>4, <2>1
<1> QED
  BY <1>3, <1>4

\* The paths of the rows are kept.
LEMMA PathStep ==
    ASSUME ListTypeOK, ListTypeOK', ChoreInv, ToldInv, PathInv, [ListNext]_listVars
    PROVE  PathInv'
<1>1. /\ mailbox \in [Path -> Mailbox] /\ category \in [Path -> CategoryRow]
      /\ vacated \subseteq Path /\ reborn \subseteq vacated
      /\ chores \in Seq(FolderTask) /\ "" \notin Path /\ "absent" # ""
      /\ Snoozed \in Path /\ Container \in Path
  BY PathsAndRoles DEF ListTypeOK
<1>2. UNCHANGED <<chores, chore>> => Renaming' = Renaming
  BY DEF Renaming
<1>3. chore'.at \in {"rest", "done"} => Renaming' = {}
  BY DEF Renaming
<1>4. CASE FetchAllFolders
  BY <1>2, <1>4 DEF FetchAllFolders, PathInv
<1>5. CASE EnsureRoot \/ CreateSnoozed
  <2>1. UNCHANGED <<category, chores, chore, vacated>>
    BY <1>5 DEF EnsureRoot, CreateSnoozed
  <2>2. \/ UNCHANGED <<mailbox, reborn>>
        \/ \E p \in {Container, Snoozed} :
              /\ mailbox' = [mailbox EXCEPT ![p] = ""]
              /\ reborn' = reborn \cup ({p} \cap vacated)
    BY <1>5 DEF EnsureRoot, CreateSnoozed
  <2>3. \A p \in vacated' \ reborn' : mailbox'[p] = "absent"
    BY <1>1, <2>1, <2>2 DEF PathInv
  <2> QED
    BY <1>2, <2>1, <2>3 DEF PathInv
<1>6. CASE SaveList
  <2> DEFINE told == listing.told
  <2> DEFINE removed == (Path \ Selectable(told)) \ Renaming
  <2>1. /\ \A p \in Path : category'[p] # NoCategory <=> p \in Selectable(told)
        /\ \A p \in Path : p \in Selectable(told) =>
              category'[p].path = IF category[p] = NoCategory THEN p ELSE category[p].path
        /\ UNCHANGED <<mailbox, chores, chore>>
    BY <1>6, ListSaved
  <2>2. vacated' = vacated \ removed /\ reborn' = reborn \ removed
    BY <1>6 DEF SaveList
  <2>3. ASSUME NEW p \in Path PROVE category'[p].path \in {"", p} \/ p \in vacated'
    <3>1. CASE p \in Selectable(told)
      <4>1. category'[p].path \in {p, category[p].path} /\ p \notin removed
        BY <2>1, <3>1
      <4> HIDE DEF removed
      <4> QED
        BY <2>2, <4>1 DEF PathInv
    <3>2. CASE p \notin Selectable(told)
      <4>1. category'[p] = NoCategory
        BY <2>1, <3>2
      <4>2. NoCategory.path = ""
        BY DEF NoCategory
      <4> QED
        BY <4>1, <4>2
    <3> QED
      BY <3>1, <3>2
  <2>4. \A p \in vacated' \ reborn' : mailbox'[p] = "absent"
    BY <2>1, <2>2 DEF PathInv
  <2>5. Renaming' \subseteq vacated'
    <3>1. Renaming' = Renaming
      BY <1>2, <2>1
    <3>2. Renaming \cap removed = {}
      OBVIOUS
    <3> QED
      BY <2>2, <3>1, <3>2 DEF PathInv
  <2> QED
    BY <2>3, <2>4, <2>5 DEF PathInv
<1>7. CASE QueueCategoryTask
  <2>1. /\ \E task \in FolderTask : chores' = Append(chores, task)
        /\ UNCHANGED <<mailbox, category, chore, vacated, reborn>>
    BY <1>7 DEF QueueCategoryTask
  <2>2. chores # <<>> => Head(chores') = Head(chores)
    <3>1. PICK task \in FolderTask : chores' = Append(chores, task)
      BY <2>1
    <3>2. chores \in Seq(FolderTask)
      BY <1>1
    <3> QED
      BY <3>1, <3>2
  <2>3. Renaming' = Renaming
    BY <2>1, <2>2 DEF Renaming, ChoreInv
  <2> QED
    BY <2>1, <2>3 DEF PathInv
<1>8. CASE ChangeRoleMapping
  <2>1. PICK p \in Path, r \in Role, holder \in SUBSET Path :
          category' = MoveRole(category, p, holder, r)
    BY <1>8 DEF ChangeRoleMapping
  <2>2. ASSUME NEW q \in Path PROVE category'[q].path = category[q].path
    <3>1. category'[q] \in {category[q], [category[q] EXCEPT !.role = r],
                            [category[q] EXCEPT !.role = ""]}
      BY <2>1 DEF MoveRole
    <3>2. category[q] \in CategoryRow
      BY <1>1
    <3>3. /\ [category[q] EXCEPT !.role = r] = [path |-> category[q].path, role |-> r]
          /\ [category[q] EXCEPT !.role = ""] = [path |-> category[q].path, role |-> ""]
      BY <3>2, RowWithRole, Zenon
    <3> QED
      BY <3>1, <3>3
  <2>3. UNCHANGED <<mailbox, chores, chore, vacated, reborn>>
    BY <1>8 DEF ChangeRoleMapping
  <2> QED
    BY <1>2, <2>2, <2>3 DEF PathInv
<1>9. CASE OtherChanges
  <2>1. PICK p \in Path, m \in Mailbox :
          /\ mailbox' = [mailbox EXCEPT ![p] = m]
          /\ reborn' = IF mailbox[p] = "absent" THEN reborn \cup ({p} \cap vacated) ELSE reborn
    BY <1>9 DEF OtherChanges
  <2>2. /\ chore' = [chore EXCEPT !.calm = FALSE] /\ UNCHANGED <<category, chores, vacated>>
    BY <1>9 DEF OtherChanges
  <2>3. chore'.at = chore.at
    BY <2>2 DEF ListTypeOK
  <2>4. Renaming' = Renaming
    BY <2>2, <2>3 DEF Renaming
  <2>5. \A q \in vacated' \ reborn' : mailbox'[q] = "absent"
    BY <1>1, <2>1, <2>2 DEF PathInv
  <2> QED
    BY <2>2, <2>4, <2>5 DEF PathInv
<1>10. ASSUME chores # <<>>, OnServer
       PROVE  /\ \A q \in vacated' \ reborn' : mailbox'[q] = "absent"
              /\ vacated \subseteq vacated'
              /\ NextChore.kind = "rename" => NextChore.from \in vacated'
  <2>1. /\ NextChore.from \in Path => mailbox'[NextChore.from] = "absent"
        /\ \A p \in Path : p \notin {NextChore.to, NextChore.from} => mailbox'[p] = mailbox[p]
        /\ vacated' \subseteq Path
    BY <1>10, ServerTypes
  <2>2. /\ vacated' = IF NextChore.kind = "rename" THEN vacated \cup {NextChore.from} ELSE vacated
        /\ reborn' = (reborn \ {NextChore.from}) \cup ({NextChore.to} \cap vacated)
    BY <1>10 DEF OnServer
  <2>3. NextChore.from # NextChore.to
    BY <1>10, FirstChore
  <2>4. ASSUME NEW q \in vacated' \ reborn' PROVE mailbox'[q] = "absent"
    <3>1. q \in Path
      BY <2>1
    <3>2. CASE q = NextChore.from
      BY <2>1, <3>1, <3>2
    <3>3. CASE q # NextChore.from
      <4>1. q \in vacated \ reborn /\ q # NextChore.to
        BY <2>2, <3>3
      <4> QED
        BY <2>1, <3>1, <3>3, <4>1 DEF PathInv
    <3> QED
      BY <3>2, <3>3
  <2> QED
    BY <2>2, <2>4
<1>11. CASE AskServer
  <2>1. /\ chores # <<>> /\ OnServer /\ UNCHANGED <<category, chores>>
        /\ chore'.at \in {"rest", "asked", "found", "done"}
    BY <1>11 DEF AskServer, Foreground, ListTypeOK
  <2>2. Renaming' \subseteq vacated'
    BY <1>10, <2>1 DEF Renaming, NextChore
  <2> QED
    BY <1>10, <2>1, <2>2 DEF PathInv
<1>12. CASE FailChore
  <2>1. /\ chores # <<>> /\ chore.at = "rest" /\ UNCHANGED <<category, chore>>
        /\ UNCHANGED <<mailbox, vacated, reborn>> \/ OnServer
    BY <1>12 DEF FailChore, Foreground
  <2>2. Renaming' = {}
    BY <1>3, <2>1
  <2> QED
    BY <1>10, <2>1, <2>2 DEF PathInv
<1>13. CASE FindCategory
  <2>1. chore.at = "asked" /\ UNCHANGED <<mailbox, category, chores, vacated, reborn>>
    BY <1>13 DEF FindCategory
  <2>2. Renaming' \subseteq Renaming
    <3>1. Head(chores') = Head(chores)
      BY <2>1
    <3> QED
      BY <2>1, <3>1, Zenon DEF Renaming
  <2> QED
    BY <2>1, <2>2 DEF PathInv
<1>14. CASE SaveCategory
  <2>1. /\ chore.at = "found"
        /\ category' = [category EXCEPT ![chore.id] = chore.model] \/ UNCHANGED category
        /\ chore' = [chore EXCEPT !.at = "done"]
        /\ UNCHANGED <<mailbox, chores, vacated, reborn>>
    BY <1>14 DEF SaveCategory
  <2>2. chore'.at = "done"
    BY <2>1 DEF ListTypeOK
  <2>3. /\ chores # <<>> /\ chore.model.path = NextChore.to /\ chore.id \in Path
        /\ chore.insert => chore.id = NextChore.to
        /\ ~chore.insert => NextChore.kind = "rename" /\ chore.id = NextChore.from
    BY <2>1, HeldRow
  <2>4. ~chore.insert => chore.id \in vacated
    BY <2>1, <2>3 DEF Renaming, PathInv, NextChore
  <2>5. chore.model.path = chore.id \/ chore.id \in vacated
    BY <2>3, <2>4, Zenon
  <2>6. \A p \in Path : category'[p].path \in {"", p} \/ p \in vacated
    BY <1>1, <2>1, <2>3, <2>5 DEF PathInv
  <2> QED
    BY <1>3, <2>1, <2>2, <2>6 DEF PathInv
<1>15. CASE CompleteChore \/ InsertThrows \/ KillLists
  <2>1. chore' = ChoreRest /\ UNCHANGED <<mailbox, category, vacated, reborn>>
    BY <1>15 DEF CompleteChore, InsertThrows, KillLists, Relaunch
  <2>2. Renaming' = {}
    BY <1>3, <2>1 DEF ChoreRest
  <2> QED
    BY <2>1, <2>2 DEF PathInv
<1>16. CASE UNCHANGED listVars
  BY <1>2, <1>16 DEF listVars, PathInv
<1> QED
  BY <1>4, <1>5, <1>6, <1>7, <1>8, <1>9, <1>11, <1>12, <1>13, <1>14, <1>15, <1>16 DEF ListNext

-----------------------------------------------------------------------------
(* The roles of the rows.                                                  *)

\* No two rows have one role, unless a stale row brought it back.
RoleInv == Unique(category, Role \ clobbered)

\* The roles of the rows are kept different.
LEMMA RoleStep ==
    ASSUME ListTypeOK, ListTypeOK', ChoreInv, RoleInv, [ListNext]_listVars
    PROVE  RoleInv'
<1>1. category \in [Path -> CategoryRow] /\ "" \notin Role
  BY PathsAndRoles DEF ListTypeOK
<1>2. UNCHANGED <<category, clobbered>> => RoleInv'
  BY DEF RoleInv, Unique
<1>3. CASE SaveList
  <2> DEFINE told == listing.told
  <2> DEFINE rows == MatchRemote(told)
  <2> DEFINE some == Role \ clobbered
  <2>1. category' = WithRoles(rows, told) /\ told \in [Path -> Mailbox] /\ clobbered' = clobbered
    BY <1>3, ListSaved
  <2>2. rows \in [Path -> CategoryRow]
    <3> HIDE DEF told
    <3> QED
      BY <2>1, SavedRows
  <2>3. Unique(rows, some)
    <3>1. ASSUME NEW p \in Path PROVE rows[p].role \in {"", category[p].role}
      <4>1. rows[p] \in {NoCategory, [path |-> p, role |-> ""], category[p]}
        BY DEF MatchRemote
      <4>2. NoCategory.role = "" /\ [path |-> p, role |-> ""].role = ""
        BY DEF NoCategory
      <4> HIDE DEF rows
      <4> QED
        BY <4>1, <4>2
    <3> HIDE DEF rows
    <3> QED
      BY <1>1, <3>1 DEF RoleInv, Unique
  <2> HIDE DEF told, rows, some
  <2>4. Unique(WithRoles(rows, told), some)
    <3>1. some \in SUBSET Role
      BY DEF some
    <3> QED
      BY <2>1, <2>2, <2>3, <3>1, RolesUnique
  <2> QED
    BY <2>1, <2>4 DEF RoleInv, some
<1>4. CASE ChangeRoleMapping
  <2>1. PICK p \in Path, r \in Role :
          \E holder \in IF {q \in Path : category[q].role = r} = {} THEN {{}}
                        ELSE {{q} : q \in {q \in Path : category[q].role = r}} :
             category' = MoveRole(category, p, holder, r)
    BY <1>4 DEF ChangeRoleMapping
  <2>2. PICK holder : /\ category' = MoveRole(category, p, holder, r)
                      /\ \/ holder = {} /\ \A q \in Path : category[q].role # r
                         \/ \E q \in Path : category[q].role = r /\ holder = {q}
    BY <2>1
  <2>3. ASSUME NEW q \in Path
        PROVE  category'[q].role = IF q = p THEN r ELSE IF q \in holder THEN "" ELSE category[q].role
    <3>1. category[q] \in CategoryRow
      BY <1>1
    <3>2. /\ [category[q] EXCEPT !.role = r] = [path |-> category[q].path, role |-> r]
          /\ [category[q] EXCEPT !.role = ""] = [path |-> category[q].path, role |-> ""]
      BY <3>1, RowWithRole, Zenon
    <3>3. category'[q] = IF q = p THEN [category[q] EXCEPT !.role = r]
                         ELSE IF q \in holder THEN [category[q] EXCEPT !.role = ""] ELSE category[q]
      BY <2>2, Zenon DEF MoveRole
    <3> QED
      BY <3>2, <3>3
  <2>4. clobbered' = clobbered
    BY <1>4 DEF ChangeRoleMapping
  <2>5. SUFFICES ASSUME NEW s \in Role \ clobbered, NEW a \in Path, NEW b \in Path,
                        category'[a].role = s, category'[b].role = s
                 PROVE  a = b
    BY <2>4 DEF RoleInv, Unique
  <2>6. \A x, y \in Path : category[x].role = s /\ category[y].role = s => x = y
    BY DEF RoleInv, Unique
  <2>7. s # ""
    BY <1>1
  <2>8. CASE a # p /\ b # p
    BY <2>3, <2>5, <2>6, <2>7, <2>8
  <2>9. CASE a = p \/ b = p
    <3>1. s = r
      BY <2>3, <2>5, <2>9
    <3>2. \A x \in Path : x # p => category'[x].role # s
      BY <2>2, <2>3, <2>6, <2>7, <3>1
    <3> QED
      BY <2>5, <3>2
  <2> QED
    BY <2>8, <2>9
<1>5. CASE SaveCategory
  <2>1. chore.at = "found" /\ (UNCHANGED <<category, clobbered>>
           \/ /\ category' = [category EXCEPT ![chore.id] = chore.model]
              /\ clobbered' = IF chore.insert \/ category[chore.id].role = chore.model.role
                              THEN clobbered ELSE clobbered \cup {chore.model.role})
    BY <1>5 DEF SaveCategory
  <2>2. chore.id \in Path /\ (chore.insert => chore.model.role = "")
    BY <2>1, HeldRow
  <2>3. CASE /\ category' = [category EXCEPT ![chore.id] = chore.model]
             /\ clobbered' = IF chore.insert \/ category[chore.id].role = chore.model.role
                             THEN clobbered ELSE clobbered \cup {chore.model.role}
    <3>1. /\ category'[chore.id] = chore.model
          /\ \A p \in Path : p # chore.id => category'[p] = category[p]
      BY <1>1, <2>2, <2>3
    <3>2. CASE /\ clobbered' = clobbered
               /\ chore.model.role = "" \/ category[chore.id].role = chore.model.role
      <4>1. \A p \in Path : category'[p].role \in {"", category[p].role}
        BY <2>2, <3>1, <3>2
      <4>2. SUFFICES ASSUME NEW s \in Role \ clobbered, NEW a \in Path, NEW b \in Path,
                            category'[a].role = s, category'[b].role = s
                     PROVE  a = b
        BY <3>2 DEF RoleInv, Unique
      <4>3. category[a].role = s /\ category[b].role = s
        BY <1>1, <4>1, <4>2
      <4> QED
        BY <4>3 DEF RoleInv, Unique
    <3>3. CASE clobbered' = clobbered \cup {chore.model.role}
      <4>1. \A p \in Path : category'[p].role \in {chore.model.role, category[p].role}
        BY <3>1
      <4>2. SUFFICES ASSUME NEW s \in Role \ clobbered', NEW a \in Path, NEW b \in Path,
                            category'[a].role = s, category'[b].role = s
                     PROVE  a = b
        BY DEF RoleInv, Unique
      <4>3. s \in Role \ clobbered /\ s # chore.model.role
        BY <3>3
      <4>4. category[a].role = s /\ category[b].role = s
        BY <4>1, <4>2, <4>3
      <4> QED
        BY <4>3, <4>4 DEF RoleInv, Unique
    <3> QED
      BY <2>2, <2>3, <3>2, <3>3, Zenon
  <2> QED
    BY <1>2, <2>1, <2>3
<1>6. FetchAllFolders \/ EnsureRoot \/ CreateSnoozed \/ QueueCategoryTask \/ OtherChanges
         => UNCHANGED <<category, clobbered>>
  BY DEF FetchAllFolders, EnsureRoot, CreateSnoozed, QueueCategoryTask, OtherChanges
<1>7. AskServer \/ FailChore \/ FindCategory \/ CompleteChore \/ InsertThrows \/ KillLists
         => UNCHANGED <<category, clobbered>>
  BY DEF AskServer, FailChore, FindCategory, CompleteChore, InsertThrows, KillLists, Relaunch
<1>8. UNCHANGED listVars => UNCHANGED <<category, clobbered>>
  BY DEF listVars
<1> QED
  BY <1>2, <1>3, <1>4, <1>5, <1>6, <1>7, <1>8 DEF ListNext

-----------------------------------------------------------------------------
(* The task that ended the process.                                        *)

\* The server has what the first task asks for, which it thus refuses now.
HeadDone ==
    /\ chores # <<>>
    /\ NextChore.kind \in {"create", "rename"}
    /\ mailbox[NextChore.to] # "absent"
    /\ NextChore.kind = "create" => mailbox[NextChore.to] # "noselect"

DiedInv ==
    /\ chore.at \in {"asked", "found"} /\ chore.calm => HeadDone
    /\ died => chore.at = "rest" /\ HeadDone

\* What was done stays done until another client acts.
LEMMA DiedStep ==
    ASSUME ListTypeOK, ListTypeOK', ChoreInv, DiedInv, [ListNext]_listVars
    PROVE  DiedInv'
<1>1. UNCHANGED <<mailbox, chores>> => HeadDone' = HeadDone
  BY DEF HeadDone, NextChore
<1>2. UNCHANGED <<mailbox, chores, chore, died>> => DiedInv'
  BY <1>1 DEF DiedInv
<1>3. FetchAllFolders \/ SaveList \/ ChangeRoleMapping => UNCHANGED <<mailbox, chores, chore, died>>
  BY DEF FetchAllFolders, SaveList, ChangeRoleMapping
<1>4. CASE EnsureRoot \/ CreateSnoozed
  <2>1. /\ UNCHANGED <<chores, chore, died>>
        /\ \/ UNCHANGED mailbox
           \/ \E p \in {Container, Snoozed} : mailbox' = [mailbox EXCEPT ![p] = ""]
    BY <1>4 DEF EnsureRoot, CreateSnoozed
  <2>2. mailbox \in [Path -> Mailbox] /\ Snoozed \in Path /\ Container \in Path
    BY PathsAndRoles DEF ListTypeOK
  <2>3. HeadDone => HeadDone'
    <3>1. SUFFICES ASSUME HeadDone PROVE HeadDone'
      OBVIOUS
    <3>2. chores # <<>> /\ NextChore' = NextChore
      BY <2>1, <3>1 DEF HeadDone, NextChore
    <3>3. NextChore.to \in Path
      BY <3>1, <3>2, FirstChore DEF HeadDone
    <3>4. mailbox'[NextChore.to] \in {mailbox[NextChore.to], ""}
      BY <2>1, <2>2, <3>3
    <3> QED
      BY <2>1, <3>1, <3>2, <3>4 DEF HeadDone
  <2> QED
    BY <2>1, <2>3 DEF DiedInv
<1>5. CASE QueueCategoryTask
  <2>1. /\ \E task \in FolderTask : chores' = Append(chores, task)
        /\ UNCHANGED <<mailbox, chore, died>>
    BY <1>5 DEF QueueCategoryTask
  <2>2. chores # <<>> => Head(chores') = Head(chores) /\ chores' # <<>>
    <3>1. PICK task \in FolderTask : chores' = Append(chores, task)
      BY <2>1
    <3>2. chores \in Seq(FolderTask)
      BY DEF ListTypeOK
    <3> QED
      BY <3>1, <3>2
  <2>3. HeadDone => HeadDone'
    BY <2>1, <2>2 DEF HeadDone, NextChore
  <2> QED
    BY <2>1, <2>3 DEF DiedInv
<1>6. CASE OtherChanges
  <2>1. died' = FALSE /\ chore' = [chore EXCEPT !.calm = FALSE]
    BY <1>6 DEF OtherChanges
  <2>2. ~chore'.calm
    BY <2>1 DEF ListTypeOK
  <2> QED
    BY <2>1, <2>2 DEF DiedInv
<1>7. CASE AskServer
  <2>1. /\ chores # <<>> /\ chore.at = "rest" /\ OnServer /\ UNCHANGED <<chores, died>>
        /\ chore' = [chore EXCEPT !.calm = TRUE,
                                  !.at = IF NextChore.kind = "destroy" THEN "done" ELSE "asked"]
    BY <1>7 DEF AskServer, Foreground
  <2>2. /\ Possible
        /\ NextChore.to \in Path => mailbox'[NextChore.to] # "absent"
        /\ NextChore.kind = "create" => mailbox'[NextChore.to] = ""
    BY <2>1, ServerTypes
  <2>3. ~HeadDone
    BY <2>2 DEF HeadDone, Possible
  <2>4. chore'.at = IF NextChore.kind = "destroy" THEN "done" ELSE "asked"
    BY <2>1 DEF ListTypeOK
  <2>5. NextChore.kind # "destroy" => HeadDone'
    <3>1. NextChore' = NextChore /\ chores' # <<>>
      BY <2>1 DEF NextChore
    <3>2. NextChore.kind # "destroy" => NextChore.kind \in {"create", "rename"} /\ NextChore.to \in Path
      BY <2>1, FirstChore
    <3> QED
      BY <2>2, <3>1, <3>2 DEF HeadDone
  <2> QED
    BY <2>1, <2>3, <2>4, <2>5 DEF DiedInv
<1>8. CASE FailChore \/ CompleteChore
  <2>1. died' = FALSE /\ chore'.at = "rest"
    <3>1. ChoreRest.at = "rest"
      BY DEF ChoreRest
    <3> QED
      BY <1>8, <3>1 DEF FailChore, CompleteChore
  <2> QED
    BY <2>1 DEF DiedInv
<1>9. CASE FindCategory
  <2>1. /\ chore.at = "asked" /\ UNCHANGED <<mailbox, chores, died>>
        /\ chore'.calm = chore.calm
    BY <1>9 DEF FindCategory, ListTypeOK
  <2> QED
    BY <1>1, <2>1 DEF DiedInv
<1>10. CASE SaveCategory
  <2>1. chore.at = "found" /\ died' = died /\ chore' = [chore EXCEPT !.at = "done"]
    BY <1>10 DEF SaveCategory
  <2>2. chore'.at = "done"
    BY <2>1 DEF ListTypeOK
  <2> QED
    BY <2>1, <2>2 DEF DiedInv
<1>11. CASE InsertThrows
  <2>1. chore.at = "found" /\ died' = chore.calm /\ UNCHANGED <<mailbox, chores>> /\ chore'.at = "rest"
    BY <1>11 DEF InsertThrows, Relaunch, ChoreRest
  <2> QED
    BY <1>1, <2>1, ChoreFields DEF DiedInv
<1>12. CASE KillLists
  <2>1. UNCHANGED <<mailbox, chores, died>> /\ chore'.at = "rest"
    BY <1>12 DEF KillLists, Relaunch, ChoreRest
  <2> QED
    BY <1>1, <2>1 DEF DiedInv
<1>13. CASE UNCHANGED listVars
  BY <1>2, <1>13 DEF listVars
<1> QED
  BY <1>2, <1>3, <1>4, <1>5, <1>6, <1>7, <1>8, <1>9, <1>10, <1>11, <1>12, <1>13 DEF ListNext

-----------------------------------------------------------------------------
(* The theorems.                                                           *)

\* The inductive invariant
ListInv ==
    /\ ListTypeOK /\ ChoreInv
    /\ ToldInv /\ RowsInv /\ SettleInv
    /\ PathInv /\ RoleInv /\ DiedInv

\* A new account satisfies the invariant.
LEMMA ListInvInit == ListInit => ListInv
<1> SUFFICES ASSUME ListInit PROVE ListInv
  OBVIOUS
<1>1. ListTypeOK /\ ChoreInv
  BY ListTypesInit
<1>2. /\ quiet = 0 /\ died = FALSE /\ vacated = {} /\ chore = ChoreRest /\ listing = ListRest
      /\ category = [p \in Path |-> NoCategory]
  BY DEF ListInit
<1>3. NoCategory.path = "" /\ NoCategory.role = "" /\ ChoreRest.at = "rest" /\ ~ListRest.calm
  BY DEF NoCategory, ChoreRest, ListRest
<1>4. ToldInv /\ RowsInv /\ SettleInv /\ DiedInv
  <2>1. ~listing.calm /\ ~died /\ chore.at = "rest"
    BY <1>2, <1>3, Zenon
  <2>2. ~(quiet > 0)
    BY <1>2
  <2> QED
    BY <2>1, <2>2 DEF ToldInv, RowsInv, SettleInv, DiedInv
<1>5. PathInv
  BY <1>2, <1>3 DEF PathInv, Renaming
<1>6. RoleInv
  <2>1. \A p \in Path : category[p].role = ""
    BY <1>2, <1>3
  <2>2. "" \notin Role
    BY PathsAndRoles
  <2> QED
    BY <2>1, <2>2 DEF RoleInv, Unique
<1> QED
  BY <1>1, <1>4, <1>5, <1>6 DEF ListInv

\* The invariant is kept by every step.
LEMMA ListInvStep == ListInv /\ [ListNext]_listVars => ListInv'
<1> SUFFICES ASSUME ListInv, [ListNext]_listVars PROVE ListInv'
  OBVIOUS
<1>1. /\ ListTypeOK /\ ChoreInv /\ ToldInv /\ RowsInv /\ SettleInv
      /\ PathInv /\ RoleInv /\ DiedInv
  BY DEF ListInv
<1>2. ListTypeOK' /\ ChoreInv'
  BY <1>1, ListTypesStep
<1>3. ToldInv' /\ RowsInv' /\ SettleInv'
  BY <1>1, <1>2, QuietStep
<1>4. PathInv' /\ RoleInv' /\ DiedInv'
  BY <1>1, <1>2, PathStep, RoleStep, DiedStep
<1> QED
  BY <1>2, <1>3, <1>4 DEF ListInv

\* Every reachable state satisfies the invariant.
THEOREM ListInvariant == ListSpec => []ListInv
  BY ListInvInit, ListInvStep, PTL DEF ListSpec

\* The variables of the folder list keep their types.
THEOREM ListTypeCorrect == ListSpec => []ListTypeOK
<1>1. ListInv => ListTypeOK
  BY DEF ListInv
<1> QED
  BY <1>1, ListInvariant, PTL

\* After one list that nobody disturbed, the rows are the folders of the server,
\* with their paths.
THEOREM FoldersAgreeCorrect == ListSpec => []FoldersAgree
<1>1. ListInv => FoldersAgree
  <2>1. SUFFICES ASSUME ListInv, quiet > 0, NEW p \in Path
                 PROVE  /\ category[p] # NoCategory <=> p \in Selectable(mailbox)
                        /\ category[p].path \in {"", p} \/ p \in reborn
    BY DEF FoldersAgree
  <2>2. category[p] # NoCategory <=> p \in Selectable(mailbox)
    BY <2>1 DEF ListInv, RowsInv
  <2>3. category[p] # NoCategory <=> category[p].path # ""
    BY <2>1, RowHasPath DEF ListInv
  <2>4. /\ category[p].path \in {"", p} \/ p \in vacated
        /\ p \in vacated \ reborn => mailbox[p] = "absent"
    BY <2>1 DEF ListInv, PathInv
  <2> QED
    BY <2>2, <2>3, <2>4 DEF Selectable
<1> QED
  BY <1>1, ListInvariant, PTL

\* No two folders have one role, unless a stale row brought it back.
THEOREM OneRoleCorrect == ListSpec => []OneRole
<1>1. ListInv => OneRole
  <2>1. SUFFICES ASSUME ListInv, NEW r \in Role \ clobbered
                 PROVE  Cardinality({p \in Path : category[p].role = r}) <= 1
    BY DEF OneRole
  <2> DEFINE some == {p \in Path : category[p].role = r}
  <2>2. \A p, q \in some : p = q
    BY <2>1 DEF ListInv, RoleInv, Unique
  <2>3. some = {} \/ \E p : some = {p}
    <3>1. SUFFICES ASSUME some # {} PROVE \E p : some = {p}
      OBVIOUS
    <3>2. PICK p : p \in some
      BY <3>1
    <3>3. some = {p}
      BY <2>2, <3>2
    <3> QED
      BY <3>3
  <2> HIDE DEF some
  <2>4. Cardinality(some) <= 1
    <3>1. some = {} => Cardinality(some) = 0
      BY FS_EmptySet
    <3>2. (\E p : some = {p}) => Cardinality(some) = 1
      BY FS_Singleton
    <3> QED
      BY <2>3, <3>1, <3>2
  <2> QED
    BY <2>4 DEF some
<1> QED
  BY <1>1, ListInvariant, PTL

\* When as many lists were saved undisturbed as there are roles, each role that a
\* folder claims is given, for every list of roles and folders.
THEOREM RolesAssignedCorrect == ListSpec => []RolesAssigned
<1>1. ListInv => RolesAssigned
  <2> DEFINE claims(r) == {p \in Selectable(mailbox) : r \in {mailbox[p], NameRole[p]}}
  <2>1. SUFFICES ASSUME ListInv, quiet = Len(Roles), NEW r \in Role, claims(r) # {},
                        \A p \in claims(r) : ~Twofold(p),
                        \A p \in Path : category[p].role # r
                 PROVE  FALSE
    BY DEF RolesAssigned
  <2>2. ListTypeOK /\ SettleInv /\ mailbox \in [Path -> Mailbox]
    BY <2>1 DEF ListInv, ListTypeOK
  <2>3. Len(Roles) \in Nat /\ Len(Roles) # 0
    <3>1. Len(Roles) \in Nat /\ \E i \in 1 .. Len(Roles) : Roles[i] = r
      BY PathsAndRoles
    <3> QED
      BY <3>1
  <2>4. InPlace(category, mailbox)
    <3> DEFINE M == Misplaced(category, mailbox)
    <3>1. M \subseteq Role
      BY DEF Misplaced
    <3> HIDE DEF M
    <3>2. Cardinality(M) \in Nat
      BY <3>1, RolesFinite, FS_Subset, FS_CardinalityType
    <3>3. InPlace(category, mailbox) \/ Cardinality(M) <= Len(Roles) - 1 - quiet
      BY <2>1, <2>2, <2>3 DEF SettleInv, M
    <3> QED
      BY <2>1, <2>3, <3>2, <3>3
  <2>5. Claimed(r, mailbox)
    <3>1. PICK p \in Path : p \in Selectable(mailbox) /\ r \in {mailbox[p], NameRole[p]}
      BY <2>1 DEF Selectable
    <3> QED
      BY <3>1 DEF Claimed, ByFlag, ByName
  <2> DEFINE c == Claimant(r, mailbox)
  <2> DEFINE t == category[c].role
  <2>6. c \in Selectable(mailbox) /\ c \in ByFlag(r, mailbox) \cup ByName(r, mailbox)
    BY <2>2, <2>5, ClaimantClaims
  <2>7. Rightful(c, t, mailbox)
    BY <2>1, <2>4, <2>5 DEF InPlace, InPlaceFor
  <2> HIDE DEF c, t
  <2>8. /\ t \in Role /\ t # r
        /\ c \in ByFlag(t, mailbox) \cup ByName(t, mailbox)
    <3>1. t \in Role /\ Claimed(t, mailbox) /\ c = Claimant(t, mailbox)
      BY <2>7 DEF Rightful
    <3>2. c \in ByFlag(t, mailbox) \cup ByName(t, mailbox)
      BY <2>2, <3>1, ClaimantClaims
    <3>3. t # r
      BY <2>1, <2>6 DEF t, Selectable
    <3> QED
      BY <3>1, <3>2, <3>3
  <2>9. c \in claims(r) /\ c \in Path
    BY <2>6 DEF ByFlag, ByName, Selectable
  <2>10. Twofold(c)
    <3>1. \/ mailbox[c] = r /\ NameRole[c] = t
          \/ mailbox[c] = t /\ NameRole[c] = r
      BY <2>6, <2>8, <2>9 DEF ByFlag, ByName
    <3>2. mailbox[c] \in {"absent", "noselect", ""} \cup Flag
      BY <2>2, <2>9 DEF Mailbox
    <3>3. {r, t} \cap {"absent", "noselect", ""} = {}
      BY <2>8, PathsAndRoles
    <3> QED
      BY <2>8, <3>1, <3>2, <3>3 DEF Twofold
  <2> QED
    BY <2>1, <2>9, <2>10
<1> QED
  BY <1>1, ListInvariant, PTL

\* A task does not end the process twice, unless another client acted in between.
THEOREM DiesOnceCorrect == ListSpec => []DiesOnce
<1>1. ListInv => DiesOnce
  BY DEF ListInv, DiedInv, DiesOnce
<1> QED
  BY <1>1, ListInvariant, PTL

-----------------------------------------------------------------------------
(***************************************************************************)
(* CardSync, for any cards, any number of runners, any size of a page and  *)
(* any number of changes, failures and kills.                              *)
(***************************************************************************)

(* What the steps of a run do.                                             *)

RunType == [at: {"rest", "listed", "fetch", "page"}, remote: [Card -> Nat],
            needed: SUBSET Card, deleted: SUBSET (Nat \ {0}),
            page: [Card -> VCard], calm: BOOLEAN]

HandType == [at: {"rest", "loaded", "written", "read", "deleted", "renamed", "done"},
             model: Row, target: SUBSET Card, page: VCard]

\* The fields of a run
LEMMA RunFields ==
    ASSUME NEW r \in RunType
    PROVE  /\ r.at \in {"rest", "listed", "fetch", "page"} /\ r.remote \in [Card -> Nat]
           /\ r.needed \subseteq Card /\ r.deleted \subseteq Nat \ {0}
           /\ r.page \in [Card -> VCard] /\ r.calm \in BOOLEAN
BY DEF RunType

\* A run that is disturbed
LEMMA RunDisturbed ==
    ASSUME NEW r \in RunType
    PROVE  /\ [r EXCEPT !.calm = FALSE] \in RunType
           /\ ~[r EXCEPT !.calm = FALSE].calm
           /\ [r EXCEPT !.calm = FALSE].page = r.page
BY DEF RunType

\* Nobody's run is calm.
NoneCalm == /\ run' \in [Runner -> RunType]
            /\ \A v \in Runner : ~run'[v].calm

\* What a run holds of the book it held before, or has just read.
PagesFrom == \A v \in Runner, c \in Card : run'[v].page[c] \in {run[v].page[c], NoCard, book[c]}

\* Nobody else's run is calm.
OthersNotCalm(w) ==
    /\ run' \in [Runner -> RunType]
    /\ \A v \in Runner : v # w => ~run'[v].calm /\ run'[v].page = run[v].page

\* Somebody else acts.
LEMMA AllDisturbed ==
    ASSUME run \in [Runner -> RunType], run' = Disturbed(run)
    PROVE  NoneCalm /\ PagesFrom
<1>1. ASSUME NEW v \in Runner
      PROVE  run'[v] \in RunType /\ ~run'[v].calm /\ run'[v].page = run[v].page
  <2>1. run'[v] = [run[v] EXCEPT !.calm = FALSE] /\ run[v] \in RunType
    BY Zenon DEF Disturbed
  <2> QED
    BY <2>1, RunDisturbed, Zenon
<1>2. run' = [v \in Runner |-> run'[v]]
  BY DEF Disturbed
<1> QED
  BY <1>1, <1>2 DEF NoneCalm, PagesFrom

\* A run acts.
LEMMA OneActs ==
    ASSUME run \in [Runner -> RunType], NEW w \in Runner, NEW next \in RunType,
           run' = OthersDisturbed(w, next)
    PROVE  OthersNotCalm(w) /\ run'[w] = next
<1> DEFINE others == Disturbed(run)
<1>1. \A v \in Runner : others[v] \in RunType /\ ~others[v].calm /\ others[v].page = run[v].page
  <2>1. ASSUME NEW v \in Runner
        PROVE  others[v] \in RunType /\ ~others[v].calm /\ others[v].page = run[v].page
    <3>1. others[v] = [run[v] EXCEPT !.calm = FALSE] /\ run[v] \in RunType
      BY Zenon DEF Disturbed
    <3> QED
      BY <3>1, RunDisturbed, Zenon
  <2> QED
    BY <2>1
<1>2. others = [v \in Runner |-> others[v]]
  BY DEF Disturbed
<1>3. run' = [others EXCEPT ![w] = next]
  BY DEF OthersDisturbed
<1> HIDE DEF others
<1>4. others \in [Runner -> RunType]
  BY <1>1, <1>2
<1>5. run' \in [Runner -> RunType] /\ run'[w] = next
  BY <1>3, <1>4
<1>6. \A v \in Runner : v # w => run'[v] = others[v]
  BY <1>3, <1>4
<1> QED
  BY <1>1, <1>5, <1>6 DEF OthersNotCalm

\* The run that rests
LEMMA RestType ==
    /\ NoCard \in VCard /\ NoCard.etag = 0 /\ NoCard.text = 0
    /\ NoPage \in [Card -> VCard] /\ NoEtags \in [Card -> Nat]
    /\ \A c \in Card : NoPage[c] = NoCard
    /\ RunRest \in RunType /\ RunRest.at = "rest" /\ ~RunRest.calm /\ RunRest.page = NoPage
    /\ NoContact \in Row /\ NoContact.etag = 0 /\ NoContact.text = 0 /\ ~NoContact.hidden
    /\ HandRest \in HandType /\ HandRest.at = "rest" /\ HandRest.target = {}
    /\ HandRest.page = NoCard
<1>1. NoCard \in VCard /\ NoCard.etag = 0 /\ NoCard.text = 0
  BY DEF NoCard, VCard
<1>2. /\ NoPage \in [Card -> VCard] /\ NoEtags \in [Card -> Nat]
      /\ \A c \in Card : NoPage[c] = NoCard
  BY <1>1 DEF NoPage, NoEtags
<1>3. /\ RunRest \in RunType /\ RunRest.at = "rest" /\ ~RunRest.calm /\ RunRest.page = NoPage
  BY <1>2 DEF RunRest, RunType
<1>4. NoContact \in Row /\ NoContact.etag = 0 /\ NoContact.text = 0 /\ ~NoContact.hidden
  BY DEF NoContact, Row
<1>5. /\ HandRest \in HandType /\ HandRest.at = "rest" /\ HandRest.target = {}
      /\ HandRest.page = NoCard
  BY <1>1, <1>4 DEF HandRest, HandType
<1> QED
  BY <1>1, <1>2, <1>3, <1>4, <1>5

\* The parts of the type invariant
LEMMA CardTypes ==
    ASSUME CardTypeOK
    PROVE  /\ book \in [Card -> VCard] /\ contact \in [Card -> Row]
           /\ errands \in Seq(Errand) /\ hand \in HandType
           /\ run \in [Runner -> RunType]
           /\ fresh \subseteq Card /\ version \in Nat /\ failed \subseteq Card
           /\ \A c \in fresh : book[c] = NoCard /\ contact[c] = NoContact
           /\ changes \in 0 .. MaxChanges
BY DEF CardTypeOK, HandType, RunType

\* What each step of a run does, field by field
LEMMA ListEtagsDoes ==
    ASSUME CardTypeOK, NEW w \in Runner, ListEtags(w)
    PROVE  /\ OthersNotCalm(w)
           /\ run'[w].at = "listed" /\ \A c \in Card : run'[w].remote[c] = book[c].etag
           /\ run'[w].page = NoPage
           /\ UNCHANGED <<book, contact, errands, hand, fresh, version, failed, changes>>
           /\ ~settled'
<1> DEFINE etags == [c \in Card |-> book[c].etag]
<1> DEFINE next == [RunRest EXCEPT !.at = "listed", !.calm = TRUE, !.remote = etags]
<1>1. etags \in [Card -> Nat]
  BY CardTypes DEF VCard
<1> HIDE DEF etags
<1>2. next \in RunType /\ next.at = "listed" /\ next.remote = etags /\ next.page = NoPage
  BY <1>1, RestType DEF RunType
<1> USE DEF ListEtags
<1>3. run' = OthersDisturbed(w, next)
  BY DEF etags
<1> HIDE DEF next
<1>4. OthersNotCalm(w) /\ run'[w] = next
  BY <1>2, <1>3, CardTypes, OneActs
<1> QED
  BY <1>2, <1>4 DEF etags

LEMMA CompareDoes ==
    ASSUME CardTypeOK, NEW w \in Runner, Compare(w)
    PROVE  /\ OthersNotCalm(w) /\ run[w].at = "listed"
           /\ run'[w].at = "fetch" /\ run'[w].calm = run[w].calm /\ run'[w].page = run[w].page
           /\ run'[w].needed = {c \in Card : run[w].remote[c] \in
                                    ({run[w].remote[d] : d \in Card} \ {0}) \ EtagsOf(contact)}
           /\ run'[w].deleted = EtagsOf(contact) \ ({run[w].remote[d] : d \in Card} \ {0})
           /\ UNCHANGED <<book, contact, errands, hand, fresh, version, failed, changes>>
           /\ ~settled'
<1> DEFINE r == run[w]
<1> DEFINE remote == {r.remote[d] : d \in Card} \ {0}
<1> DEFINE local == EtagsOf(contact)
<1> DEFINE needed == {c \in Card : r.remote[c] \in remote \ local}
<1> DEFINE deleted == local \ remote
<1> DEFINE next == [r EXCEPT !.at = "fetch", !.remote = NoEtags, !.needed = needed,
                             !.deleted = deleted]
<1>1. r \in RunType /\ r.at = "listed"
  BY CardTypes DEF Compare
<1>2. needed \in SUBSET Card /\ deleted \in SUBSET (Nat \ {0})
  BY CardTypes DEF EtagsOf, Row
<1>3. run' = OthersDisturbed(w, next)
  BY Zenon DEF Compare
<1> HIDE DEF r, needed, deleted
<1>4. /\ next \in RunType /\ next.at = "fetch" /\ next.calm = r.calm /\ next.page = r.page
      /\ next.needed = needed /\ next.deleted = deleted
  BY <1>1, <1>2, RestType DEF RunType
<1> HIDE DEF next
<1>5. OthersNotCalm(w) /\ run'[w] = next
  BY <1>3, <1>4, CardTypes, OneActs
<1>6. UNCHANGED <<book, contact, errands, hand, fresh, version, failed, changes>> /\ ~settled'
  BY DEF Compare
<1> QED
  BY <1>1, <1>4, <1>5, <1>6 DEF r, needed, deleted

LEMMA MultigetDoes ==
    ASSUME CardTypeOK, NEW w \in Runner, Multiget(w)
    PROVE  /\ OthersNotCalm(w) /\ run[w].at = "fetch"
           /\ run'[w].at = "page" /\ run'[w].calm = run[w].calm
           /\ run'[w].deleted = run[w].deleted
           /\ \E chunk \in SUBSET run[w].needed :
                 /\ run'[w].needed = run[w].needed \ chunk
                 /\ \A c \in Card : run'[w].page[c] = IF c \in chunk THEN book[c] ELSE NoCard
           /\ UNCHANGED <<book, contact, errands, hand, fresh, version, failed, changes>>
           /\ ~settled'
<1> DEFINE r == run[w]
<1>1. r \in RunType /\ r.at = "fetch"
  BY CardTypes DEF Multiget
<1>2. PICK chunk \in SUBSET r.needed :
         run' = OthersDisturbed(w, [r EXCEPT !.at = "page", !.needed = r.needed \ chunk,
                   !.page = [c \in Card |-> IF c \in chunk THEN book[c] ELSE NoCard]])
  BY Zenon DEF Multiget
<1> DEFINE page == [c \in Card |-> IF c \in chunk THEN book[c] ELSE NoCard]
<1> DEFINE needed == r.needed \ chunk
<1> DEFINE next == [r EXCEPT !.at = "page", !.needed = needed, !.page = page]
<1>3. run' = OthersDisturbed(w, next)
  BY <1>2
<1>4. page \in [Card -> VCard]
  BY CardTypes, RestType
<1> HIDE DEF r, page
<1>5. needed \in SUBSET Card
  BY <1>1, RunFields
<1> HIDE DEF needed
<1>6. /\ next \in RunType /\ next.at = "page" /\ next.calm = r.calm /\ next.page = page
      /\ next.needed = needed /\ next.deleted = r.deleted
  BY <1>1, <1>4, <1>5 DEF RunType
<1> HIDE DEF next
<1>7. OthersNotCalm(w) /\ run'[w] = next
  BY <1>3, <1>6, CardTypes, OneActs
<1>8. UNCHANGED <<book, contact, errands, hand, fresh, version, failed, changes>> /\ ~settled'
  BY DEF Multiget
<1>9. \A c \in Card : page[c] = IF c \in chunk THEN book[c] ELSE NoCard
  BY DEF page
<1> QED
  BY <1>1, <1>6, <1>7, <1>8, <1>9 DEF r, needed

LEMMA StorePageDoes ==
    ASSUME CardTypeOK, NEW w \in Runner, StorePage(w)
    PROVE  /\ OthersNotCalm(w) /\ run[w].at = "page"
           /\ run'[w].at = "fetch" /\ run'[w].calm = run[w].calm
           /\ run'[w].needed = run[w].needed /\ run'[w].deleted = {} /\ run'[w].page = NoPage
           /\ contact' = Ingest(Purge(contact, run[w].deleted), run[w].page)
           /\ failed' = StillFailed(contact')
           /\ UNCHANGED <<book, errands, hand, fresh, version, changes>>
           /\ ~settled'
<1> DEFINE r == run[w]
<1> DEFINE next == [r EXCEPT !.at = "fetch", !.deleted = {}, !.page = NoPage]
<1>1. r \in RunType /\ r.at = "page"
  BY CardTypes DEF StorePage
<1>2. run' = OthersDisturbed(w, next)
  BY Zenon DEF StorePage
<1> HIDE DEF r
<1>3. /\ next \in RunType /\ next.at = "fetch" /\ next.calm = r.calm /\ next.page = NoPage
      /\ next.needed = r.needed /\ next.deleted = {}
  BY <1>1, RestType DEF RunType
<1> HIDE DEF next
<1>4. OthersNotCalm(w) /\ run'[w] = next
  BY <1>2, <1>3, CardTypes, OneActs
<1>5. /\ contact' = Ingest(Purge(contact, run[w].deleted), run[w].page)
      /\ failed' = StillFailed(contact')
      /\ UNCHANGED <<book, errands, hand, fresh, version, changes>> /\ ~settled'
  BY DEF StorePage
<1> QED
  BY <1>1, <1>3, <1>4, <1>5 DEF r

LEMMA FinishRunDoes ==
    ASSUME CardTypeOK, NEW w \in Runner, FinishRun(w)
    PROVE  /\ OthersNotCalm(w) /\ run'[w].page = NoPage /\ ~run'[w].calm
           /\ run[w].at = "fetch" /\ run[w].needed = {}
           /\ contact' = Purge(contact, run[w].deleted)
           /\ failed' = StillFailed(contact')
           /\ UNCHANGED <<book, errands, hand, fresh, version, changes>>
           /\ settled' = run[w].calm
<1>1. run' = OthersDisturbed(w, RunRest)
  BY DEF FinishRun
<1>2. OthersNotCalm(w) /\ run'[w] = RunRest
  BY <1>1, CardTypes, RestType, OneActs
<1> QED
  BY <1>2, RestType DEF FinishRun

-----------------------------------------------------------------------------
(* Types, and what the foreground worker holds.                            *)

\* The worker holds something of the first task.
HandInv ==
    /\ hand.at # "rest" => errands # <<>>
    /\ hand.at \in {"written", "read", "renamed"} => Head(errands).kind = "edit"
    /\ hand.at = "deleted" => Head(errands).kind = "destroy"
    /\ hand.at \in {"written", "read"} => \E u \in Card : hand.target = {u}
    /\ hand.at = "loaded" => hand.model.text # 0

\* Nobody has anything of a UID that nobody has used.
FreshInv ==
    /\ \A w \in Runner, c \in fresh : run[w].page[c] = NoCard
    /\ \A i \in 1 .. Len(errands) : errands[i].card \notin fresh
    /\ hand.target \cap fresh = {}

\* A task at the end of the queue
LEMMA ErrandAppended ==
    ASSUME CardTypeOK, NEW e \in Errand, NEW s, s = Append(errands, e)
    PROVE  /\ s \in Seq(Errand) /\ s # <<>> /\ Len(s) = Len(errands) + 1 /\ Len(errands) \in Nat
           /\ \A i \in 1 .. Len(errands) : s[i] = errands[i]
           /\ s[Len(errands) + 1] = e
           /\ errands # <<>> => Head(s) = Head(errands)
<1>1. errands \in Seq(Errand)
  BY CardTypes
<1> QED
  BY <1>1

\* The first task goes.
LEMMA ErrandGone ==
    ASSUME CardTypeOK, errands # <<>>, NEW s, s = Tail(errands)
    PROVE  /\ s \in Seq(Errand) /\ Len(s) = Len(errands) - 1 /\ Len(errands) \in Nat \ {0}
           /\ \A i \in 1 .. Len(s) : s[i] = errands[i + 1]
           /\ Head(errands) = errands[1] /\ Head(errands) \in Errand
<1>1. errands \in Seq(Errand)
  BY CardTypes
<1> QED
  BY <1>1

\* The contact of the first task
LEMMA MineIsCard ==
    ASSUME CardTypeOK, FreshInv, errands # <<>>
    PROVE  /\ Mine \in Card /\ Mine \notin fresh /\ Head(errands).kind \in {"edit", "destroy"}
           /\ Head(errands) = errands[1] /\ Len(errands) \in Nat \ {0}
<1>1. /\ Head(errands) = errands[1] /\ Head(errands) \in Errand /\ Len(errands) \in Nat \ {0}
  BY ErrandGone
<1>2. errands[1].card \notin fresh
  BY <1>1 DEF FreshInv
<1> QED
  BY <1>1, <1>2 DEF Mine, Errand

\* What a deletion does to the rows
LEMMA Purged ==
    ASSUME NEW rows \in [Card -> Row], NEW etags
    PROVE  /\ Purge(rows, etags) \in [Card -> Row]
           /\ \A c \in Card : \/ Purge(rows, etags)[c] = rows[c]
                                 /\ ~(rows[c].text # 0 /\ rows[c].etag \in etags)
                              \/ Purge(rows, etags)[c] = NoContact
                                 /\ rows[c].text # 0 /\ rows[c].etag \in etags
BY RestType DEF Purge

\* What a page does to the rows
LEMMA Ingested ==
    ASSUME NEW rows \in [Card -> Row], NEW page \in [Card -> VCard]
    PROVE  /\ Ingest(rows, page) \in [Card -> Row]
           /\ \A c \in Card : page[c] = NoCard => Ingest(rows, page)[c] = rows[c]
           /\ \A c \in Card : page[c] # NoCard =>
                 /\ Ingest(rows, page)[c].etag = page[c].etag
                 /\ Ingest(rows, page)[c].text = page[c].text
                 /\ Ingest(rows, page)[c].hidden = rows[c].hidden
<1> DEFINE new(c) == [etag |-> page[c].etag, text |-> page[c].text, hidden |-> rows[c].hidden]
<1>1. ASSUME NEW c \in Card
      PROVE  /\ new(c) \in Row
             /\ new(c).etag = page[c].etag /\ new(c).text = page[c].text
             /\ new(c).hidden = rows[c].hidden
  <2>1. page[c].etag \in Nat /\ page[c].text \in Nat /\ rows[c].hidden \in BOOLEAN
    BY DEF VCard, Row
  <2> QED
    BY <2>1 DEF Row
<1>2. Ingest(rows, page) = [c \in Card |-> IF page[c] = NoCard THEN rows[c] ELSE new(c)]
  BY DEF Ingest
<1> HIDE DEF new
<1> QED
  BY <1>1, <1>2

\* The page with which the worker saves what it has read
LEMMA ReadPage ==
    ASSUME CardTypeOK, HandInv, hand.at \in {"written", "read"},
           NEW page, page = [c \in Card |-> IF c \in hand.target THEN hand.page ELSE NoCard]
    PROVE  /\ page \in [Card -> VCard]
           /\ \E u \in Card : hand.target = {u} /\ page[u] = hand.page
                              /\ \A c \in Card : c # u => page[c] = NoCard
<1>1. hand.page \in VCard /\ NoCard \in VCard
  BY CardTypes, RestType DEF HandType
<1>2. PICK u \in Card : hand.target = {u}
  BY DEF HandInv
<1> QED
  BY <1>1, <1>2

\* A process that starts has the types.
LEMMA CardTypesInit == CardInit => CardTypeOK /\ HandInv /\ FreshInv
<1> SUFFICES ASSUME CardInit PROVE CardTypeOK /\ HandInv /\ FreshInv
  OBVIOUS
<1>1. /\ contact = [c \in Card |-> NoContact] /\ errands = <<>> /\ hand = HandRest
      /\ run = [w \in Runner |-> RunRest] /\ fresh = Card \ InBook
      /\ version = Cardinality(InBook) /\ failed = {} /\ settled = FALSE /\ changes = 0
  BY DEF CardInit
<1>2. version \in Nat
  BY <1>1, CardSyncAssumption, FS_Subset, FS_CardinalityType
<1>3. book \in [Card -> VCard] /\ \A c \in fresh : book[c] = NoCard
  <2>1. PICK first \in [InBook -> 1 .. version] :
           book = [c \in Card |-> IF c \in InBook THEN [etag |-> first[c], text |-> first[c]]
                                 ELSE NoCard]
    BY <1>1 DEF CardInit
  <2>2. \A c \in InBook : [etag |-> first[c], text |-> first[c]] \in VCard
    BY <1>2 DEF VCard
  <2> QED
    BY <1>1, <2>1, <2>2, RestType
<1>4. contact \in [Card -> Row] /\ \A c \in Card : contact[c] = NoContact
  BY <1>1, RestType
<1>5. errands \in Seq(Errand) /\ Len(errands) = 0
  <2>1. <<>> \in Seq(Errand) /\ Len(<<>>) = 0
    OBVIOUS
  <2> QED
    BY <1>1, <2>1
<1>6. run \in [Runner -> RunType] /\ \A w \in Runner : run[w] = RunRest
  BY <1>1, RestType
<1>7. hand \in HandType /\ hand.at = "rest" /\ hand.target = {}
  BY <1>1, RestType
<1>8. changes \in 0 .. MaxChanges
  BY <1>1, CardSyncAssumption
<1>9. CardTypeOK
  <2>1. fresh \subseteq {c \in Card : book[c] = NoCard /\ contact[c] = NoContact}
    BY <1>1, <1>3, <1>4
  <2>2. failed \subseteq Card /\ settled \in BOOLEAN
    BY <1>1
  <2> QED
    BY <1>2, <1>3, <1>4, <1>5, <1>6, <1>7, <1>8, <2>1, <2>2, Zenon
       DEF CardTypeOK, RunType, HandType
<1>10. HandInv
  BY <1>7 DEF HandInv
<1>11. FreshInv
  BY <1>1, <1>5, <1>6, <1>7, RestType DEF FreshInv
<1> QED
  BY <1>9, <1>10, <1>11

\* The fields of what the worker holds
LEMMA HandFields ==
    ASSUME CardTypeOK
    PROVE  /\ hand \in HandType /\ hand.model \in Row /\ hand.target \subseteq Card
           /\ hand.page \in VCard
           /\ hand.model.text \in Nat /\ hand.model.etag \in Nat
BY CardTypes DEF HandType, Row

\* A run that fails leaves the rows alone.
LEMMA RunThrowsDoes ==
    ASSUME CardTypeOK, NEW w \in Runner, RunThrows(w)
    PROVE  /\ OthersNotCalm(w) /\ run'[w] = RunRest
           /\ UNCHANGED <<book, contact, errands, hand, fresh, version, failed>>
           /\ ~settled' /\ changes' \in 0 .. MaxChanges
<1>1. run' = OthersDisturbed(w, RunRest)
  BY DEF RunThrows
<1>2. OthersNotCalm(w) /\ run'[w] = RunRest
  BY <1>1, CardTypes, RestType, OneActs
<1>3. changes' = changes + 1 /\ changes < MaxChanges /\ changes \in 0 .. MaxChanges
  BY CardTypes DEF RunThrows
<1> QED
  BY <1>2, <1>3, CardSyncAssumption DEF RunThrows

\* A step of a run holds nothing but what it held, and what the server has.
LEMMA OnePages ==
    ASSUME CardTypeOK, NEW w \in Runner, OthersNotCalm(w),
           \A c \in Card : run'[w].page[c] \in {run[w].page[c], NoCard, book[c]}
    PROVE  PagesFrom
BY DEF OthersNotCalm, PagesFrom

\* A step of the worker, of the user or of another client
LEMMA WorkDoes ==
    ASSUME CardTypeOK, Work
    PROVE  NoneCalm /\ PagesFrom /\ ~settled'
BY CardTypes, AllDisturbed DEF Work

\* A deed of somebody else: no run is calm any more, and none gets a page from it.
LEMMA ChangeDoes ==
    ASSUME CardTypeOK, Change
    PROVE  NoneCalm /\ PagesFrom /\ ~settled' /\ changes' \in 0 .. MaxChanges
<1>1. changes' = changes + 1 /\ changes < MaxChanges /\ changes \in 0 .. MaxChanges
  BY CardTypes DEF Change
<1> QED
  BY <1>1, CardTypes, AllDisturbed, CardSyncAssumption DEF Change

\* The process starts again.
LEMMA RestartDoes ==
    ASSUME CardTypeOK, Restart
    PROVE  /\ NoneCalm /\ PagesFrom /\ ~settled' /\ hand' = HandRest
           /\ UNCHANGED <<book, contact, errands, fresh, version, failed>>
<1>1. run' = [v \in Runner |-> RunRest]
  BY DEF Restart
<1> QED
  BY <1>1, RestType DEF Restart, NoneCalm, PagesFrom

\* What every step has to show of its types
LEMMA TypesFrom ==
    ASSUME CardTypeOK, FreshInv, PagesFrom, run' \in [Runner -> RunType],
           book' \in [Card -> VCard], contact' \in [Card -> Row], errands' \in Seq(Errand),
           hand' \in HandType, fresh' \subseteq fresh,
           \A c \in fresh' : book'[c] = NoCard /\ contact'[c] = NoContact,
           version' \in Nat, failed' \subseteq Card, settled' \in BOOLEAN,
           changes' \in 0 .. MaxChanges,
           \A i \in 1 .. Len(errands') : errands'[i].card \notin fresh',
           hand'.target \cap fresh' = {}
    PROVE  CardTypeOK' /\ FreshInv'
<1>1. fresh \subseteq Card /\ \A c \in fresh : book[c] = NoCard
  BY CardTypes
<1>2. fresh' \subseteq {c \in Card : book'[c] = NoCard /\ contact'[c] = NoContact}
  BY <1>1
<1>3. CardTypeOK'
  BY <1>2, Zenon DEF CardTypeOK, RunType, HandType
<1>4. \A w \in Runner, c \in fresh' : run'[w].page[c] = NoCard
  BY <1>1 DEF FreshInv, PagesFrom
<1>5. FreshInv'
  BY <1>4 DEF FreshInv
<1> QED
  BY <1>3, <1>5

\* A step that leaves the tasks and the worker alone
LEMMA TypesOfRows ==
    ASSUME CardTypeOK, HandInv, FreshInv, PagesFrom, run' \in [Runner -> RunType],
           book' \in [Card -> VCard], contact' \in [Card -> Row],
           errands' = errands, hand' = hand, fresh' \subseteq fresh,
           \A c \in fresh' : book'[c] = NoCard /\ contact'[c] = NoContact,
           version' \in Nat, failed' \subseteq Card, settled' \in BOOLEAN,
           changes' \in 0 .. MaxChanges
    PROVE  CardTypeOK' /\ HandInv' /\ FreshInv'
<1>1. /\ errands' \in Seq(Errand) /\ hand' \in HandType
      /\ \A i \in 1 .. Len(errands') : errands'[i].card \notin fresh'
      /\ hand'.target \cap fresh' = {}
  BY CardTypes DEF FreshInv
<1>2. HandInv'
  BY DEF HandInv
<1> QED
  BY <1>1, <1>2, TypesFrom

\* The rows after a page: those of contacts that nobody has used are left alone.
LEMMA PageStored ==
    ASSUME CardTypeOK, FreshInv, NEW etags, NEW page \in [Card -> VCard],
           \A c \in fresh : page[c] = NoCard,
           contact' = Ingest(Purge(contact, etags), page), failed' = StillFailed(contact')
    PROVE  /\ contact' \in [Card -> Row] /\ failed' \subseteq failed
           /\ \A c \in fresh : contact'[c] = NoContact
<1>1. /\ contact \in [Card -> Row] /\ fresh \subseteq Card
      /\ \A c \in fresh : contact[c] = NoContact
  BY CardTypes
<1> DEFINE rows == Purge(contact, etags)
<1>2. rows \in [Card -> Row] /\ \A c \in fresh : rows[c] = NoContact
  BY <1>1, Purged, RestType
<1>3. contact' = Ingest(rows, page)
  OBVIOUS
<1> HIDE DEF rows
<1>4. contact' \in [Card -> Row] /\ \A c \in fresh : contact'[c] = NoContact
  BY <1>1, <1>2, <1>3, Ingested
<1>5. failed' \subseteq failed
  BY DEF StillFailed
<1> QED
  BY <1>4, <1>5

LEMMA RowsPurged ==
    ASSUME CardTypeOK, FreshInv, NEW etags,
           contact' = Purge(contact, etags), failed' = StillFailed(contact')
    PROVE  /\ contact' \in [Card -> Row] /\ failed' \subseteq failed
           /\ \A c \in fresh : contact'[c] = NoContact
<1>1. /\ contact \in [Card -> Row] /\ fresh \subseteq Card
      /\ \A c \in fresh : contact[c] = NoContact
  BY CardTypes
<1>2. contact' \in [Card -> Row] /\ \A c \in fresh : contact'[c] = NoContact
  BY <1>1, Purged, RestType
<1>3. failed' \subseteq failed
  BY DEF StillFailed
<1> QED
  BY <1>2, <1>3

\* The step of a run keeps the types.
RunStep(w) == \/ ListEtags(w) \/ Compare(w) \/ Multiget(w)
              \/ StorePage(w) \/ FinishRun(w) \/ RunThrows(w)

\* Every kind of step keeps the types.
LEMMA TypesOfRuns ==
    ASSUME CardTypeOK, HandInv, FreshInv, NEW w \in Runner, RunStep(w)
    PROVE  CardTypeOK' /\ HandInv' /\ FreshInv' /\ PagesFrom
<1>1. /\ book \in [Card -> VCard] /\ contact \in [Card -> Row] /\ version \in Nat
      /\ failed \subseteq Card /\ changes \in 0 .. MaxChanges /\ fresh \subseteq Card
      /\ \A c \in fresh : book[c] = NoCard /\ contact[c] = NoContact
  BY CardTypes
<1>2. run[w] \in RunType
  BY CardTypes
<1>3. run[w].page \in [Card -> VCard] /\ run[w].calm \in BOOLEAN
  BY <1>2, RunFields
<1> DEFINE Kept == CardTypeOK' /\ HandInv' /\ FreshInv' /\ PagesFrom
<1>4. CASE ListEtags(w)
  <2>1. /\ OthersNotCalm(w) /\ run'[w].page = NoPage /\ ~settled'
        /\ UNCHANGED <<book, contact, errands, hand, fresh, version, failed, changes>>
    BY <1>4, ListEtagsDoes
  <2>2. PagesFrom
    BY <2>1, OnePages, RestType
  <2>3. run' \in [Runner -> RunType]
    BY <2>1 DEF OthersNotCalm
  <2>4. settled' \in BOOLEAN
    BY <1>4 DEF ListEtags
  <2> QED
    BY <1>1, <2>1, <2>2, <2>3, <2>4, TypesOfRows
<1>5. CASE Compare(w)
  <2>1. /\ OthersNotCalm(w) /\ run'[w].page = run[w].page
        /\ UNCHANGED <<book, contact, errands, hand, fresh, version, failed, changes>>
    BY <1>5, CompareDoes
  <2>2. PagesFrom
    BY <2>1, OnePages
  <2>3. run' \in [Runner -> RunType]
    BY <2>1 DEF OthersNotCalm
  <2>4. settled' \in BOOLEAN
    BY <1>5 DEF Compare
  <2> QED
    BY <1>1, <2>1, <2>2, <2>3, <2>4, TypesOfRows
<1>6. CASE Multiget(w)
  <2>1. /\ OthersNotCalm(w)
        /\ \E chunk : \A c \in Card : run'[w].page[c] = IF c \in chunk THEN book[c] ELSE NoCard
        /\ UNCHANGED <<book, contact, errands, hand, fresh, version, failed, changes>>
    BY <1>6, MultigetDoes
  <2>2. PagesFrom
    BY <2>1, OnePages
  <2>3. run' \in [Runner -> RunType]
    BY <2>1 DEF OthersNotCalm
  <2>4. settled' \in BOOLEAN
    BY <1>6 DEF Multiget
  <2> QED
    BY <1>1, <2>1, <2>2, <2>3, <2>4, TypesOfRows
<1>7. CASE StorePage(w)
  <2>1. /\ OthersNotCalm(w) /\ run'[w].page = NoPage
        /\ contact' = Ingest(Purge(contact, run[w].deleted), run[w].page)
        /\ failed' = StillFailed(contact')
        /\ UNCHANGED <<book, errands, hand, fresh, version, changes>>
    BY <1>7, StorePageDoes
  <2>2. PagesFrom
    BY <2>1, OnePages, RestType
  <2>3. run' \in [Runner -> RunType]
    BY <2>1 DEF OthersNotCalm
  <2>4. settled' \in BOOLEAN
    BY <1>7 DEF StorePage
  <2>5. \A c \in fresh : run[w].page[c] = NoCard
    BY DEF FreshInv
  <2>6. /\ contact' \in [Card -> Row] /\ failed' \subseteq failed
        /\ \A c \in fresh : contact'[c] = NoContact
    BY <1>3, <2>1, <2>5, PageStored
  <2> QED
    BY <1>1, <2>1, <2>2, <2>3, <2>4, <2>6, TypesOfRows
<1>8. CASE FinishRun(w)
  <2>1. /\ OthersNotCalm(w) /\ run'[w].page = NoPage
        /\ contact' = Purge(contact, run[w].deleted) /\ failed' = StillFailed(contact')
        /\ UNCHANGED <<book, errands, hand, fresh, version, changes>>
        /\ settled' = run[w].calm
    BY <1>8, FinishRunDoes
  <2>2. PagesFrom
    BY <2>1, OnePages, RestType
  <2>3. run' \in [Runner -> RunType]
    BY <2>1 DEF OthersNotCalm
  <2>4. /\ contact' \in [Card -> Row] /\ failed' \subseteq failed
        /\ \A c \in fresh : contact'[c] = NoContact
    BY <2>1, RowsPurged
  <2> QED
    BY <1>1, <1>3, <2>1, <2>2, <2>3, <2>4, TypesOfRows
<1>9. CASE RunThrows(w)
  <2>1. /\ OthersNotCalm(w) /\ run'[w] = RunRest /\ changes' \in 0 .. MaxChanges
        /\ UNCHANGED <<book, contact, errands, hand, fresh, version, failed>>
    BY <1>9, RunThrowsDoes
  <2>2. PagesFrom
    BY <2>1, OnePages, RestType
  <2>3. run' \in [Runner -> RunType]
    BY <2>1 DEF OthersNotCalm
  <2>4. settled' \in BOOLEAN
    BY <1>9 DEF RunThrows
  <2> QED
    BY <1>1, <2>1, <2>2, <2>3, <2>4, TypesOfRows
<1> QED
  BY <1>4, <1>5, <1>6, <1>7, <1>8, <1>9 DEF RunStep

\* One field of one row
LEMMA RowEdited ==
    ASSUME NEW rows \in [Card -> Row], NEW c \in Card, NEW text \in Nat,
           NEW new, new = [rows EXCEPT ![c].text = text]
    PROVE  /\ new \in [Card -> Row] /\ \A d \in Card : d # c => new[d] = rows[d]
           /\ new[c].text = text /\ new[c].etag = rows[c].etag /\ new[c].hidden = rows[c].hidden
<1> DEFINE row == rows[c]
<1> DEFINE edited == [row EXCEPT !.text = text]
<1>1. row \in Row
  OBVIOUS
<1>2. new = [rows EXCEPT ![c] = edited]
  OBVIOUS
<1> HIDE DEF row
<1>3. /\ edited \in Row /\ edited.text = text /\ edited.etag = row.etag
      /\ edited.hidden = row.hidden
  BY <1>1 DEF Row
<1> HIDE DEF edited
<1>4. new \in [Card -> Row] /\ new[c] = edited /\ \A d \in Card : d # c => new[d] = rows[d]
  BY <1>2, <1>3
<1> QED
  BY <1>3, <1>4 DEF row

\* A contact that the user deletes keeps its etag.
LEMMA RowHidden ==
    ASSUME NEW rows \in [Card -> Row], NEW c \in Card,
           NEW new, new = [rows EXCEPT ![c].hidden = TRUE]
    PROVE  /\ new \in [Card -> Row] /\ \A d \in Card : d # c => new[d] = rows[d]
           /\ new[c].text = rows[c].text /\ new[c].etag = rows[c].etag /\ new[c].hidden
<1> DEFINE row == rows[c]
<1> DEFINE edited == [row EXCEPT !.hidden = TRUE]
<1>1. row \in Row
  OBVIOUS
<1>2. new = [rows EXCEPT ![c] = edited]
  OBVIOUS
<1> HIDE DEF row
<1>3. /\ edited \in Row /\ edited.text = row.text /\ edited.etag = row.etag
      /\ edited.hidden
  BY <1>1 DEF Row
<1> HIDE DEF edited
<1>4. new \in [Card -> Row] /\ new[c] = edited /\ \A d \in Card : d # c => new[d] = rows[d]
  BY <1>2, <1>3
<1> QED
  BY <1>3, <1>4 DEF row

\* A task more: the first one stays the first, and the worker holds what it held.
LEMMA ErrandsMore ==
    ASSUME CardTypeOK, HandInv, FreshInv, NEW c \in Card \ fresh', NEW kind \in {"edit", "destroy"},
           errands' = Append(errands, [card |-> c, kind |-> kind]), hand' = hand,
           fresh' \subseteq fresh
    PROVE  /\ errands' \in Seq(Errand) /\ HandInv'
           /\ \A i \in 1 .. Len(errands') : errands'[i].card \notin fresh'
           /\ hand'.target \cap fresh' = {}
<1> DEFINE e == [card |-> c, kind |-> kind]
<1>1. e \in Errand /\ e.card = c
  BY DEF Errand
<1>2. errands' = Append(errands, e)
  OBVIOUS
<1> HIDE DEF e
<1>3. /\ errands' \in Seq(Errand) /\ errands' # <<>> /\ Len(errands') = Len(errands) + 1
      /\ Len(errands) \in Nat
      /\ \A i \in 1 .. Len(errands) : errands'[i] = errands[i]
      /\ errands'[Len(errands) + 1] = e
      /\ errands # <<>> => Head(errands') = Head(errands)
  <2>1. errands \in Seq(Errand)
    BY CardTypes
  <2> QED
    BY <1>1, <1>2, <2>1
<1>4. HandInv'
  BY <1>3 DEF HandInv
<1>5. ASSUME NEW i \in 1 .. Len(errands')
      PROVE  errands'[i].card \notin fresh'
  <2>1. CASE i \in 1 .. Len(errands)
    BY <1>3, <2>1 DEF FreshInv
  <2>2. CASE i = Len(errands) + 1
    BY <1>1, <1>3, <2>2
  <2> QED
    BY <1>3, <2>1, <2>2
<1> QED
  BY <1>3, <1>4, <1>5 DEF FreshInv

LEMMA TypesOfEdit ==
    ASSUME CardTypeOK, HandInv, FreshInv, NEW c \in Card, EditContact(c)
    PROVE  CardTypeOK' /\ HandInv' /\ FreshInv' /\ PagesFrom
<1>1. /\ book \in [Card -> VCard] /\ contact \in [Card -> Row] /\ version \in Nat
      /\ failed \subseteq Card /\ hand \in HandType
      /\ \A d \in fresh : d \in Card /\ book[d] = NoCard /\ contact[d] = NoContact
  BY CardTypes
<1>2. /\ Change /\ contact' = [contact EXCEPT ![c].text = version + 1]
      /\ version' = version + 1 /\ fresh' = fresh \ {c}
      /\ errands' = Append(errands, [card |-> c, kind |-> "edit"])
      /\ UNCHANGED <<book, hand, failed>>
  BY DEF EditContact
<1>3. /\ run' \in [Runner -> RunType] /\ PagesFrom /\ settled' \in BOOLEAN
      /\ changes' \in 0 .. MaxChanges
  BY <1>2, ChangeDoes DEF NoneCalm, Change
<1>4. contact' \in [Card -> Row] /\ \A d \in Card : d # c => contact'[d] = contact[d]
  <2> DEFINE text == version + 1
  <2>1. text \in Nat /\ contact' = [contact EXCEPT ![c].text = text]
    BY <1>1, <1>2
  <2> HIDE DEF text
  <2> QED
    BY <1>1, <2>1, RowEdited
<1>5. /\ errands' \in Seq(Errand) /\ HandInv'
      /\ \A i \in 1 .. Len(errands') : errands'[i].card \notin fresh'
      /\ hand'.target \cap fresh' = {}
  BY <1>2, ErrandsMore
<1>6. /\ fresh' \subseteq fresh
      /\ \A d \in fresh' : book'[d] = NoCard /\ contact'[d] = NoContact
  BY <1>1, <1>2, <1>4
<1>7. version' \in Nat /\ failed' \subseteq Card /\ book' \in [Card -> VCard] /\ hand' \in HandType
  BY <1>1, <1>2
<1> QED
  BY <1>3, <1>4, <1>5, <1>6, <1>7, TypesFrom

LEMMA TypesOfHide ==
    ASSUME CardTypeOK, HandInv, FreshInv, NEW c \in Card, HideContact(c)
    PROVE  CardTypeOK' /\ HandInv' /\ FreshInv' /\ PagesFrom
<1>1. /\ book \in [Card -> VCard] /\ contact \in [Card -> Row] /\ version \in Nat
      /\ failed \subseteq Card /\ hand \in HandType
      /\ \A d \in fresh : d \in Card /\ book[d] = NoCard /\ contact[d] = NoContact
  BY CardTypes
<1>2. /\ Change /\ contact[c].text # 0 /\ contact' = [contact EXCEPT ![c].hidden = TRUE]
      /\ errands' = Append(errands, [card |-> c, kind |-> "destroy"])
      /\ UNCHANGED <<book, hand, fresh, version, failed>>
  BY DEF HideContact
<1>3. /\ run' \in [Runner -> RunType] /\ PagesFrom /\ settled' \in BOOLEAN
      /\ changes' \in 0 .. MaxChanges
  BY <1>2, ChangeDoes DEF NoneCalm, Change
<1>4. contact' \in [Card -> Row] /\ \A d \in Card : d # c => contact'[d] = contact[d]
  BY <1>1, <1>2, RowHidden
<1>5. c \notin fresh
  BY <1>1, <1>2, RestType
<1>6. /\ errands' \in Seq(Errand) /\ HandInv'
      /\ \A i \in 1 .. Len(errands') : errands'[i].card \notin fresh'
      /\ hand'.target \cap fresh' = {}
  BY <1>2, <1>5, ErrandsMore
<1>7. /\ fresh' \subseteq fresh
      /\ \A d \in fresh' : book'[d] = NoCard /\ contact'[d] = NoContact
  BY <1>1, <1>2, <1>4, <1>5
<1>8. version' \in Nat /\ failed' \subseteq Card /\ book' \in [Card -> VCard] /\ hand' \in HandType
  BY <1>1, <1>2
<1> QED
  BY <1>3, <1>4, <1>6, <1>7, <1>8, TypesFrom

\* A card that is written
LEMMA CardWritten ==
    ASSUME CardTypeOK, NEW c \in Card, NEW text \in Nat,
           book' = [book EXCEPT ![c] = [etag |-> version + 1, text |-> text]]
    PROVE  /\ book' \in [Card -> VCard] /\ \A d \in Card : d # c => book'[d] = book[d]
           /\ book'[c].etag = version + 1 /\ book'[c].text = text
<1> DEFINE card == [etag |-> version + 1, text |-> text]
<1>1. card \in VCard /\ card.etag = version + 1 /\ card.text = text
  BY CardTypes DEF VCard
<1>2. book' = [book EXCEPT ![c] = card] /\ book \in [Card -> VCard]
  BY CardTypes
<1> HIDE DEF card
<1> QED
  BY <1>1, <1>2

LEMMA TypesOfOthers ==
    ASSUME CardTypeOK, HandInv, FreshInv, NEW c \in Card, OtherWrites(c) \/ OtherRemoves(c)
    PROVE  CardTypeOK' /\ HandInv' /\ FreshInv' /\ PagesFrom
<1>1. /\ book \in [Card -> VCard] /\ contact \in [Card -> Row] /\ version \in Nat
      /\ failed \subseteq Card
      /\ \A d \in fresh : d \in Card /\ book[d] = NoCard /\ contact[d] = NoContact
  BY CardTypes
<1>2. Change /\ UNCHANGED <<contact, errands, hand, failed>>
  BY DEF OtherWrites, OtherRemoves
<1>3. /\ run' \in [Runner -> RunType] /\ PagesFrom /\ settled' \in BOOLEAN
      /\ changes' \in 0 .. MaxChanges
  BY <1>2, ChangeDoes DEF NoneCalm, Change
<1>4. CASE OtherWrites(c)
  <2>1. /\ book' = [book EXCEPT ![c] = [etag |-> version + 1, text |-> version + 1]]
        /\ version' = version + 1 /\ fresh' = fresh \ {c}
    BY <1>4 DEF OtherWrites
  <2>2. version + 1 \in Nat
    BY <1>1
  <2>3. book' \in [Card -> VCard] /\ \A d \in Card : d # c => book'[d] = book[d]
    BY <2>1, <2>2, CardWritten
  <2>4. version' \in Nat
    BY <2>1, <2>2
  <2> QED
    BY <1>1, <1>2, <1>3, <2>1, <2>3, <2>4, TypesOfRows
<1>5. CASE OtherRemoves(c)
  <2>1. book' = [book EXCEPT ![c] = NoCard] /\ version' = version /\ fresh' = fresh
    BY <1>5 DEF OtherRemoves
  <2>2. book' \in [Card -> VCard] /\ \A d \in fresh : book'[d] = NoCard
    BY <1>1, <2>1, RestType
  <2> QED
    BY <1>1, <1>2, <1>3, <2>1, <2>2, TypesOfRows
<1> QED
  BY <1>4, <1>5

\* A step of the worker that leaves the tasks alone
LEMMA TypesOfWork ==
    ASSUME CardTypeOK, FreshInv, Work, errands' = errands,
           book' \in [Card -> VCard], contact' \in [Card -> Row],
           hand' \in HandType, fresh' \subseteq fresh,
           \A c \in fresh' : book'[c] = NoCard /\ contact'[c] = NoContact,
           version' \in Nat, failed' \subseteq Card, changes' \in 0 .. MaxChanges,
           hand'.target \cap fresh' = {}
    PROVE  CardTypeOK' /\ FreshInv' /\ PagesFrom
<1>1. run' \in [Runner -> RunType] /\ PagesFrom /\ settled' \in BOOLEAN
  BY WorkDoes DEF NoneCalm, Work
<1>2. errands' \in Seq(Errand) /\ \A i \in 1 .. Len(errands') : errands'[i].card \notin fresh'
  BY CardTypes DEF FreshInv
<1> QED
  BY <1>1, <1>2, TypesFrom

\* What the worker holds, step by step
HandAt == {"loaded", "written", "read", "deleted", "renamed", "done"}

\* A field of what the worker holds that changes leaves the others as they are.
LEMMA HandGoes ==
    ASSUME NEW h \in HandType, NEW at \in HandAt, NEW new, new = [h EXCEPT !.at = at]
    PROVE  new \in HandType /\ new.at = at /\ new.target = h.target
BY DEF HandType, HandAt

LEMMA HandWrites ==
    ASSUME NEW h \in HandType, NEW u \in Card,
           NEW new, new = [h EXCEPT !.at = "written", !.target = {u}]
    PROVE  new \in HandType /\ new.at = "written" /\ new.target = {u}
BY DEF HandType

\* What each step of a task does, field by field
LEMMA LoadContactDoes ==
    ASSUME CardTypeOK, FreshInv, LoadContact
    PROVE  /\ Work /\ errands # <<>> /\ hand.at = "rest" /\ hand' \in HandType
           /\ hand'.target = hand.target
           /\ UNCHANGED <<book, contact, errands, fresh, version, failed, changes>>
           /\ \/ hand'.at = "loaded" /\ hand'.model.text # 0 /\ contact[Mine].text # 0
              \/ hand'.at = "done" /\ contact[Mine].text = 0 /\ Head(errands).kind = "destroy"
<1>1. /\ Work /\ errands # <<>> /\ hand.at = "rest"
      /\ UNCHANGED <<book, contact, errands, fresh, version, failed, changes>>
  BY DEF LoadContact
<1> DEFINE row == contact[Mine]
<1>2. row \in Row /\ hand \in HandType
  BY <1>1, MineIsCard, CardTypes
<1>3. \/ row.text # 0 /\ hand' = [hand EXCEPT !.at = "loaded", !.model = row]
      \/ /\ row.text = 0 /\ Head(errands).kind = "destroy"
         /\ hand' = [hand EXCEPT !.at = "done"]
  BY DEF LoadContact
<1> HIDE DEF row
<1>4. /\ hand' \in HandType /\ hand'.target = hand.target
      /\ \/ hand'.at = "loaded" /\ hand'.model.text # 0 /\ row.text # 0
         \/ hand'.at = "done" /\ row.text = 0 /\ Head(errands).kind = "destroy"
  <2>1. CASE hand' = [hand EXCEPT !.at = "loaded", !.model = row] /\ row.text # 0
    BY <1>2, <2>1 DEF HandType
  <2>2. CASE /\ row.text = 0 /\ Head(errands).kind = "destroy"
             /\ hand' = [hand EXCEPT !.at = "done"]
    BY <1>2, <2>2, HandGoes DEF HandAt
  <2> QED
    BY <1>3, <2>1, <2>2
<1> QED
  BY <1>1, <1>4 DEF row

LEMMA PostCardDoes ==
    ASSUME CardTypeOK, HandInv, FreshInv, PostCard
    PROVE  /\ Work /\ errands # <<>> /\ hand.at = "loaded" /\ Head(errands).kind = "edit"
           /\ UNCHANGED <<contact, errands, changes>> /\ version' = version + 1
           /\ hand.model.text # 0 /\ hand' \in HandType
           /\ \E u \in Card :
                 /\ u \in {Mine} \cup fresh /\ fresh' = fresh \ {u}
                 /\ book' \in [Card -> VCard] /\ \A d \in Card : d # u => book'[d] = book[d]
                 /\ book'[u].etag = version + 1 /\ book'[u].text = hand.model.text
                 /\ \/ hand'.at = "written" /\ hand'.target = {u} /\ failed' = failed
                    \/ /\ hand'.at = "done" /\ hand'.target = hand.target
                       /\ failed' = failed \cup {Mine}
<1>1. /\ Work /\ errands # <<>> /\ hand.at = "loaded" /\ Head(errands).kind = "edit"
      /\ UNCHANGED <<contact, errands, changes>> /\ version' = version + 1
  BY DEF PostCard, Doing
<1>2. Mine \in Card /\ fresh \subseteq Card /\ hand \in HandType
  BY <1>1, MineIsCard, CardTypes
<1>3. hand.model.text # 0 /\ hand.model.text \in Nat
  BY <1>1, HandFields DEF HandInv
<1>4. PICK u \in {Mine} \cup fresh :
         /\ book' = [book EXCEPT ![u] = [etag |-> version + 1, text |-> hand.model.text]]
         /\ fresh' = fresh \ {u}
         /\ \/ hand' = [hand EXCEPT !.at = "written", !.target = {u}] /\ failed' = failed
            \/ hand' = [hand EXCEPT !.at = "done"] /\ failed' = failed \cup {Mine}
  BY DEF PostCard
<1>5. u \in Card
  BY <1>2, <1>4
<1>6. /\ book' \in [Card -> VCard] /\ \A d \in Card : d # u => book'[d] = book[d]
      /\ book'[u].etag = version + 1 /\ book'[u].text = hand.model.text
  <2> DEFINE text == hand.model.text
  <2>1. text \in Nat /\ book' = [book EXCEPT ![u] = [etag |-> version + 1, text |-> text]]
    BY <1>3, <1>4
  <2> HIDE DEF text
  <2>2. /\ book' \in [Card -> VCard] /\ \A d \in Card : d # u => book'[d] = book[d]
        /\ book'[u].etag = version + 1 /\ book'[u].text = text
    BY <1>5, <2>1, CardWritten
  <2> QED
    BY <2>2 DEF text
<1>7. /\ hand' \in HandType
      /\ \/ hand'.at = "written" /\ hand'.target = {u} /\ failed' = failed
         \/ hand'.at = "done" /\ hand'.target = hand.target /\ failed' = failed \cup {Mine}
  <2>1. CASE hand' = [hand EXCEPT !.at = "written", !.target = {u}] /\ failed' = failed
    BY <1>2, <1>5, <2>1, HandWrites
  <2>2. CASE hand' = [hand EXCEPT !.at = "done"] /\ failed' = failed \cup {Mine}
    BY <1>2, <2>2, HandGoes DEF HandAt
  <2> QED
    BY <1>4, <2>1, <2>2
<1> QED
  BY <1>1, <1>3, <1>4, <1>5, <1>6, <1>7

LEMMA PutCardDoes ==
    ASSUME CardTypeOK, HandInv, FreshInv, PutCard
    PROVE  /\ Work /\ errands # <<>> /\ hand.at = "loaded" /\ Head(errands).kind = "edit"
           /\ UNCHANGED <<contact, errands, fresh, failed>> /\ changes' \in 0 .. MaxChanges
           /\ hand.model.text # 0 /\ hand' \in HandType
           /\ hand'.at = "written" /\ hand'.target = {Mine}
           /\ \/ /\ book' \in [Card -> VCard] /\ \A d \in Card : d # Mine => book'[d] = book[d]
                 /\ book'[Mine].etag = version + 1 /\ book'[Mine].text = hand.model.text
                 /\ version' = version + 1
              \/ UNCHANGED <<book, version>>
<1>1. /\ Work /\ errands # <<>> /\ hand.at = "loaded" /\ Head(errands).kind = "edit"
      /\ UNCHANGED <<contact, errands, fresh, failed>>
      /\ hand' = [hand EXCEPT !.at = "written", !.target = {Mine}]
  BY DEF PutCard, Doing
<1>2. Mine \in Card /\ hand \in HandType
  BY <1>1, MineIsCard, CardTypes
<1>3. hand.model.text # 0 /\ hand.model.text \in Nat
  BY <1>1, HandFields DEF HandInv
<1>4. hand' \in HandType /\ hand'.at = "written" /\ hand'.target = {Mine}
  BY <1>1, <1>2, HandWrites
<1>5. CASE /\ book' = [book EXCEPT ![Mine] = [etag |-> version + 1, text |-> hand.model.text]]
           /\ version' = version + 1 /\ changes' = changes
  <2> DEFINE text == hand.model.text
  <2>1. text \in Nat /\ book' = [book EXCEPT ![Mine] = [etag |-> version + 1, text |-> text]]
    BY <1>3, <1>5
  <2> HIDE DEF text
  <2>2. /\ book' \in [Card -> VCard] /\ \A d \in Card : d # Mine => book'[d] = book[d]
        /\ book'[Mine].etag = version + 1 /\ book'[Mine].text = text
    BY <1>2, <2>1, CardWritten
  <2>3. changes' \in 0 .. MaxChanges
    BY <1>5, CardTypes
  <2> QED
    BY <1>1, <1>3, <1>4, <1>5, <2>2, <2>3 DEF text
<1>6. CASE changes < MaxChanges /\ changes' = changes + 1 /\ UNCHANGED <<book, version>>
  <2>1. changes' \in 0 .. MaxChanges
    BY <1>6, CardTypes, CardSyncAssumption
  <2> QED
    BY <1>1, <1>3, <1>4, <1>6, <2>1
<1> QED
  BY <1>5, <1>6 DEF PutCard

LEMMA ReadCardDoes ==
    ASSUME CardTypeOK, HandInv, ReadCard
    PROVE  /\ Work /\ hand.at = "written" /\ hand' \in HandType /\ hand'.at = "read"
           /\ UNCHANGED <<book, contact, errands, fresh, version, failed, changes>>
           /\ \E u \in Card : hand.target = {u} /\ hand'.target = {u} /\ hand'.page = book[u]
<1>1. /\ Work /\ hand.at = "written"
      /\ UNCHANGED <<book, contact, errands, fresh, version, failed, changes>>
      /\ hand' = [hand EXCEPT !.at = "read", !.page = book[CHOOSE u \in hand.target : TRUE]]
  BY DEF ReadCard
<1>2. PICK u \in Card : hand.target = {u}
  BY <1>1 DEF HandInv
<1>3. (CHOOSE v \in hand.target : TRUE) = u
  BY <1>2
<1> DEFINE card == book[u]
<1>4. hand' = [hand EXCEPT !.at = "read", !.page = card] /\ card \in VCard /\ hand \in HandType
  BY <1>1, <1>3, CardTypes
<1> HIDE DEF card
<1>5. hand' \in HandType /\ hand'.at = "read" /\ hand'.target = hand.target /\ hand'.page = card
  BY <1>4 DEF HandType
<1> QED
  BY <1>1, <1>2, <1>5 DEF card

LEMMA SaveReadDoes ==
    ASSUME CardTypeOK, HandInv, SaveRead
    PROVE  /\ Work /\ hand.at = "read" /\ hand.page # NoCard /\ hand.page \in VCard
           /\ hand' \in HandType /\ hand'.target = hand.target
           /\ UNCHANGED <<book, errands, fresh, version, changes>>
           /\ failed' = StillFailed(contact')
           /\ contact' \in [Card -> Row]
           /\ \E u \in Card :
                 /\ hand.target = {u} /\ \A c \in Card : c # u => contact'[c] = contact[c]
                 /\ contact'[u].etag = hand.page.etag /\ contact'[u].text = hand.page.text
                 /\ contact'[u].hidden = contact[u].hidden
                 /\ hand'.at = IF Mine = u THEN "done" ELSE "renamed"
<1> DEFINE page == [c \in Card |-> IF c \in hand.target THEN hand.page ELSE NoCard]
<1>1. /\ Work /\ hand.at = "read" /\ hand.page # NoCard
      /\ contact' = Ingest(contact, page) /\ failed' = StillFailed(contact')
      /\ hand' = [hand EXCEPT !.at = IF Mine \in hand.target THEN "done" ELSE "renamed"]
      /\ UNCHANGED <<book, errands, fresh, version, changes>>
  BY DEF SaveRead
<1>2. /\ page \in [Card -> VCard]
      /\ \E u \in Card : hand.target = {u} /\ page[u] = hand.page
                         /\ \A c \in Card : c # u => page[c] = NoCard
  BY <1>1, ReadPage
<1> HIDE DEF page
<1>3. PICK u \in Card : hand.target = {u} /\ page[u] = hand.page
                         /\ \A c \in Card : c # u => page[c] = NoCard
  BY <1>2
<1>4. /\ contact' \in [Card -> Row] /\ \A c \in Card : c # u => contact'[c] = contact[c]
      /\ contact'[u].etag = hand.page.etag /\ contact'[u].text = hand.page.text
      /\ contact'[u].hidden = contact[u].hidden
  BY <1>1, <1>2, <1>3, Ingested, CardTypes
<1> DEFINE at == IF Mine = u THEN "done" ELSE "renamed"
<1>5. hand' = [hand EXCEPT !.at = at] /\ at \in {"done", "renamed"} /\ hand \in HandType
  BY <1>1, <1>3, CardTypes
<1> HIDE DEF at
<1>6. hand' \in HandType /\ hand'.target = hand.target /\ hand'.at = at
  BY <1>5, HandGoes DEF HandAt
<1> QED
  BY <1>1, <1>3, <1>4, <1>6, HandFields DEF at

LEMMA DeleteCardDoes ==
    ASSUME CardTypeOK, FreshInv, DeleteCard
    PROVE  /\ Work /\ errands # <<>> /\ hand.at = "loaded" /\ Head(errands).kind = "destroy"
           /\ hand' \in HandType /\ hand'.target = hand.target
           /\ UNCHANGED <<contact, errands, fresh, version, changes>>
           /\ \/ /\ book' = [book EXCEPT ![Mine] = NoCard]
                 /\ hand'.at = "deleted" /\ failed' = failed
              \/ /\ book' = book
                 /\ hand'.at = "done" /\ failed' = failed \cup {Mine}
<1>1. hand \in HandType
  BY CardTypes
<1>2. /\ Work /\ errands # <<>> /\ hand.at = "loaded" /\ Head(errands).kind = "destroy"
      /\ UNCHANGED <<contact, errands, fresh, version, changes>>
  BY DEF DeleteCard, Doing
<1>3. \/ /\ book' = [book EXCEPT ![Mine] = NoCard]
         /\ hand' = [hand EXCEPT !.at = "deleted"] /\ failed' = failed
      \/ /\ book' = book
         /\ hand' = [hand EXCEPT !.at = "done"] /\ failed' = failed \cup {Mine}
  BY DEF DeleteCard
<1>4. CASE /\ book' = [book EXCEPT ![Mine] = NoCard]
           /\ hand' = [hand EXCEPT !.at = "deleted"] /\ failed' = failed
  <2>1. hand' \in HandType /\ hand'.at = "deleted" /\ hand'.target = hand.target
    BY <1>1, <1>4, HandGoes DEF HandAt
  <2> QED
    BY <1>2, <1>4, <2>1
<1>5. CASE /\ book' = book
           /\ hand' = [hand EXCEPT !.at = "done"] /\ failed' = failed \cup {Mine}
  <2>1. hand' \in HandType /\ hand'.at = "done" /\ hand'.target = hand.target
    BY <1>1, <1>5, HandGoes DEF HandAt
  <2> QED
    BY <1>2, <1>5, <2>1
<1> QED
  BY <1>3, <1>4, <1>5

LEMMA RemoveContactDoes ==
    ASSUME CardTypeOK, HandInv, FreshInv, RemoveContact
    PROVE  /\ Work /\ errands # <<>> /\ hand.at \in {"deleted", "renamed"} /\ Mine \in Card
           /\ contact' \in [Card -> Row] /\ contact'[Mine] = NoContact
           /\ \A c \in Card : c # Mine => contact'[c] = contact[c]
           /\ failed' = failed \ {Mine}
           /\ hand' \in HandType /\ hand'.at = "done" /\ hand'.target = hand.target
           /\ UNCHANGED <<book, errands, fresh, version, changes>>
<1>1. /\ Work /\ hand.at \in {"deleted", "renamed"}
      /\ contact' = [contact EXCEPT ![Mine] = NoContact]
      /\ failed' = failed \ {Mine} /\ hand' = [hand EXCEPT !.at = "done"]
      /\ UNCHANGED <<book, errands, fresh, version, changes>>
  BY DEF RemoveContact
<1>2. errands # <<>>
  BY <1>1 DEF HandInv
<1>3. Mine \in Card /\ hand \in HandType /\ contact \in [Card -> Row] /\ NoContact \in Row
  BY <1>2, MineIsCard, CardTypes, RestType
<1>4. hand' \in HandType /\ hand'.at = "done" /\ hand'.target = hand.target
  BY <1>1, <1>3, HandGoes DEF HandAt
<1>5. /\ contact' \in [Card -> Row] /\ contact'[Mine] = NoContact
      /\ \A c \in Card : c # Mine => contact'[c] = contact[c]
  BY <1>1, <1>3
<1> QED
  BY <1>1, <1>2, <1>3, <1>4, <1>5

\* A task fails only after the worker has begun it.
LEMMA FailErrandDoes ==
    ASSUME CardTypeOK, HandInv, FailErrand
    PROVE  /\ Work /\ errands # <<>> /\ failed' = failed \cup {Mine}
           /\ errands' = Tail(errands) /\ hand' = HandRest
           /\ UNCHANGED <<book, contact, fresh, version>> /\ changes' \in 0 .. MaxChanges
<1>1. /\ Work /\ failed' = failed \cup {Mine} /\ errands' = Tail(errands) /\ hand' = HandRest
      /\ UNCHANGED <<book, contact, fresh, version>>
  BY DEF FailErrand
<1>2. CASE Refused /\ changes' = changes
  BY <1>1, <1>2, CardTypes DEF Refused, HandInv
<1>3. CASE /\ hand.at \in {"loaded", "written", "deleted"}
           /\ changes < MaxChanges /\ changes' = changes + 1
  <2>1. changes' \in 0 .. MaxChanges
    BY <1>3, CardTypes, CardSyncAssumption
  <2> QED
    BY <1>1, <1>3, <2>1 DEF HandInv
<1> QED
  BY <1>2, <1>3 DEF FailErrand

\* The first task ends: the worker rests.
LEMMA ErrandsFewer ==
    ASSUME CardTypeOK, FreshInv, errands # <<>>, errands' = Tail(errands), hand' = HandRest,
           fresh' = fresh
    PROVE  /\ errands' \in Seq(Errand) /\ HandInv' /\ hand' \in HandType
           /\ \A i \in 1 .. Len(errands') : errands'[i].card \notin fresh'
           /\ hand'.target \cap fresh' = {}
<1>1. errands \in Seq(Errand) /\ errands # <<>>
  BY CardTypes
<1>2. /\ errands' \in Seq(Errand) /\ Len(errands') = Len(errands) - 1 /\ Len(errands) \in Nat
      /\ \A i \in 1 .. Len(errands') : errands'[i] = errands[i + 1]
  BY <1>1
<1>3. ASSUME NEW i \in 1 .. Len(errands')
      PROVE  errands'[i].card \notin fresh'
  <2>1. i + 1 \in 1 .. Len(errands) /\ errands'[i] = errands[i + 1]
    BY <1>2
  <2> QED
    BY <2>1 DEF FreshInv
<1>4. HandInv' /\ hand' \in HandType /\ hand'.target \cap fresh' = {}
  BY RestType DEF HandInv
<1> QED
  BY <1>2, <1>3, <1>4

\* The worker rests again: it has forgotten the first task.
LEMMA ErrandsKept ==
    ASSUME CardTypeOK, FreshInv, errands' = errands, hand' = HandRest, fresh' = fresh
    PROVE  /\ errands' \in Seq(Errand) /\ HandInv' /\ hand' \in HandType
           /\ \A i \in 1 .. Len(errands') : errands'[i].card \notin fresh'
           /\ hand'.target \cap fresh' = {}
BY CardTypes, RestType DEF HandInv, FreshInv

LEMMA ReadNothingDoes ==
    ASSUME CardTypeOK, HandInv, ReadNothing
    PROVE  /\ Work /\ errands # <<>> /\ failed' = failed \cup {Mine}
           /\ hand' \in HandType /\ hand'.at = "done" /\ hand'.target = hand.target
           /\ UNCHANGED <<book, contact, errands, fresh, version, changes>>
<1>1. /\ Work /\ hand.at = "read" /\ failed' = failed \cup {Mine}
      /\ hand' = [hand EXCEPT !.at = "done"]
      /\ UNCHANGED <<book, contact, errands, fresh, version, changes>>
  BY DEF ReadNothing
<1>2. hand \in HandType
  BY CardTypes
<1> QED
  BY <1>1, <1>2 DEF HandInv, HandType

\* The steps of the worker keep the types.
Serve == \/ LoadContact \/ PostCard \/ PutCard \/ ReadCard \/ SaveRead \/ ReadNothing
         \/ DeleteCard \/ RemoveContact \/ CompleteErrand \/ FailErrand

LEMMA TypesOfServe ==
    ASSUME CardTypeOK, HandInv, FreshInv, Serve
    PROVE  CardTypeOK' /\ HandInv' /\ FreshInv' /\ PagesFrom
<1>1. /\ book \in [Card -> VCard] /\ contact \in [Card -> Row] /\ version \in Nat
      /\ failed \subseteq Card /\ changes \in 0 .. MaxChanges /\ fresh \subseteq Card
      /\ \A c \in fresh : book[c] = NoCard /\ contact[c] = NoContact
  BY CardTypes
<1>2. version + 1 \in Nat /\ hand.target \cap fresh = {}
  BY <1>1 DEF FreshInv
<1>3. errands # <<>> => Mine \in Card /\ Mine \notin fresh
  BY MineIsCard
<1>4. CASE LoadContact
  <2>1. /\ Work /\ errands # <<>> /\ hand' \in HandType /\ hand'.target = hand.target
        /\ UNCHANGED <<book, contact, errands, fresh, version, failed, changes>>
        /\ \/ hand'.at = "loaded" /\ hand'.model.text # 0
           \/ hand'.at = "done"
    BY <1>4, LoadContactDoes
  <2>2. HandInv'
    BY <2>1 DEF HandInv
  <2> QED
    BY <1>1, <1>2, <2>1, <2>2, TypesOfWork
<1>5. CASE PostCard
  <2>1. /\ Work /\ errands # <<>> /\ Head(errands).kind = "edit"
        /\ UNCHANGED <<contact, errands, changes>> /\ version' = version + 1
        /\ hand' \in HandType
    BY <1>5, PostCardDoes
  <2>2. PICK u \in Card :
           /\ u \in {Mine} \cup fresh /\ fresh' = fresh \ {u}
           /\ book' \in [Card -> VCard] /\ \A d \in Card : d # u => book'[d] = book[d]
           /\ \/ hand'.at = "written" /\ hand'.target = {u} /\ failed' = failed
              \/ /\ hand'.at = "done" /\ hand'.target = hand.target
                 /\ failed' = failed \cup {Mine}
    BY <1>5, PostCardDoes
  <2>3. HandInv'
    BY <2>1, <2>2 DEF HandInv
  <2>4. /\ fresh' \subseteq fresh /\ hand'.target \cap fresh' = {} /\ failed' \subseteq Card
        /\ \A c \in fresh' : book'[c] = NoCard /\ contact'[c] = NoContact
    BY <1>1, <1>2, <1>3, <2>1, <2>2
  <2> QED
    BY <1>1, <1>2, <2>1, <2>2, <2>3, <2>4, TypesOfWork
<1>6. CASE PutCard
  <2>1. /\ Work /\ errands # <<>> /\ Head(errands).kind = "edit"
        /\ UNCHANGED <<contact, errands, fresh, failed>> /\ changes' \in 0 .. MaxChanges
        /\ hand' \in HandType /\ hand'.at = "written" /\ hand'.target = {Mine}
        /\ \/ /\ book' \in [Card -> VCard] /\ \A d \in Card : d # Mine => book'[d] = book[d]
              /\ version' = version + 1
           \/ UNCHANGED <<book, version>>
    BY <1>6, PutCardDoes
  <2>2. HandInv'
    BY <1>3, <2>1 DEF HandInv
  <2>3. /\ hand'.target \cap fresh' = {} /\ book' \in [Card -> VCard] /\ version' \in Nat
        /\ \A c \in fresh' : book'[c] = NoCard /\ contact'[c] = NoContact
    BY <1>1, <1>2, <1>3, <2>1
  <2> QED
    BY <1>1, <2>1, <2>2, <2>3, TypesOfWork
<1>7. CASE ReadCard
  <2>1. /\ Work /\ hand.at = "written" /\ hand' \in HandType /\ hand'.at = "read"
        /\ UNCHANGED <<book, contact, errands, fresh, version, failed, changes>>
        /\ hand'.target = hand.target
    BY <1>7, ReadCardDoes
  <2>2. HandInv'
    BY <2>1 DEF HandInv
  <2> QED
    BY <1>1, <1>2, <2>1, <2>2, TypesOfWork
<1>8a. CASE ReadNothing
  <2>1. /\ Work /\ errands # <<>> /\ failed' = failed \cup {Mine}
        /\ hand' \in HandType /\ hand'.at = "done" /\ hand'.target = hand.target
        /\ UNCHANGED <<book, contact, errands, fresh, version, changes>>
    BY <1>8a, ReadNothingDoes
  <2>2. HandInv'
    BY <2>1 DEF HandInv
  <2>3. failed' \subseteq Card
    BY <1>1, <1>3, <2>1
  <2> QED
    BY <1>1, <1>2, <2>1, <2>2, <2>3, TypesOfWork
<1>8. CASE SaveRead
  <2>1. /\ Work /\ hand.at = "read" /\ hand' \in HandType /\ hand'.target = hand.target
        /\ UNCHANGED <<book, errands, fresh, version, changes>>
        /\ failed' = StillFailed(contact') /\ contact' \in [Card -> Row]
    BY <1>8, SaveReadDoes
  <2>2. PICK u \in Card :
           /\ hand.target = {u} /\ \A c \in Card : c # u => contact'[c] = contact[c]
           /\ hand'.at = IF Mine = u THEN "done" ELSE "renamed"
    BY <1>8, SaveReadDoes
  <2>3. HandInv'
    BY <2>1, <2>2 DEF HandInv
  <2>4. failed' \subseteq Card /\ \A c \in fresh : contact'[c] = NoContact
    BY <1>1, <1>2, <2>1, <2>2 DEF StillFailed
  <2> QED
    BY <1>1, <1>2, <2>1, <2>3, <2>4, TypesOfWork
<1>9. CASE DeleteCard
  <2>1. /\ Work /\ errands # <<>> /\ Head(errands).kind = "destroy"
        /\ hand' \in HandType /\ hand'.target = hand.target
        /\ UNCHANGED <<contact, errands, fresh, version, changes>>
        /\ \/ /\ book' = [book EXCEPT ![Mine] = NoCard]
              /\ hand'.at = "deleted" /\ failed' = failed
           \/ /\ book' = book
              /\ hand'.at = "done" /\ failed' = failed \cup {Mine}
    BY <1>9, DeleteCardDoes
  <2>2. HandInv'
    BY <2>1 DEF HandInv
  <2>3. /\ book' \in [Card -> VCard] /\ failed' \subseteq Card
        /\ \A c \in fresh : book'[c] = NoCard
    BY <1>1, <1>3, <2>1, RestType
  <2> QED
    BY <1>1, <1>2, <2>1, <2>2, <2>3, TypesOfWork
<1>10. CASE RemoveContact
  <2>1. /\ Work /\ errands # <<>> /\ contact' \in [Card -> Row]
        /\ contact'[Mine] = NoContact
        /\ \A c \in Card : c # Mine => contact'[c] = contact[c]
        /\ failed' = failed \ {Mine}
        /\ hand' \in HandType /\ hand'.at = "done" /\ hand'.target = hand.target
        /\ UNCHANGED <<book, errands, fresh, version, changes>>
    BY <1>10, RemoveContactDoes
  <2>2. HandInv'
    BY <2>1 DEF HandInv
  <2>3. failed' \subseteq Card /\ \A c \in fresh : contact'[c] = NoContact
    BY <1>1, <2>1
  <2> QED
    BY <1>1, <1>2, <2>1, <2>2, <2>3, TypesOfWork
<1>11. CASE CompleteErrand
  <2>1. /\ Work /\ hand.at = "done" /\ errands' = Tail(errands) /\ hand' = HandRest
        /\ UNCHANGED <<book, contact, fresh, version, failed, changes>>
    BY <1>11 DEF CompleteErrand
  <2>2. errands # <<>>
    BY <2>1 DEF HandInv
  <2>3. /\ errands' \in Seq(Errand) /\ HandInv' /\ hand' \in HandType
        /\ \A i \in 1 .. Len(errands') : errands'[i].card \notin fresh'
        /\ hand'.target \cap fresh' = {}
    BY <2>1, <2>2, ErrandsFewer
  <2>4. run' \in [Runner -> RunType] /\ PagesFrom /\ settled' \in BOOLEAN
    BY <2>1, WorkDoes DEF NoneCalm, Work
  <2> QED
    BY <1>1, <2>1, <2>3, <2>4, TypesFrom
<1>12. CASE FailErrand
  <2>1. /\ Work /\ errands # <<>> /\ failed' = failed \cup {Mine}
        /\ errands' = Tail(errands) /\ hand' = HandRest
        /\ UNCHANGED <<book, contact, fresh, version>> /\ changes' \in 0 .. MaxChanges
    BY <1>12, FailErrandDoes
  <2>2. /\ errands' \in Seq(Errand) /\ HandInv' /\ hand' \in HandType
        /\ \A i \in 1 .. Len(errands') : errands'[i].card \notin fresh'
        /\ hand'.target \cap fresh' = {}
    BY <2>1, ErrandsFewer
  <2>3. run' \in [Runner -> RunType] /\ PagesFrom /\ settled' \in BOOLEAN
    BY <2>1, WorkDoes DEF NoneCalm, Work
  <2>4. failed' \subseteq Card
    BY <1>1, <1>3, <2>1
  <2> QED
    BY <1>1, <2>1, <2>2, <2>3, <2>4, TypesFrom
<1> QED
  BY <1>4, <1>5, <1>6, <1>7, <1>8, <1>8a, <1>9, <1>10, <1>11, <1>12 DEF Serve

LEMMA TypesOfRestart ==
    ASSUME CardTypeOK, HandInv, FreshInv, NullContact \/ KillCards
    PROVE  CardTypeOK' /\ HandInv' /\ FreshInv' /\ PagesFrom
<1>1. Restart
  BY DEF NullContact, KillCards
<1>2. /\ run' \in [Runner -> RunType] /\ PagesFrom /\ settled' \in BOOLEAN /\ hand' = HandRest
      /\ UNCHANGED <<book, contact, errands, fresh, version, failed>>
  BY <1>1, RestartDoes DEF NoneCalm, Restart
<1>3. /\ errands' \in Seq(Errand) /\ HandInv' /\ hand' \in HandType
      /\ \A i \in 1 .. Len(errands') : errands'[i].card \notin fresh'
      /\ hand'.target \cap fresh' = {}
  BY <1>2, ErrandsKept
<1>4. changes' \in 0 .. MaxChanges
  BY CardTypes, CardSyncAssumption DEF NullContact, KillCards
<1> QED
  BY <1>2, <1>3, <1>4, CardTypes, TypesFrom

\* Every step keeps the types, and what the worker holds.
LEMMA CardTypesStep ==
    ASSUME CardTypeOK, HandInv, FreshInv, CardNext
    PROVE  CardTypeOK' /\ HandInv' /\ FreshInv' /\ PagesFrom
<1>1. ASSUME NEW w \in Runner, RunStep(w)
      PROVE  CardTypeOK' /\ HandInv' /\ FreshInv' /\ PagesFrom
  BY <1>1, TypesOfRuns
<1>2. ASSUME NEW c \in Card, EditContact(c) \/ HideContact(c) \/ OtherWrites(c) \/ OtherRemoves(c)
      PROVE  CardTypeOK' /\ HandInv' /\ FreshInv' /\ PagesFrom
  BY <1>2, TypesOfEdit, TypesOfHide, TypesOfOthers
<1>3. CASE Serve
  BY <1>3, TypesOfServe
<1>4. CASE NullContact \/ KillCards
  BY <1>4, TypesOfRestart
<1> QED
  BY <1>1, <1>2, <1>3, <1>4 DEF CardNext, RunStep, Serve

-----------------------------------------------------------------------------
(* An etag says whose it is and what its text is.                          *)

\* A task of the contact that the worker is not done with
Pending(c) == \E i \in 1 .. Len(errands) : errands[i].card = c /\ (i # 1 \/ hand.at # "done")

\* One by which it is to be removed
Doomed(c) == \E i \in 1 .. Len(errands) :
                /\ errands[i].card = c /\ errands[i].kind = "destroy"
                /\ i # 1 \/ hand.at # "done"

\* Nothing is to be done for the contact: its row is what the server said.
Clean(c) == contact[c].text # 0 /\ c \notin failed /\ ~Pending(c)

\* A card, if there is one, is what its etag stands for.
Said(owner, said, v, c, card) ==
    \/ card = NoCard
    \/ card.etag \in 1 .. v /\ owner[card.etag] = c /\ said[card.etag] = card.text /\ card.text # 0

RowSays(owner, said, c) ==
    /\ contact[c].hidden => c \in failed \/ Doomed(c)
    /\ contact[c].text = 0 => contact[c] = NoContact
    /\ contact[c].etag # 0 => contact[c].etag \in 1 .. version /\ owner[contact[c].etag] = c
    /\ Clean(c) => contact[c].etag # 0 /\ said[contact[c].etag] = contact[c].text

\* All that is held of the book is of the book: every card that the server, a
\* run or the worker has is the one that its etag was given to, and every row
\* that nobody has work with says what its etag stands for.
Truth(owner, said) ==
    /\ \A c \in Card : Said(owner, said, version, c, book[c])
    /\ \A w \in Runner, c \in Card : Said(owner, said, version, c, run[w].page[c])
    /\ hand.at = "read" => \A c \in hand.target : Said(owner, said, version, c, hand.page)
    /\ \A c \in Card : RowSays(owner, said, c)

\* The etags up to v stand for the same.
Agree(o, s, owner, said, v) == \A n \in 1 .. v : owner[n] = o[n] /\ said[n] = s[n]

LEMMA SaidMore ==
    ASSUME NEW v \in Nat, NEW n \in Nat, v <= n, NEW o, NEW s, NEW owner, NEW said,
           Agree(o, s, owner, said, v), NEW c, NEW card \in VCard, Said(o, s, v, c, card)
    PROVE  Said(owner, said, n, c, card)
BY DEF Said, Agree, VCard

LEMMA NothingSaid ==
    ASSUME NEW owner, NEW said, NEW v, NEW c
    PROVE  Said(owner, said, v, c, NoCard)
BY DEF Said

\* What every step has to show of the rows
LEMMA TruthFrom ==
    ASSUME CardTypeOK, CardTypeOK', PagesFrom, NEW o, NEW s, Truth(o, s), NEW owner, NEW said,
           Agree(o, s, owner, said, version), version <= version',
           \A c \in Card : Said(owner, said, version', c, book'[c]),
           hand'.at = "read" =>
               \A c \in hand'.target : Said(owner, said, version', c, hand'.page),
           \A c \in Card : RowSays(owner, said, c)'
    PROVE  Truth(owner, said)'
<1>1. version \in Nat /\ version' \in Nat
  BY CardTypes DEF CardTypeOK
<1>2. ASSUME NEW w \in Runner, NEW c \in Card
      PROVE  Said(owner, said, version', c, run'[w].page[c])
  <2>1. run'[w].page[c] \in {run[w].page[c], NoCard, book[c]}
    BY DEF PagesFrom
  <2>2. run[w].page[c] \in VCard /\ book[c] \in VCard
    BY CardTypes, RunFields
  <2>3. Said(o, s, version, c, run[w].page[c]) /\ Said(o, s, version, c, book[c])
    BY DEF Truth
  <2>4. Said(owner, said, version', c, run[w].page[c]) /\ Said(owner, said, version', c, book[c])
    BY <1>1, <2>2, <2>3, SaidMore
  <2> QED
    BY <2>1, <2>4, NothingSaid
<1> QED
  BY <1>2 DEF Truth

\* A row that a step leaves alone
LEMMA RowKept ==
    ASSUME CardTypeOK, CardTypeOK', NEW o, NEW s, NEW owner, NEW said, NEW c \in Card,
           RowSays(o, s, c), Agree(o, s, owner, said, version), version <= version',
           contact'[c] = contact[c], c \in failed => c \in failed',
           contact[c].text # 0 /\ Pending(c) => Pending(c)' \/ c \in failed',
           contact[c].hidden /\ Doomed(c) => Doomed(c)' \/ c \in failed'
    PROVE  RowSays(owner, said, c)'
<1>1. version \in Nat /\ version' \in Nat /\ contact[c] \in Row
  BY CardTypes DEF CardTypeOK
<1>2. contact[c].etag \in Nat
  BY <1>1 DEF Row
<1>3. contact[c].etag # 0 => /\ contact[c].etag \in 1 .. version' /\ owner[contact[c].etag] = c
                             /\ said[contact[c].etag] = s[contact[c].etag]
  BY <1>1, <1>2 DEF RowSays, Agree
<1>4. Clean(c)' => Clean(c)
  BY DEF Clean
<1> QED
  BY <1>3, <1>4 DEF RowSays

\* A row that goes
LEMMA RowGone ==
    ASSUME NEW owner, NEW said, NEW c \in Card, contact'[c] = NoContact
    PROVE  RowSays(owner, said, c)'
BY RestType DEF RowSays, Clean

\* A row that is what the server has said
LEMMA RowSaid ==
    ASSUME NEW owner, NEW said, NEW c \in Card, NEW card \in VCard,
           Said(owner, said, version', c, card), card # NoCard,
           contact'[c].etag = card.etag, contact'[c].text = card.text,
           contact'[c].hidden => c \in failed' \/ Doomed(c)', version' \in Nat
    PROVE  RowSays(owner, said, c)'
BY DEF RowSays, Said, VCard

\* The worker goes on with its task, and is not done with it.
LEMMA PendingSame ==
    ASSUME errands' = errands, hand'.at = "done" => hand.at = "done", NEW c
    PROVE  (Pending(c) => Pending(c)') /\ (Doomed(c) => Doomed(c)')
BY DEF Pending, Doomed

\* It is done with it.
LEMMA PendingDone ==
    ASSUME CardTypeOK, errands # <<>>, errands' = errands, NEW c
    PROVE  /\ Pending(c) => Pending(c)' \/ c = Mine
           /\ Doomed(c) => Doomed(c)' \/ (c = Mine /\ Head(errands).kind = "destroy")
<1>1. Head(errands) = errands[1]
  BY CardTypes
<1>2. ASSUME Pending(c), c # Mine
      PROVE  Pending(c)'
  BY <1>1, <1>2 DEF Pending, Mine
<1>3. ASSUME Doomed(c), ~(c = Mine /\ Head(errands).kind = "destroy")
      PROVE  Doomed(c)'
  BY <1>1, <1>3 DEF Doomed, Mine
<1> QED
  BY <1>2, <1>3

\* Its task ends.
LEMMA PendingGone ==
    ASSUME CardTypeOK, errands # <<>>, errands' = Tail(errands), hand'.at = "rest", NEW c
    PROVE  /\ Pending(c) => Pending(c)' \/ (c = Mine /\ hand.at # "done")
           /\ Doomed(c) => Doomed(c)' \/ (c = Mine /\ hand.at # "done")
<1>1. errands \in Seq(Errand)
  BY CardTypes
<1>2. /\ Head(errands) = errands[1] /\ Len(errands') = Len(errands) - 1 /\ Len(errands) \in Nat
      /\ \A i \in 1 .. Len(errands') : errands'[i] = errands[i + 1]
  BY <1>1
<1>0. Mine = errands[1].card
  BY <1>2 DEF Mine
<1>3. ASSUME NEW i \in 1 .. Len(errands), i # 1
      PROVE  i - 1 \in 1 .. Len(errands') /\ errands'[i - 1] = errands[i]
  BY <1>2, <1>3
<1>4. ASSUME Pending(c), ~(c = Mine /\ hand.at # "done")
      PROVE  Pending(c)'
  <2>1. PICK i \in 1 .. Len(errands) : errands[i].card = c /\ (i # 1 \/ hand.at # "done")
    BY <1>4 DEF Pending
  <2>2. i # 1
    BY <1>0, <1>4, <2>1
  <2> DEFINE j == i - 1
  <2>3. j \in 1 .. Len(errands') /\ errands'[j] = errands[i]
    BY <1>3, <2>2
  <2> HIDE DEF j
  <2> QED
    BY <2>1, <2>3 DEF Pending
<1>5. ASSUME Doomed(c), ~(c = Mine /\ hand.at # "done")
      PROVE  Doomed(c)'
  <2>1. PICK i \in 1 .. Len(errands) :
           /\ errands[i].card = c /\ errands[i].kind = "destroy"
           /\ i # 1 \/ hand.at # "done"
    BY <1>5 DEF Doomed
  <2>2. i # 1
    BY <1>0, <1>5, <2>1
  <2> DEFINE j == i - 1
  <2>3. j \in 1 .. Len(errands') /\ errands'[j] = errands[i]
    BY <1>3, <2>2
  <2> HIDE DEF j
  <2> QED
    BY <2>1, <2>3 DEF Doomed
<1> QED
  BY <1>4, <1>5

\* A task more
LEMMA PendingMore ==
    ASSUME CardTypeOK, HandInv, NEW c \in Card, NEW kind \in {"edit", "destroy"},
           errands' = Append(errands, [card |-> c, kind |-> kind]), hand' = hand
    PROVE  /\ \A d : (Pending(d) => Pending(d)') /\ (Doomed(d) => Doomed(d)')
           /\ Pending(c)' /\ (kind = "destroy" => Doomed(c)')
<1> DEFINE e == [card |-> c, kind |-> kind]
<1>1. e \in Errand /\ e.card = c /\ e.kind = kind /\ errands' = Append(errands, e)
  BY DEF Errand
<1> HIDE DEF e
<1>2. errands \in Seq(Errand)
  BY CardTypes
<1>3. /\ Len(errands') = Len(errands) + 1 /\ Len(errands) \in Nat
      /\ \A i \in 1 .. Len(errands) : errands'[i] = errands[i]
      /\ errands'[Len(errands) + 1] = e
  BY <1>1, <1>2
<1>4. Len(errands) + 1 # 1 \/ hand.at # "done"
  <2>1. errands = <<>> => hand.at = "rest"
    BY DEF HandInv
  <2>2. errands # <<>> => Len(errands) # 0
    BY <1>2
  <2>3. Len(errands) # 0 => Len(errands) + 1 # 1
    BY <1>3
  <2> QED
    BY <2>1, <2>2, <2>3, Zenon
<1>5. ASSUME NEW d, Pending(d)
      PROVE  Pending(d)'
  BY <1>3, <1>5 DEF Pending
<1>6. ASSUME NEW d, Doomed(d)
      PROVE  Doomed(d)'
  BY <1>3, <1>6 DEF Doomed
<1> DEFINE n == Len(errands) + 1
<1>7. n \in 1 .. Len(errands') /\ errands'[n] = e /\ (n # 1 \/ hand'.at # "done")
  BY <1>3, <1>4
<1> HIDE DEF n
<1>8. Pending(c)' /\ (kind = "destroy" => Doomed(c)')
  BY <1>1, <1>7 DEF Pending, Doomed
<1> QED
  BY <1>5, <1>6, <1>8

\* A row that is stored: left alone, deleted, or written with what the server said.
LEMMA RowStored ==
    ASSUME CardTypeOK, CardTypeOK', NEW o, NEW s, NEW c \in Card, RowSays(o, s, c),
           version' = version, failed' = StillFailed(contact'),
           NEW card \in VCard, Said(o, s, version, c, card),
           \/ contact'[c] = contact[c] /\ (Pending(c) => Pending(c)')
           \/ contact'[c] = NoContact
           \/ /\ card # NoCard /\ contact'[c].etag = card.etag /\ contact'[c].text = card.text
              /\ contact'[c].hidden => contact[c].hidden,
           Doomed(c) => Doomed(c)'
    PROVE  RowSays(o, s, c)'
<1>1. version \in Nat
  BY CardTypes
<1>2. Agree(o, s, o, s, version) /\ version <= version'
  BY <1>1 DEF Agree
<1>3. CASE contact'[c] = contact[c] /\ (Pending(c) => Pending(c)')
  <2>1. c \in failed => c \in failed'
    BY <1>3 DEF StillFailed
  <2> QED
    BY <1>2, <1>3, <2>1, RowKept
<1>4. CASE contact'[c] = NoContact
  BY <1>4, RowGone
<1>5. CASE /\ card # NoCard /\ contact'[c].etag = card.etag /\ contact'[c].text = card.text
           /\ contact'[c].hidden => contact[c].hidden
  <2>1. contact'[c].hidden => c \in failed' \/ Doomed(c)'
    BY <1>5 DEF RowSays, StillFailed
  <2> QED
    BY <1>1, <1>5, <2>1, RowSaid
<1> QED
  BY <1>3, <1>4, <1>5

\* What was said of an etag stays true while runs, tasks and other clients move;
\* here, the runs.
LEMMA TruthOfRuns ==
    ASSUME CardTypeOK, CardTypeOK', HandInv, FreshInv, PagesFrom, NEW o, NEW s, Truth(o, s),
           NEW w \in Runner, RunStep(w)
    PROVE  Truth(o, s)'
<1>1. /\ UNCHANGED <<book, errands, hand, version>>
      /\ version \in Nat /\ contact \in [Card -> Row] /\ run[w] \in RunType
  BY CardTypes DEF RunStep, ListEtags, Compare, Multiget, StorePage, FinishRun, RunThrows
<1>2. /\ Agree(o, s, o, s, version) /\ version <= version'
      /\ \A c \in Card : Said(o, s, version', c, book'[c])
      /\ hand'.at = "read" => \A c \in hand'.target : Said(o, s, version', c, hand'.page)
  BY <1>1 DEF Agree, Truth
<1>3. ASSUME NEW c \in Card
      PROVE  /\ (Pending(c) => Pending(c)') /\ (Doomed(c) => Doomed(c)')
             /\ RowSays(o, s, c) /\ run[w].page[c] \in VCard
             /\ Said(o, s, version, c, run[w].page[c])
  <2>1. hand'.at = "done" => hand.at = "done"
    BY <1>1
  <2> QED
    BY <1>1, <2>1, PendingSame, RunFields DEF Truth
<1>4. SUFFICES ASSUME NEW c \in Card PROVE RowSays(o, s, c)'
  BY <1>2, TruthFrom
<1>5. CASE UNCHANGED <<contact, failed>>
  BY <1>2, <1>3, <1>5, RowKept
<1>6. CASE StorePage(w)
  <2>1. /\ contact' = Ingest(Purge(contact, run[w].deleted), run[w].page)
        /\ failed' = StillFailed(contact')
    BY <1>6, StorePageDoes
  <2> DEFINE rows == Purge(contact, run[w].deleted)
  <2> DEFINE page == run[w].page
  <2>2. rows \in [Card -> Row] /\ rows[c] \in {contact[c], NoContact}
    BY <1>1, Purged
  <2>3. page \in [Card -> VCard] /\ contact' = Ingest(rows, page)
    BY <1>1, <2>1, RunFields
  <2> HIDE DEF rows, page
  <2>4. \/ contact'[c] = rows[c]
        \/ /\ page[c] # NoCard /\ contact'[c].etag = page[c].etag
           /\ contact'[c].text = page[c].text /\ contact'[c].hidden = rows[c].hidden
    BY <2>2, <2>3, Ingested
  <2>5. rows[c].hidden => contact[c].hidden
    BY <2>2, RestType
  <2>6. \/ contact'[c] = contact[c] /\ (Pending(c) => Pending(c)')
        \/ contact'[c] = NoContact
        \/ /\ page[c] # NoCard /\ contact'[c].etag = page[c].etag /\ contact'[c].text = page[c].text
           /\ contact'[c].hidden => contact[c].hidden
    BY <1>3, <2>2, <2>4, <2>5
  <2>7. page[c] \in VCard /\ Said(o, s, version, c, page[c])
    BY <1>3 DEF page
  <2> DEFINE card == page[c]
  <2> HIDE DEF card
  <2>8. card = page[c]
    BY DEF card
  <2>9. version' = version /\ (Doomed(c) => Doomed(c)') /\ RowSays(o, s, c)
    BY <1>1, <1>3
  <2> QED
    BY <2>1, <2>6, <2>7, <2>8, <2>9, RowStored
<1>7. CASE FinishRun(w)
  <2>1. /\ contact' = Purge(contact, run[w].deleted) /\ failed' = StillFailed(contact')
    BY <1>7, FinishRunDoes
  <2>2. contact'[c] \in {contact[c], NoContact}
    BY <1>1, <2>1, Purged
  <2>3. /\ NoCard \in VCard /\ Said(o, s, version, c, NoCard)
    BY RestType, NothingSaid
  <2>4. version' = version /\ (Doomed(c) => Doomed(c)') /\ RowSays(o, s, c)
    BY <1>1, <1>3
  <2>5. \/ contact'[c] = contact[c] /\ (Pending(c) => Pending(c)')
        \/ contact'[c] = NoContact
    BY <1>3, <2>2
  <2> QED
    BY <2>1, <2>3, <2>4, <2>5, RowStored
<1> QED
  BY <1>5, <1>6, <1>7 DEF RunStep, ListEtags, Compare, Multiget, RunThrows

\* The user changes a row, and a task is queued for it.
LEMMA TruthOfUser ==
    ASSUME CardTypeOK, CardTypeOK', HandInv, FreshInv, PagesFrom, NEW o, NEW s, Truth(o, s),
           NEW c \in Card, EditContact(c) \/ HideContact(c)
    PROVE  Truth(o, s)'
<1>1. /\ version \in Nat /\ contact \in [Card -> Row] /\ contact[c] \in Row
      /\ \A d \in Card : RowSays(o, s, d)
  BY CardTypes DEF Truth
<1>2. UNCHANGED <<book, hand, failed>> /\ version' \in {version, version + 1}
  BY DEF EditContact, HideContact
<1>3. version' \in Nat /\ version <= version' /\ Agree(o, s, o, s, version)
  BY <1>1, <1>2 DEF Agree
<1>4. /\ \A d \in Card : Said(o, s, version', d, book'[d])
      /\ hand'.at = "read" => \A d \in hand'.target : Said(o, s, version', d, hand'.page)
  <2>1. book \in [Card -> VCard] /\ hand.page \in VCard
    BY CardTypes, HandFields
  <2> QED
    BY <1>1, <1>2, <1>3, <2>1, SaidMore DEF Truth
<1>5. PICK kind \in {"edit", "destroy"} :
         /\ errands' = Append(errands, [card |-> c, kind |-> kind])
         /\ kind = "edit" => /\ contact' = [contact EXCEPT ![c].text = version + 1]
                             /\ version' = version + 1
                             /\ c \in fresh \/ ~contact[c].hidden
         /\ kind = "destroy" => /\ contact' = [contact EXCEPT ![c].hidden = TRUE]
                                /\ contact[c].text # 0
  <2>1. CASE EditContact(c)
    BY <2>1 DEF EditContact
  <2>2. CASE HideContact(c)
    BY <2>2 DEF HideContact
  <2> QED
    BY <2>1, <2>2
<1>6. /\ \A d : (Pending(d) => Pending(d)') /\ (Doomed(d) => Doomed(d)')
      /\ Pending(c)' /\ (kind = "destroy" => Doomed(c)')
  BY <1>2, <1>5, PendingMore
<1>7. /\ \A d \in Card : d # c => contact'[d] = contact[d]
      /\ contact'[c].text # 0 /\ contact'[c].etag = contact[c].etag
      /\ contact'[c].hidden => kind = "destroy"
  <2>1. CASE kind = "edit"
    <3> DEFINE text == version + 1
    <3>1. text \in Nat /\ contact' = [contact EXCEPT ![c].text = text] /\ text # 0
      BY <1>1, <1>5, <2>1
    <3>2. ~contact[c].hidden
      BY <1>5, <2>1, CardTypes, RestType
    <3> HIDE DEF text
    <3> QED
      BY <1>1, <3>1, <3>2, RowEdited
  <2>2. CASE kind = "destroy"
    <3>1. contact' = [contact EXCEPT ![c].hidden = TRUE] /\ contact[c].text # 0
      BY <1>5, <2>2
    <3> QED
      BY <1>1, <2>2, <3>1, RowHidden
  <2> QED
    BY <1>5, <2>1, <2>2
<1>8. SUFFICES ASSUME NEW d \in Card PROVE RowSays(o, s, d)'
  BY <1>3, <1>4, TruthFrom
<1>9. CASE d = c
  <2>1. ~Clean(c)'
    BY <1>6 DEF Clean
  <2>2. contact[c].etag # 0 => contact[c].etag \in 1 .. version' /\ o[contact[c].etag] = c
    BY <1>1, <1>3 DEF RowSays
  <2> QED
    BY <1>6, <1>7, <1>9, <2>1, <2>2 DEF RowSays
<1>10. CASE d # c
  BY <1>1, <1>2, <1>3, <1>6, <1>7, <1>10, RowKept
<1> QED
  BY <1>9, <1>10

\* A new etag stands for what was written.
LEMMA EtagGiven ==
    ASSUME CardTypeOK, NEW o, NEW s, Truth(o, s), NEW u \in Card,
           book' \in [Card -> VCard], \A c \in Card : c # u => book'[c] = book[c],
           book'[u].etag = version + 1, book'[u].text # 0, version' = version + 1
    PROVE  \E owner, said :
              /\ Agree(o, s, owner, said, version)
              /\ \A c \in Card : Said(owner, said, version', c, book'[c])
<1> DEFINE owner == [n \in Nat |-> IF n = version + 1 THEN u ELSE o[n]]
<1> DEFINE said == [n \in Nat |-> IF n = version + 1 THEN book'[u].text ELSE s[n]]
<1>1. version \in Nat /\ book \in [Card -> VCard]
  BY CardTypes
<1>2. /\ \A n \in 1 .. version : owner[n] = o[n] /\ said[n] = s[n]
      /\ owner[version + 1] = u /\ said[version + 1] = book'[u].text
  BY <1>1
<1> HIDE DEF owner, said
<1>3. Agree(o, s, owner, said, version)
  BY <1>2 DEF Agree
<1>4. version' \in Nat /\ version <= version' /\ version + 1 \in 1 .. version'
  BY <1>1
<1>5. ASSUME NEW c \in Card
      PROVE  Said(owner, said, version', c, book'[c])
  <2>1. CASE c = u
    BY <1>2, <1>4, <2>1 DEF Said
  <2>2. CASE c # u
    <3>1. Said(o, s, version, c, book[c]) /\ book[c] \in VCard
      BY <1>1 DEF Truth
    <3> QED
      BY <1>1, <1>3, <1>4, <2>2, <3>1, SaidMore
  <2> QED
    BY <2>1, <2>2
<1> QED
  BY <1>3, <1>5

\* A card that goes leaves the others what they were.
LEMMA CardGone ==
    ASSUME CardTypeOK, NEW o, NEW s, Truth(o, s), NEW u \in Card,
           book' = [book EXCEPT ![u] = NoCard]
    PROVE  \A c \in Card : Said(o, s, version, c, book'[c])
<1>1. \A c \in Card : book'[c] \in {book[c], NoCard}
  BY CardTypes
<1> QED
  BY <1>1, NothingSaid DEF Truth

\* The rows when only the server has changed, or the worker is not done yet
LEMMA TruthOfBook ==
    ASSUME CardTypeOK, CardTypeOK', PagesFrom, NEW o, NEW s, Truth(o, s), NEW owner, NEW said,
           Agree(o, s, owner, said, version), version <= version',
           \A c \in Card : Said(owner, said, version', c, book'[c]),
           contact' = contact, failed \subseteq failed',
           hand'.at = "read" => hand.at = "read" /\ hand'.target = hand.target /\ hand'.page = hand.page,
           \A c \in Card :
              /\ contact[c].text # 0 /\ Pending(c) => Pending(c)' \/ c \in failed'
              /\ contact[c].hidden /\ Doomed(c) => Doomed(c)' \/ c \in failed'
    PROVE  Truth(owner, said)'
<1>1. version \in Nat /\ version' \in Nat /\ hand.page \in VCard
  BY CardTypes, HandFields DEF CardTypeOK
<1>2. hand'.at = "read" =>
         \A c \in hand'.target : Said(owner, said, version', c, hand'.page)
  BY <1>1, SaidMore DEF Truth
<1>3. ASSUME NEW c \in Card
      PROVE  RowSays(owner, said, c)'
  <2>1. /\ RowSays(o, s, c) /\ contact'[c] = contact[c] /\ (c \in failed => c \in failed')
        /\ contact[c].text # 0 /\ Pending(c) => Pending(c)' \/ c \in failed'
        /\ contact[c].hidden /\ Doomed(c) => Doomed(c)' \/ c \in failed'
    BY DEF Truth
  <2> QED
    BY <2>1, RowKept
<1> QED
  BY <1>2, <1>3, TruthFrom

\* Another client writes a card or removes it.
LEMMA TruthOfOthers ==
    ASSUME CardTypeOK, CardTypeOK', PagesFrom, NEW o, NEW s, Truth(o, s),
           NEW u \in Card, OtherWrites(u) \/ OtherRemoves(u)
    PROVE  \E owner, said : Truth(owner, said)'
<1>1. UNCHANGED <<contact, errands, hand, failed>>
  BY DEF OtherWrites, OtherRemoves
<1>2. version \in Nat
  BY CardTypes
<1>3. \A c \in Card : (Pending(c) => Pending(c)') /\ (Doomed(c) => Doomed(c)')
  BY <1>1, PendingSame
<1>4. CASE OtherWrites(u)
  <2>1. /\ book' = [book EXCEPT ![u] = [etag |-> version + 1, text |-> version + 1]]
        /\ version' = version + 1
    BY <1>4 DEF OtherWrites
  <2>2. /\ book' \in [Card -> VCard] /\ \A d \in Card : d # u => book'[d] = book[d]
        /\ book'[u].etag = version + 1 /\ book'[u].text = version + 1
    <3>1. version + 1 \in Nat
      BY <1>2
    <3> QED
      BY <2>1, <3>1, CardWritten
  <2>3. book'[u].text # 0 /\ version <= version'
    BY <1>2, <2>1, <2>2
  <2>4. PICK owner, said :
           /\ Agree(o, s, owner, said, version)
           /\ \A c \in Card : Said(owner, said, version', c, book'[c])
    BY <2>1, <2>2, <2>3, EtagGiven
  <2>5. Truth(owner, said)'
    BY <1>1, <1>3, <2>3, <2>4, TruthOfBook
  <2> QED
    BY <2>5
<1>5. CASE OtherRemoves(u)
  <2>1. book' = [book EXCEPT ![u] = NoCard] /\ version' = version
    BY <1>5 DEF OtherRemoves
  <2>2. \A c \in Card : Said(o, s, version', c, book'[c])
    BY <2>1, CardGone
  <2>3. Agree(o, s, o, s, version) /\ version <= version'
    BY <1>2, <2>1 DEF Agree
  <2>4. Truth(o, s)'
    BY <1>1, <1>3, <2>2, <2>3, TruthOfBook
  <2> QED
    BY <2>4
<1> QED
  BY <1>4, <1>5

\* The process starts again: the task of the worker is to be done from the start.
LEMMA TruthOfRestart ==
    ASSUME CardTypeOK, CardTypeOK', PagesFrom, NEW o, NEW s, Truth(o, s),
           NullContact \/ KillCards
    PROVE  Truth(o, s)'
<1>1. hand'.at = "rest" /\ UNCHANGED <<book, contact, errands, version, failed>>
  BY RestType DEF NullContact, KillCards, Restart
<1>2. \A c \in Card : (Pending(c) => Pending(c)') /\ (Doomed(c) => Doomed(c)')
  BY <1>1, PendingSame
<1>3. Agree(o, s, o, s, version) /\ version <= version'
  BY <1>1, CardTypes DEF Agree
<1>4. \A c \in Card : Said(o, s, version', c, book'[c])
  BY <1>1 DEF Truth
<1> QED
  BY <1>1, <1>2, <1>3, <1>4, TruthOfBook

LEMMA TruthOfWrites ==
    ASSUME CardTypeOK, CardTypeOK', HandInv, FreshInv, PagesFrom, NEW o, NEW s, Truth(o, s),
           PostCard \/ PutCard \/ DeleteCard
    PROVE  \E owner, said : Truth(owner, said)'
<1>1. version \in Nat /\ \A n \in Nat : n <= n + 1
  BY CardTypes
<1>2. Agree(o, s, o, s, version)
  BY DEF Agree
<1>3. CASE PostCard
  <2>1. /\ errands # <<>> /\ UNCHANGED <<contact, errands>> /\ version' = version + 1
        /\ hand.model.text # 0
    BY <1>3, PostCardDoes
  <2>2. PICK u \in Card :
           /\ book' \in [Card -> VCard] /\ \A d \in Card : d # u => book'[d] = book[d]
           /\ book'[u].etag = version + 1 /\ book'[u].text = hand.model.text
           /\ \/ hand'.at = "written" /\ failed' = failed
              \/ hand'.at = "done" /\ failed' = failed \cup {Mine}
    BY <1>3, PostCardDoes
  <2>3. PICK owner, said :
           /\ Agree(o, s, owner, said, version)
           /\ \A c \in Card : Said(owner, said, version', c, book'[c])
    BY <2>1, <2>2, EtagGiven
  <2>4. ASSUME NEW c \in Card
        PROVE  /\ Pending(c) => Pending(c)' \/ c \in failed'
               /\ Doomed(c) => Doomed(c)' \/ c \in failed'
    BY <2>1, <2>2, PendingSame, PendingDone
  <2>5. version <= version' /\ failed \subseteq failed' /\ hand'.at # "read"
    BY <1>1, <2>1, <2>2
  <2>6. Truth(owner, said)'
    BY <2>1, <2>3, <2>4, <2>5, TruthOfBook
  <2> QED
    BY <2>6
<1>4. CASE PutCard
  <2>1. /\ errands # <<>> /\ UNCHANGED <<contact, errands, failed>>
        /\ hand.model.text # 0 /\ hand'.at = "written"
        /\ \/ /\ book' \in [Card -> VCard] /\ \A d \in Card : d # Mine => book'[d] = book[d]
              /\ book'[Mine].etag = version + 1 /\ book'[Mine].text = hand.model.text
              /\ version' = version + 1
           \/ UNCHANGED <<book, version>>
    BY <1>4, PutCardDoes
  <2>2. Mine \in Card
    BY <2>1, MineIsCard
  <2>3. \E owner, said :
           /\ Agree(o, s, owner, said, version)
           /\ \A c \in Card : Said(owner, said, version', c, book'[c])
    <3>1. CASE UNCHANGED <<book, version>>
      BY <1>2, <3>1 DEF Truth
    <3>2. CASE ~UNCHANGED <<book, version>>
      <4> DEFINE u == Mine
      <4>1. /\ u \in Card
            /\ book' \in [Card -> VCard] /\ \A d \in Card : d # u => book'[d] = book[d]
            /\ book'[u].etag = version + 1 /\ book'[u].text # 0
            /\ version' = version + 1
        BY <2>1, <2>2, <3>2
      <4> HIDE DEF u
      <4> QED
        BY <4>1, EtagGiven
    <3> QED
      BY <3>1, <3>2
  <2>4. PICK owner, said :
           /\ Agree(o, s, owner, said, version)
           /\ \A c \in Card : Said(owner, said, version', c, book'[c])
    BY <2>3
  <2>5. ASSUME NEW c \in Card
        PROVE  (Pending(c) => Pending(c)') /\ (Doomed(c) => Doomed(c)')
    BY <2>1, PendingSame
  <2>6. version <= version' /\ failed \subseteq failed' /\ hand'.at # "read"
    BY <1>1, <2>1
  <2>7. Truth(owner, said)'
    BY <2>1, <2>4, <2>5, <2>6, TruthOfBook
  <2> QED
    BY <2>7
<1>5. CASE DeleteCard
  <2>1. /\ errands # <<>> /\ UNCHANGED <<contact, errands, version>>
        /\ \/ /\ book' = [book EXCEPT ![Mine] = NoCard]
              /\ hand'.at = "deleted" /\ failed' = failed
           \/ /\ book' = book
              /\ hand'.at = "done" /\ failed' = failed \cup {Mine}
    BY <1>5, DeleteCardDoes
  <2>2. Mine \in Card
    BY <2>1, MineIsCard
  <2>3. \A c \in Card : Said(o, s, version, c, book'[c])
    <3>1. CASE book' = [book EXCEPT ![Mine] = NoCard]
      <4> DEFINE u == Mine
      <4>1. u \in Card /\ book' = [book EXCEPT ![u] = NoCard]
        BY <2>2, <3>1
      <4> HIDE DEF u
      <4> QED
        BY <4>1, CardGone
    <3>2. CASE book' = book
      BY <3>2 DEF Truth
    <3> QED
      BY <2>1, <3>1, <3>2
  <2>4. ASSUME NEW c \in Card
        PROVE  /\ Pending(c) => Pending(c)' \/ c \in failed'
               /\ Doomed(c) => Doomed(c)' \/ c \in failed'
    BY <2>1, PendingSame, PendingDone
  <2>5. version <= version' /\ failed \subseteq failed' /\ hand'.at # "read"
    BY <1>1, <2>1
  <2>6. \A c \in Card : Said(o, s, version', c, book'[c])
    BY <2>1, <2>3
  <2>7. Truth(o, s)'
    BY <1>2, <2>1, <2>4, <2>5, <2>6, TruthOfBook
  <2> QED
    BY <2>7
<1> QED
  BY <1>3, <1>4, <1>5

LEMMA TruthOfRest ==
    ASSUME CardTypeOK, CardTypeOK', HandInv, FreshInv, PagesFrom, NEW o, NEW s, Truth(o, s),
           \/ LoadContact \/ ReadCard \/ SaveRead \/ ReadNothing \/ RemoveContact
           \/ CompleteErrand \/ FailErrand
    PROVE  Truth(o, s)'
<1>1. UNCHANGED <<book, version>>
  BY DEF LoadContact, ReadCard, SaveRead, ReadNothing, RemoveContact, CompleteErrand, FailErrand
<1>2. version \in Nat /\ version <= version' /\ Agree(o, s, o, s, version)
  BY <1>1, CardTypes DEF Agree
<1>3. \A c \in Card : Said(o, s, version', c, book'[c])
  BY <1>1 DEF Truth
<1>4. \A c \in Card : RowSays(o, s, c)
  BY DEF Truth
<1>5. CASE LoadContact
  <2>1. /\ errands # <<>> /\ hand.at = "rest"
        /\ UNCHANGED <<contact, errands, failed>>
        /\ \/ hand'.at = "loaded"
           \/ hand'.at = "done" /\ contact[Mine].text = 0
    BY <1>5, LoadContactDoes
  <2>2. ASSUME NEW c \in Card
        PROVE  /\ contact[c].text # 0 /\ Pending(c) => Pending(c)' \/ c \in failed'
               /\ contact[c].hidden /\ Doomed(c) => Doomed(c)' \/ c \in failed'
    <3>1. contact[c].hidden => contact[c].text # 0
      BY <1>4, RestType DEF RowSays
    <3>2. CASE hand'.at = "loaded"
      BY <2>1, <3>2, PendingSame
    <3>3. CASE hand'.at = "done" /\ contact[Mine].text = 0
      BY <2>1, <3>1, <3>3, PendingDone
    <3> QED
      BY <2>1, <3>2, <3>3
  <2>3. failed \subseteq failed' /\ hand'.at # "read"
    BY <2>1
  <2> QED
    BY <1>2, <1>3, <2>1, <2>2, <2>3, TruthOfBook
<1>6. CASE ReadCard
  <2>1. /\ UNCHANGED <<contact, errands, failed>> /\ hand'.at = "read"
        /\ \E u \in Card : hand'.target = {u} /\ hand'.page = book[u]
    BY <1>6, ReadCardDoes
  <2>2. \A c \in hand'.target : Said(o, s, version', c, hand'.page)
    BY <1>1, <1>3, <2>1
  <2>3. ASSUME NEW c \in Card
        PROVE  RowSays(o, s, c)'
    <3>1. (Pending(c) => Pending(c)') /\ (Doomed(c) => Doomed(c)')
      BY <2>1, PendingSame
    <3> QED
      BY <1>2, <1>4, <2>1, <3>1, RowKept
  <2> QED
    BY <1>2, <1>3, <2>2, <2>3, TruthFrom
<1>7a. CASE ReadNothing
  <2>1. /\ errands # <<>> /\ failed' = failed \cup {Mine} /\ hand'.at = "done"
        /\ UNCHANGED <<contact, errands>>
    BY <1>7a, ReadNothingDoes
  <2>2. \A c \in Card : /\ Pending(c) => Pending(c)' \/ c \in failed'
                        /\ Doomed(c) => Doomed(c)' \/ c \in failed'
    BY <2>1, PendingDone
  <2>3. failed \subseteq failed' /\ hand'.at # "read"
    BY <2>1
  <2> QED
    BY <1>2, <1>3, <2>1, <2>2, <2>3, TruthOfBook
<1>7. CASE SaveRead
  <2>1. /\ hand.at = "read" /\ hand.page # NoCard /\ hand.page \in VCard
        /\ errands' = errands /\ failed' = StillFailed(contact')
    BY <1>7, SaveReadDoes
  <2>2. PICK u \in Card :
           /\ hand.target = {u} /\ \A c \in Card : c # u => contact'[c] = contact[c]
           /\ contact'[u].etag = hand.page.etag /\ contact'[u].text = hand.page.text
           /\ contact'[u].hidden = contact[u].hidden
           /\ hand'.at = IF Mine = u THEN "done" ELSE "renamed"
    BY <1>7, SaveReadDoes
  <2>3. errands # <<>> /\ Head(errands).kind = "edit"
    BY <2>1 DEF HandInv
  <2>4. ASSUME NEW c \in Card
        PROVE  (c # u /\ Pending(c) => Pending(c)') /\ (Doomed(c) => Doomed(c)')
    <3>1. Pending(c) => Pending(c)' \/ c = Mine
      BY <2>1, <2>3, PendingDone
    <3>2. Doomed(c) => Doomed(c)'
      BY <2>1, <2>3, PendingDone
    <3>3. Mine # u => (Pending(c) => Pending(c)')
      BY <2>1, <2>2, PendingSame
    <3> QED
      BY <3>1, <3>2, <3>3
  <2>5. ASSUME NEW c \in Card
        PROVE  RowSays(o, s, c)'
    <3>1. CASE c = u
      <4> DEFINE card == hand.page
      <4>1. /\ card \in VCard /\ card # NoCard /\ Said(o, s, version, u, card)
            /\ contact'[u].etag = card.etag /\ contact'[u].text = card.text
        BY <2>1, <2>2 DEF Truth
      <4> HIDE DEF card
      <4>2. contact'[u].hidden => contact[u].hidden
        BY <2>2
      <4>3. RowSays(o, s, u) /\ (Doomed(u) => Doomed(u)')
        BY <1>4, <2>4
      <4>4. RowSays(o, s, u)'
        BY <1>1, <2>1, <4>1, <4>2, <4>3, RowStored
      <4> QED
        BY <3>1, <4>4
    <3>2. CASE c # u
      <4>1. NoCard \in VCard /\ Said(o, s, version, c, NoCard)
        BY RestType, NothingSaid
      <4>2. contact'[c] = contact[c] /\ (Pending(c) => Pending(c)') /\ (Doomed(c) => Doomed(c)')
        BY <2>2, <2>4, <3>2
      <4> QED
        BY <1>1, <1>4, <2>1, <4>1, <4>2, RowStored
    <3> QED
      BY <3>1, <3>2
  <2>6. hand'.at # "read"
    BY <2>2
  <2> QED
    BY <1>2, <1>3, <2>5, <2>6, TruthFrom
<1>8. CASE RemoveContact
  <2>1. /\ errands # <<>> /\ contact'[Mine] = NoContact
        /\ \A c \in Card : c # Mine => contact'[c] = contact[c]
        /\ failed' = failed \ {Mine} /\ hand'.at = "done" /\ errands' = errands
    BY <1>8, RemoveContactDoes
  <2>2. ASSUME NEW c \in Card
        PROVE  RowSays(o, s, c)'
    <3>1. CASE c = Mine
      <4>1. contact'[c] = NoContact
        BY <2>1, <3>1
      <4> QED
        BY <4>1, RowGone
    <3>2. CASE c # Mine
      <4>1. (Pending(c) => Pending(c)') /\ (Doomed(c) => Doomed(c)')
        BY <2>1, <3>2, PendingDone
      <4>2. contact'[c] = contact[c] /\ (c \in failed => c \in failed')
        BY <2>1, <3>2
      <4> QED
        BY <1>2, <1>4, <4>1, <4>2, RowKept
    <3> QED
      BY <3>1, <3>2
  <2> QED
    BY <1>2, <1>3, <2>1, <2>2, TruthFrom
<1>9. CASE CompleteErrand
  <2>1. /\ hand.at = "done" /\ errands' = Tail(errands) /\ hand'.at = "rest"
        /\ UNCHANGED <<contact, failed>>
    BY <1>9, RestType DEF CompleteErrand
  <2>2. errands # <<>>
    BY <2>1 DEF HandInv
  <2>3. \A c \in Card : (Pending(c) => Pending(c)') /\ (Doomed(c) => Doomed(c)')
    BY <2>1, <2>2, PendingGone
  <2>4. failed \subseteq failed' /\ hand'.at # "read"
    BY <2>1
  <2> QED
    BY <1>2, <1>3, <2>1, <2>3, <2>4, TruthOfBook
<1>10. CASE FailErrand
  <2>1. /\ errands # <<>> /\ errands' = Tail(errands) /\ hand' = HandRest
        /\ contact' = contact /\ failed' = failed \cup {Mine}
    BY <1>10, FailErrandDoes
  <2>2. hand'.at = "rest"
    BY <2>1, RestType
  <2>3. \A c \in Card : /\ (Pending(c) => Pending(c)' \/ c = Mine)
                        /\ (Doomed(c) => Doomed(c)' \/ c = Mine)
    BY <2>1, <2>2, PendingGone
  <2>4. failed \subseteq failed' /\ hand'.at # "read" /\ Mine \in failed'
    BY <2>1, <2>2
  <2> QED
    BY <1>2, <1>3, <2>1, <2>3, <2>4, TruthOfBook
<1> QED
  BY <1>5, <1>6, <1>7, <1>7a, <1>8, <1>9, <1>10

\* At the start, the cards of the server are all there is.
LEMMA TruthInit == CardInit => \E owner, said : Truth(owner, said)
<1> SUFFICES ASSUME CardInit PROVE \E owner, said : Truth(owner, said)
  OBVIOUS
<1>1. /\ contact = [c \in Card |-> NoContact] /\ run = [w \in Runner |-> RunRest]
      /\ hand = HandRest /\ version = Cardinality(InBook)
  BY DEF CardInit
<1>2. PICK first \in [InBook -> 1 .. version] :
         /\ \A c, d \in InBook : first[c] = first[d] => c = d
         /\ book = [c \in Card |-> IF c \in InBook THEN [etag |-> first[c], text |-> first[c]]
                                  ELSE NoCard]
  BY <1>1 DEF CardInit
<1> DEFINE owner == [n \in 1 .. version |-> CHOOSE c \in InBook : first[c] = n]
<1> DEFINE said == [n \in 1 .. version |-> n]
<1>3. version \in Nat
  BY <1>1, CardSyncAssumption, FS_Subset, FS_CardinalityType
<1>4. \A c \in InBook : owner[first[c]] = c /\ said[first[c]] = first[c] /\ first[c] # 0
  BY <1>2, <1>3
<1> HIDE DEF owner, said
<1>5. ASSUME NEW c \in Card
      PROVE  Said(owner, said, version, c, book[c])
  <2>1. CASE c \in InBook
    <3> DEFINE card == [etag |-> first[c], text |-> first[c]]
    <3>1. book[c] = card /\ card.etag = first[c] /\ card.text = first[c]
      BY <1>2, <2>1
    <3> HIDE DEF card
    <3> QED
      BY <1>2, <1>4, <2>1, <3>1 DEF Said
  <2>2. CASE c \notin InBook
    <3>1. book[c] = NoCard
      BY <1>2, <2>2
    <3> QED
      BY <3>1, NothingSaid
  <2> QED
    BY <2>1, <2>2
<1>6. \A w \in Runner, c \in Card : Said(owner, said, version, c, run[w].page[c])
  BY <1>1, RestType, NothingSaid
<1>7. \A c \in Card : RowSays(owner, said, c)
  BY <1>1, RestType DEF RowSays, Clean
<1>8. Truth(owner, said)
  BY <1>1, <1>5, <1>6, <1>7, RestType DEF Truth
<1> QED
  BY <1>8

\* Every step leaves an account of what the etags stand for.
LEMMA TruthStep ==
    ASSUME CardTypeOK, CardTypeOK', HandInv, FreshInv, PagesFrom, NEW o, NEW s, Truth(o, s), CardNext
    PROVE  \E owner, said : Truth(owner, said)'
<1>1. ASSUME NEW w \in Runner, RunStep(w)
      PROVE  Truth(o, s)'
  BY <1>1, TruthOfRuns
<1>2. ASSUME NEW c \in Card, EditContact(c) \/ HideContact(c)
      PROVE  Truth(o, s)'
  BY <1>2, TruthOfUser
<1>3. ASSUME NEW c \in Card, OtherWrites(c) \/ OtherRemoves(c)
      PROVE  \E owner, said : Truth(owner, said)'
  BY <1>3, TruthOfOthers
<1>4. CASE PostCard \/ PutCard \/ DeleteCard
  BY <1>4, TruthOfWrites
<1>5. CASE \/ LoadContact \/ ReadCard \/ SaveRead \/ ReadNothing \/ RemoveContact
           \/ CompleteErrand \/ FailErrand
  BY <1>5, TruthOfRest
<1>6. CASE NullContact \/ KillCards
  BY <1>6, TruthOfRestart
<1> QED
  BY <1>1, <1>2, <1>3, <1>4, <1>5, <1>6 DEF CardNext, RunStep

-----------------------------------------------------------------------------
(* A run that nobody disturbs.                                             *)

\* What a run that is still calm knows: its list of etags is that of the
\* server, and what is neither fetched nor deleted yet is right.
CalmRun(r) ==
    r.calm =>
      /\ r.at # "rest"
      /\ r.at = "listed" => \A c \in Card : r.remote[c] = book[c].etag
      /\ r.at \in {"fetch", "page"} =>
          \A c \in Card :
            /\ book[c].etag \notin r.deleted
            /\ contact[c].etag \in {0, book[c].etag} \cup r.deleted
            /\ book[c].etag # 0 =>
                  \/ c \in r.needed
                  \/ contact[c].etag = book[c].etag
                  \/ r.at = "page" /\ r.page[c] = book[c]
      /\ r.at = "page" => \A c \in Card : r.page[c] \in {NoCard, book[c]}

CalmInv == \A w \in Runner : CalmRun(run[w])

\* The rows have the etags of the cards when a calm run ends.
SettledInv == settled => \A c \in Card : contact[c].etag = book[c].etag

\* A step of somebody else
LEMMA CalmOfOthers ==
    ASSUME NoneCalm, ~settled'
    PROVE  CalmInv' /\ SettledInv'
BY DEF NoneCalm, CalmInv, CalmRun, SettledInv

\* What a calm run knows of the book, step by step
LEMMA CalmOfRun ==
    ASSUME NEW w \in Runner, OthersNotCalm(w), CalmRun(run[w])'
    PROVE  CalmInv'
<1> SUFFICES ASSUME NEW v \in Runner PROVE CalmRun(run[v])'
  BY DEF CalmInv
<1>1. CASE v = w
  BY <1>1
<1>2. CASE v # w
  BY <1>2 DEF OthersNotCalm, CalmRun
<1> QED
  BY <1>1, <1>2

\* The etag of a row is 0, or it is the etag of no other card.
LEMMA EtagIsHis ==
    ASSUME CardTypeOK, NEW o, NEW s, Truth(o, s), NEW c \in Card
    PROVE  /\ contact[c].etag \in Nat /\ book[c].etag \in Nat /\ contact[c] \in Row
           /\ contact[c].text = 0 => contact[c] = NoContact
           /\ contact[c].etag # 0 => o[contact[c].etag] = c
           /\ book[c].etag # 0 => o[book[c].etag] = c
           /\ book[c] # NoCard => book[c].etag # 0
<1>1. contact[c] \in Row /\ book[c] \in VCard
  BY CardTypes
<1>2. RowSays(o, s, c) /\ Said(o, s, version, c, book[c])
  BY DEF Truth
<1> QED
  BY <1>1, <1>2, RestType DEF RowSays, Said, Row, VCard

LEMMA CalmOfCompare ==
    ASSUME CardTypeOK, NEW o, NEW s, Truth(o, s), CalmInv, NEW w \in Runner, Compare(w)
    PROVE  CalmRun(run[w])'
<1> DEFINE remote == {run[w].remote[d] : d \in Card} \ {0}
<1> DEFINE local == EtagsOf(contact)
<1>1. /\ run[w].at = "listed" /\ run'[w].at = "fetch" /\ run'[w].calm = run[w].calm
      /\ run'[w].needed = {c \in Card : run[w].remote[c] \in remote \ local}
      /\ run'[w].deleted = local \ remote /\ UNCHANGED <<book, contact>>
  BY CompareDoes
<1>2. SUFFICES ASSUME run[w].calm
               PROVE  \A c \in Card :
                        /\ book[c].etag \notin local \ remote
                        /\ contact[c].etag \in {0, book[c].etag} \cup (local \ remote)
                        /\ book[c].etag # 0 =>
                              \/ run[w].remote[c] \in remote \ local
                              \/ contact[c].etag = book[c].etag
  BY <1>1 DEF CalmRun
<1>3. \A c \in Card : run[w].remote[c] = book[c].etag
  BY <1>1, <1>2 DEF CalmInv, CalmRun
<1>4. remote = {book[c].etag : c \in Card} \ {0}
  BY <1>3
<1>5. local = {contact[c].etag : c \in {d \in Card : contact[d].etag # 0}}
  BY DEF EtagsOf
<1> HIDE DEF remote, local
<1>6. ASSUME NEW c \in Card, contact[c].etag \in remote
      PROVE  contact[c].etag = book[c].etag
  BY <1>4, <1>6, EtagIsHis
<1>7. ASSUME NEW c \in Card, book[c].etag \in local
      PROVE  contact[c].etag = book[c].etag
  <2>1. PICK d \in Card : contact[d].etag # 0 /\ contact[d].etag = book[c].etag
    BY <1>5, <1>7
  <2> QED
    BY <2>1, EtagIsHis
<1>8. ASSUME NEW c \in Card
      PROVE  /\ book[c].etag \notin local \ remote
             /\ contact[c].etag \in {0, book[c].etag} \cup (local \ remote)
             /\ book[c].etag # 0 =>
                   \/ run[w].remote[c] \in remote \ local
                   \/ contact[c].etag = book[c].etag
  <2>1. book[c].etag # 0 => book[c].etag \in remote
    BY <1>4
  <2>2. contact[c].etag # 0 => contact[c].etag \in local
    BY <1>5
  <2>3. 0 \notin local
    BY <1>5
  <2> QED
    BY <1>3, <1>6, <1>7, <2>1, <2>2, <2>3
<1> QED
  BY <1>8

LEMMA CalmOfMultiget ==
    ASSUME CardTypeOK, CalmInv, NEW w \in Runner, Multiget(w)
    PROVE  CalmRun(run[w])'
<1>1. /\ run[w].at = "fetch" /\ run'[w].at = "page" /\ run'[w].calm = run[w].calm
      /\ run'[w].deleted = run[w].deleted /\ UNCHANGED <<book, contact>>
  BY MultigetDoes
<1>2. PICK chunk \in SUBSET run[w].needed :
         /\ run'[w].needed = run[w].needed \ chunk
         /\ \A c \in Card : run'[w].page[c] = IF c \in chunk THEN book[c] ELSE NoCard
  BY MultigetDoes
<1>3. CalmRun(run[w])
  BY DEF CalmInv
<1> QED
  BY <1>1, <1>2, <1>3 DEF CalmRun

\* What is deleted was not on the server, and nothing else loses its etag.
LEMMA EtagsPurged ==
    ASSUME CardTypeOK, NEW o, NEW s, Truth(o, s), NEW etags, NEW rows, rows = Purge(contact, etags),
           NEW c \in Card, book[c].etag \notin etags,
           contact[c].etag \in {0, book[c].etag} \cup etags
    PROVE  /\ rows[c].etag \in {0, book[c].etag}
           /\ contact[c].etag = book[c].etag => rows[c].etag = book[c].etag
<1>1. contact \in [Card -> Row]
  BY CardTypes
<1>2. \/ rows[c] = contact[c] /\ ~(contact[c].text # 0 /\ contact[c].etag \in etags)
      \/ rows[c] = NoContact /\ contact[c].text # 0 /\ contact[c].etag \in etags
  BY <1>1, Purged
<1>3. contact[c].text = 0 => contact[c].etag = 0
  BY EtagIsHis, RestType
<1>4. NoContact.etag = 0
  BY RestType
<1> QED
  BY <1>2, <1>3, <1>4

LEMMA CalmOfStorePage ==
    ASSUME CardTypeOK, NEW o, NEW s, Truth(o, s), CalmInv, NEW w \in Runner, StorePage(w)
    PROVE  CalmRun(run[w])'
<1>1. /\ run[w].at = "page" /\ run'[w].at = "fetch" /\ run'[w].calm = run[w].calm
      /\ run'[w].needed = run[w].needed /\ run'[w].deleted = {}
      /\ contact' = Ingest(Purge(contact, run[w].deleted), run[w].page) /\ book' = book
  BY StorePageDoes
<1>2. SUFFICES ASSUME run[w].calm, NEW c \in Card
               PROVE  /\ contact'[c].etag \in {0, book[c].etag}
                      /\ book[c].etag # 0 => c \in run[w].needed \/ contact'[c].etag = book[c].etag
  BY <1>1 DEF CalmRun
<1>3. /\ book[c].etag \notin run[w].deleted
      /\ contact[c].etag \in {0, book[c].etag} \cup run[w].deleted
      /\ book[c].etag # 0 => \/ c \in run[w].needed \/ contact[c].etag = book[c].etag
                             \/ run[w].page[c] = book[c]
      /\ run[w].page[c] \in {NoCard, book[c]}
  BY <1>1, <1>2 DEF CalmInv, CalmRun
<1> DEFINE rows == Purge(contact, run[w].deleted)
<1> DEFINE page == run[w].page
<1>4. rows \in [Card -> Row] /\ page \in [Card -> VCard]
  BY Purged, CardTypes, RunFields
<1>5. /\ rows[c].etag \in {0, book[c].etag}
      /\ contact[c].etag = book[c].etag => rows[c].etag = book[c].etag
  BY <1>3, EtagsPurged
<1>6. contact' = Ingest(rows, page)
  BY <1>1
<1>7. page[c] = run[w].page[c]
  OBVIOUS
<1> HIDE DEF rows, page
<1>8. IF page[c] = NoCard THEN contact'[c] = rows[c] ELSE contact'[c].etag = page[c].etag
  BY <1>4, <1>6, Ingested
<1>9. NoCard.etag = 0
  BY RestType
<1> QED
  BY <1>3, <1>5, <1>7, <1>8, <1>9

\* A calm run that ends has set every row right.
LEMMA SettledOfFinish ==
    ASSUME CardTypeOK, NEW o, NEW s, Truth(o, s), CalmInv, NEW w \in Runner, FinishRun(w)
    PROVE  SettledInv'
<1>1. /\ run[w].at = "fetch" /\ run[w].needed = {} /\ book' = book
      /\ contact' = Purge(contact, run[w].deleted) /\ settled' = run[w].calm
  BY FinishRunDoes
<1>2. SUFFICES ASSUME run[w].calm, NEW c \in Card
               PROVE  contact'[c].etag = book[c].etag
  BY <1>1 DEF SettledInv
<1>3. /\ book[c].etag \notin run[w].deleted
      /\ contact[c].etag \in {0, book[c].etag} \cup run[w].deleted
      /\ book[c].etag # 0 => contact[c].etag = book[c].etag
  BY <1>1, <1>2 DEF CalmInv, CalmRun
<1>4. /\ contact'[c].etag \in {0, book[c].etag}
      /\ contact[c].etag = book[c].etag => contact'[c].etag = book[c].etag
  <2> DEFINE etags == run[w].deleted
  <2> DEFINE rows == contact'
  <2>1. /\ rows = Purge(contact, etags) /\ book[c].etag \notin etags
        /\ contact[c].etag \in {0, book[c].etag} \cup etags
    BY <1>1, <1>3
  <2> HIDE DEF etags, rows
  <2>2. /\ rows[c].etag \in {0, book[c].etag}
        /\ contact[c].etag = book[c].etag => rows[c].etag = book[c].etag
    BY <2>1, EtagsPurged
  <2> QED
    BY <2>2 DEF rows
<1> QED
  BY <1>3, <1>4

LEMMA CalmStep ==
    ASSUME CardTypeOK, NEW o, NEW s, Truth(o, s), CalmInv, SettledInv, CardNext
    PROVE  CalmInv' /\ SettledInv'
<1>1. ASSUME NEW w \in Runner, RunStep(w)
      PROVE  CalmInv' /\ SettledInv'
  <2>1. CASE ListEtags(w)
    <3>1. /\ OthersNotCalm(w) /\ run'[w].at = "listed" /\ book' = book /\ ~settled'
          /\ \A c \in Card : run'[w].remote[c] = book[c].etag
      BY <2>1, ListEtagsDoes
    <3>2. CalmRun(run[w])'
      BY <3>1 DEF CalmRun
    <3> QED
      BY <3>1, <3>2, CalmOfRun DEF SettledInv
  <2>2. CASE Compare(w)
    <3>1. OthersNotCalm(w) /\ ~settled'
      BY <2>2, CompareDoes
    <3> QED
      BY <2>2, <3>1, CalmOfCompare, CalmOfRun DEF SettledInv
  <2>3. CASE Multiget(w)
    <3>1. OthersNotCalm(w) /\ ~settled'
      BY <2>3, MultigetDoes
    <3> QED
      BY <2>3, <3>1, CalmOfMultiget, CalmOfRun DEF SettledInv
  <2>4. CASE StorePage(w)
    <3>1. OthersNotCalm(w) /\ ~settled'
      BY <2>4, StorePageDoes
    <3> QED
      BY <2>4, <3>1, CalmOfStorePage, CalmOfRun DEF SettledInv
  <2>5. CASE FinishRun(w)
    <3>1. OthersNotCalm(w) /\ ~run'[w].calm
      BY <2>5, FinishRunDoes
    <3>2. CalmRun(run[w])'
      BY <3>1 DEF CalmRun
    <3> QED
      BY <2>5, <3>1, <3>2, CalmOfRun, SettledOfFinish
  <2>6. CASE RunThrows(w)
    <3>1. OthersNotCalm(w) /\ ~run'[w].calm /\ ~settled'
      BY <2>6, RunThrowsDoes, RestType
    <3>2. CalmRun(run[w])'
      BY <3>1 DEF CalmRun
    <3> QED
      BY <3>1, <3>2, CalmOfRun DEF SettledInv
  <2> QED
    BY <1>1, <2>1, <2>2, <2>3, <2>4, <2>5, <2>6 DEF RunStep
<1>2. ASSUME NEW c \in Card, EditContact(c) \/ HideContact(c) \/ OtherWrites(c) \/ OtherRemoves(c)
      PROVE  CalmInv' /\ SettledInv'
  <2>1. Change
    BY <1>2 DEF EditContact, HideContact, OtherWrites, OtherRemoves
  <2> QED
    BY <2>1, ChangeDoes, CalmOfOthers
<1>3. CASE Serve
  <2>1. Work
    BY <1>3 DEF Serve, LoadContact, PostCard, PutCard, ReadCard, SaveRead, ReadNothing, DeleteCard,
                RemoveContact, CompleteErrand, FailErrand
  <2> QED
    BY <2>1, WorkDoes, CalmOfOthers
<1>4. CASE NullContact \/ KillCards
  <2>1. Restart
    BY <1>4 DEF NullContact, KillCards
  <2> QED
    BY <2>1, RestartDoes, CalmOfOthers
<1> QED
  BY <1>1, <1>2, <1>3, <1>4 DEF CardNext, RunStep, Serve

-----------------------------------------------------------------------------
(* The theorems.                                                           *)

\* The inductive invariant: types, what the worker and the runs hold, an account
\* of what every etag stands for, and what a calm run knows.
CardInv == /\ CardTypeOK /\ HandInv /\ FreshInv
           /\ \E owner, said : Truth(owner, said)
           /\ CalmInv /\ SettledInv

\* A step of nobody
LEMMA CardStutters == CardInv /\ UNCHANGED cardVars => CardInv'
<1> SUFFICES ASSUME CardInv, UNCHANGED cardVars PROVE CardInv'
  OBVIOUS
<1>1. UNCHANGED <<book, contact, errands, hand, run, fresh, version, failed, settled, changes>>
  BY DEF cardVars
<1>2. CardTypeOK'
  BY <1>1 DEF CardInv, CardTypeOK
<1>3. HandInv' /\ FreshInv'
  BY <1>1 DEF CardInv, HandInv, FreshInv
<1>4. \E owner, said : Truth(owner, said)'
  <2>1. PICK o, s : Truth(o, s)
    BY DEF CardInv
  <2>2. Truth(o, s)'
    BY <1>1, <2>1 DEF Truth, RowSays, Clean, Pending, Doomed
  <2> QED
    BY <2>2
<1>5. CalmInv' /\ SettledInv'
  BY <1>1 DEF CardInv, CalmInv, CalmRun, SettledInv
<1> QED
  BY <1>2, <1>3, <1>4, <1>5 DEF CardInv

\* Every step keeps the invariant of the address book.
LEMMA CardInvStep == CardInv /\ CardNext => CardInv'
<1> SUFFICES ASSUME CardInv, CardNext PROVE CardInv'
  OBVIOUS
<1>1. CardTypeOK /\ HandInv /\ FreshInv /\ CalmInv /\ SettledInv
  BY DEF CardInv
<1>2. PICK o, s : Truth(o, s)
  BY DEF CardInv
<1>3. CardTypeOK' /\ HandInv' /\ FreshInv' /\ PagesFrom
  BY <1>1, CardTypesStep
<1>4. \E owner, said : Truth(owner, said)'
  BY <1>1, <1>2, <1>3, TruthStep
<1>5. CalmInv' /\ SettledInv'
  BY <1>1, <1>2, CalmStep
<1> QED
  BY <1>3, <1>4, <1>5 DEF CardInv

LEMMA CardInvInit == CardInit => CardInv
<1> SUFFICES ASSUME CardInit PROVE CardInv
  OBVIOUS
<1>1. CalmInv /\ SettledInv
  BY RestType DEF CardInit, CalmInv, CalmRun, SettledInv
<1> QED
  BY <1>1, CardTypesInit, TruthInit DEF CardInv

\* Whatever the user, the server and other clients do, and wherever the process
\* is killed: the strengthening under which CardTypeOK and CardsAgree are kept.
THEOREM CardInvariant == CardSpec => []CardInv
<1>1. CardInv /\ [CardNext]_cardVars => CardInv'
  BY CardInvStep, CardStutters
<1> QED
  BY <1>1, CardInvInit, PTL DEF CardSpec

\* The variables of the contacts have their types.
THEOREM CardTypeCorrect == CardSpec => []CardTypeOK
<1>1. CardInv => CardTypeOK
  BY DEF CardInv
<1> QED
  BY <1>1, CardInvariant, PTL

\* One run that nobody disturbs sets everything right: for any book, any number
\* of runners, any size of a page and any history of edits, removals, failed
\* tasks and kills before it.
THEOREM CardsAgreeCorrect == CardSpec => []CardsAgree
<1>1. ASSUME CardInv PROVE CardsAgree
  <2>1. CardTypeOK /\ SettledInv
    BY <1>1 DEF CardInv
  <2>2. PICK o, s : Truth(o, s)
    BY <1>1 DEF CardInv
  <2>3. SUFFICES ASSUME settled, NEW c \in Card
                 PROVE  /\ contact[c].etag = book[c].etag
                        /\ (contact[c].text # 0 /\ ~Waiting(c) /\ c \notin failed) =>
                              contact[c].text = book[c].text /\ ~contact[c].hidden
    BY DEF CardsAgree
  <2>4. contact[c].etag = book[c].etag
    BY <2>1, <2>3 DEF SettledInv
  <2>5. ASSUME contact[c].text # 0, ~Waiting(c), c \notin failed
        PROVE  contact[c].text = book[c].text /\ ~contact[c].hidden
    <3>1. DOMAIN errands = 1 .. Len(errands)
      BY <2>1, CardTypes
    <3>2. ~Pending(c) /\ ~Doomed(c)
      BY <2>5, <3>1 DEF Waiting, Pending, Doomed
    <3>3. RowSays(o, s, c) /\ Said(o, s, version, c, book[c])
      BY <2>2 DEF Truth
    <3>4. contact[c].etag # 0 /\ s[contact[c].etag] = contact[c].text /\ ~contact[c].hidden
      BY <2>5, <3>2, <3>3 DEF RowSays, Clean
    <3>5. book[c].etag # 0 => s[book[c].etag] = book[c].text
      BY <3>3, RestType DEF Said
    <3> QED
      BY <2>4, <3>4, <3>5
  <2> QED
    BY <2>4, <2>5
<1> QED
  BY <1>1, CardInvariant, PTL
=============================================================================
