------------------------------ MODULE ClientFeed ------------------------------
(***************************************************************************)
(* What the delta stream promises to the client: it may be late, and it    *)
(* may show many changes at once, but what it shows is what it would have  *)
(* shown if each delta had been printed the moment it was emitted.         *)
(***************************************************************************)
EXTENDS Naturals

CONSTANTS Object

VARIABLES
    told,   \* the objects as the deltas emitted so far describe them
    view    \* the objects as the client shows them

feed == <<told, view>>

\* stamp tells one content of an object from another, and is 0 when there is
\* no such object. first: the client has been told that the headers are
\* complete (headersSyncComplete, which only the first delta contains).
Content == [stamp: Nat, first: BOOLEAN]

Init == /\ told \in [Object -> Content]
        /\ view = told

\* A delta is about one object. It takes no news back.
Tell(o) ==
    /\ told' \in [Object -> Content]
    /\ told[o].first => told'[o].first
    /\ \A p \in Object \ {o} : told'[p] = told[p]
    /\ UNCHANGED view

Show ==
    /\ view' = told
    /\ UNCHANGED told

Spec == Init /\ [][Show \/ \E o \in Object : Tell(o)]_feed
=============================================================================
