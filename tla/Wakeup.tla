------------------------------- MODULE Wakeup -------------------------------
(***************************************************************************)
(* What the foreground worker may rely on while it waits: its work is not   *)
(* forgotten, unless a wake-up was missed. ForegroundIdle implements this;  *)
(* the modules of the tasks are composed with it, so that a task waits as   *)
(* long as the code lets it wait.                                           *)
(***************************************************************************)
VARIABLES
    work,       \* whether there are tasks for the worker
    worker,     \* in its "cycle", has "looked" for work in vain, or "parked"
    bell,       \* whether somebody is on the way to wake it
    missed      \* whether a wake-up was lost since the worker last looked

wakeVars == <<work, worker, bell, missed>>

Init ==
    /\ work \in BOOLEAN
    /\ worker = "cycle"
    /\ bell = FALSE /\ missed = FALSE

\* New work is committed, and will be announced.
Commit ==
    /\ work' = TRUE
    /\ bell' = TRUE
    /\ UNCHANGED <<worker, missed>>

\* The worker is busy, with work that was there or that comes of it.
Perform ==
    /\ worker = "cycle"
    /\ missed' \in {missed, FALSE}
    /\ work' \in BOOLEAN
    /\ UNCHANGED <<worker, bell>>

\* The worker finds no work, and goes on towards its wait unless it has been
\* told to begin again.
Look ==
    /\ worker = "cycle"
    /\ ~work
    /\ worker' \in {"looked", "cycle"}
    /\ missed' = FALSE
    /\ UNCHANGED <<work, bell>>

Park ==
    /\ worker = "looked"
    /\ worker' = "parked"
    /\ UNCHANGED <<work, bell, missed>>

\* A bell sends a worker back that has work; another may be under way.
Ring ==
    /\ bell
    /\ bell' \in BOOLEAN
    /\ \/ worker' = "cycle"
       \/ worker' = worker /\ (bell' \/ missed \/ ~work)
    /\ UNCHANGED <<work, missed>>

\* A bell that does not ring, or that nobody hears.
Lose ==
    /\ bell \/ worker = "looked"
    /\ bell' \in {bell, FALSE}
    /\ missed' = TRUE
    /\ UNCHANGED <<work, worker>>

\* For a reason of its own: an error, news of the server, a clock, a body.
Again ==
    /\ worker # "cycle"
    /\ worker' = "cycle"
    /\ UNCHANGED <<work, bell, missed>>

Next == Commit \/ Perform \/ Look \/ Park \/ Ring \/ Lose \/ Again

Spec == Init /\ [][Next]_wakeVars
=============================================================================
