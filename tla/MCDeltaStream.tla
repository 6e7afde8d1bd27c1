---------------------------- MODULE MCDeltaStream ----------------------------
(* DeltaStream with the main thread and one worker: on one message, or on a  *)
(* message and its thread.                                                  *)
EXTENDS DeltaStream

Delays == [main |-> 5, bg |-> 500]
OneClass == [m1 |-> "Message"]
TwoClasses == [m1 |-> "Message", t1 |-> "Thread"]
=============================================================================
