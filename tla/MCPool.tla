------------------------------- MODULE MCPool -------------------------------
(* An instance of Pool for TLC in which contexts are done while users wait.  *)
EXTENDS Pool

CancelledBlocking == {[op |-> "blocking", ctx |-> TRUE]}
=============================================================================
