------------------------------ MODULE MCPubSub ------------------------------
(* Circumstances for TLC.                                                    *)
EXTENDS PubSub, TLC

CONSTANTS r1, r2, h1, h2, a, b

Both == r1 :> {a, b} @@ r2 :> {a}
One == r1 :> {a} @@ r2 :> {}

\* More messages than a channel holds, and contexts that end.
Crowded == [wants |-> Both, setters |-> {}, msgs |-> 2, unsubs |-> 0, closes |-> FALSE,
         deadline |-> TRUE, hook |-> "none"]
\* No context ends; a channel has room for every message.
Quiet == [Crowded EXCEPT !.msgs = 1, !.unsubs = 1, !.closes = TRUE, !.deadline = FALSE]
\* The return hook unsubscribes.
Returning == [Crowded EXCEPT !.wants = One, !.msgs = 3, !.unsubs = 1, !.closes = TRUE, !.hook = "deadline"]
\* PubSubHooks are set and cleared.
Hooks == [Crowded EXCEPT !.wants = One, !.setters = {h1, h2}, !.msgs = 1, !.closes = TRUE]
\* The return hook waits for its UNSUBSCRIBE for as long as it takes.
Waiting == [Returning EXCEPT !.hook = "background"]

AllCircumstances == <<Crowded, Quiet, Returning, Hooks>>
OnlyWaiting == <<Waiting>>
=============================================================================
