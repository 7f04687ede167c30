------------------------------ MODULE MCWaiters ------------------------------
(* Small instances of Sentinel and Lock for one run of TLC: a behaviour is   *)
(* one of one of them, and the other stays in an initial state.              *)
EXTENDS Sentinel, Lock, TLC

VARIABLE component

-----------------------------------------------------------------------------
(* Sentinel: a master and a replica, one sentinel or two. *)

M == {"master"}
R == {"replica"}

Serve(ts, f, ev, er, cl) ==
    [targets |-> ts, sentinels |-> <<"s1">>, others |-> {}, failovers |-> f, events |-> ev, errors |-> er,
     closes |-> cl, ticks |-> FALSE]
Ticking(s) == [s EXCEPT !.ticks = TRUE]

SentinelScenarios ==
    {Ticking(Serve(M, 1, 0, 1, 0)), Ticking(Serve(M \cup R, 0, 0, 1, 0)), Ticking(Serve(R, 1, 0, 0, 0)),
     Ticking(Serve(M, 0, 0, 1, 1)), Serve(M, 1, 0, 1, 1), Serve(M, 1, 0, 2, 0), Serve(M, 0, 0, 2, 1),
     Serve(R, 0, 1, 0, 1), Serve(R, 0, 1, 1, 0),
     [Serve(M, 0, 0, 1, 0) EXCEPT !.sentinels = <<"s2", "s1">>],
     [Serve(M, 0, 1, 1, 0) EXCEPT !.others = {"s2"}]}

-----------------------------------------------------------------------------
(* Lock: up to three callers in two processes, one key or three. *)

Far == "a" :> "l1" @@ "b" :> "l1" @@ "c" :> "l2"
Together == "a" :> "l1" @@ "b" :> "l1" @@ "c" :> "l1"
Near == "a" :> "l1" @@ "b" :> "l1"

Three == [majority |-> 1, noloop |-> TRUE, nocsc |-> FALSE, overtakes |-> TRUE, home |-> Together,
          ops |-> {"with"}, faults |-> 0, losses |-> 0, calls |-> 3, cancels |-> FALSE, closes |-> FALSE]
Two == [Three EXCEPT !.home = Near, !.calls = 2]
Force == {"with", "force"}

LockOptions ==
    {Three, [Three EXCEPT !.home = Far, !.overtakes = FALSE],
     [Two EXCEPT !.ops = {"with", "try"}, !.losses = 1],
     [Two EXCEPT !.nocsc = TRUE, !.faults = 1], [Two EXCEPT !.faults = 1],
     [Two EXCEPT !.ops = Force, !.closes = TRUE], [Two EXCEPT !.ops = Force, !.noloop = FALSE],
     [Two EXCEPT !.closes = TRUE, !.cancels = TRUE, !.overtakes = FALSE],
     [Two EXCEPT !.majority = 2, !.overtakes = FALSE],
     [Two EXCEPT !.majority = 2, !.nocsc = TRUE, !.faults = 1, !.calls = 1]}

-----------------------------------------------------------------------------
vars == <<component, sentinelVars, lockVars>>

On(c) == component = c

WaitersInit ==
    /\ component \in {"sentinel", "lock"}
    /\ SentinelInit /\ LockInit
    /\ On("sentinel") \/ left = Ticking(Serve(M, 0, 0, 1, 1))
    /\ On("lock") \/ opt = Three

WaitersNext ==
    /\ UNCHANGED component
    /\ \/ On("sentinel") /\ SentinelNext /\ UNCHANGED lockVars
       \/ On("lock") /\ LockNext /\ UNCHANGED sentinelVars

\* What is fair in Lock, and Learn, are disabled in an initial state.
WaitersFair ==
    /\ LockFair
    /\ WF_sentinelVars(On("sentinel") /\ Steps) /\ WF_sentinelVars(On("sentinel") /\ Tick)
    /\ WF_sentinelVars(\E s \in Sentinels : Learn(s))

WaitersSpec == WaitersInit /\ [][WaitersNext]_vars /\ WaitersFair
=============================================================================
