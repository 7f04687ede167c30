------------------------------ MODULE MCPushes ------------------------------
(* Small instances of PubSub and ClientCache for one run of TLC: a behaviour *)
(* is one of one of them, and the other stays in an initial state.           *)
EXTENDS MCPubSub, ClientCache

VARIABLE component

\* All commands are on one key.
OneKey == [s \in Slots |-> "key"]

PushesInit ==
    /\ component \in {"cache", "pubsub"}
    /\ Init /\ CacheInit
    /\ component = "pubsub" \/ setting = 1

PushesNext ==
    /\ UNCHANGED component
    /\ \/ component = "cache" /\ CacheNext /\ UNCHANGED vars
       \/ component = "pubsub" /\ Next /\ UNCHANGED cacheVars

PushesSteps == (CacheSteps /\ UNCHANGED vars) \/ (Steps /\ UNCHANGED cacheVars)

\* The steps of the component that stays in an initial state are disabled.
PushesSpec ==
    /\ PushesInit /\ [][PushesNext]_<<component, vars, cacheVars>>
    /\ WF_<<vars, cacheVars>>(PushesSteps)

-----------------------------------------------------------------------------
\* Every DoCache returns, also one that waits for the flight of a caller that gives up or
\* whose connection breaks; every Receive returns when its context or its connection ends,
\* and the goroutine that empties its channel ends too, also when more messages are on their way than its channel holds.
EveryCallReturns == Ending \/ CacheBusy ~> Ended /\ ~CacheBusy
=============================================================================
