---------------------------- MODULE MCConnections ----------------------------
(* Small instances of Mux and Pool for one run of TLC: a behaviour is one of *)
(* one of them, and the other stays in its initial state.                    *)
EXTENDS Mux, Pool

VARIABLE component

\* Blocking commands whose context is never done, streams whose context may be.
BlockingOrStream == {[op |-> "blocking", ctx |-> FALSE], [op |-> "stream", ctx |-> TRUE]}

ConnectionsInit ==
    /\ component \in {"mux", "pool"}
    /\ Init /\ PoolInit
    /\ component = "mux" \/ wire = "init"

ConnectionsNext ==
    /\ UNCHANGED component
    /\ \/ component = "mux" /\ Next /\ UNCHANGED poolVars
       \/ component = "pool" /\ PoolNext /\ UNCHANGED vars

ConnectionsSteps == (Steps /\ UNCHANGED poolVars) \/ (PoolSteps /\ UNCHANGED vars)

\* The steps of the component that stays in its initial state are disabled.
ConnectionsSpec ==
    /\ ConnectionsInit /\ [][ConnectionsNext]_<<component, vars, poolVars>>
    /\ WF_<<vars, poolVars>>(ConnectionsSteps)

-----------------------------------------------------------------------------
\* Mux and pool: everyone who waits for a connection, or for another's dial, comes back; in the
\* pool, as long as no context is done.
EveryWaitEnds == [](\A u \in Users : ~ctxDone[u]) => (Busy \/ PoolBusy ~> ~Busy /\ ~PoolBusy)
=============================================================================
