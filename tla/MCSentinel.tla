----------------------------- MODULE MCSentinel ------------------------------
(* An instance of Sentinel for TLC: SendToReplicas, one failover.            *)
EXTENDS Sentinel

OneFailover == {[targets |-> {"master", "replica"}, sentinels |-> <<"s1">>, others |-> {}, failovers |-> 1,
                 events |-> 0, errors |-> 0, closes |-> 0, ticks |-> TRUE]}
=============================================================================
