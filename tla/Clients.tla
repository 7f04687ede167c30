------------------------------ MODULE Clients -------------------------------
(* The clients that sit on top of connections: Cluster, Standalone and Aside. *)
(* They share no state; a behaviour is one of one of them, and the others    *)
(* stay in an initial state.                                                 *)
EXTENDS Cluster, Standalone, Aside

VARIABLE component

clientsVars == <<component, clusterVars, standaloneVars, asideVars>>

On(c) == component = c

ClientsInit ==
    /\ component \in {"cluster", "standalone", "aside"}
    /\ ClusterInit /\ StandaloneInit /\ AsideInit
    /\ On("cluster") \/ left = CHOOSE x \in Scenarios : TRUE
    /\ On("aside") \/ budget = CHOOSE x \in AsideScenarios : TRUE

ClientsNext ==
    /\ UNCHANGED component
    /\ \/ /\ On("cluster") /\ ClusterNext
          /\ UNCHANGED <<standaloneVars, asideVars>>
       \/ /\ On("standalone") /\ StandaloneNext
          /\ UNCHANGED <<clusterVars, asideVars>>
       \/ /\ On("aside") /\ AsideNext
          /\ UNCHANGED <<clusterVars, standaloneVars>>

\* What is fair is disabled in an initial state.
ClientsFair == ClusterFair /\ StandaloneFair /\ AsideFair

ClientsSpec == ClientsInit /\ [][ClientsNext]_clientsVars /\ ClientsFair

-----------------------------------------------------------------------------
\* Cluster and standalone: a connection that is open is in use, or about to be, or about to be
\* closed, however redirections and refreshes interleave.
NoConnLost == NoClusterConnLost /\ NoLinkLost

AnyBusy == Busy \/ StandaloneBusy \/ AsideBusy

\* Cluster, standalone and aside: every Do and every Get returns, those that wait for a refresh,
\* a switch or a flight of another goroutine included.
EveryCallReturns == AnyBusy ~> ~AnyBusy
=============================================================================
