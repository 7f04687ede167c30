------------------------------ MODULE MCClients ------------------------------
(* A small instance of Clients for TLC.                                      *)
EXTENDS Clients, TLC

-----------------------------------------------------------------------------
(* Cluster: two goroutines, one slot "s", two nodes of which the first is the initial address. *)

Slot(o, d, c, e, t) == [owner |-> [s \in {"s"} |-> o], dos |-> d, changes |-> c, errors |-> e, ticks |-> t]

ClusterScenarios ==
    {Slot("n1", 2, 1, 0, 0), Slot("n1", 1, 1, 1, 0), Slot("n1", 2, 0, 1, 0), Slot("n1", 1, 1, 0, 1),
     Slot("n1", 1, 2, 0, 0), Slot(None, 2, 1, 0, 0), Slot(None, 2, 0, 1, 0)}

-----------------------------------------------------------------------------
(* Aside: two goroutines of one client and one of another. *)

TwoAndOne == "a" :> "p" @@ "b" :> "p" @@ "c" :> "q"

Get(g, w, f, e, b) == [gets |-> g, writes |-> w, faults |-> f, errors |-> e, beats |-> b]

GetScenarios ==
    {Get(3, 1, 0, 0, 0), Get(2, 1, 1, 0, 0), Get(2, 0, 1, 1, 0), Get(2, 0, 0, 2, 0), Get(2, 1, 0, 0, 1)}
=============================================================================
