---------------------------- MODULE ClientProofs ----------------------------
(* The clients on top of connections, for any number of goroutines.          *)
EXTENDS Clients, TLAPS

-----------------------------------------------------------------------------
(* Cluster, for any number of slots, nodes and redirections: no connection is *)
(* lost while it is open, and none in the map is closed until Close.          *)

MaybeConn == Conns \cup {None}
MaybeAddr == Addrs \cup {None}
Table == [Addrs -> MaybeConn]
Groups == [Slots -> MaybeAddr]

DoSteps == {"idle", "pick", "repick", "refresh", "wait", "send", "redirect", "error", "lookup", "install"}
Dos == [pc : DoSteps, slot : Slots \cup {None}, cc : MaybeConn, to : MaybeConn, addr : MaybeAddr,
        mode : {None, "move", "ask"}, redirects : Nat]

FlightSteps == {None, "fetch", "merge", "tables", "swap", "end"}
Flights == [at : FlightSteps, lead : Clients \cup {None}, err : BOOLEAN, groups : Groups \cup {None},
            fresh : Table \cup {None}]

ClusterTypeOK ==
    /\ conns \in Table /\ wslots \in [Slots -> MaybeConn]
    /\ state \in [Conns -> {"new", "open", "closed"}] /\ doomed \subseteq Conns
    /\ owner \in Groups
    /\ flight \in Flights
    /\ do \in [Clients -> Dos]

\* A command under way has a slot, and one that was redirected an address.
DoOK(d) ==
    /\ d.pc # "idle" => d.slot \in Slots
    /\ d.pc \in {"redirect", "lookup", "install"} => d.addr \in Addrs

Kept == Values(conns) \cup doomed

\* A connection is closed, in the map, or about to be closed.
Tracked(k) == k \in Conns => state[k] = "closed" \/ k \in Kept

CommandsTracked == \A c \in Clients : DoOK(do[c]) /\ Tracked(do[c].cc) /\ Tracked(do[c].to)
SlotsTracked == \A s \in Slots : Tracked(wslots[s])

\* The tables of the refresh under way.  A connection that it made, and that nobody else has made
\* for its address since, is not closed; at the end all of its connections are tracked.
FlightOK ==
    /\ flight.at \in {"merge", "tables", "swap"} => flight.groups \in Groups
    /\ flight.at \notin {"tables", "swap", "end"} => flight.fresh = None
    /\ flight.fresh # None => \A a \in Addrs : flight.fresh[a] # None => AddrOf(flight.fresh[a]) = a
    /\ flight.at = "end" => \A k \in FreshConns : Tracked(k)
    /\ flight.at \in {"tables", "swap"} =>
           /\ flight.fresh \in Table
           /\ stop # "closed" => \A a \in Addrs : flight.fresh[a] # None /\ conns[a] = None =>
                  flight.fresh[a] \notin doomed /\ state[flight.fresh[a]] # "closed"

ClusterInv ==
    /\ ClusterTypeOK
    /\ CommandsTracked /\ SlotsTracked /\ FlightOK
    /\ NoClusterConnLost /\ ServesOpenConns

USE ClusterAssumption

\* What a table of connections has.
LEMMA ConnsAre ==
    ASSUME NEW t \in Table
    PROVE  Values(t) = {k \in Conns : \E a \in Addrs : t[a] = k}
BY Zenon DEF Table, Values, MaybeConn

\* newClusterClient leaves a client that keeps it.
LEMMA InitCluster == ClusterInit => ClusterInv
<1> SUFFICES ASSUME ClusterInit
             PROVE  ClusterInv
  BY Zenon
<1>1. owner \in Groups
  BY Zenon DEF ClusterInit, Groups, MaybeAddr
<1>2. \A a \in Addrs : <<a, 1>> \in Conns /\ AddrOf(<<a, 1>>) = a
  BY DEF Conns, AddrOf
<1>3. conns \in Table /\ wslots \in [Slots -> MaybeConn]
  BY Zenon, <1>1, <1>2 DEF ClusterInit, Table, Groups, MaybeAddr, MaybeConn
<1>4. do \in [Clients -> Dos] /\ flight \in Flights
  BY Zenon DEF ClusterInit, NoDo, NoFlight, Dos, DoSteps, Flights, FlightSteps, MaybeConn, MaybeAddr
<1>5. ClusterTypeOK
  BY Zenon, <1>1, <1>3, <1>4 DEF ClusterInit, ClusterTypeOK
<1>6. \A k \in Conns : k \in Values(conns) <=> state[k] # "new"
  BY Zenon DEF ClusterInit
<1>7. SlotsTracked
  <2> SUFFICES ASSUME NEW s \in Slots, owner[s] # None
               PROVE  wslots[s] \in Values(conns)
    BY Zenon DEF ClusterInit, SlotsTracked, Tracked, Kept
  <2>1. owner[s] \in Known(owner) /\ owner[s] \in Addrs
    BY Zenon, <1>1 DEF Known, Values, Groups, MaybeAddr
  <2>2. conns[owner[s]] = wslots[s] /\ wslots[s] \in Conns
    BY Zenon, <1>2, <2>1 DEF ClusterInit
  <2> QED
    BY Zenon, <1>3, <2>1, <2>2, ConnsAre
<1>8. CommandsTracked
  BY Zenon DEF ClusterInit, CommandsTracked, DoOK, NoDo, Tracked
<1>9. FlightOK
  BY Zenon DEF ClusterInit, FlightOK, NoFlight
<1>10. NoClusterConnLost /\ ServesOpenConns
  BY Zenon, <1>2, <1>3, <1>5, <1>6 DEF ClusterInit, NoClusterConnLost, ServesOpenConns, ClusterTypeOK
<1> QED
  BY Zenon, <1>5, <1>7, <1>8, <1>9, <1>10 DEF ClusterInv

-----------------------------------------------------------------------------
(* Steps that leave the tables and the connections alone *)

SameConns == UNCHANGED <<tables, connVars>> /\ (stop' = "closed" <=> stop = "closed")

\* What a command of this goroutine becomes.
Becomes(c, q) == do' = [do EXCEPT ![c] = q]

\* A command that keeps to tracked connections leaves all commands so.
LEMMA CommandKeeps ==
    ASSUME ClusterInv, SameConns, NEW c \in Clients,
           NEW q \in Dos, DoOK(q), Tracked(q.cc), Tracked(q.to), Becomes(c, q)
    PROVE  do' \in [Clients -> Dos] /\ CommandsTracked'
<1>1. do' \in [Clients -> Dos] /\ do'[c] = q /\ \A d \in Clients \ {c} : do'[d] = do[d]
  BY Zenon DEF ClusterInv, ClusterTypeOK, Becomes
<1>2. \A k : Tracked(k)' <=> Tracked(k)
  BY Zenon DEF SameConns, tables, connVars, Tracked, Kept
<1>3. ASSUME NEW d \in Clients
      PROVE  (DoOK(do[d]) /\ Tracked(do[d].cc) /\ Tracked(do[d].to))'
  BY Zenon, <1>1, <1>2 DEF ClusterInv, CommandsTracked, Tracked, Kept, SameConns, tables, connVars
<1> QED
  BY Zenon, <1>1, <1>3 DEF CommandsTracked

\* A refresh begins unless there is one.
MayBegin ==
    \/ flight' = flight
    \/ flight.at = None /\ flight' \in Flights /\ flight'.at = "fetch" /\ flight'.fresh = None

\* The tables of a refresh are unaffected, and a new one has none.
LEMMA FlightKeeps ==
    ASSUME ClusterInv, SameConns, MayBegin
    PROVE  flight' \in Flights /\ FlightOK'
<1>1. flight' \in Flights
  BY Zenon DEF ClusterInv, ClusterTypeOK, MayBegin
<1>2. CASE flight' = flight
  BY Zenon, <1>1, <1>2 DEF ClusterInv, SameConns, tables, connVars, FlightOK, FreshConns, Tracked, Kept
<1>3. CASE flight'.at = "fetch" /\ flight'.fresh = None
  BY Zenon, <1>1, <1>3 DEF FlightOK
<1> QED
  BY Zenon, <1>1, <1>2, <1>3 DEF MayBegin

\* lazyRefresh begins a refresh unless there is one.
LEMMA LazyFlightBegins ==
    ASSUME flight' = LazyFlight
    PROVE  MayBegin
BY Zenon DEF LazyFlight, NoFlight, Flights, FlightSteps, MayBegin

\* A step that moves no connection keeps what is said of the map, if it drops no table of a
\* refresh whose connections are open and not tracked.
LEMMA QuietKeeps ==
    ASSUME ClusterInv, SameConns, owner' \in Groups,
           do' \in [Clients -> Dos], CommandsTracked', flight' \in Flights, FlightOK',
           FreshConns \subseteq FreshConns' \cup Kept \cup {k \in Conns : state[k] # "open"}
    PROVE  ClusterInv'
<1>1. ClusterTypeOK' /\ SlotsTracked'
  BY Zenon DEF ClusterInv, SameConns, tables, connVars, ClusterTypeOK, SlotsTracked, Tracked, Kept
<1>2. NoClusterConnLost'
  BY Zenon DEF ClusterInv, SameConns, tables, connVars, NoClusterConnLost, Kept
<1>3. ServesOpenConns'
  BY Zenon DEF ClusterInv, SameConns, tables, connVars, ServesOpenConns
<1> QED
  BY Zenon, <1>1, <1>2, <1>3 DEF ClusterInv

\* A command goes on with the connections it has, or with tracked ones, while a lazy refresh may begin.
LEMMA GoesOn ==
    ASSUME ClusterInv, SameConns, NEW c \in Clients, owner' = owner, MayBegin,
           NEW q \in Dos, DoOK(q), Tracked(q.cc), Tracked(q.to), Becomes(c, q)
    PROVE  ClusterInv'
<1>1. do' \in [Clients -> Dos] /\ CommandsTracked'
  BY Zenon, CommandKeeps
<1>2. flight' \in Flights /\ FlightOK'
  BY Zenon, FlightKeeps
<1>3. FreshConns \subseteq FreshConns'
  BY Zenon DEF ClusterInv, FlightOK, MayBegin, FreshConns
<1>4. owner' \in Groups
  BY Zenon DEF ClusterInv, ClusterTypeOK
<1> QED
  BY Zenon, <1>1, <1>2, <1>3, <1>4, QuietKeeps

\* What a step makes of the command d.
LEMMA NoDoIs == NoDo \in Dos /\ DoOK(NoDo) /\ Tracked(NoDo.cc) /\ Tracked(NoDo.to)
BY Zenon DEF NoDo, Dos, DoSteps, MaybeConn, MaybeAddr, DoOK, Tracked

\* A command that only goes on keeps its slot, its connections and its address.
LEMMA GotoIs ==
    ASSUME NEW d \in Dos, NEW l \in DoSteps, NEW q, q = [d EXCEPT !.pc = l]
    PROVE  q \in Dos /\ q.pc = l /\ q.slot = d.slot /\ q.cc = d.cc /\ q.to = d.to /\ q.addr = d.addr
BY Zenon DEF Dos

\* A command begins, picks a connection, waits for a refresh, and returns.
LEMMA PickKeeps ==
    ASSUME ClusterInv, NEW c \in Clients,
           Refresh(c) \/ WaitCancelled(c) \/ (\E s \in Slots : Do(c, s)) \/ Pick(c) \/ PickAgain(c)
    PROVE  ClusterInv'
<1>1. SameConns /\ owner' = owner /\ do[c] \in Dos /\ DoOK(do[c]) /\ Tracked(do[c].cc) /\ Tracked(do[c].to)
  BY Zenon DEF Refresh, WaitCancelled, Do, Pick, PickAgain, SameConns, serverVars, ClusterInv, ClusterTypeOK,
         CommandsTracked
<1>2. NoDo \in Dos /\ DoOK(NoDo) /\ Tracked(NoDo.cc) /\ Tracked(NoDo.to)
  BY Zenon, NoDoIs
<1>3. CASE Refresh(c)
  <2>1. MayBegin
    BY Zenon, <1>3 DEF Refresh, MayBegin, NoFlight, Flights, FlightSteps
  <2>0. PICK q : q = [do[c] EXCEPT !.pc = "wait"]
    BY Zenon
  <2>2. Becomes(c, q) /\ do[c].pc = "refresh"
    BY Zenon, <1>3, <2>0 DEF Refresh, Goto, Becomes
  <2>3. q \in Dos /\ DoOK(q) /\ q.cc = do[c].cc /\ q.to = do[c].to
    BY <1>1, <2>0, <2>2, GotoIs DEF DoOK, DoSteps
  <2> QED
    BY Zenon, <1>1, <2>1, <2>2, <2>3, GoesOn
<1>4. CASE WaitCancelled(c)
  BY Zenon, <1>1, <1>2, <1>4, GoesOn DEF WaitCancelled, Return, Becomes, MayBegin
<1>5. ASSUME NEW s \in Slots, Do(c, s)
      PROVE  ClusterInv'
  <2>0. PICK q : q = [do[c] EXCEPT !.pc = "pick", !.slot = s]
    BY Zenon
  <2>1. Becomes(c, q) /\ MayBegin
    BY Zenon, <1>5, <2>0 DEF Do, Becomes, MayBegin
  <2>2. q \in Dos /\ q.pc = "pick" /\ q.slot = s /\ q.cc = do[c].cc /\ q.to = do[c].to
    BY Zenon, <1>1, <2>0 DEF Dos, DoSteps
  <2>3. DoOK(q)
    BY Zenon, <2>2 DEF DoOK
  <2> QED
    BY Zenon, <1>1, <2>1, <2>2, <2>3, GoesOn
<1>6. CASE Pick(c) \/ PickAgain(c)
  <2> DEFINE k == wslots[do[c].slot]
  <2>1. MayBegin /\ do[c].pc # "idle" /\ do[c].slot \in Slots
    BY Zenon, <1>1, <1>6 DEF Pick, PickAgain, MayBegin, DoOK
  <2>2. CASE k # None
    <3>1. k \in Conns /\ Tracked(k)
      BY Zenon, <2>1, <2>2 DEF ClusterInv, ClusterTypeOK, SlotsTracked, MaybeConn
    <3>0. PICK q : q = [do[c] EXCEPT !.pc = "send", !.cc = k, !.to = k]
      BY Zenon
    <3>2. Becomes(c, q)
      BY Zenon, <1>6, <2>2, <3>0 DEF Pick, PickAgain, Picked, Becomes
    <3>3. q \in Dos /\ q.pc = "send" /\ q.slot = do[c].slot /\ q.cc = k /\ q.to = k
      BY Zenon, <1>1, <3>0, <3>1 DEF Dos, DoSteps, MaybeConn
    <3>4. DoOK(q)
      BY Zenon, <2>1, <3>3 DEF DoOK
    <3> QED
      BY Zenon, <1>1, <2>1, <3>1, <3>2, <3>3, <3>4, GoesOn
  <2>3. CASE k = None
    <3>0. PICK q : q = [do[c] EXCEPT !.pc = "refresh"]
      BY Zenon
    <3>1. Becomes(c, q) \/ Becomes(c, NoDo)
      BY Zenon, <1>6, <2>3, <3>0 DEF Pick, PickAgain, Goto, Return, Becomes
    <3>2. q \in Dos /\ DoOK(q) /\ q.cc = do[c].cc /\ q.to = do[c].to
      BY <1>1, <2>1, <3>0, GotoIs DEF DoOK, DoSteps
    <3> QED
      BY Zenon, <1>1, <1>2, <2>1, <3>1, <3>2, GoesOn
  <2> QED
    BY Zenon, <2>2, <2>3
<1> QED
  BY Zenon, <1>3, <1>4, <1>5, <1>6

\* A command that failed or was redirected, up to redirectOrNew under the read lock.
LEMMA RedirectKeeps ==
    ASSUME ClusterInv, NEW c \in Clients, Redirect(c) \/ Retry(c) \/ Lookup(c)
    PROVE  ClusterInv'
<1>1. SameConns /\ owner' = owner /\ do[c] \in Dos /\ DoOK(do[c]) /\ Tracked(do[c].cc) /\ Tracked(do[c].to)
  BY Zenon DEF Redirect, Retry, Lookup, SameConns, serverVars, ClusterInv, ClusterTypeOK, CommandsTracked
<1>2. NoDo \in Dos /\ DoOK(NoDo) /\ Tracked(NoDo.cc) /\ Tracked(NoDo.to)
  BY Zenon, NoDoIs
<1>3. MayBegin
  BY Zenon, LazyFlightBegins DEF Redirect, Retry, Lookup, MayBegin
<1>4. CASE Redirect(c)
  <2>0. PICK q : q = [do[c] EXCEPT !.pc = "lookup", !.redirects = Counted(do[c].redirects)]
    BY Zenon
  <2>1. Becomes(c, NoDo) \/ Becomes(c, q)
    BY Zenon, <1>4, <2>0 DEF Redirect, Return, Becomes
  <2>2. q \in Dos /\ q.pc = "lookup" /\ q.slot = do[c].slot /\ q.addr = do[c].addr
        /\ q.cc = do[c].cc /\ q.to = do[c].to
    <3>1. Counted(do[c].redirects) \in Nat
      BY <1>1 DEF Dos, Counted
    <3> QED
      BY Zenon, <1>1, <2>0, <3>1 DEF Dos, DoSteps
  <2>3. DoOK(q)
    BY Zenon, <1>1, <1>4, <2>2 DEF DoOK, Redirect
  <2> QED
    BY Zenon, <1>1, <1>2, <1>3, <2>1, <2>2, <2>3, GoesOn
<1>5. CASE Retry(c)
  <2>0. PICK q : q = [NoDo EXCEPT !.pc = "pick", !.slot = do[c].slot, !.redirects = do[c].redirects]
    BY Zenon
  <2>1. Becomes(c, NoDo) \/ Becomes(c, q)
    BY Zenon, <1>5, <2>0 DEF Retry, Return, Becomes
  <2>2. q \in Dos /\ q.pc = "pick" /\ q.slot = do[c].slot /\ q.cc = None /\ q.to = None
    BY Zenon, <1>1, <2>0 DEF NoDo, Dos, DoSteps, MaybeConn, MaybeAddr
  <2>3. DoOK(q) /\ Tracked(q.cc) /\ Tracked(q.to)
    BY Zenon, <1>1, <1>5, <2>2 DEF DoOK, Retry, Tracked
  <2> QED
    BY Zenon, <1>1, <1>2, <1>3, <2>1, <2>2, <2>3, GoesOn
<1>6. CASE Lookup(c)
  <2> DEFINE k == conns[do[c].addr]
  <2>1. do[c].pc = "lookup" /\ do[c].addr \in Addrs /\ do[c].slot \in Slots
    BY Zenon, <1>1, <1>6 DEF Lookup, DoOK
  <2>2. CASE k # None /\ k # do[c].cc
    <3>0. PICK q : q = [do[c] EXCEPT !.pc = "send", !.to = k]
      BY Zenon
    <3>1. Becomes(c, q)
      BY Zenon, <1>6, <2>2, <3>0 DEF Lookup, Becomes
    <3>2. k \in Conns /\ Tracked(k)
      BY Zenon, <2>1, <2>2, ConnsAre DEF ClusterInv, ClusterTypeOK, Table, MaybeConn, Tracked, Kept
    <3>3. q \in Dos /\ q.pc = "send" /\ q.slot = do[c].slot /\ q.cc = do[c].cc /\ q.to = k
      BY Zenon, <1>1, <3>0, <3>2 DEF Dos, DoSteps, MaybeConn
    <3>4. DoOK(q)
      BY Zenon, <2>1, <3>3 DEF DoOK
    <3> QED
      BY Zenon, <1>1, <1>3, <3>1, <3>2, <3>3, <3>4, GoesOn
  <2>3. CASE ~(k # None /\ k # do[c].cc)
    <3>0. PICK q : q = [do[c] EXCEPT !.pc = "install"]
      BY Zenon
    <3>1. Becomes(c, q)
      BY Zenon, <1>6, <2>3, <3>0 DEF Lookup, Goto, Becomes
    <3>2. q \in Dos /\ DoOK(q) /\ q.cc = do[c].cc /\ q.to = do[c].to
      BY <1>1, <2>1, <3>0, GotoIs DEF DoOK, DoSteps
    <3> QED
      BY Zenon, <1>1, <1>3, <3>1, <3>2, GoesOn
  <2> QED
    BY Zenon, <2>2, <2>3
<1> QED
  BY Zenon, <1>4, <1>5, <1>6

\* The refresh is asked for, fetches the slots, and ends; the servers change; Close sets its flag.
LEMMA BackgroundKeeps ==
    ASSUME ClusterInv,
           \/ Tick \/ Fetch \/ EndFlight \/ Close
           \/ \E a \in Addrs : Rehost(a) \/ \E s \in Slots : Reshard(s, a)
    PROVE  ClusterInv'
<1>1. SameConns
  BY Zenon DEF Tick, Fetch, EndFlight, Close, Rehost, Reshard, SameConns
<1>2. ASSUME owner' \in Groups, do' = do, MayBegin
      PROVE  ClusterInv'
  <2>1. flight' \in Flights /\ FlightOK'
    BY Zenon, <1>1, <1>2, FlightKeeps
  <2>2. do' \in [Clients -> Dos] /\ CommandsTracked'
    BY Zenon, <1>1, <1>2 DEF ClusterInv, ClusterTypeOK, CommandsTracked, SameConns, tables, connVars, Tracked, Kept
  <2>3. FreshConns \subseteq FreshConns'
    BY Zenon, <1>2 DEF ClusterInv, FlightOK, MayBegin, FreshConns
  <2> QED
    BY Zenon, <1>1, <1>2, <2>1, <2>2, <2>3, QuietKeeps
<1>3. owner \in Groups
  BY Zenon DEF ClusterInv, ClusterTypeOK
<1>4. CASE Tick
  BY Zenon, <1>2, <1>3, <1>4, LazyFlightBegins DEF Tick, serverVars
<1>5. CASE Close
  BY Zenon, <1>2, <1>3, <1>5 DEF Close, serverVars, MayBegin
<1>6. ASSUME NEW a \in Addrs, Rehost(a) \/ \E s \in Slots : Reshard(s, a)
      PROVE  ClusterInv'
  BY <1>2, <1>3, <1>6 DEF Rehost, Reshard, MayBegin, Groups, MaybeAddr
<1>7. CASE Fetch
  <2>1. do' \in [Clients -> Dos] /\ CommandsTracked'
    BY Zenon, <1>1, <1>7 DEF Fetch, ClusterInv, ClusterTypeOK, CommandsTracked, SameConns, tables, connVars,
                      Tracked, Kept
  <2>2. flight' \in Flights /\ flight'.at \in {"merge", "end"} /\ flight'.fresh = None
        /\ (flight'.at = "merge" => flight'.groups = owner)
    BY <1>3, <1>7 DEF Fetch, ClusterInv, ClusterTypeOK, FlightOK, Flights, FlightSteps
  <2>3. FlightOK'
    BY Zenon, <1>3, <2>2 DEF FlightOK, FreshConns
  <2>4. FreshConns = {} /\ owner' \in Groups
    BY Zenon, <1>3, <1>7 DEF Fetch, serverVars, ClusterInv, FlightOK, FreshConns
  <2> QED
    BY Zenon, <1>1, <2>1, <2>2, <2>3, <2>4, QuietKeeps
<1>8. CASE EndFlight
  <2>1. flight' \in Flights /\ flight'.at = None /\ flight'.fresh = None
    BY Zenon, <1>8 DEF EndFlight, NoFlight, Flights, FlightSteps
  <2>2. FlightOK'
    BY Zenon, <2>1 DEF FlightOK
  <2>3. FreshConns \subseteq Kept \cup {k \in Conns : state[k] # "open"}
    BY <1>8, ConnsAre DEF EndFlight, ClusterInv, ClusterTypeOK, Flights, FlightOK, FreshConns, Tracked
  <2>4. ASSUME NEW c \in Clients
        PROVE  do'[c] \in Dos /\ (DoOK(do[c]) /\ Tracked(do[c].cc) /\ Tracked(do[c].to))'
    <3>0. PICK q : q = [do[c] EXCEPT !.pc = "repick"]
      BY Zenon
    <3>1. do[c] \in Dos /\ DoOK(do[c]) /\ Tracked(do[c].cc) /\ Tracked(do[c].to)
      BY Zenon DEF ClusterInv, ClusterTypeOK, CommandsTracked
    <3>2. do'[c] \in {do[c], NoDo} \/ (do[c].pc = "wait" /\ do'[c] = q)
      BY Zenon, <1>8, <3>0 DEF EndFlight, AfterFlight
    <3>3. do[c].pc = "wait" => q \in Dos /\ DoOK(q) /\ q.cc = do[c].cc /\ q.to = do[c].to
      BY <3>0, <3>1, GotoIs DEF DoOK, DoSteps
    <3>4. do'[c] \in Dos /\ DoOK(do'[c]) /\ Tracked(do'[c].cc) /\ Tracked(do'[c].to)
      BY Zenon, <3>1, <3>2, <3>3, NoDoIs
    <3> QED
      BY Zenon, <1>1, <3>4 DEF SameConns, tables, connVars, Tracked, Kept, DoOK
  <2>5. do' \in [Clients -> Dos] /\ CommandsTracked'
    BY Zenon, <1>8, <2>4 DEF EndFlight, CommandsTracked
  <2>6. owner' \in Groups
    BY Zenon, <1>3, <1>8 DEF EndFlight, serverVars
  <2> QED
    BY Zenon, <1>1, <2>1, <2>2, <2>3, <2>5, <2>6, QuietKeeps
<1> QED
  BY Zenon, <1>4, <1>5, <1>6, <1>7, <1>8

-----------------------------------------------------------------------------
(* Steps that change the tables or the connections *)

\* connFn returns a connection that nobody has.
LEMMA NewConnIs ==
    ASSUME ClusterInv, NEW a, Unused(a) # {}
    PROVE  /\ NewConn(a) \in Conns /\ AddrOf(NewConn(a)) = a /\ a \in Addrs /\ state[NewConn(a)] # "open"
           /\ NewConn(a) \notin Values(conns) \cup Values(wslots) \cup doomed \cup FreshConns
           /\ \A c \in Clients : NewConn(a) # do[c].cc /\ NewConn(a) # do[c].to
<1>1. NewConn(a) \in Unused(a)
  BY Zenon DEF NewConn
<1>2. NewConn(a) \in Conns /\ AddrOf(NewConn(a)) = a /\ NewConn(a) \notin Referenced /\ state[NewConn(a)] # "open"
  BY Zenon, <1>1 DEF Unused
<1>3. a \in Addrs
  BY Zenon, <1>2 DEF Conns, AddrOf
<1>4. ASSUME NEW c \in Clients
      PROVE  {do[c].cc, do[c].to} \subseteq Referenced
  BY Zenon DEF Referenced
<1> QED
  BY Zenon, <1>2, <1>3, <1>4 DEF Referenced

\* What was tracked stays tracked, so the commands and the slots are.
LEMMA TrackingKeeps ==
    ASSUME ClusterInv, \A k : Tracked(k) => Tracked(k)', do' = do, wslots' = wslots
    PROVE  CommandsTracked' /\ SlotsTracked'
<1>1. ASSUME NEW c \in Clients
      PROVE  (DoOK(do[c]) /\ Tracked(do[c].cc) /\ Tracked(do[c].to))'
  <2>1. DoOK(do[c]) /\ Tracked(do[c].cc) /\ Tracked(do[c].to)
    BY Zenon DEF ClusterInv, CommandsTracked
  <2> QED
    BY Zenon, <2>1 DEF Tracked, DoOK, Kept
<1>2. ASSUME NEW s \in Slots
      PROVE  Tracked(wslots[s])'
  BY Zenon DEF ClusterInv, SlotsTracked, Tracked, Kept
<1> QED
  BY Zenon, <1>1, <1>2 DEF CommandsTracked, SlotsTracked

\* A goroutine closes, after its delay, the connection that was taken out of the map.
LEMMA ReapKeeps ==
    ASSUME ClusterInv, NEW k \in Conns, Reap(k)
    PROVE  ClusterInv'
<1>1. ClusterTypeOK'
  BY Zenon DEF Reap, tables, serverVars, ClusterInv, ClusterTypeOK
<1>2. \A j : Tracked(j) => Tracked(j)'
  BY Zenon DEF Reap, tables, ClusterInv, ClusterTypeOK, Tracked, Kept
<1>3. CommandsTracked' /\ SlotsTracked'
  BY Zenon, <1>2, TrackingKeeps DEF Reap, tables
<1>4. FlightOK'
  BY DEF Reap, tables, ClusterInv, ClusterTypeOK, FlightOK, FreshConns, Tracked, Kept
<1>5. NoClusterConnLost'
  BY Zenon DEF Reap, tables, ClusterInv, ClusterTypeOK, NoClusterConnLost, FreshConns
<1>6. ServesOpenConns'
  BY DEF Reap, tables, ClusterInv, ClusterTypeOK, ServesOpenConns
<1> QED
  BY Zenon, <1>1, <1>3, <1>4, <1>5, <1>6 DEF ClusterInv

\* Close closes what the map has.
LEMMA CloseConnsKeeps ==
    ASSUME ClusterInv, CloseConns
    PROVE  ClusterInv'
<1>1. ClusterTypeOK'
  BY Zenon, ConnsAre DEF CloseConns, tables, serverVars, ClusterInv, ClusterTypeOK
<1>2. \A j : Tracked(j) => Tracked(j)'
  BY Zenon DEF CloseConns, tables, Tracked, Kept
<1>3. CommandsTracked' /\ SlotsTracked'
  BY Zenon, <1>2, TrackingKeeps DEF CloseConns, tables
<1>4. FlightOK'
  BY Zenon DEF CloseConns, tables, ClusterInv, FlightOK, FreshConns, Tracked, Kept
<1>5. NoClusterConnLost'
  BY Zenon DEF CloseConns, tables, ClusterInv, NoClusterConnLost, FreshConns
<1>6. ServesOpenConns'
  BY Zenon DEF CloseConns, tables, ClusterInv, ServesOpenConns
<1> QED
  BY Zenon, <1>1, <1>3, <1>4, <1>5, <1>6 DEF ClusterInv

\* The refresh asks its connections for their availability zone, which connects them.
LEMMA AZKeeps ==
    ASSUME ClusterInv, AZ
    PROVE  ClusterInv'
<1>1. flight' \in Flights /\ flight'.at = "swap" /\ flight'.groups = flight.groups /\ flight'.fresh = flight.fresh
  BY Zenon DEF AZ, ClusterInv, ClusterTypeOK, Flights, FlightSteps
<1>2. /\ state' \in [Conns -> {"new", "open", "closed"}]
      /\ \A k \in Conns : state'[k] = "closed" <=> state[k] = "closed"
      /\ \A k \in Conns : state'[k] = "open" => state[k] = "open" \/ k \in FreshConns
  BY Zenon DEF AZ, ClusterInv, ClusterTypeOK
<1>3. ClusterTypeOK'
  BY Zenon, <1>1, <1>2 DEF AZ, tables, serverVars, ClusterInv, ClusterTypeOK
<1>4. \A j : Tracked(j) => Tracked(j)'
  BY Zenon, <1>2 DEF AZ, tables, Tracked, Kept
<1>5. CommandsTracked' /\ SlotsTracked'
  BY Zenon, <1>4, TrackingKeeps DEF AZ, tables
<1>6. FlightOK'
  <2>1. flight.fresh \in Table /\ flight.groups \in Groups
    BY Zenon DEF AZ, ClusterInv, FlightOK
  <2>2. \A a \in Addrs : flight.fresh[a] # None => flight.fresh[a] \in Conns
    BY Zenon, <2>1 DEF Table, MaybeConn
  <2> QED
    BY <1>1, <1>2, <2>1, <2>2 DEF AZ, tables, ClusterInv, FlightOK
<1>7. NoClusterConnLost'
  BY Zenon, <1>1, <1>2 DEF AZ, tables, ClusterInv, NoClusterConnLost, FreshConns
<1>8. ServesOpenConns'
  BY Zenon, <1>2 DEF AZ, tables, ClusterInv, ClusterTypeOK, Table, MaybeConn, ServesOpenConns
<1> QED
  BY Zenon, <1>3, <1>5, <1>6, <1>7, <1>8 DEF ClusterInv

\* A connection that is not closed connects when it is used: it is tracked already.
LEMMA OpenKeeps ==
    ASSUME ClusterInv, NEW c \in Clients, Send(c),
           NEW q \in Dos, DoOK(q), Tracked(q.cc), Tracked(q.to), Becomes(c, q)
    PROVE  ClusterInv'
<1>0. do[c] \in Dos /\ Tracked(do[c].to)
  BY Zenon DEF ClusterInv, ClusterTypeOK, CommandsTracked
<1>1. /\ state' \in [Conns -> {"new", "open", "closed"}]
      /\ \A k \in Conns : state'[k] = "closed" <=> state[k] = "closed"
      /\ \A k \in Conns : state'[k] = "open" => state[k] = "open" \/ k \in Kept
  BY Zenon, <1>0 DEF Send, ClusterInv, ClusterTypeOK, Tracked
<1>2. do' \in [Clients -> Dos] /\ do'[c] = q /\ \A d \in Clients \ {c} : do'[d] = do[d]
  BY Zenon DEF ClusterInv, ClusterTypeOK, Becomes
<1>3. ClusterTypeOK'
  BY Zenon, <1>1, <1>2 DEF Send, tables, serverVars, ClusterInv, ClusterTypeOK
<1>4. \A j : Tracked(j) => Tracked(j)'
  BY Zenon, <1>1 DEF Send, tables, Tracked, Kept
<1>5. SlotsTracked'
  BY Zenon, <1>4 DEF Send, tables, ClusterInv, SlotsTracked, Tracked, Kept
<1>6. CommandsTracked'
  <2>1. ASSUME NEW d \in Clients
        PROVE  (DoOK(do[d]) /\ Tracked(do[d].cc) /\ Tracked(do[d].to))'
    <3>1. DoOK(do'[d]) /\ Tracked(do'[d].cc) /\ Tracked(do'[d].to)
      BY Zenon, <1>2 DEF ClusterInv, CommandsTracked
    <3> QED
      BY Zenon, <1>1, <3>1 DEF Send, tables, Tracked, Kept, DoOK
  <2> QED
    BY Zenon, <2>1 DEF CommandsTracked
<1>7. FlightOK'
  <2>1. flight.fresh # None => flight.fresh \in Table /\ FreshConns \subseteq Conns
    BY ConnsAre DEF ClusterInv, ClusterTypeOK, Flights, FreshConns
  <2>2. flight.fresh # None => \A a \in Addrs : flight.fresh[a] # None => flight.fresh[a] \in Conns
    BY Zenon, <2>1 DEF Table, MaybeConn
  <2>3. flight' = flight /\ conns' = conns /\ doomed' = doomed /\ stop' = stop /\ FreshConns' = FreshConns
    BY Zenon DEF Send, tables, FreshConns
  <2>4. flight.at \in {"tables", "swap"} => flight.fresh # None
    BY Zenon DEF ClusterInv, FlightOK, Table, MaybeConn
  <2>5. flight.at = "end" => \A k \in FreshConns : Tracked(k)'
    BY Zenon, <1>4 DEF ClusterInv, FlightOK
  <2> QED
    BY Zenon, <1>1, <2>2, <2>3, <2>4, <2>5 DEF ClusterInv, FlightOK
<1>8. NoClusterConnLost'
  BY Zenon, <1>1 DEF Send, tables, ClusterInv, NoClusterConnLost, FreshConns, Kept
<1>9. ServesOpenConns'
  BY Zenon, <1>1 DEF Send, tables, ClusterInv, ClusterTypeOK, Table, MaybeConn, ServesOpenConns
<1> QED
  BY Zenon, <1>3, <1>5, <1>6, <1>7, <1>8, <1>9 DEF ClusterInv

\* cc.Do: the command is served, fails, or is redirected to a node.
LEMMA SendKeeps ==
    ASSUME ClusterInv, NEW c \in Clients, Send(c)
    PROVE  ClusterInv'
<1>1. do[c] \in Dos /\ do[c].slot \in Slots /\ Tracked(do[c].cc) /\ Tracked(do[c].to) /\ owner[do[c].slot] \in MaybeAddr
  BY Zenon DEF Send, ClusterInv, ClusterTypeOK, CommandsTracked, DoOK, Groups
<1>2. CASE Goto(c, "error")
  <2>0. PICK q : q = [do[c] EXCEPT !.pc = "error"]
    BY Zenon
  <2>1. Becomes(c, q)
    BY Zenon, <1>2, <2>0 DEF Goto, Becomes
  <2>2. q \in Dos /\ DoOK(q) /\ q.cc = do[c].cc /\ q.to = do[c].to
    BY <1>1, <2>0, GotoIs DEF DoOK, DoSteps
  <2> QED
    BY Zenon, <1>1, <2>1, <2>2, OpenKeeps
<1>3. CASE Return(c)
  BY Zenon, <1>3, NoDoIs, OpenKeeps DEF Return, Becomes
<1>4. ASSUME NEW m \in {"move", "ask"}, owner[do[c].slot] # None,
             do' = [do EXCEPT ![c] = [@ EXCEPT !.pc = "redirect", !.mode = m, !.addr = owner[do[c].slot]]]
      PROVE  ClusterInv'
  <2>0. PICK q : q = [do[c] EXCEPT !.pc = "redirect", !.mode = m, !.addr = owner[do[c].slot]]
    BY Zenon
  <2>1. Becomes(c, q)
    BY Zenon, <1>4, <2>0 DEF Becomes
  <2>2. q \in Dos /\ q.pc = "redirect" /\ q.slot = do[c].slot /\ q.addr = owner[do[c].slot]
        /\ q.cc = do[c].cc /\ q.to = do[c].to
    BY Zenon, <1>1, <2>0 DEF Dos, DoSteps
  <2>3. DoOK(q)
    BY Zenon, <1>1, <1>4, <2>2 DEF DoOK, MaybeAddr
  <2> QED
    BY Zenon, <1>1, <2>1, <2>2, <2>3, OpenKeeps
<1> QED
  BY Zenon, <1>2, <1>3, <1>4 DEF Send

\* The refresh keeps the connections of the map and makes those that are missing.
LEMMA MergeKeeps ==
    ASSUME ClusterInv, Merge
    PROVE  ClusterInv'
<1> DEFINE known == Known(flight.groups)
           missing == {a \in known : conns[a] = None}
           fresh == [a \in Addrs |-> IF a \in missing THEN NewConn(a) ELSE IF a \in known THEN conns[a] ELSE None]
<1>1. \A a \in missing : /\ NewConn(a) \in Conns /\ AddrOf(NewConn(a)) = a
                         /\ NewConn(a) \notin Values(conns) \cup Values(wslots) \cup doomed
                         /\ \A c \in Clients : NewConn(a) # do[c].cc /\ NewConn(a) # do[c].to
  BY Zenon, NewConnIs DEF Merge
<1>2. fresh \in Table
  BY Zenon, <1>1 DEF ClusterInv, ClusterTypeOK, Table, MaybeConn
<1>3. flight'.at = "tables" /\ flight'.groups = flight.groups /\ flight'.fresh = fresh /\ flight' \in Flights
  BY Zenon, <1>2 DEF Merge, ClusterInv, ClusterTypeOK, Flights, FlightSteps
<1>4. /\ state' = [k \in Conns |-> IF k \in {NewConn(a) : a \in missing} THEN "new" ELSE state[k]]
      /\ conns' = conns /\ wslots' = wslots /\ doomed' = doomed /\ do' = do /\ stop' = stop /\ owner' = owner
  BY Zenon DEF Merge, Reset, tables
<1>5. /\ state' \in [Conns -> {"new", "open", "closed"}]
      /\ \A k \in Conns : state'[k] # "new" => state'[k] = state[k]
      /\ \A k \in Conns : (\A a \in missing : k # NewConn(a)) => state'[k] = state[k]
      /\ \A a \in missing : state'[NewConn(a)] = "new"
  BY Zenon, <1>1, <1>4 DEF ClusterInv, ClusterTypeOK
<1>6. flight.groups \in Groups /\ flight.fresh = None
  BY Zenon DEF Merge, ClusterInv, FlightOK
<1>7. \A a \in Addrs : fresh[a] # None => /\ AddrOf(fresh[a]) = a
                                          /\ conns[a] = None => fresh[a] \notin doomed /\ state'[fresh[a]] = "new"
  BY Zenon, <1>1, <1>5 DEF ClusterInv, ServesOpenConns
<1> HIDE DEF missing, known, fresh
<1>8. ClusterTypeOK'
  BY Zenon, <1>3, <1>4, <1>5 DEF ClusterInv, ClusterTypeOK
<1>9. SlotsTracked'
  <2> SUFFICES ASSUME NEW s \in Slots, wslots[s] \in Conns
               PROVE  state'[wslots[s]] = state[wslots[s]]
    BY Zenon, <1>4 DEF ClusterInv, SlotsTracked, Tracked, Kept
  <2>1. wslots[s] \in Values(wslots)
    BY Zenon DEF ClusterInv, ClusterTypeOK, Values
  <2> QED
    BY Zenon, <1>1, <1>5, <2>1
<1>10. CommandsTracked'
  <2> SUFFICES ASSUME NEW c \in Clients
               PROVE  (DoOK(do[c]) /\ Tracked(do[c].cc) /\ Tracked(do[c].to))'
    BY Zenon DEF CommandsTracked
  <2>1. DoOK(do[c]) /\ Tracked(do[c].cc) /\ Tracked(do[c].to)
    BY Zenon DEF ClusterInv, CommandsTracked
  <2> QED
    BY <1>1, <1>4, <1>5, <2>1 DEF DoOK, Tracked, Kept
<1>11. FlightOK'
  BY Zenon, <1>2, <1>3, <1>4, <1>6, <1>7 DEF FlightOK
<1>12. NoClusterConnLost'
  BY Zenon, <1>4, <1>5, <1>6 DEF ClusterInv, NoClusterConnLost, FreshConns
<1>13. ServesOpenConns'
  BY Zenon, <1>4, <1>5 DEF ClusterInv, ClusterTypeOK, Table, MaybeConn, ServesOpenConns
<1> QED
  BY Zenon, <1>8, <1>9, <1>10, <1>11, <1>12, <1>13 DEF ClusterInv

\* The refresh replaces the map: what others installed meanwhile is kept, what it made in vain and
\* what is no longer known is to be closed.
LEMMA SwapKeeps ==
    ASSUME ClusterInv, Swap
    PROVE  ClusterInv'
<1> DEFINE fresh == flight.fresh
           final == [a \in Addrs |-> IF fresh[a] # None /\ conns[a] # None THEN conns[a] ELSE fresh[a]]
<1>1. fresh \in Table /\ flight.groups \in Groups /\ fresh # None /\ flight.at = "swap"
  BY Zenon DEF Swap, ClusterInv, FlightOK, Table, MaybeConn
<1>2. final \in Table /\ conns \in Table
  BY Zenon, <1>1 DEF ClusterInv, ClusterTypeOK, Table
<1>3. /\ conns' = final /\ doomed' = doomed \cup ((Values(conns) \cup Values(fresh)) \ Values(final))
      /\ wslots' = [s \in Slots |-> At(final, flight.groups[s])]
      /\ state' = state /\ do' = do /\ stop' = stop /\ owner' = owner
  BY Zenon DEF Swap, serverVars
<1>4. flight'.at = "end" /\ flight'.fresh = fresh /\ flight' \in Flights
  BY Zenon DEF Swap, ClusterInv, ClusterTypeOK, Flights, FlightSteps
<1>5. FreshConns = Values(fresh) /\ FreshConns' = Values(fresh)
  BY Zenon, <1>1, <1>4 DEF FreshConns
<1>6. Values(conns) \cup Values(fresh) \cup doomed = Kept'
  <2>1. Values(final) \subseteq Values(conns) \cup Values(fresh)
    BY <1>1, <1>2, ConnsAre
  <2> QED
    BY Zenon, <1>3, <2>1 DEF Kept
<1>7. \A a \in Addrs : final[a] # None =>
          /\ final[a] \in Conns /\ AddrOf(final[a]) = a
          /\ stop # "closed" => final[a] \notin doomed /\ state[final[a]] # "closed"
  BY Zenon, <1>1, <1>2 DEF Table, MaybeConn, ClusterInv, FlightOK, ServesOpenConns
<1> HIDE DEF final, fresh
<1>8. wslots' \in [Slots -> MaybeConn] /\ \A s \in Slots : wslots'[s] \in Conns => wslots'[s] \in Values(final)
  <2> SUFFICES ASSUME NEW s \in Slots
               PROVE  /\ At(final, flight.groups[s]) \in MaybeConn
                      /\ At(final, flight.groups[s]) \in Conns => At(final, flight.groups[s]) \in Values(final)
    BY Zenon, <1>3
  <2> QED
    BY <1>1, <1>2, ConnsAre DEF At, Table, Groups, MaybeAddr, MaybeConn
<1>9. ClusterTypeOK'
  BY Zenon, <1>1, <1>2, <1>3, <1>4, <1>8, ConnsAre DEF ClusterInv, ClusterTypeOK
<1>10. \A k : Tracked(k) => Tracked(k)'
  BY Zenon, <1>3, <1>6 DEF Tracked, Kept
<1>11. CommandsTracked'
  <2> SUFFICES ASSUME NEW c \in Clients
               PROVE  (DoOK(do[c]) /\ Tracked(do[c].cc) /\ Tracked(do[c].to))'
    BY Zenon DEF CommandsTracked
  <2>1. DoOK(do[c]) /\ Tracked(do[c].cc) /\ Tracked(do[c].to)
    BY Zenon DEF ClusterInv, CommandsTracked
  <2> QED
    BY Zenon, <1>3, <1>6, <2>1 DEF DoOK, Tracked, Kept
<1>12. SlotsTracked'
  BY Zenon, <1>3, <1>8 DEF SlotsTracked, Tracked, Kept
<1>13. FlightOK'
  <2>1. \A k \in Values(fresh) : Tracked(k)'
    BY Zenon, <1>6 DEF Tracked
  <2> QED
    BY Zenon, <1>1, <1>4, <1>5, <2>1 DEF ClusterInv, FlightOK, fresh
<1>14. NoClusterConnLost'
  BY Zenon, <1>3, <1>5, <1>6 DEF ClusterInv, NoClusterConnLost, Kept
<1>15. ServesOpenConns'
  <2>1. \A a \in Addrs : final[a] # None => final[a] \in Values(final)
    BY Zenon, <1>2, <1>7, ConnsAre
  <2> QED
    BY Zenon, <1>3, <1>7, <2>1 DEF ServesOpenConns
<1> QED
  BY Zenon, <1>9, <1>11, <1>12, <1>13, <1>14, <1>15 DEF ClusterInv

\* redirectOrNew puts a new connection in place of the one that redirected, which is closed later.
LEMMA InstallNewKeeps ==
    ASSUME ClusterInv, NEW c \in Clients, Install(c),
           ~(conns[do[c].addr] # None /\ conns[do[c].addr] # do[c].cc)
    PROVE  ClusterInv'
<1> DEFINE a == do[c].addr
           k == NewConn(a)
<1>1. /\ k \in Conns /\ AddrOf(k) = a /\ a \in Addrs
      /\ k \notin Values(conns) \cup Values(wslots) \cup doomed \cup FreshConns
      /\ \A d \in Clients : k # do[d].cc /\ k # do[d].to
  BY Zenon, NewConnIs DEF Install
<1>2. PICK q : q = [do[c] EXCEPT !.pc = "send", !.to = k]
  BY Zenon
<1>3. /\ conns' = [conns EXCEPT ![a] = k] /\ doomed' = doomed \cup ({conns[a]} \ {None})
      /\ wslots' \in {wslots, [wslots EXCEPT ![do[c].slot] = k]}
      /\ state' = [j \in Conns |-> IF j = k THEN "new" ELSE state[j]]
      /\ Becomes(c, q) /\ flight' = flight /\ stop' = stop /\ owner' = owner
  BY Zenon, <1>2 DEF Install, Reset, Becomes
<1> HIDE DEF a, k
<1>4. conns \in Table /\ conns' \in Table
  BY Zenon, <1>1, <1>3 DEF ClusterInv, ClusterTypeOK, Table, MaybeConn
<1>5. Kept' = Kept \cup {k}
  <2>1. Values(conns') \cup ({conns[a]} \ {None}) = Values(conns) \cup {k}
    <3>1. Values(conns) = {j \in Conns : \E b \in Addrs : conns[b] = j}
          /\ Values(conns') = {j \in Conns : \E b \in Addrs : conns'[b] = j}
      BY Zenon, <1>4, ConnsAre
    <3>2. conns'[a] = k /\ (\A b \in Addrs \ {a} : conns'[b] = conns[b]) /\ conns[a] \in Conns \cup {None}
      BY Zenon, <1>1, <1>3, <1>4 DEF Table, MaybeConn
    <3> QED
      BY <1>1, <3>1, <3>2
  <2> QED
    BY Zenon, <1>3, <2>1 DEF Kept
<1>6. state' \in [Conns -> {"new", "open", "closed"}] /\ state'[k] = "new" /\ \A j \in Conns \ {k} : state'[j] = state[j]
  BY Zenon, <1>1, <1>3 DEF ClusterInv, ClusterTypeOK
<1>7. \A j : Tracked(j) \/ j = k => Tracked(j)'
  BY Zenon, <1>5, <1>6 DEF Tracked
<1>8. q \in Dos /\ DoOK(q) /\ q.cc = do[c].cc /\ q.to = k
  <2>1. do[c] \in Dos /\ do[c].slot \in Slots
    BY Zenon DEF Install, ClusterInv, ClusterTypeOK, CommandsTracked, DoOK
  <2>2. q \in Dos /\ q.pc = "send" /\ q.slot = do[c].slot /\ q.cc = do[c].cc /\ q.to = k
    BY Zenon, <1>1, <1>2, <2>1 DEF Dos, DoSteps, MaybeConn
  <2> QED
    BY Zenon, <2>1, <2>2 DEF DoOK
<1>9. do' \in [Clients -> Dos] /\ do'[c] = q /\ \A d \in Clients \ {c} : do'[d] = do[d]
  BY Zenon, <1>3, <1>8 DEF ClusterInv, ClusterTypeOK, Becomes
<1>10. wslots' \in [Slots -> MaybeConn] /\ \A s \in Slots : wslots'[s] \in {wslots[s], k}
  BY <1>1, <1>3 DEF ClusterInv, ClusterTypeOK, MaybeConn
<1>11. ClusterTypeOK'
  BY <1>3, <1>4, <1>6, <1>9, <1>10 DEF ClusterInv, ClusterTypeOK, Table, MaybeConn
<1>12. SlotsTracked'
  BY Zenon, <1>5, <1>6, <1>10 DEF ClusterInv, SlotsTracked, Tracked
<1>13. CommandsTracked'
  <2>1. ASSUME NEW d \in Clients
        PROVE  (DoOK(do[d]) /\ Tracked(do[d].cc) /\ Tracked(do[d].to))'
    <3>1. DoOK(do'[d]) /\ (Tracked(do'[d].cc) \/ do'[d].cc = k) /\ (Tracked(do'[d].to) \/ do'[d].to = k)
      BY Zenon, <1>8, <1>9 DEF ClusterInv, CommandsTracked
    <3> QED
      BY Zenon, <1>5, <1>6, <3>1 DEF DoOK, Tracked
  <2> QED
    BY Zenon, <2>1 DEF CommandsTracked
<1>14. FreshConns' = FreshConns /\ k \notin FreshConns
  BY Zenon, <1>1, <1>3 DEF FreshConns
<1>15. FlightOK'
  <2>1. flight.at = "end" => \A j \in FreshConns : Tracked(j)'
    BY Zenon, <1>7 DEF ClusterInv, FlightOK
  <2>2. ASSUME flight.at \in {"tables", "swap"}, stop # "closed", NEW b \in Addrs,
               flight.fresh[b] # None, conns'[b] = None
        PROVE  flight.fresh[b] \notin doomed' /\ state'[flight.fresh[b]] # "closed"
    <3>1. b # a /\ conns[b] = None
      BY Zenon, <1>1, <1>3, <1>4, <2>2 DEF Table
    <3>2. flight.fresh \in Table /\ flight.fresh # None /\ AddrOf(flight.fresh[b]) = b
      BY Zenon, <2>2 DEF ClusterInv, FlightOK, Table, MaybeConn
    <3>3. flight.fresh[b] \in Conns /\ flight.fresh[b] \notin doomed /\ state[flight.fresh[b]] # "closed"
      BY Zenon, <2>2, <3>1, <3>2 DEF ClusterInv, FlightOK, Table, MaybeConn
    <3>4. conns[a] # None => AddrOf(conns[a]) = a
      BY Zenon, <1>1 DEF ClusterInv, ServesOpenConns
    <3> QED
      BY Zenon, <1>1, <1>3, <1>6, <3>1, <3>2, <3>3, <3>4
  <2> QED
    BY Zenon, <1>3, <1>14, <2>1, <2>2 DEF ClusterInv, FlightOK
<1>16. NoClusterConnLost'
  BY Zenon, <1>5, <1>6, <1>14 DEF ClusterInv, NoClusterConnLost, Kept
<1>17. ServesOpenConns'
  <2> SUFFICES ASSUME NEW b \in Addrs, conns'[b] # None
               PROVE  /\ AddrOf(conns'[b]) = b
                      /\ stop # "closed" => conns'[b] \notin doomed' /\ state'[conns'[b]] # "closed"
    BY Zenon, <1>3 DEF ServesOpenConns
  <2>1. conns[a] # k
    BY <1>1, <1>4, ConnsAre
  <2>2. CASE b = a
    BY Zenon, <1>1, <1>3, <1>4, <1>6, <2>1, <2>2 DEF Table
  <2>3. CASE b # a
    <3>1. conns'[b] = conns[b] /\ conns[b] \in Conns /\ conns[b] # k
      BY <1>1, <1>3, <1>4, <2>3, ConnsAre DEF Table, MaybeConn
    <3>2. conns[a] # None => AddrOf(conns[a]) = a
      BY Zenon, <1>1 DEF ClusterInv, ServesOpenConns
    <3> QED
      BY <1>3, <1>6, <2>3, <3>1, <3>2 DEF ClusterInv, ServesOpenConns
  <2> QED
    BY Zenon, <2>2, <2>3
<1> QED
  BY Zenon, <1>11, <1>12, <1>13, <1>15, <1>16, <1>17 DEF ClusterInv

\* Under the lock redirectOrNew looks again; somebody else may have made the connection.
LEMMA InstallKeeps ==
    ASSUME ClusterInv, NEW c \in Clients, Install(c)
    PROVE  ClusterInv'
<1> DEFINE k == conns[do[c].addr]
<1>1. CASE k # None /\ k # do[c].cc
  <2>1. do[c] \in Dos /\ do[c].addr \in Addrs /\ do[c].slot \in Slots /\ Tracked(do[c].cc)
    BY Zenon DEF Install, ClusterInv, ClusterTypeOK, CommandsTracked, DoOK
  <2>2. k \in Conns /\ Tracked(k)
    BY Zenon, <1>1, <2>1, ConnsAre DEF ClusterInv, ClusterTypeOK, Table, MaybeConn, Tracked, Kept
  <2>3. PICK q : q = [do[c] EXCEPT !.pc = "send", !.to = k]
    BY Zenon
  <2>4. q \in Dos /\ q.pc = "send" /\ q.slot = do[c].slot /\ q.cc = do[c].cc /\ q.to = k
    BY Zenon, <2>1, <2>2, <2>3 DEF Dos, DoSteps, MaybeConn
  <2>5. DoOK(q)
    BY Zenon, <2>1, <2>4 DEF DoOK
  <2>6. Becomes(c, q) /\ SameConns /\ owner' = owner /\ MayBegin
    BY Zenon, <1>1, <2>3 DEF Install, Becomes, SameConns, MayBegin
  <2> QED
    BY Zenon, <2>1, <2>2, <2>4, <2>5, <2>6, GoesOn
<1> QED
  BY Zenon, <1>1, InstallNewKeeps

-----------------------------------------------------------------------------
\* One step of the cluster client or of the servers.
LEMMA StepKeepsCluster == ClusterInv /\ [ClusterNext]_clusterVars => ClusterInv'
<1> SUFFICES ASSUME ClusterInv, [ClusterNext]_clusterVars
             PROVE  ClusterInv'
  BY Zenon
<1>1. CASE UNCHANGED clusterVars
  <2>1. SameConns /\ MayBegin /\ owner' \in Groups /\ do' = do /\ FreshConns' = FreshConns
    BY Zenon, <1>1 DEF clusterVars, serverVars, SameConns, MayBegin, FreshConns, ClusterInv, ClusterTypeOK
  <2>2. do' \in [Clients -> Dos] /\ CommandsTracked'
    BY Zenon, <2>1 DEF ClusterInv, ClusterTypeOK, CommandsTracked, SameConns, tables, connVars, Tracked, Kept
  <2> QED
    BY Zenon, <2>1, <2>2, FlightKeeps, QuietKeeps
<1>2. ASSUME NEW c \in Clients, Client(c) \/ WaitCancelled(c) \/ \E s \in Slots : Do(c, s)
      PROVE  ClusterInv'
  BY <1>2, PickKeeps, RedirectKeeps, SendKeeps, InstallKeeps, Zenon DEF Client
<1>3. CASE Flight \/ Tick
  BY <1>3, BackgroundKeeps, MergeKeeps, AZKeeps, SwapKeeps, Zenon DEF Flight
<1>4. CASE (\E k \in Conns : Reap(k)) \/ Close \/ CloseConns
           \/ \E a \in Addrs : Rehost(a) \/ \E s \in Slots : Reshard(s, a)
  BY <1>4, BackgroundKeeps, ReapKeeps, CloseConnsKeeps, Zenon
<1> QED
  BY <1>1, <1>2, <1>3, <1>4, Zenon DEF ClusterNext

\* Whatever refreshes, redirections and Close do to the map at the same time, no connection is
\* lost while it is open, and none that the map has is closed before Close.
THEOREM ConnectionsKept == ClusterSpec => [](NoClusterConnLost /\ ServesOpenConns)
<1>1. ClusterSpec => []ClusterInv
  BY InitCluster, StepKeepsCluster, PTL DEF ClusterSpec
<1>2. ClusterInv => NoClusterConnLost /\ ServesOpenConns
  BY Zenon DEF ClusterInv
<1> QED
  BY <1>1, <1>2, PTL

-----------------------------------------------------------------------------
(* Standalone: no connection is lost *)

\* A switch has a connection only between its dial and its swap, so a switch that ends, fails or
\* begins has none to lose.
LinkInv ==
    /\ \E a, t, k : switch = [at |-> a, to |-> t, link |-> k]
    /\ switch.at # "swap" => switch.link = NoLink
    /\ NoLink \notin live
    /\ NoLinkLost

\* The connections of a host are counted from one.
LEMMA LinksAre == \A k \in Links : k # NoLink
<1> SUFFICES ASSUME NEW k \in Links
             PROVE  k # NoLink
  BY Zenon
<1>1. k[2] \in 1..MaxLinks
  BY Zenon DEF Links
<1>2. NoLink[2] = 0
  BY Zenon DEF NoLink
<1> QED
  BY <1>1, <1>2

\* newStandaloneClient has its primary.
LEMMA InitLinks == StandaloneInit => LinkInv
<1> SUFFICES ASSUME StandaloneInit
             PROVE  LinkInv
  BY Zenon
<1>1. <<leader, 1>>[2] = 1 /\ NoLink[2] = 0
  BY Zenon DEF NoLink
<1>2. primary # NoLink
  BY <1>1 DEF StandaloneInit
<1>3. switch = [at |-> "none", to |-> "", link |-> NoLink]
  BY Zenon DEF StandaloneInit, NoSwitch
<1>4. live = {primary}
  BY Zenon DEF StandaloneInit
<1> QED
  BY Zenon, <1>2, <1>3, <1>4 DEF LinkInv, NoLinkLost

\* The goroutine of a switch dials the new primary, or gives up.
LEMMA DialKeeps == LinkInv /\ Dial => LinkInv'
<1> SUFFICES ASSUME LinkInv, Dial
             PROVE  LinkInv'
  BY Zenon
<1>1. switch.link = NoLink
  BY Zenon DEF LinkInv, Dial
<1>2. ASSUME NEW k \in UnusedLinks(switch.to), switch' = [switch EXCEPT !.at = "swap", !.link = k], live' = live \cup {k}
      PROVE  LinkInv'
  <2>1. switch' = [at |-> "swap", to |-> switch.to, link |-> k]
    BY Zenon, <1>2 DEF LinkInv
  <2>2. k # NoLink
    BY Zenon, LinksAre DEF UnusedLinks
  <2> QED
    BY Zenon, <1>1, <1>2, <2>1, <2>2 DEF LinkInv, NoLinkLost, Dial
<1>3. CASE switch' = NoSwitch /\ UNCHANGED live
  BY Zenon, <1>1, <1>3 DEF LinkInv, NoLinkLost, NoSwitch, Dial
<1> QED
  BY Zenon, <1>2, <1>3 DEF Dial

\* Only the dial, the swap and the closes touch connections.
LEMMA StepKeepsLinks == LinkInv /\ [StandaloneNext]_standaloneVars => LinkInv'
<1> SUFFICES ASSUME LinkInv, [StandaloneNext]_standaloneVars
             PROVE  LinkInv'
  BY Zenon
<1>1. CASE UNCHANGED <<primary, live, old, switch>>
  BY Zenon, <1>1 DEF LinkInv, NoLinkLost
<1>2. CASE SwapPrimary
  BY Zenon, <1>2 DEF SwapPrimary, LinkInv, NoLinkLost, NoSwitch
<1>3. ASSUME NEW c \in Callers, HandleRedirect(c)
      PROVE  LinkInv'
  BY Zenon, <1>3 DEF HandleRedirect, LinkInv, NoLinkLost, NoSwitch
<1>4. ASSUME NEW k \in Links, CloseOld(k)
      PROVE  LinkInv'
  BY Zenon, <1>4 DEF CloseOld, LinkInv, NoLinkLost
<1>5. CASE CloseStandalone
  BY Zenon, <1>5 DEF CloseStandalone, LinkInv, NoLinkLost
<1> QED
  BY Zenon, <1>1, <1>2, <1>3, <1>4, <1>5, DialKeeps
     DEF StandaloneNext, standaloneVars, CallerStep, Move, StandaloneDo, SendPrimary, Answer, StopsJoining

\* However many commands are redirected to however many hosts, at once or late: a connection that
\* is open is the primary, becomes it next, or is about to be closed.
THEOREM LinksKept == StandaloneSpec => []NoLinkLost
<1>1. StandaloneSpec => []LinkInv
  BY InitLinks, StepKeepsLinks, PTL DEF StandaloneSpec
<1>2. LinkInv => NoLinkLost
  BY Zenon DEF LinkInv
<1> QED
  BY <1>1, <1>2, PTL

-----------------------------------------------------------------------------
(* Aside: what is stored is not older than the last Del, and who loads is alone. *)

\* A call of Get has all its fields, whatever is in them.
IsGet(r) == DOMAIN r = {"pc", "id", "val", "waits", "woken"}

\* The steps of populate, from the flight to its end, and those that have an id.
Populates(g) == get[g].pc \in {"keepalive", "lock", "load", "set", "cleanup"}
HasId(g) == get[g].pc \in {"lock", "load", "set", "cleanup"}

AsideTypes ==
    /\ DOMAIN get = Getters /\ \A g \in Getters : IsGet(get[g])
    /\ DOMAIN flights = AsideClients /\ DOMAIN cid = AsideClients
    /\ ids \in [AsideClients -> Nat]
    /\ version \in Nat /\ floor \in Nat /\ floor <= version

OwnIds == \A p \in AsideClients : cid[p] # NoId => cid[p] \in Ids /\ cid[p][1] = p
FlightsAlone == \A g \in Getters : Populates(g) => flights[Home[g]] = g
IdsOfHome == \A g \in Getters : HasId(g) => get[g].id \in Ids /\ get[g].id[1] = Home[g]
LoadedIsFresh ==
    \A g \in Getters : get[g].pc = "set" => \E v \in Nat : get[g].val = Value(v) /\ (Mine(g) => v >= floor)
StoredIsFresh ==
    store = Nil \/ (\E i \in Ids : store = Placeholder(i)) \/ (\E v \in Nat : store = Value(v) /\ v >= floor)

\* One goroutine of a client populates at a time, and its id is one of its client; so nobody but
\* itself can put its placeholder again once a Del removed it.
AsideInv == AsideTypes /\ OwnIds /\ FlightsAlone /\ IdsOfHome /\ LoadedIsFresh /\ StoredIsFresh

\* A new client has nothing.
LEMMA InitAside == AsideInit => AsideInv
<1> SUFFICES ASSUME AsideInit
             PROVE  AsideInv
  BY Zenon
<1>1. \A g \in Getters : get[g] = Idle
  BY Zenon DEF AsideInit
<1>2. IsGet(Idle) /\ Idle.pc = "idle"
  BY Zenon DEF IsGet, Idle
<1>3. AsideTypes
  BY <1>1, <1>2 DEF AsideInit, AsideTypes
<1> QED
  BY Zenon, <1>1, <1>2, <1>3
     DEF AsideInit, AsideInv, OwnIds, FlightsAlone, IdsOfHome, LoadedIsFresh, StoredIsFresh, Populates, HasId

\* A nil, a value and a placeholder differ, and placeholders with different ids do.
LEMMA StoredKinds ==
    /\ \A v, i : Value(v) # Placeholder(i) /\ Value(v) # Nil /\ Placeholder(i) # Nil
    /\ \A v, w : Value(v) = Value(w) => v = w
    /\ \A i, j : Placeholder(i) = Placeholder(j) => i = j
  BY Zenon DEF Value, Placeholder, Nil

\* The goroutines of a client that populate are one.
LEMMA PopulatesAlone ==
    ASSUME AsideInv, NEW g \in Getters, NEW h \in Getters, HasId(g), HasId(h), get[g].id = get[h].id
    PROVE  g = h
<1>1. Home[g] = Home[h]
  BY Zenon DEF AsideInv, IdsOfHome
<1>2. Populates(g) /\ Populates(h)
  BY Zenon DEF HasId, Populates
<1> QED
  BY Zenon, <1>1, <1>2 DEF AsideInv, FlightsAlone

\* The server, its clock and the connections: the key changes only to nil, and Woken changes
\* nothing of a call but that it wakes up.
LEMMA WokenIs ==
    ASSUME AsideInv, NEW p \in AsideClients, NEW S
    PROVE  /\ DOMAIN Woken(p, S) = Getters
           /\ \A g \in Getters : IsGet(Woken(p, S)[g]) /\ Woken(p, S)[g].pc = get[g].pc
                                 /\ Woken(p, S)[g].id = get[g].id /\ Woken(p, S)[g].val = get[g].val
<1> SUFFICES ASSUME NEW g \in Getters
             PROVE  IsGet(Woken(p, S)[g]) /\ Woken(p, S)[g].pc = get[g].pc
                    /\ Woken(p, S)[g].id = get[g].id /\ Woken(p, S)[g].val = get[g].val
  BY Zenon DEF Woken
<1>1. PICK q : q = [get[g] EXCEPT !.woken = TRUE]
  BY Zenon
<1>2. IsGet(q) /\ q.pc = get[g].pc /\ q.id = get[g].id /\ q.val = get[g].val
  BY Zenon, <1>1 DEF AsideInv, AsideTypes, IsGet
<1> QED
  BY Zenon, <1>1, <1>2 DEF Woken, AsideInv, AsideTypes

\* The key and the calls of Get stay, or their goroutines only wake up; a client may forget its id.
LEMMA WakingKeeps ==
    ASSUME AsideInv, DOMAIN get' = Getters, UNCHANGED <<store, ids, flights, version, floor>>,
           \A g \in Getters : IsGet(get'[g]) /\ get'[g].pc = get[g].pc /\ get'[g].id = get[g].id
                                 /\ get'[g].val = get[g].val,
           DOMAIN cid' = AsideClients, \A p \in AsideClients : cid'[p] = cid[p] \/ cid'[p] = NoId
    PROVE  AsideInv'
  BY DEF AsideInv, AsideTypes, OwnIds, FlightsAlone, IdsOfHome, LoadedIsFresh, StoredIsFresh, Populates, HasId, Mine

\* The key is deleted, by Del or by its TTL.
LEMMA EmptyKeeps ==
    ASSUME AsideInv, store' = Nil, UNCHANGED <<get, cid, ids, flights, version>>, floor' \in {floor, version}
    PROVE  AsideInv'
<1>1. \A g \in Getters : ~Mine(g)'
  BY Zenon, StoredKinds DEF Mine
<1>2. AsideTypes'
  BY DEF AsideInv, AsideTypes
<1> QED
  BY Zenon, <1>1, <1>2 DEF AsideInv, OwnIds, FlightsAlone, IdsOfHome, LoadedIsFresh, StoredIsFresh, Populates, HasId

\* Steps of the server and of the connections.
LEMMA ServerKeeps ==
    ASSUME AsideInv,
           \/ \E p \in AsideClients : RefreshMarker(p) \/ Lost(p) \/ CloseAside(p) \/ Crash(p)
           \/ \E p \in AsideClients, x \in Items : Invalidate(p, x)
           \/ \E i \in Ids : MarkerGone(i)
           \/ Write \/ Del \/ KeyExpires \/ LeftoverExpires
    PROVE  AsideInv'
<1>1. ASSUME NEW p \in AsideClients, RefreshMarker(p)
      PROVE  AsideInv'
  BY Zenon, <1>1, WakingKeeps DEF RefreshMarker, client, AsideInv, AsideTypes
<1>2. ASSUME NEW p \in AsideClients, Lost(p)
      PROVE  AsideInv'
  BY <1>2, WakingKeeps, WokenIs DEF Lost, Forgets, AsideInv, AsideTypes
<1>3. ASSUME NEW p \in AsideClients, CloseAside(p)
      PROVE  AsideInv'
  BY <1>3, WakingKeeps, WokenIs DEF CloseAside, AsideInv, AsideTypes
<1>4. ASSUME NEW p \in AsideClients, Crash(p)
      PROVE  AsideInv'
  <2>1. \A g \in Getters : get'[g] = IF Home[g] = p THEN Idle ELSE get[g]
    BY Zenon, <1>4 DEF Crash
  <2>2. IsGet(Idle) /\ Idle.pc = "idle"
    BY Zenon DEF IsGet, Idle
  <2>3. /\ UNCHANGED <<store, ids, version, floor>>
        /\ DOMAIN cid' = AsideClients /\ \A q \in AsideClients : cid'[q] = cid[q] \/ cid'[q] = NoId
        /\ DOMAIN flights' = AsideClients /\ \A q \in AsideClients : q # p => flights'[q] = flights[q]
    BY Zenon, <1>4 DEF Crash, Forgets, AsideInv, AsideTypes
  <2>4. AsideTypes'
    BY Zenon, <1>4, <2>1, <2>2, <2>3 DEF AsideInv, AsideTypes, Crash
  <2> QED
    BY <2>1, <2>2, <2>3, <2>4, AsideAssumption
       DEF AsideInv, OwnIds, FlightsAlone, IdsOfHome, LoadedIsFresh, StoredIsFresh, Populates, HasId, Mine
<1>5. ASSUME NEW p \in AsideClients, NEW x \in Items, Invalidate(p, x)
      PROVE  AsideInv'
  BY <1>5, WakingKeeps, WokenIs DEF Invalidate, AsideInv, AsideTypes
<1>6. ASSUME NEW i \in Ids, MarkerGone(i)
      PROVE  AsideInv'
  BY Zenon, <1>6, WakingKeeps DEF MarkerGone, client, AsideInv, AsideTypes
<1>7. CASE Write
  BY <1>7 DEF Write, client, server, AsideInv, AsideTypes, OwnIds, FlightsAlone, IdsOfHome, LoadedIsFresh,
              StoredIsFresh, Populates, HasId, Mine
<1>8. CASE Del
  BY Zenon, <1>8, EmptyKeeps DEF Del, client, Put
<1>9. CASE KeyExpires \/ LeftoverExpires
  BY Zenon, <1>9, EmptyKeeps DEF KeyExpires, LeftoverExpires, client, Put
<1> QED
  BY Zenon, <1>1, <1>2, <1>3, <1>4, <1>5, <1>6, <1>7, <1>8, <1>9

-----------------------------------------------------------------------------
(* Aside: the steps of one call of Get *)

\* What a step of one goroutine may do: it ends or keeps the flight of its client, lets those who
\* joined it go on, and puts nothing under the key that another goroutine takes for its own.
LEMMA GetKeeps ==
    ASSUME AsideInv, NEW g \in Getters,
           DOMAIN get' = Getters, \A h \in Getters : IsGet(get'[h]),
           \A h \in Getters \ {g} : get'[h] = get[h] \/ get'[h].pc = "register",
           UNCHANGED <<version, floor>>,
           DOMAIN cid' = AsideClients, ids' \in [AsideClients -> Nat], OwnIds',
           DOMAIN flights' = AsideClients, \A p \in AsideClients \ {Home[g]} : flights'[p] = flights[p],
           UNCHANGED flights \/ flights[Home[g]] \in {"none", g},
           Populates(g)' => flights'[Home[g]] = g,
           HasId(g)' => get'[g].id \in Ids /\ get'[g].id[1] = Home[g],
           get'[g].pc = "set" => \E v \in Nat : get'[g].val = Value(v) /\ (Mine(g)' => v >= floor),
           UNCHANGED store \/ \A h \in Getters \ {g} : HasId(h) => store' # Placeholder(get[h].id),
           StoredIsFresh'
    PROVE  AsideInv'
<1>1. AsideTypes'
  BY Zenon DEF AsideInv, AsideTypes
<1>2. FlightsAlone'
  BY Zenon, AsideAssumption DEF AsideInv, AsideTypes, FlightsAlone, Populates
<1>3. IdsOfHome'
  BY DEF AsideInv, IdsOfHome, HasId
<1>4. LoadedIsFresh'
  <2> SUFFICES ASSUME NEW h \in Getters, get'[h].pc = "set"
               PROVE  \E v \in Nat : get'[h].val = Value(v) /\ (Mine(h)' => v >= floor')
    BY Zenon DEF LoadedIsFresh
  <2>1. CASE h = g
    BY Zenon, <2>1
  <2>2. CASE h # g
    <3>1. get'[h] = get[h] /\ HasId(h)
      BY Zenon, <2>2 DEF HasId
    <3>2. PICK v \in Nat : get[h].val = Value(v) /\ (Mine(h) => v >= floor)
      BY Zenon, <3>1 DEF AsideInv, LoadedIsFresh
    <3>3. Mine(h)' => Mine(h)
      BY Zenon, <2>2, <3>1 DEF Mine
    <3> QED
      BY Zenon, <3>1, <3>2, <3>3
  <2> QED
    BY Zenon, <2>1, <2>2
<1> QED
  BY Zenon, <1>1, <1>2, <1>3, <1>4 DEF AsideInv

\* What GetAt and GetReturns do with the calls.
LEMMA GetAtIs ==
    ASSUME AsideInv, NEW g \in Getters, NEW l, GetAt(g, l)
    PROVE  /\ DOMAIN get' = Getters /\ \A h \in Getters : IsGet(get'[h])
           /\ \A h \in Getters \ {g} : get'[h] = get[h]
           /\ get'[g].pc = l /\ get'[g].id = get[g].id /\ get'[g].val = get[g].val
<1>1. PICK q : q = [get[g] EXCEPT !.pc = l]
  BY Zenon
<1>2. IsGet(q) /\ q.pc = l /\ q.id = get[g].id /\ q.val = get[g].val
  BY Zenon, <1>1 DEF AsideInv, AsideTypes, IsGet
<1>3. get' = [get EXCEPT ![g] = q]
  BY Zenon, <1>1 DEF GetAt
<1> QED
  BY Zenon, <1>2, <1>3 DEF AsideInv, AsideTypes

\* What FinishFlight does with the flights and the calls.
LEMMA FinishFlightIs ==
    ASSUME AsideInv, NEW g \in Getters, NEW next, IsGet(next), FinishFlight(g, next)
    PROVE  /\ DOMAIN get' = Getters /\ \A h \in Getters : IsGet(get'[h])
           /\ \A h \in Getters \ {g} : get'[h] = get[h] \/ get'[h].pc = "register"
           /\ get'[g] = next
           /\ DOMAIN flights' = AsideClients /\ \A p \in AsideClients \ {Home[g]} : flights'[p] = flights[p]
<1>1. DOMAIN get' = Getters /\ get'[g] = next
  BY Zenon DEF FinishFlight
<1>2. ASSUME NEW h \in Getters \ {g}
      PROVE  IsGet(get'[h]) /\ (get'[h] = get[h] \/ get'[h].pc = "register")
  <2>1. PICK q : q = [get[h] EXCEPT !.pc = "register"]
    BY Zenon
  <2>2. IsGet(q) /\ q.pc = "register"
    BY Zenon, <2>1 DEF AsideInv, AsideTypes, IsGet
  <2>3. get'[h] = q \/ get'[h] = get[h]
    BY Zenon, <2>1 DEF FinishFlight
  <2> QED
    BY Zenon, <2>2, <2>3 DEF AsideInv, AsideTypes
<1> QED
  BY Zenon, <1>1, <1>2 DEF FinishFlight, AsideInv, AsideTypes

\* A step of a call that neither populates before nor after.
LEMMA AwayKeeps ==
    ASSUME AsideInv, NEW g \in Getters, DOMAIN get' = Getters, IsGet(get'[g]),
           \A h \in Getters \ {g} : get'[h] = get[h],
           UNCHANGED <<store, cid, ids, flights, version, floor>>, ~Populates(g)'
    PROVE  AsideInv'
<1>1. \A h \in Getters : IsGet(get'[h])
  BY Zenon DEF AsideInv, AsideTypes
<1>2. ~HasId(g)' /\ get'[g].pc # "set"
  BY Zenon DEF HasId, Populates
<1>3. OwnIds' /\ StoredIsFresh'
  BY Zenon DEF AsideInv, OwnIds, StoredIsFresh
<1> QED
  BY Zenon, <1>1, <1>2, <1>3, GetKeeps DEF AsideInv, AsideTypes

\* Get outside populate: the key may be deleted by whoever finds its client gone.
LEMMA OutsideKeeps ==
    ASSUME AsideInv, NEW g \in Getters,
           \/ Call(g) \/ Register(g) \/ Read(g) \/ JoinEnds(g) \/ RegisterMarker(g) \/ CheckMarker(g)
           \/ Release(g) \/ Wait(g)
    PROVE  AsideInv'
<1> USE DEF server, client
<1>1. IsGet(Idle) /\ Idle.pc = "idle"
  BY Zenon DEF IsGet, Idle
<1>2. ASSUME GetReturns(g), UNCHANGED <<store, cid, ids, flights, version, floor>>
      PROVE  AsideInv'
  <2>1. get' = [get EXCEPT ![g] = Idle]
    BY Zenon, <1>2 DEF GetReturns
  <2> QED
    BY Zenon, <1>1, <1>2, <2>1, AwayKeeps DEF AsideInv, AsideTypes, Populates
<1>3. ASSUME NEW l \in {"register", "release", "wait"}, GetAt(g, l),
             UNCHANGED <<store, cid, ids, flights, version, floor>>
      PROVE  AsideInv'
  BY Zenon, <1>3, GetAtIs, AwayKeeps DEF Populates
<1>4. CASE Call(g)
  BY Zenon, <1>3, <1>4 DEF Call
<1>5. CASE Register(g)
  <2>1. PICK q : q = [Idle EXCEPT !.pc = "read", !.waits = {Key}]
    BY Zenon
  <2>2. IsGet(q) /\ q.pc = "read"
    BY Zenon, <1>1, <2>1 DEF IsGet
  <2>3. get' = [get EXCEPT ![g] = q]
    BY Zenon, <1>5, <2>1 DEF Register
  <2> QED
    BY Zenon, <1>5, <2>2, <2>3, AwayKeeps DEF AsideInv, AsideTypes, Populates, Register
<1>6. CASE Read(g)
  <2>1. CASE GetReturns(g)
    BY Zenon, <1>2, <1>6, <2>1 DEF Read
  <2>2. CASE ~GetReturns(g)
    <3>1. PICK v : get' = [get EXCEPT ![g] = IF v.kind = "value" THEN Idle
                       ELSE [get[g] EXCEPT !.pc = IF v = Nil THEN "flight" ELSE "placeholder", !.val = v]]
      BY Zenon, <1>6, <2>2 DEF Read
    <3>2. PICK l : l = IF v = Nil THEN "flight" ELSE "placeholder"
      BY Zenon
    <3>3. PICK q : q = [get[g] EXCEPT !.pc = l, !.val = v]
      BY Zenon
    <3>4. IsGet(q) /\ q.pc = l
      BY Zenon, <3>3 DEF AsideInv, AsideTypes, IsGet
    <3>5. get' = [get EXCEPT ![g] = Idle] \/ get' = [get EXCEPT ![g] = q]
      BY Zenon, <3>1, <3>2, <3>3
    <3> QED
      BY Zenon, <1>1, <1>6, <3>2, <3>4, <3>5, AwayKeeps DEF AsideInv, AsideTypes, Populates, Read
  <2> QED
    BY Zenon, <2>1, <2>2
<1>7. CASE JoinEnds(g)
  BY Zenon, <1>2, <1>7 DEF JoinEnds
<1>8. CASE RegisterMarker(g)
  <2>1. PICK q : q = [get[g] EXCEPT !.pc = "marker", !.waits = get[g].waits \cup {get[g].val.of}]
    BY Zenon
  <2>2. IsGet(q) /\ q.pc = "marker"
    BY Zenon, <2>1 DEF AsideInv, AsideTypes, IsGet
  <2>3. get' = [get EXCEPT ![g] = q]
    BY Zenon, <1>8, <2>1 DEF RegisterMarker, AsideInv, AsideTypes, IsGet
  <2> QED
    BY <1>8, <2>2, <2>3, AwayKeeps DEF AsideInv, AsideTypes, Populates, RegisterMarker
<1>9. CASE CheckMarker(g)
  <2>1. CASE GetReturns(g)
    BY Zenon, <1>2, <1>9, <2>1 DEF CheckMarker
  <2>2. CASE ~GetReturns(g)
    <3>1. PICK l \in {"release", "wait"} : GetAt(g, l)
      BY Zenon, <1>9, <2>2 DEF CheckMarker
    <3> QED
      BY Zenon, <1>3, <1>9, <3>1 DEF CheckMarker
  <2> QED
    BY Zenon, <2>1, <2>2
<1>10. CASE Release(g)
  <2>1. CASE UNCHANGED store
    BY Zenon, <1>3, <1>10, <2>1 DEF Release
  <2>2. CASE store' = Nil
    <3>1. /\ DOMAIN get' = Getters /\ \A h \in Getters : IsGet(get'[h])
          /\ \A h \in Getters \ {g} : get'[h] = get[h]
          /\ get'[g].pc = "register"
      BY Zenon, <1>10, GetAtIs DEF Release
    <3>2. UNCHANGED <<cid, ids, flights, version, floor>>
      BY Zenon, <1>10 DEF Release
    <3>3. ~Populates(g)' /\ ~HasId(g)' /\ OwnIds' /\ StoredIsFresh'
      BY Zenon, <2>2, <3>1, <3>2 DEF Populates, HasId, AsideInv, OwnIds, StoredIsFresh
    <3>4. \A i : store' # Placeholder(i)
      BY Zenon, <2>2, StoredKinds
    <3> QED
      BY Zenon, <3>1, <3>2, <3>3, <3>4, GetKeeps DEF AsideInv, AsideTypes
  <2> QED
    BY Zenon, <1>10, <2>1, <2>2 DEF Release, Put
<1>11. CASE Wait(g)
  BY Zenon, <1>2, <1>3, <1>11 DEF Wait
<1> QED
  BY Zenon, <1>4, <1>5, <1>6, <1>7, <1>8, <1>9, <1>10, <1>11

\* A step of populate that moves on within it, and leaves the key, or puts the own placeholder
\* or what was loaded after the last Del.
LEMMA WithinKeeps ==
    ASSUME AsideInv, NEW g \in Getters, HasId(g), NEW l \in {"load", "cleanup"}, GetAt(g, l),
           UNCHANGED <<cid, ids, flights, version, floor>>,
           UNCHANGED store \/ store' = Placeholder(get[g].id) \/ \E v \in Nat : store' = Value(v) /\ v >= floor
    PROVE  AsideInv'
<1>1. /\ DOMAIN get' = Getters /\ \A h \in Getters : IsGet(get'[h])
      /\ \A h \in Getters \ {g} : get'[h] = get[h]
      /\ get'[g].pc = l /\ get'[g].id = get[g].id
  BY Zenon, GetAtIs
<1>2. get[g].id \in Ids /\ get[g].id[1] = Home[g] /\ flights[Home[g]] = g
  BY Zenon DEF AsideInv, IdsOfHome, FlightsAlone, HasId, Populates
<1>3. OwnIds' /\ StoredIsFresh'
  BY Zenon, <1>2 DEF AsideInv, OwnIds, StoredIsFresh
<1>4. UNCHANGED store \/ \A h \in Getters \ {g} : HasId(h) => store' # Placeholder(get[h].id)
  BY Zenon, PopulatesAlone, StoredKinds
<1> QED
  BY Zenon, <1>1, <1>2, <1>3, <1>4, GetKeeps DEF AsideInv, AsideTypes

\* The end of populate, with the key as it was, empty, or with what was loaded after the last Del.
LEMMA EndKeeps ==
    ASSUME AsideInv, NEW g \in Getters, Populates(g), NEW next, IsGet(next), next.pc \in {"idle", "placeholder"},
           FinishFlight(g, next), UNCHANGED <<cid, ids, version, floor>>,
           UNCHANGED store \/ store' = Nil \/ \E v \in Nat : store' = Value(v) /\ v >= floor
    PROVE  AsideInv'
<1>1. /\ DOMAIN get' = Getters /\ \A h \in Getters : IsGet(get'[h])
      /\ \A h \in Getters \ {g} : get'[h] = get[h] \/ get'[h].pc = "register"
      /\ get'[g] = next
      /\ DOMAIN flights' = AsideClients /\ \A p \in AsideClients \ {Home[g]} : flights'[p] = flights[p]
  BY Zenon, FinishFlightIs
<1>2. flights[Home[g]] = g
  BY Zenon DEF AsideInv, FlightsAlone
<1>3. ~Populates(g)' /\ ~HasId(g)' /\ get'[g].pc # "set" /\ OwnIds' /\ StoredIsFresh'
  BY Zenon, <1>1 DEF Populates, HasId, AsideInv, OwnIds, StoredIsFresh
<1>4. UNCHANGED store \/ \A h \in Getters \ {g} : HasId(h) => store' # Placeholder(get[h].id)
  BY Zenon, StoredKinds
<1> QED
  BY Zenon, <1>1, <1>2, <1>3, <1>4, GetKeeps DEF AsideInv, AsideTypes

\* beginFlight: the leader has the flight for itself.
LEMMA BeginFlightKeeps ==
    ASSUME AsideInv, NEW g \in Getters, BeginFlight(g)
    PROVE  AsideInv'
<1>1. PICK l \in {"keepalive", "join"} : GetAt(g, l)
  BY Zenon DEF BeginFlight
<1>2. /\ DOMAIN get' = Getters /\ \A h \in Getters : IsGet(get'[h])
      /\ \A h \in Getters \ {g} : get'[h] = get[h]
      /\ get'[g].pc = l
  BY Zenon, <1>1, GetAtIs
<1>3. UNCHANGED <<store, cid, ids, version, floor>>
  BY Zenon DEF BeginFlight, server
<1>4. OwnIds' /\ StoredIsFresh' /\ ~HasId(g)' /\ get'[g].pc # "set"
  BY Zenon, <1>2, <1>3 DEF AsideInv, OwnIds, StoredIsFresh, HasId
<1>5. CASE flights[Home[g]] = "none"
  <2>1. flights' = [flights EXCEPT ![Home[g]] = g]
    BY Zenon, <1>5 DEF BeginFlight
  <2> QED
    BY Zenon, <1>2, <1>3, <1>4, <1>5, <2>1, GetKeeps, AsideAssumption DEF AsideInv, AsideTypes
<1>6. CASE flights[Home[g]] # "none"
  <2>1. UNCHANGED flights /\ GetAt(g, "join")
    BY Zenon, <1>6 DEF BeginFlight
  <2>2. ~Populates(g)'
    BY <2>1, GetAtIs DEF Populates
  <2> QED
    BY Zenon, <1>2, <1>3, <1>4, <2>1, <2>2, GetKeeps DEF AsideInv, AsideTypes
<1> QED
  BY Zenon, <1>5, <1>6

\* keepalive returns an id of the client.
LEMMA KeepAliveKeeps ==
    ASSUME AsideInv, NEW g \in Getters, KeepAlive(g)
    PROVE  AsideInv'
<1>1. Populates(g) /\ flights[Home[g]] = g /\ Home[g] \in AsideClients
  BY Zenon, AsideAssumption DEF KeepAlive, Populates, AsideInv, FlightsAlone
<1>2. CASE FinishFlight(g, Idle) /\ UNCHANGED <<server, cid, ids>>
  <2>1. IsGet(Idle) /\ Idle.pc = "idle"
    BY Zenon DEF IsGet, Idle
  <2> QED
    BY Zenon, <1>1, <1>2, <2>1, EndKeeps DEF KeepAlive, server
<1>3. ASSUME NEW i \in Ids, i[1] = Home[g], get' = [get EXCEPT ![g].pc = "lock", ![g].id = i],
             UNCHANGED <<store, flights, version, floor>>,
             DOMAIN cid' = AsideClients, ids' \in [AsideClients -> Nat], OwnIds'
      PROVE  AsideInv'
  <2>1. PICK q : q = [get[g] EXCEPT !.pc = "lock", !.id = i]
    BY Zenon
  <2>2. IsGet(q) /\ q.pc = "lock" /\ q.id = i
    BY Zenon, <2>1 DEF AsideInv, AsideTypes, IsGet
  <2>3. get' = [get EXCEPT ![g] = q]
    BY Zenon, <1>3, <2>1 DEF AsideInv, AsideTypes
  <2>4. DOMAIN get' = Getters /\ (\A h \in Getters : IsGet(get'[h])) /\ get'[g] = q
    BY Zenon, <2>2, <2>3 DEF AsideInv, AsideTypes
  <2>5. StoredIsFresh'
    BY Zenon, <1>3 DEF AsideInv, StoredIsFresh
  <2> QED
    BY Zenon, <1>1, <1>3, <2>2, <2>3, <2>4, <2>5, GetKeeps DEF AsideInv, AsideTypes
<1>4. CASE cid[Home[g]] # NoId
  <2>1. cid[Home[g]] \in Ids /\ cid[Home[g]][1] = Home[g]
    BY Zenon, <1>1, <1>4 DEF AsideInv, OwnIds
  <2> QED
    BY Zenon, <1>2, <1>3, <1>4, <2>1 DEF KeepAlive, server, AsideInv, AsideTypes, OwnIds
<1>5. CASE cid[Home[g]] = NoId
  <2> DEFINE i == <<Home[g], ids[Home[g]] + 1>>
  <2>1. ASSUME ids[Home[g]] < MaxIds,
               cid' = [cid EXCEPT ![Home[g]] = i], ids' = [ids EXCEPT ![Home[g]] = ids[Home[g]] + 1]
        PROVE  i \in Ids /\ i[1] = Home[g] /\ DOMAIN cid' = AsideClients /\ ids' \in [AsideClients -> Nat] /\ OwnIds'
    <3>1. i \in Ids /\ i[1] = Home[g]
      BY <1>1, <2>1, AsideAssumption DEF Ids, AsideInv, AsideTypes
    <3> HIDE DEF i
    <3> QED
      BY <1>1, <2>1, <3>1 DEF AsideInv, AsideTypes, OwnIds
  <2>2. CASE FinishFlight(g, Idle) /\ UNCHANGED <<server, cid, ids>>
    BY Zenon, <1>2, <2>2
  <2>3. CASE ~(FinishFlight(g, Idle) /\ UNCHANGED <<server, cid, ids>>)
    <3>1. /\ ids[Home[g]] < MaxIds
          /\ cid' = [cid EXCEPT ![Home[g]] = i] /\ ids' = [ids EXCEPT ![Home[g]] = ids[Home[g]] + 1]
          /\ get' = [get EXCEPT ![g].pc = "lock", ![g].id = i]
          /\ UNCHANGED <<store, flights, version, floor>>
      BY Zenon, <1>5, <2>3 DEF KeepAlive
    <3> QED
      BY Zenon, <1>3, <2>1, <3>1
  <2> QED
    BY Zenon, <2>2, <2>3
<1> QED
  BY Zenon, <1>4, <1>5

\* SET NX GET, fn, setkey and delkey: setkey stores what is newer than the last Del, because the
\* placeholder that it replaces was there all the time.
LEMMA PopulateKeeps ==
    ASSUME AsideInv, NEW g \in Getters, Lock(g) \/ Load(g) \/ Set(g) \/ Cleanup(g)
    PROVE  AsideInv'
<1> USE DEF server, client
<1>1. HasId(g) /\ Populates(g) /\ UNCHANGED <<cid, ids, version, floor>>
  BY Zenon DEF Lock, Load, Set, Cleanup, HasId, Populates
<1>2. IsGet(Idle) /\ Idle.pc = "idle"
  BY Zenon DEF IsGet, Idle
<1>3. CASE Lock(g)
  <2>1. ASSUME NEW l \in {"load", "cleanup"}, GetAt(g, l), UNCHANGED flights
        PROVE  AsideInv'
    <3>1. UNCHANGED store \/ store' = Placeholder(get[g].id)
      BY Zenon, <1>3 DEF Lock, Put
    <3> QED
      BY Zenon, <1>1, <2>1, <3>1, WithinKeeps
  <2>2. ASSUME NEW next, FinishFlight(g, next), UNCHANGED store,
               next = IF store.kind = "value" THEN Idle ELSE [get[g] EXCEPT !.pc = "placeholder", !.val = store]
        PROVE  AsideInv'
    <3>1. PICK q : q = [get[g] EXCEPT !.pc = "placeholder", !.val = store]
      BY Zenon
    <3>2. IsGet(q) /\ q.pc = "placeholder"
      BY Zenon, <3>1 DEF AsideInv, AsideTypes, IsGet
    <3>3. next = Idle \/ next = q
      BY Zenon, <2>2, <3>1
    <3>4. IsGet(next) /\ next.pc \in {"idle", "placeholder"}
      BY Zenon, <1>2, <3>2, <3>3
    <3> QED
      BY Zenon, <1>1, <2>2, <3>4, EndKeeps
  <2>3. \/ (GetAt(g, "load") \/ GetAt(g, "cleanup")) /\ UNCHANGED flights
        \/ UNCHANGED store /\ FinishFlight(g, IF store.kind = "value" THEN Idle
                                              ELSE [get[g] EXCEPT !.pc = "placeholder", !.val = store])
    BY Zenon, <1>3 DEF Lock
  <2> QED
    BY Zenon, <2>1, <2>2, <2>3
<1>4. CASE Load(g)
  <2>1. CASE GetAt(g, "cleanup")
    BY Zenon, <1>1, <1>4, <2>1, WithinKeeps DEF Load
  <2>2. CASE get' = [get EXCEPT ![g].pc = "set", ![g].val = Value(version)]
    <3>1. PICK q : q = [get[g] EXCEPT !.pc = "set", !.val = Value(version)]
      BY Zenon
    <3>2. IsGet(q) /\ q.pc = "set" /\ q.val = Value(version) /\ q.id = get[g].id
      BY Zenon, <3>1 DEF AsideInv, AsideTypes, IsGet
    <3>3. get' = [get EXCEPT ![g] = q]
      BY Zenon, <2>2, <3>1 DEF AsideInv, AsideTypes
    <3>4. /\ DOMAIN get' = Getters /\ \A h \in Getters : IsGet(get'[h])
          /\ \A h \in Getters \ {g} : get'[h] = get[h]
          /\ get'[g] = q
      BY Zenon, <3>2, <3>3 DEF AsideInv, AsideTypes
    <3>5. UNCHANGED <<store, flights>>
      BY Zenon, <1>4 DEF Load
    <3>6. OwnIds' /\ StoredIsFresh'
      BY Zenon, <1>1, <3>5 DEF AsideInv, OwnIds, StoredIsFresh
    <3>7. get[g].id \in Ids /\ get[g].id[1] = Home[g] /\ flights[Home[g]] = g
      BY Zenon, <1>1 DEF AsideInv, IdsOfHome, FlightsAlone
    <3>8. \E v \in Nat : get'[g].val = Value(v) /\ (Mine(g)' => v >= floor)
      BY Zenon, <3>2, <3>4 DEF AsideInv, AsideTypes
    <3> QED
      BY Zenon, <1>1, <3>2, <3>4, <3>5, <3>6, <3>7, <3>8, GetKeeps DEF AsideInv, AsideTypes
  <2> QED
    BY Zenon, <1>4, <2>1, <2>2 DEF Load
<1>5. CASE Set(g)
  <2>1. UNCHANGED store \/ \E v \in Nat : store' = Value(v) /\ v >= floor
    BY Zenon, <1>5 DEF Set, Put, AsideInv, LoadedIsFresh
  <2>2. FinishFlight(g, Idle) \/ (GetAt(g, "cleanup") /\ UNCHANGED flights)
    BY Zenon, <1>5 DEF Set
  <2> QED
    BY Zenon, <1>1, <1>2, <2>1, <2>2, EndKeeps, WithinKeeps
<1>6. CASE Cleanup(g)
  <2>1. UNCHANGED store \/ store' = Nil
    BY Zenon, <1>6 DEF Cleanup, Put
  <2> QED
    BY Zenon, <1>1, <1>2, <1>6, <2>1, EndKeeps DEF Cleanup
<1> QED
  BY Zenon, <1>3, <1>4, <1>5, <1>6

\* Every step of a goroutine, of the server and of the connections.
LEMMA StepKeepsAside == AsideInv /\ [AsideNext]_asideVars => AsideInv'
<1> SUFFICES ASSUME AsideInv, [AsideNext]_asideVars
             PROVE  AsideInv'
  BY Zenon
<1>1. CASE UNCHANGED asideVars
  BY Zenon, <1>1 DEF asideVars, AsideInv, AsideTypes, OwnIds, FlightsAlone, IdsOfHome, LoadedIsFresh, StoredIsFresh,
              Populates, HasId, Mine
<1>2. CASE \E g \in Getters : Call(g) \/ GetStep(g)
  BY Zenon, <1>2, OutsideKeeps, BeginFlightKeeps, KeepAliveKeeps, PopulateKeeps DEF GetStep
<1> QED
  BY Zenon, <1>1, <1>2, ServerKeeps DEF AsideNext

\* The invariant of the cache-aside client holds in every behaviour.
LEMMA AsideHolds == AsideSpec => []AsideInv
  BY InitAside, StepKeepsAside, PTL DEF AsideSpec

\* Whatever goroutines load, write, delete, fail, crash and expire: data that was loaded before a Del
\* is never under the key after it.
THEOREM StoredAfterDel == AsideSpec => []NoStaleValue
<1>1. AsideInv => NoStaleValue
  BY DEF AsideInv, StoredIsFresh, NoStaleValue, Nil, Placeholder, Value
<1> QED
  BY <1>1, AsideHolds, PTL

\* However many goroutines and clients miss the key at once: no two calls of fn are under the same
\* placeholder, although the goroutines of a client share its id.
THEOREM LoadedOnce == AsideSpec => []OneLoader
<1>1. AsideInv => OneLoader
  <2> SUFFICES ASSUME AsideInv, NEW g \in Getters, NEW h \in Getters, g # h,
                      {get[g].pc, get[h].pc} \subseteq {"load", "set"}, Mine(g), Mine(h)
               PROVE  FALSE
    BY Zenon DEF OneLoader
  <2>1. HasId(g) /\ HasId(h) /\ get[g].id = get[h].id
    BY Zenon, StoredKinds DEF Mine, HasId
  <2> QED
    BY Zenon, <2>1, PopulatesAlone
<1> QED
  BY <1>1, AsideHolds, PTL

-----------------------------------------------------------------------------
(* Clients: the components do not disturb each other. *)

\* A behaviour of the clients is one of each of them, the ones that stand still included, with all
\* the fairness of their goroutines.
THEOREM ClientsCompose == ClientsSpec => ClusterSpec /\ StandaloneSpec /\ AsideSpec
<1>1. ClientsInit => ClusterInit /\ StandaloneInit /\ AsideInit
  BY Zenon DEF ClientsInit
<1>2. [ClientsNext]_clientsVars => [ClusterNext]_clusterVars /\ [StandaloneNext]_standaloneVars /\ [AsideNext]_asideVars
  BY Zenon DEF ClientsNext, clientsVars
<1> QED
  BY <1>1, <1>2, PTL DEF ClientsSpec, ClientsFair, ClusterSpec, StandaloneSpec, AsideSpec

\* For any number of goroutines, nodes, hosts, redirections and failovers: an open connection of the
\* cluster client or of the standalone client is in use, about to be, or about to be closed.
THEOREM ConnsAccountedFor == ClientsSpec => []NoConnLost
<1>1. NoClusterConnLost /\ NoLinkLost => NoConnLost
  BY Zenon DEF NoConnLost
<1> QED
  BY <1>1, ClientsCompose, ConnectionsKept, LinksKept, PTL
=============================================================================
