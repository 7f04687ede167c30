------------------------------ MODULE Cluster -------------------------------
(* cluster.go with singleflight.go: the topology refresh, which builds new   *)
(* tables without the lock, against commands that follow MOVED and ASK and   *)
(* install connections of their own (redirectOrNew), and against Close.      *)
EXTENDS Naturals, FiniteSets

CONSTANTS Clients, Slots, Addrs,
          InitAddress,   \* c.opt.InitAddress
          MaxConns,      \* connections of an address at a time
          MaxMoved,      \* MaxMovedRedirections, 0 for no limit
          Scenarios,     \* the servers' slots, and the commands, changes and errors to come
          None

Conns == Addrs \X (1..MaxConns)
AddrOf(k) == k[1]

\* None is a nil, never a connection, an address, a table or a step.
ASSUME ClusterAssumption ==
    /\ MaxConns \in Nat \ {0} /\ MaxMoved \in Nat
    /\ InitAddress \subseteq Addrs
    /\ \A x \in Scenarios : x.owner \in [Slots -> Addrs \cup {None}]
    /\ None \notin Addrs \cup Conns \cup [Addrs -> Conns \cup {None}] \cup {"merge", "tables", "swap", "end"}

VARIABLES conns, wslots,   \* c.conns by address and c.wslots
          state,           \* per connection: "new", "open" or "closed"
          doomed,          \* connections that a goroutine is about to close
          stale,           \* connections whose host name now leads elsewhere
          owner,           \* the servers: the address that serves a slot
          flight,          \* the flight of c.sc and the local tables of _refresh
          do,              \* per client goroutine: its command
          stop,            \* Close: "no", "flag" (c.stop is set), "closed"
          left             \* what is left of the scenario

tables == <<conns, wslots>>
connVars == <<state, doomed>>
serverVars == <<stale, owner>>
clusterVars == <<tables, connVars, serverVars, flight, do, stop, left>>

NoFlight == [at |-> None, lead |-> None, err |-> FALSE, groups |-> None, fresh |-> None]
NoDo == [pc |-> "idle", slot |-> None, cc |-> None, to |-> None, addr |-> None, mode |-> None,
         redirects |-> 0]

Values(f) == {f[x] : x \in DOMAIN f} \ {None}
Known(groups) == Values(groups) \cup InitAddress

\* newClusterClient, after its first refresh.  A slot may have no node yet.
ClusterInit ==
    /\ left \in Scenarios /\ owner = left.owner
    /\ conns = [a \in Addrs |-> IF a \in Known(owner) THEN <<a, 1>> ELSE None]
    /\ wslots = [s \in Slots |-> IF owner[s] = None THEN None ELSE <<owner[s], 1>>]
    /\ state = [k \in Conns |-> IF k \in Values(conns) THEN "open" ELSE "new"]
    /\ doomed = {} /\ stale = {} /\ flight = NoFlight
    /\ do = [c \in Clients |-> NoDo]
    /\ stop = "no"

FreshConns == IF flight.fresh = None THEN {} ELSE Values(flight.fresh)

Referenced ==
    Values(conns) \cup Values(wslots) \cup doomed \cup FreshConns
        \cup UNION {{do[c].cc, do[c].to} : c \in Clients}

\* Identities for connFn: a connection that was closed or never used may be forgotten.
Unused(a) == {k \in Conns \ Referenced : AddrOf(k) = a /\ state[k] # "open"}
NewConn(a) == CHOOSE k \in Unused(a) : TRUE

Reset(S) ==
    /\ state' = [k \in Conns |-> IF k \in S THEN "new" ELSE state[k]]
    /\ stale' = stale \ S

Spend(what) == left[what] > 0 /\ left' = [left EXCEPT ![what] = @ - 1]
Fail == Spend("errors")

Goto(c, l) == do' = [do EXCEPT ![c].pc = l]
Return(c) == do' = [do EXCEPT ![c] = NoDo]

-----------------------------------------------------------------------------
(* call.Do, call.DelayDo and _refresh *)

\* refresh(ctx): join the flight or start one.
Refresh(c) ==
    /\ do[c].pc = "refresh"
    /\ IF flight.at = None
       THEN flight' = [NoFlight EXCEPT !.at = "fetch", !.lead = c] /\ Goto(c, "wait")
       ELSE Goto(c, "wait") /\ UNCHANGED flight
    /\ UNCHANGED <<tables, connVars, serverVars, stop, left>>

\* lazyRefresh: a goroutine that starts after a delay, unless a flight exists.
LazyFlight == IF flight.at = None THEN [NoFlight EXCEPT !.at = "fetch"] ELSE flight

\* The ticker of runClusterTopologyRefreshment, or the close hook of a connection that broke.
Tick ==
    /\ Spend("ticks")
    /\ flight' = LazyFlight
    /\ UNCHANGED <<tables, connVars, serverVars, do, stop>>

\* The context of a call that waits for another's flight is done.
WaitCancelled(c) ==
    /\ do[c].pc = "wait" /\ flight.lead # c /\ Fail
    /\ Return(c)
    /\ UNCHANGED <<tables, connVars, serverVars, flight, stop>>

\* refreshConns: some node returns its view of the slots, or none does.  The nodes agree;
\* a view is old when the slot moves before the tables are swapped.
Fetch ==
    /\ flight.at = "fetch"
    /\ \/ flight' = [flight EXCEPT !.at = "merge", !.groups = owner] /\ UNCHANGED left
       \/ Fail /\ flight' = [flight EXCEPT !.at = "end", !.err = TRUE]
    /\ UNCHANGED <<tables, connVars, serverVars, do, stop>>

\* Under the read lock: keep the connections that exist, new ones for other addresses.
Merge ==
    LET known == Known(flight.groups)
        missing == {a \in known : conns[a] = None} IN
    /\ flight.at = "merge" /\ \A a \in missing : Unused(a) # {}
    /\ flight' = [flight EXCEPT !.at = "tables", !.fresh =
                     [a \in Addrs |-> IF a \in missing THEN NewConn(a)
                                      ELSE IF a \in known THEN conns[a] ELSE None]]
    /\ Reset({NewConn(a) : a \in missing})
    /\ UNCHANGED <<tables, doomed, owner, do, stop, left>>

\* conn.AZ() may connect the new ones.
AZ ==
    /\ flight.at = "tables"
    /\ state' \in {state, [k \in Conns |-> IF k \in FreshConns /\ state[k] = "new"
                                           THEN "open" ELSE state[k]]}
    /\ flight' = [flight EXCEPT !.at = "swap"]
    /\ UNCHANGED <<tables, doomed, serverVars, do, stop, left>>

At(table, a) == IF a = None THEN None ELSE table[a]

SwapBlindly ==
    LET fresh == flight.fresh IN
    /\ flight.at = "swap"
    /\ conns' = fresh
    /\ wslots' = [s \in Slots |-> At(fresh, flight.groups[s])]
    /\ doomed' = doomed \cup {conns[a] : a \in {b \in Addrs : fresh[b] = None /\ conns[b] # None}}
    /\ flight' = [flight EXCEPT !.at = "end"]
    /\ UNCHANGED <<state, serverVars, do, stop, left>>

SwapClosesKept ==
    LET fresh == flight.fresh
        final == [a \in Addrs |-> IF fresh[a] # None /\ conns[a] # None THEN conns[a] ELSE fresh[a]] IN
    /\ flight.at = "swap"
    /\ conns' = final
    /\ wslots' = [s \in Slots |-> At(final, flight.groups[s])]
    /\ doomed' = doomed \cup (Values(conns) \ Values(fresh))
    /\ flight' = [flight EXCEPT !.at = "end"]
    /\ UNCHANGED <<state, serverVars, do, stop, left>>

\* Under the lock: a connection that redirectOrNew installed meanwhile is kept, the one
\* made for it is closed, and so are those whose address is gone.
Swap ==
    LET fresh == flight.fresh
        final == [a \in Addrs |-> IF fresh[a] # None /\ conns[a] # None THEN conns[a] ELSE fresh[a]] IN
    /\ flight.at = "swap"
    /\ conns' = final
    /\ wslots' = [s \in Slots |-> At(final, flight.groups[s])]
    /\ doomed' = doomed \cup ((Values(conns) \cup Values(fresh)) \ Values(final))
    /\ flight' = [flight EXCEPT !.at = "end"]
    /\ UNCHANGED <<state, serverVars, do, stop, left>>

\* After its flight a caller of pick returns the error of the refresh, or picks again.
AfterFlight(d, err) ==
    IF d.pc # "wait" THEN d
    ELSE IF err THEN NoDo
    ELSE [d EXCEPT !.pc = "repick"]

\* call.do: the flight is over; everyone who waits for it gets its error.
EndFlight ==
    /\ flight.at = "end"
    /\ do' = [c \in Clients |-> AfterFlight(do[c], flight.err)]
    /\ flight' = NoFlight
    /\ UNCHANGED <<tables, connVars, serverVars, stop, left>>

-----------------------------------------------------------------------------
(* do *)

Do(c, s) ==
    /\ do[c].pc = "idle" /\ Spend("dos")
    /\ do' = [do EXCEPT ![c] = [@ EXCEPT !.pc = "pick", !.slot = s]]
    /\ UNCHANGED <<tables, connVars, serverVars, flight, stop>>

Picked(c, k) == do' = [do EXCEPT ![c] = [@ EXCEPT !.pc = "send", !.cc = k, !.to = k]]

Pick(c) ==
    LET k == wslots[do[c].slot] IN
    /\ do[c].pc = "pick"
    /\ IF k = None THEN Goto(c, "refresh") ELSE Picked(c, k)
    /\ UNCHANGED <<tables, connVars, serverVars, flight, stop, left>>

\* The second pick: without a connection the error is ErrNoSlot.
PickAgain(c) ==
    LET k == wslots[do[c].slot] IN
    /\ do[c].pc = "repick"
    /\ IF k = None THEN Return(c) ELSE Picked(c, k)
    /\ UNCHANGED <<tables, connVars, serverVars, flight, stop, left>>

Serves(k, s) == k \notin stale /\ owner[s] = AddrOf(k)

\* cc.Do: a closed connection and a network error fail, and so does a slot without a node;
\* a node that does not serve the slot redirects to the one that does.
Send(c) ==
    LET k == do[c].to
        s == do[c].slot IN
    /\ do[c].pc = "send"
    /\ \/ /\ state[k] # "closed"
          /\ state' = [state EXCEPT ![k] = "open"]
          /\ IF owner[s] = None THEN Goto(c, "error")
             ELSE IF Serves(k, s) THEN Return(c)
             ELSE \E m \in {"move", "ask"} :
                     do' = [do EXCEPT ![c] = [@ EXCEPT !.pc = "redirect", !.mode = m, !.addr = owner[s]]]
          /\ UNCHANGED left
       \/ /\ IF state[k] = "closed" THEN UNCHANGED left ELSE Fail
          /\ Goto(c, "error") /\ UNCHANGED state
    /\ UNCHANGED <<tables, doomed, serverVars, flight, stop>>

\* redirects++, which matters only where there is a limit.
Counted(n) == IF MaxMoved > 0 THEN n + 1 ELSE n

\* shouldRefreshRetry for MOVED and ASK; after Close the answer is ErrClosing.
Redirect(c) ==
    /\ do[c].pc = "redirect"
    /\ IF stop # "no" THEN Return(c) /\ UNCHANGED flight
       ELSE /\ flight' = LazyFlight
            /\ IF MaxMoved > 0 /\ do[c].redirects = MaxMoved THEN Return(c)
               ELSE do' = [do EXCEPT ![c] = [@ EXCEPT !.pc = "lookup", !.redirects = Counted(do[c].redirects)]]
    /\ UNCHANGED <<tables, connVars, serverVars, stop, left>>

\* shouldRefreshRetry for another error: a retryable command is sent again.
Retry(c) ==
    /\ do[c].pc = "error"
    /\ IF stop # "no" THEN Return(c) /\ UNCHANGED flight
       ELSE /\ flight' = LazyFlight
            /\ \/ do' = [do EXCEPT ![c] = [NoDo EXCEPT !.pc = "pick", !.slot = do[c].slot,
                                                       !.redirects = do[c].redirects]]
               \/ Return(c)
    /\ UNCHANGED <<tables, connVars, serverVars, stop, left>>

\* redirectOrNew under the read lock.  prev is always the connection that pick returned.
Lookup(c) ==
    LET k == conns[do[c].addr] IN
    /\ do[c].pc = "lookup"
    /\ IF k # None /\ k # do[c].cc THEN do' = [do EXCEPT ![c] = [@ EXCEPT !.pc = "send", !.to = k]]
       ELSE Goto(c, "install")
    /\ UNCHANGED <<tables, connVars, serverVars, flight, stop, left>>

\* redirectOrNew under the lock: a new connection, also in place of the one that redirected.
Install(c) ==
    LET a == do[c].addr
        old == conns[a] IN
    /\ do[c].pc = "install"
    /\ IF old # None /\ old # do[c].cc
       THEN /\ do' = [do EXCEPT ![c] = [@ EXCEPT !.pc = "send", !.to = old]]
            /\ UNCHANGED <<tables, connVars, stale>>
       ELSE /\ Unused(a) # {}
            /\ do' = [do EXCEPT ![c] = [@ EXCEPT !.pc = "send", !.to = NewConn(a)]]
            /\ conns' = [conns EXCEPT ![a] = NewConn(a)]
            /\ wslots' = IF do[c].mode = "move" THEN [wslots EXCEPT ![do[c].slot] = NewConn(a)]
                         ELSE wslots
            /\ Reset({NewConn(a)})
            /\ doomed' = doomed \cup ({old} \ {None})
    /\ UNCHANGED <<owner, flight, stop, left>>

-----------------------------------------------------------------------------
(* The delayed closes, Close, and the servers *)

Reap(k) ==
    /\ k \in doomed
    /\ doomed' = doomed \ {k} /\ state' = [state EXCEPT ![k] = "closed"]
    /\ UNCHANGED <<tables, serverVars, flight, do, stop, left>>

Close ==
    /\ stop = "no"
    /\ stop' = "flag"
    /\ UNCHANGED <<tables, connVars, serverVars, flight, do, left>>

CloseConns ==
    /\ stop = "flag"
    /\ stop' = "closed" /\ doomed' = doomed \cup Values(conns)
    /\ UNCHANGED <<tables, state, serverVars, flight, do, left>>

\* A slot moves, or the host name of an address leads to another node.
Reshard(s, a) ==
    /\ owner[s] # a /\ Spend("changes")
    /\ owner' = [owner EXCEPT ![s] = a]
    /\ UNCHANGED <<tables, connVars, stale, flight, do, stop>>

Rehost(a) ==
    /\ Spend("changes")
    /\ stale' = {k \in Conns : k \in stale \/ (AddrOf(k) = a /\ state[k] = "open")}
    /\ UNCHANGED <<tables, connVars, owner, flight, do, stop>>

-----------------------------------------------------------------------------
Flight == Fetch \/ Merge \/ AZ \/ Swap \/ EndFlight

Client(c) ==
    \/ Refresh(c) \/ Pick(c) \/ PickAgain(c) \/ Send(c) \/ Redirect(c)
    \/ Retry(c) \/ Lookup(c) \/ Install(c)

ClusterNext ==
    \/ \E c \in Clients : Client(c) \/ WaitCancelled(c) \/ \E s \in Slots : Do(c, s)
    \/ Flight \/ Tick
    \/ \E k \in Conns : Reap(k)
    \/ Close \/ CloseConns
    \/ \E a \in Addrs : Rehost(a) \/ \E s \in Slots : Reshard(s, a)

\* Commands go on, and so do the goroutines in the background, whose sleeps end.
ClusterFair ==
    /\ WF_clusterVars(\E c \in Clients : Client(c))
    /\ WF_clusterVars(Flight \/ CloseConns \/ \E k \in Conns : Reap(k))

ClusterSpec == ClusterInit /\ [][ClusterNext]_clusterVars /\ ClusterFair

-----------------------------------------------------------------------------
\* No connection is dropped while it is open: it is in the map, or in the tables of the
\* refresh under way, or someone is about to close it, although refresh builds the map
\* without the lock while redirectOrNew adds to it.
NoClusterConnLost == {k \in Conns : state[k] = "open"} \subseteq Values(conns) \cup FreshConns \cup doomed

\* The connections of the map have their address, and none of them is closed while the
\* client is open: a refresh or a redirection takes a connection out before closing it.
ServesOpenConns ==
    \A a \in Addrs : conns[a] # None =>
        AddrOf(conns[a]) = a /\ (stop # "closed" => conns[a] \notin doomed /\ state[conns[a]] # "closed")

\* Every command returns (Busy ~> ~Busy), those that wait for the refresh of another included.
Busy == \E c \in Clients : do[c].pc # "idle"
=============================================================================
