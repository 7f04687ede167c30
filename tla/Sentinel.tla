------------------------------ MODULE Sentinel ------------------------------
(* sentinel.go with singleflight.go: what keeps a client on the current      *)
(* master (or replica): events of a sentinel, the periodic refresh, retries  *)
(* of a failed refresh, and Close.  A sentinel answers with what it believes *)
(* the master is, and the nodes answer ROLE with what they are.              *)
EXTENDS Naturals, Sequences, FiniteSets, SequencesExt

CONSTANTS Nodes, Sentinels,
          Watchers,       \* goroutines of listWatch, more than there can be events
          Retriers,       \* goroutines of refreshRetry at a time
          Switchers,      \* calls of _switchTarget at a time
          MaxConns,       \* connections to a node at a time
          Buffer,         \* messages in the channel of a subscription
          Scenarios,      \* targets, sentinels it knows and others, whether it has a ticker
                          \* (TopologyRefreshInterval > 0); failovers, events, errors, closes to come
          None

VARIABLES targets,        \* what it serves: {"master"}, {"replica"} (ReplicaOnly) or both (SendToReplicas)
          addr, cc, open, \* mAddr and rAddr, mConn and rConn, the open connections
          mu,             \* who holds c.mu
          sentinels,      \* c.sentinels
          sc,             \* c.sAddr and c.sConn, with what is under way on it, and as history
                          \* of a client without a ticker:
                          \* missed, nobody was subscribed when the sentinel learned of the
                          \* failover, and it was not asked since; late, a refreshRetry joined
                          \* a refresh that was past its listWatch, and no other began since
          watch,          \* per goroutine of listWatch: what it does
          retry,          \* per refreshRetry, and the ticker: what it does
          sw,             \* the calls of _switchTarget
          flight,         \* the flight of c.sc and the locals of _refresh
          closing,        \* Close: "no", "stop" (c.stop is set), "done"
          master, view,   \* the servers, and what each sentinel believes
          left            \* what is left of the scenario

targetVars == <<addr, cc, open>>
serverVars == <<master, view>>
goVars == <<watch, retry>>
sentinelVars == <<targets, targetVars, mu, sentinels, sc, goVars, sw, flight, closing, serverVars, left>>

Conns == Nodes \X (1..MaxConns)
Refreshers == Retriers \cup {"ticker"}

Roles == {"master", "replica"}
NoFlight == [at |-> None, head |-> None, err |-> FALSE, to |-> None, new |-> {}, todo |-> {}]
NoSwitch == [at |-> None, by |-> None, target |-> None, addr |-> None, conn |-> None, own |-> FALSE]
NoWatch == [pc |-> None, end |-> None, q |-> <<>>, ev |-> None]

\* newSentinelClient, after its first refresh with a sentinel that told of the others.
SentinelInit ==
    LET w == CHOOSE w \in Watchers : TRUE IN
    /\ left \in Scenarios /\ targets = left.targets
    /\ master = CHOOSE n \in Nodes : TRUE
    /\ sentinels = left.sentinels
    /\ view = [v \in ToSet(sentinels) \cup left.others |-> master]
    /\ addr = [t \in Roles |-> IF t \notin targets THEN None
                             ELSE IF t = "master" THEN master ELSE CHOOSE n \in Nodes \ {master} : TRUE]
    /\ cc = [t \in Roles |-> IF t \in targets THEN <<addr[t], 1>> ELSE None]
    /\ open = {cc[t] : t \in targets}
    /\ mu = None
    /\ sc = [addr |-> Last(sentinels), up |-> TRUE, sub |-> FALSE, wire |-> <<>>, cur |-> w,
             missed |-> FALSE, late |-> FALSE]
    /\ watch = [[v \in Watchers |-> NoWatch] EXCEPT ![w].pc = "receive"]
    /\ retry = [r \in Refreshers |-> None]
    /\ sw = [x \in Switchers |-> NoSwitch] /\ flight = NoFlight /\ closing = "no"

stopped == closing # "no"

\* Identities for connFn.
Referenced == {cc[t] : t \in Roles} \cup {sw[x].conn : x \in Switchers}
NewConn(n) == CHOOSE k \in Conns \ (Referenced \cup open) : k[1] = n

Spend(what) == left[what] > 0 /\ left' = [left EXCEPT ![what] = @ - 1]
Fail == Spend("errors")

-----------------------------------------------------------------------------
(* The servers *)

Failover ==
    /\ Spend("failovers")
    /\ master' \in Nodes \ {master}
    /\ UNCHANGED <<targets, targetVars, mu, sentinels, sc, goVars, sw, flight, closing, view>>

Pushed(e) == IF sc.up /\ sc.sub THEN [sc EXCEPT !.wire = Append(@, e)] ELSE sc

\* A sentinel learns of the failover and tells its subscribers, if it has any.
Learn(s) ==
    /\ s \in DOMAIN view /\ view[s] # master /\ view' = [view EXCEPT ![s] = master]
    /\ sc' = IF sc.addr # s THEN sc
             ELSE [Pushed([kind |-> "+switch-master", node |-> master]) EXCEPT !.missed = @ \/ (~left.ticks /\ sc.up /\ ~sc.sub)]
    /\ UNCHANGED <<targets, targetVars, mu, sentinels, goVars, sw, flight, closing, master, left>>

\* Other messages of the subscribed channels.
Event ==
    /\ sc.up /\ sc.sub /\ Spend("events")
    /\ \/ sc' = Pushed([kind |-> "+slave", node |-> None])
       \/ \E s \in DOMAIN view : sc' = Pushed([kind |-> "+sentinel", node |-> s])
    /\ UNCHANGED <<targets, targetVars, mu, sentinels, goVars, sw, flight, closing, serverVars>>

-----------------------------------------------------------------------------
(* The connection to the sentinel.  Its reader hands over pushes and replies in order, and *)
(* waits for a subscriber whose channel is full.                                           *)

Reply(l) == flight' = [flight EXCEPT !.at = l]
EndWatch(how) == IF sc.cur = None THEN watch ELSE [watch EXCEPT ![sc.cur].end = how]
Down == [sc EXCEPT !.up = FALSE, !.sub = FALSE, !.wire = <<>>, !.cur = None]

Read ==
    /\ sc.up /\ sc.wire # <<>>
    /\ LET e == Head(sc.wire) IN
       \/ /\ e.kind = "unsubscribe" /\ Reply("watch")
          /\ watch' = EndWatch("nil")
          /\ sc' = [sc EXCEPT !.wire = Tail(@), !.cur = None]
       \/ /\ e.kind = "reply" /\ flight' = [flight EXCEPT !.at = "switch", !.to = e.node, !.new = e.new]
          /\ sc' = [sc EXCEPT !.wire = Tail(@)] /\ UNCHANGED watch
       \/ /\ e.kind \notin {"unsubscribe", "reply"} /\ UNCHANGED flight
          /\ sc' = [sc EXCEPT !.wire = Tail(@)]
          /\ sc.cur # None => Len(watch[sc.cur].q) < Buffer
          /\ watch' = IF sc.cur = None THEN watch ELSE [watch EXCEPT ![sc.cur].q = Append(@, e)]
    /\ UNCHANGED <<targets, targetVars, mu, sentinels, retry, sw, closing, serverVars, left>>

\* The connection breaks, and Receive fails.  An error of UNSUBSCRIBE is ignored, and the mux
\* dials again for the next command; the question itself fails.
Break ==
    /\ sc.up /\ Fail
    /\ sc.cur # None => Len(watch[sc.cur].q) < Buffer
    /\ sc' = [Down EXCEPT !.up = flight.at \in {"send", "unsubscribe", "watch", "ask"}]
    /\ watch' = EndWatch("err")
    /\ flight' = [flight EXCEPT !.at = CASE @ \in {"send", "unsubscribe"} -> "watch"
                                         [] @ = "reply" -> "failed"
                                         [] OTHER -> @]
    /\ UNCHANGED <<targets, targetVars, mu, sentinels, retry, sw, closing, serverVars>>

-----------------------------------------------------------------------------
(* listWatch's goroutine *)

Idle(w) == watch[w].pc = "receive" /\ watch[w].ev = None
Ready(w) == Idle(w) /\ watch[w].q # <<>>
Done(w) == watch' = [watch EXCEPT ![w].pc = "receive", ![w].ev = None]

\* cc.Receive: the server subscribes.
Subscribe(w) ==
    /\ sc.up /\ sc.cur = w /\ ~sc.sub /\ flight.at # "unsubscribe" /\ sc' = [sc EXCEPT !.sub = TRUE]
    /\ UNCHANGED <<targets, targetVars, mu, sentinels, goVars, sw, flight, closing, serverVars, left>>

\* The next message.  Only a client with a replica refreshes for "+slave".
Receive(w) ==
    /\ Ready(w)
    /\ LET e == Head(watch[w].q)
           l == CASE e.kind \in {"+switch-master", "+sentinel"} -> "lock"
                  [] e.kind = "+slave" /\ "replica" \in targets -> "start"
                  [] OTHER -> "receive" IN
       watch' = [watch EXCEPT ![w].q = Tail(@), ![w].pc = l,
                              ![w].ev = IF l = "receive" THEN None ELSE e]
    /\ UNCHANGED <<targets, targetVars, mu, sentinels, sc, retry, sw, flight, closing, serverVars, left>>

\* Whoever joins the refresh finds that its listWatch has started the goroutine that receives.
JoinsLate == ~left.ticks /\ flight.at \notin {None, "lock", "next", "send", "unsubscribe", "watch"}

\* go c.refreshRetry().  One more is not told apart from the Retriers that are running.
Spawned == LET free == {r \in Retriers : retry[r] = None} IN
           IF free = {} THEN retry ELSE [retry EXCEPT ![CHOOSE r \in free : TRUE] = "start"]
Spawn == retry' = Spawned /\ sc' = [sc EXCEPT !.late = @ \/ (Spawned = retry /\ JoinsLate)]

\* Receive returns once the channel is drained; an error leads to refreshRetry.
ReceiveReturns(w) ==
    /\ Idle(w) /\ watch[w].q = <<>> /\ watch[w].end # None
    /\ watch' = [watch EXCEPT ![w] = NoWatch]
    /\ IF watch[w].end = "err" /\ ~stopped
       THEN Spawn
       ELSE UNCHANGED <<retry, sc>>
    /\ UNCHANGED <<targets, targetVars, mu, sentinels, sw, flight, closing, serverVars, left>>

Calls(by, ts) ==
    LET free == {x \in Switchers : sw[x].at = None}
        pick == CHOOSE f \in [DOMAIN ts -> free] : IsInjective(f) IN
    /\ Cardinality(free) >= Cardinality(DOMAIN ts)
    /\ sw' = [x \in Switchers |->
                 IF \E t \in DOMAIN ts : pick[t] = x
                 THEN LET t == CHOOSE t \in DOMAIN ts : pick[t] = x IN
                      [NoSwitch EXCEPT !.at = "dial", !.by = by, !.target = t, !.addr = ts[t]]
                 ELSE sw[x]]

\* _addSentinel: to the front, unless it is known.
Added(S) == SetToSeq(S \ ToSet(sentinels)) \o sentinels

\* addSentinel, or switchTargetRetry, which keeps the lock; a ReplicaOnly client switches too.
HandlerLocks(w) ==
    /\ watch[w].pc = "lock" /\ mu = None
    /\ \/ /\ watch[w].ev.kind = "+sentinel" /\ Done(w) /\ sentinels' = Added({watch[w].ev.node})
          /\ UNCHANGED <<mu, sw>>
       \/ /\ watch[w].ev.kind = "+switch-master" /\ mu' = w
          /\ watch' = [watch EXCEPT ![w].pc = "switching"]
          /\ Calls(w, [t \in {"master"} |-> watch[w].ev.node]) /\ UNCHANGED sentinels
    /\ UNCHANGED <<targets, targetVars, sc, retry, flight, closing, serverVars, left>>

-----------------------------------------------------------------------------
(* _switchTarget *)

\* It returns: to the event handler, to _refresh, or to nobody when _refresh left the loop.
SwitchEnds(x, err) ==
    LET s == sw[x] IN
    /\ sw' = [sw EXCEPT ![x] = NoSwitch]
    /\ IF s.by \in Watchers
       THEN /\ mu' = None /\ Done(s.by) /\ UNCHANGED flight
            /\ IF err THEN Spawn ELSE UNCHANGED <<retry, sc>>
       ELSE /\ UNCHANGED <<mu, watch, retry, sc>>
            /\ flight' = IF s.by = None THEN flight
                         ELSE [flight EXCEPT !.todo = @ \ {s.target}]

\* A second result is not waited for after an error: the other call goes on by itself.
Orphaned(x) == [y \in Switchers |-> IF y = x THEN NoSwitch
                                    ELSE IF sw[y].by = "refresh" THEN [sw[y] EXCEPT !.by = None]
                                    ELSE sw[y]]

SwitchFails(x) ==
    LET s == sw[x] IN
    IF s.by = "refresh"
    THEN sw' = Orphaned(x) /\ Reply("failed") /\ UNCHANGED <<mu, sc, goVars>>
    ELSE SwitchEnds(x, TRUE)

\* Reuse the connection of that address unless it was closed, or dial a new one.
Dial(x) ==
    LET s == sw[x]
        k == cc[s.target]
        same == addr[s.target] = s.addr IN
    /\ s.at = "dial"
    /\ \/ stopped /\ SwitchEnds(x, FALSE) /\ UNCHANGED <<targetVars, left>>
       \/ /\ ~stopped /\ same /\ k \in open
          /\ sw' = [sw EXCEPT ![x].at = "role", ![x].conn = k]
          /\ UNCHANGED <<targetVars, mu, sc, goVars, flight, left>>
       \/ /\ ~stopped /\ ~(same /\ k \in open)
          /\ LET n == NewConn(s.addr) IN
             /\ sw' = [sw EXCEPT ![x].at = "role", ![x].conn = n, ![x].own = TRUE]
             /\ open' = open \cup {n}
          /\ UNCHANGED <<addr, cc, mu, sc, goVars, flight, left>>
       \/ /\ ~stopped /\ Fail /\ SwitchFails(x) /\ UNCHANGED targetVars
    /\ UNCHANGED <<targets, sentinels, closing, serverVars>>

RoleClosesAny(x) ==
    LET s == sw[x]
        right == (s.addr = master) <=> (s.target = "master") IN
    /\ s.at = "role"
    /\ \/ /\ s.conn \in open /\ right /\ sw' = [sw EXCEPT ![x].at = "store"]
          /\ UNCHANGED <<targetVars, mu, sc, goVars, flight, left>>
       \/ /\ IF s.conn \in open /\ right THEN Fail ELSE UNCHANGED left
          /\ open' = open \ {s.conn}
          /\ SwitchFails(x)
          /\ UNCHANGED <<addr, cc>>
    /\ UNCHANGED <<targets, sentinels, closing, serverVars>>

\* ROLE: wrong, or the command fails; closeIfOwned.
Role(x) ==
    LET s == sw[x]
        right == (s.addr = master) <=> (s.target = "master") IN
    /\ s.at = "role"
    /\ \/ /\ s.conn \in open /\ right /\ sw' = [sw EXCEPT ![x].at = "store"]
          /\ UNCHANGED <<targetVars, mu, sc, goVars, flight, left>>
       \/ /\ IF s.conn \in open /\ right THEN Fail ELSE UNCHANGED left
          /\ open' = IF s.own THEN open \ {s.conn} ELSE open
          /\ SwitchFails(x)
          /\ UNCHANGED <<addr, cc>>
    /\ UNCHANGED <<targets, sentinels, closing, serverVars>>

\* mAddr.Store, then mConn.Swap and prev.Close().
Store(x) ==
    /\ sw[x].at = "store"
    /\ addr' = [addr EXCEPT ![sw[x].target] = sw[x].addr]
    /\ sw' = [sw EXCEPT ![x].at = "swap"]
    /\ UNCHANGED <<targets, cc, open, mu, sentinels, sc, goVars, flight, closing, serverVars, left>>

Swap(x) ==
    LET s == sw[x] IN
    /\ s.at = "swap"
    /\ cc' = [cc EXCEPT ![s.target] = s.conn]
    /\ open' = IF cc[s.target] = s.conn THEN open ELSE open \ {cc[s.target]}
    /\ SwitchEnds(x, FALSE)
    /\ UNCHANGED <<targets, addr, sentinels, closing, serverVars, left>>

-----------------------------------------------------------------------------
(* call.Do and _refresh *)

\* refreshRetry, and the ticker's single refresh: start or join a flight, unless stopped.
Joined == IF flight.at = None THEN [NoFlight EXCEPT !.at = "lock"] ELSE flight

Start(r) ==
    /\ retry[r] = "start"
    /\ IF stopped
       THEN retry' = [retry EXCEPT ![r] = None] /\ UNCHANGED <<flight, sc>>
       ELSE /\ retry' = [retry EXCEPT ![r] = "wait"] /\ flight' = Joined
            /\ sc' = [sc EXCEPT !.late = @ \/ JoinsLate]
    /\ UNCHANGED <<targets, targetVars, mu, sentinels, watch, sw, closing, serverVars, left>>

\* The same inside of an event handler.
HandlerStarts(w) ==
    /\ watch[w].pc = "start"
    /\ IF stopped THEN Done(w) /\ UNCHANGED flight
                  ELSE watch' = [watch EXCEPT ![w].pc = "wait"] /\ flight' = Joined
    /\ UNCHANGED <<targets, targetVars, mu, sentinels, sc, retry, sw, closing, serverVars, left>>

Tick ==
    /\ left.ticks /\ retry["ticker"] = None /\ ~stopped
    /\ retry' = [retry EXCEPT !["ticker"] = "start"]
    /\ UNCHANGED <<targets, targetVars, mu, sentinels, sc, watch, sw, flight, closing, serverVars, left>>

Lock ==
    /\ flight.at = "lock" /\ mu = None /\ mu' = "refresh"
    /\ flight' = [flight EXCEPT !.at = "next", !.head = sentinels[1]]
    /\ UNCHANGED <<targets, targetVars, sentinels, sc, goVars, sw, closing, serverVars, left>>

NextSentinelAnyway ==
    LET s == sentinels[1] IN
    /\ flight.at = "next" /\ Reply("send")
    /\ IF sc.addr = s /\ sc.up THEN UNCHANGED <<sc, watch>>
       ELSE watch' = EndWatch("err") /\ sc' = [Down EXCEPT !.addr = s, !.up = TRUE]
    /\ UNCHANGED <<targets, targetVars, mu, sentinels, retry, sw, closing, serverVars, left>>

\* The connection to the sentinel at the front, redialed unless it is that one and works.
NextSentinel ==
    LET s == sentinels[1] IN
    /\ flight.at = "next"
    /\ \/ /\ stopped /\ Reply("end") /\ mu' = None /\ UNCHANGED <<sc, watch, left>>
       \/ /\ ~stopped /\ sc.addr = s /\ sc.up
          /\ Reply("send") /\ UNCHANGED <<mu, sc, watch, left>>
       \/ /\ ~stopped /\ ~(sc.addr = s /\ sc.up) /\ watch' = EndWatch("err") /\ UNCHANGED mu
          /\ \/ Reply("send") /\ sc' = [Down EXCEPT !.addr = s, !.up = TRUE] /\ UNCHANGED left
             \/ Reply("failed") /\ sc' = [Down EXCEPT !.addr = s] /\ Fail
    /\ UNCHANGED <<targets, targetVars, sentinels, retry, sw, closing, serverVars>>

\* listWatch: UNSUBSCRIBE and its reply, the goroutine that receives, the question.
Unsubscribe ==
    /\ flight.at = "send" /\ Reply("unsubscribe")
    /\ sc' = [sc EXCEPT !.sub = FALSE, !.wire = Append(@, [kind |-> "unsubscribe", node |-> None])]
    /\ UNCHANGED <<targets, targetVars, mu, sentinels, goVars, sw, closing, serverVars, left>>

Watch ==
    LET free == {w \in Watchers : watch[w].pc = None}
        w == CHOOSE w \in free : TRUE IN
    /\ flight.at = "watch" /\ free # {} /\ Reply("ask")
    /\ watch' = [watch EXCEPT ![w].pc = "receive"]
    /\ sc' = [sc EXCEPT !.cur = w, !.late = FALSE]
    /\ UNCHANGED <<targets, targetVars, mu, sentinels, retry, sw, closing, serverVars, left>>

\* pickReplica keeps the replica in use if it is still one.
Candidates(t) ==
    LET m == view[sc.addr] IN
    IF t = "master" THEN {m} ELSE IF addr[t] # m THEN {addr[t]} ELSE Nodes \ {m}

Ask ==
    /\ flight.at = "ask" /\ Reply("reply")
    /\ \E to \in [targets -> Nodes] :
          /\ \A t \in targets : to[t] \in Candidates(t)
          /\ \E new \in {{}, left.others} :
                sc' = [sc EXCEPT !.wire = Append(@, [kind |-> "reply", node |-> to, new |-> new]), !.missed = FALSE]
    /\ UNCHANGED <<targets, targetVars, mu, sentinels, goVars, sw, closing, serverVars, left>>

Switch ==
    /\ flight.at = "switch" /\ Calls("refresh", flight.to)
    /\ flight' = [flight EXCEPT !.at = "switching", !.to = None, !.new = {}, !.todo = targets]
    /\ sentinels' = Added(flight.new)
    /\ UNCHANGED <<targets, targetVars, mu, sc, goVars, closing, serverVars, left>>

\* Every target was switched: unlock, then ask the connection for its error.
Switched ==
    /\ flight.at = "switching" /\ flight.todo = {} /\ mu' = None /\ Reply("check")
    /\ UNCHANGED <<targets, targetVars, sentinels, sc, goVars, sw, closing, serverVars, left>>

\* The sentinel is of no use: sConn.Close(), and on with the next one if there is one.
SentinelFailed ==
    LET rest == Append(Remove(sentinels, sc.addr), sc.addr) IN
    /\ flight.at = "failed" /\ sentinels' = rest
    /\ sc' = Down /\ watch' = EndWatch("err")
    /\ IF rest[1] = flight.head
       THEN mu' = None /\ flight' = [flight EXCEPT !.at = "end", !.err = TRUE]
       ELSE flight' = [flight EXCEPT !.at = "next", !.todo = {}] /\ UNCHANGED mu
    /\ UNCHANGED <<targets, targetVars, retry, sw, closing, serverVars, left>>

Main == IF "master" \in targets THEN "master" ELSE "replica"

Check ==
    /\ flight.at = "check"
    /\ flight' = [flight EXCEPT !.at = "end", !.err = cc[Main] \notin open]
    /\ UNCHANGED <<targets, targetVars, mu, sentinels, sc, goVars, sw, closing, serverVars, left>>

FlightEndsForGood ==
    /\ flight.at = "end" /\ flight' = NoFlight
    /\ retry' = [r \in Refreshers |-> IF retry[r] = "wait" THEN None ELSE retry[r]]
    /\ watch' = [w \in Watchers |->
                    IF watch[w].pc # "wait" THEN watch[w] ELSE [watch[w] EXCEPT !.pc = "receive", !.ev = None]]
    /\ UNCHANGED <<targets, targetVars, mu, sentinels, sc, sw, closing, serverVars, left>>

\* call.do: the callers get the error, and those of refreshRetry go on until there is none.
FlightEnds ==
    /\ flight.at = "end" /\ flight' = NoFlight
    /\ retry' = [r \in Refreshers |->
                    IF retry[r] # "wait" THEN retry[r]
                    ELSE IF flight.err /\ r # "ticker" THEN "sleep" ELSE None]
    /\ watch' = [w \in Watchers |->
                    IF watch[w].pc # "wait" THEN watch[w]
                    ELSE IF flight.err THEN [watch[w] EXCEPT !.pc = "sleep"]
                    ELSE [watch[w] EXCEPT !.pc = "receive", !.ev = None]]
    /\ UNCHANGED <<targets, targetVars, mu, sentinels, sc, sw, closing, serverVars, left>>

\* waitBeforeRetry
Wake ==
    /\ \/ /\ \E r \in Refreshers : retry[r] = "sleep" /\ retry' = [retry EXCEPT ![r] = "start"]
          /\ UNCHANGED watch
       \/ /\ \E w \in Watchers : watch[w].pc = "sleep" /\ watch' = [watch EXCEPT ![w].pc = "start"]
          /\ UNCHANGED retry
    /\ UNCHANGED <<targets, targetVars, mu, sentinels, sc, sw, flight, closing, serverVars, left>>

-----------------------------------------------------------------------------
\* Close: stop, then the lock and every connection.
Stop ==
    /\ closing = "no" /\ Spend("closes") /\ closing' = "stop"
    /\ UNCHANGED <<targets, targetVars, mu, sentinels, sc, goVars, sw, flight, serverVars>>

CloseKeepsSentinel ==
    /\ closing = "stop" /\ mu = None /\ closing' = "done"
    /\ open' = open \ {cc[t] : t \in Roles}
    /\ UNCHANGED <<targets, addr, cc, mu, sentinels, sc, goVars, sw, flight, serverVars, left>>

Close ==
    /\ closing = "stop" /\ mu = None /\ closing' = "done"
    /\ open' = open \ {cc[t] : t \in Roles}
    /\ sc' = Down /\ watch' = EndWatch("err")
    /\ UNCHANGED <<targets, addr, cc, mu, sentinels, retry, sw, flight, serverVars, left>>

Refreshing ==
    \/ Lock \/ NextSentinel \/ Unsubscribe \/ Watch \/ Ask \/ Switch \/ Switched
    \/ SentinelFailed \/ Check \/ FlightEnds

Switching == \E x \in Switchers : Dial(x) \/ Role(x) \/ Store(x) \/ Swap(x)

Watching(w) == Subscribe(w) \/ Receive(w) \/ ReceiveReturns(w) \/ HandlerLocks(w) \/ HandlerStarts(w)

SentinelNext ==
    \/ Failover \/ (\E s \in Sentinels : Learn(s)) \/ Event \/ Read \/ Break
    \/ (\E w \in Watchers : Watching(w)) \/ Switching \/ Refreshing
    \/ (\E r \in Refreshers : Start(r)) \/ Wake \/ Tick \/ Stop \/ Close

\* What goes on by itself.
Steps ==
    \/ Read \/ Switching \/ Refreshing \/ Wake \/ Close
    \/ (\E r \in Refreshers : Start(r)) \/ (\E w \in Watchers : Watching(w))

\* As long as a goroutine can run or a connection can deliver something, one does; the ticker,
\* if there is one, ticks and sentinels agree in the end.  Failures and Close need not happen.
SentinelFair == WF_sentinelVars(Steps) /\ WF_sentinelVars(Tick) /\ WF_sentinelVars(\E s \in Sentinels : Learn(s))

SentinelSpec == SentinelInit /\ [][SentinelNext]_sentinelVars /\ SentinelFair

-----------------------------------------------------------------------------
Settled == flight = NoFlight /\ \A x \in Switchers : sw[x] = NoSwitch

\* Until Close, mConn (or rConn) is never a connection that was closed: a command would fail
\* with ErrClosing and nothing would dial again (the comment on reused in _switchTarget).
\* SendToReplicas is excepted: see AlwaysServesOpen.
NeverServesClosed ==
    ~stopped /\ Cardinality(targets) = 1 => \A t \in targets : cc[t] \in open

\* The same for both connections of SendToReplicas.  A call of _switchTarget that _refresh did
\* not wait for puts back a connection that another call has closed since.
AlwaysServesOpen == ~stopped => \A t \in targets : cc[t] \in open

\* Once Close returned and the goroutines are done, no connection is open; for a client with
\* one target, since of two calls of _switchTarget one may go on by itself.
CloseLeavesNothing ==
    closing = "done" /\ Settled /\ Cardinality(targets) = 1 => open = {} /\ ~sc.up

ServesRight ==
    \A t \in targets : cc[t] \in open /\ (addr[t] = master <=> t = "master") /\ cc[t][1] = addr[t]

\* Unless it is closed, a client with the ticker ends up with open connections to the right
\* nodes, however events, retries, ticks and failures of sentinels interleave.  Without the
\* ticker, which is off by default, refreshRetry and the events achieve this for the master,
\* and refreshRetry gets the client back to a subscription.  There are two exceptions: the
\* failover fell between two subscriptions and no refresh has asked since; and the watcher's
\* refreshRetry joined the refresh that had started this watcher, and took its success.
HealsItself ==
    /\ left.ticks \/ targets = {"master"} =>
           []<>(stopped \/ ServesRight \/ (~left.ticks /\ (sc.missed \/ sc.late)))
    /\ ~left.ticks => []<>(stopped \/ (sc.up /\ sc.sub) \/ sc.late)

\* Close returns, and the goroutines of the client come to an end.
CloseEndsAll ==
    stopped ~> /\ closing = "done" /\ Settled
               /\ \A r \in Refreshers : retry[r] = None
               /\ \A w \in Watchers : watch[w].pc = None
=============================================================================
