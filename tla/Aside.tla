------------------------------- MODULE Aside --------------------------------
(* rueidisaside/aside.go: Get of one key by the goroutines of several        *)
(* clients.  A client that misses puts a placeholder with its id under the   *)
(* key, loads the value and replaces the placeholder; the others wait for an *)
(* invalidation of the key, or of the marker that says that the client lives.*)
EXTENDS Naturals, FiniteSets

CONSTANTS Getters, AsideClients,
          Home,                     \* Home[g] is the client of a goroutine
          MaxIds,                   \* ids that a client takes
          AsideScenarios            \* the gets, writes, faults, errors and refreshed markers of a behaviour

\* Every goroutine is one of a client, and no goroutine is a nil.
ASSUME AsideAssumption ==
    Home \in [Getters -> AsideClients] /\ MaxIds \in Nat /\ "none" \notin Getters

VARIABLES store,      \* the server: the value under the key
          markers,    \* the server: the ids that exist
          tracked,    \* per client: what the server will tell it to invalidate
          pushes,     \* per client: invalidations under way
          cached,     \* per client: the items of its client-side cache
          cid, ids,   \* c.id, and how many ids the client took
          flights,    \* c.flights: the goroutine that populates the key
          life,       \* per client: "up", "closed" (Close) or "dead" (a crash)
          get,        \* per goroutine: its call of Get
          version, floor,   \* of the data that fn loads: now, and at the last Del
          budget              \* what is left of the scenario

asideVars == <<store, markers, tracked, pushes, cached, cid, ids, flights, life, get, version, floor,
               budget>>
server == <<store, markers, tracked, pushes>>
client == <<cached, cid, ids, flights, life>>

NoId == <<>>
Ids == AsideClients \X (1..MaxIds)
Key == <<"key">>
Items == {Key} \cup Ids
Nil == [kind |-> "nil", of |-> NoId]
Value(v) == [kind |-> "value", of |-> <<v>>]
Placeholder(i) == [kind |-> "placeholder", of |-> i]

Idle == [pc |-> "idle", id |-> NoId, val |-> Nil, waits |-> {}, woken |-> FALSE]

AsideInit ==
    /\ store = Nil /\ markers = {}
    /\ tracked = [p \in AsideClients |-> {}] /\ pushes = [p \in AsideClients |-> {}]
    /\ cached = [p \in AsideClients |-> [x \in {} |-> Nil]]
    /\ cid = [p \in AsideClients |-> NoId] /\ ids = [p \in AsideClients |-> 0]
    /\ flights = [p \in AsideClients |-> "none"] /\ life = [p \in AsideClients |-> "up"]
    /\ get = [g \in Getters |-> Idle]
    /\ version = 0 /\ floor = 0 /\ budget \in AsideScenarios

\* An item changes on the server: every client that tracks it is told, once.
Changes(S) ==
    /\ pushes' = [p \in AsideClients |-> IF life[p] = "up" THEN pushes[p] \cup (tracked[p] \cap S) ELSE {}]
    /\ tracked' = [p \in AsideClients |-> tracked[p] \ S]

Put(v) == store' = v /\ Changes({Key})
GetAt(g, l) == get' = [get EXCEPT ![g].pc = l]
Without(f, S) == [x \in DOMAIN f \ S |-> f[x]]

\* A goroutine that waits for one of these items goes on.
Woken(p, S) ==
    [g \in Getters |-> IF Home[g] = p /\ get[g].waits \cap S # {} THEN [get[g] EXCEPT !.woken = TRUE]
                       ELSE get[g]]

SpendBudget(what) == budget[what] > 0 /\ budget' = [budget EXCEPT ![what] = @ - 1]
Error == SpendBudget("errors")
Fault == SpendBudget("faults")

-----------------------------------------------------------------------------
(* The server and the connections *)

\* DEL by Client.Del or a program that changed the data before.
Del ==
    /\ floor < version /\ floor' = version /\ Put(Nil)
    /\ UNCHANGED <<markers, client, get, version, budget>>

Write ==
    /\ SpendBudget("writes") /\ version' = version + 1
    /\ UNCHANGED <<server, client, get, floor>>

\* A marker expires, or is deleted by onInvalidation(nil), once refresh left its id; while
\* refresh keeps it, that takes a fault.
MarkerGone(i) ==
    /\ i \in markers /\ markers' = markers \ {i} /\ Changes({i})
    /\ IF life[i[1]] = "up" /\ cid[i[1]] = i THEN Fault ELSE UNCHANGED budget
    /\ UNCHANGED <<store, client, get, version, floor>>

\* refresh: every half of the TTL.  Who waits for the marker is told although it stays.
RefreshMarker(p) ==
    /\ life[p] = "up" /\ cid[p] # NoId
    /\ IF cid[p] \in markers THEN SpendBudget("beats") ELSE UNCHANGED budget
    /\ markers' = markers \cup {cid[p]} /\ Changes({cid[p]})
    /\ UNCHANGED <<store, client, get, version, floor>>

\* The TTL of a value or of a placeholder.
KeyExpires ==
    /\ store # Nil /\ Fault /\ Put(Nil)
    /\ UNCHANGED <<markers, client, get, version, floor>>

\* A placeholder that its client failed to remove, and that only the TTL ends.
Leftover(i) == life[i[1]] = "up" /\ cid[i[1]] = i /\ flights[i[1]] = "none"

LeftoverExpires ==
    /\ store.kind = "placeholder" /\ Leftover(store.of) /\ Put(Nil)
    /\ UNCHANGED <<markers, client, get, version, floor, budget>>

\* onInvalidation for an item; the cache forgot it before.
Invalidate(p, x) ==
    /\ life[p] = "up" /\ x \in pushes[p]
    /\ pushes' = [pushes EXCEPT ![p] = @ \ {x}]
    /\ cached' = [cached EXCEPT ![p] = Without(@, {x})]
    /\ get' = Woken(p, {x})
    /\ UNCHANGED <<store, markers, tracked, cid, ids, flights, life, version, floor, budget>>

Forgets(p) ==
    /\ tracked' = [tracked EXCEPT ![p] = {}] /\ pushes' = [pushes EXCEPT ![p] = {}]
    /\ cached' = [cached EXCEPT ![p] = Without(@, Items)]
    /\ cid' = [cid EXCEPT ![p] = NoId]

\* The connection is lost: onInvalidation(nil).
Lost(p) ==
    /\ life[p] = "up" /\ Fault /\ Forgets(p) /\ get' = Woken(p, Items)
    /\ UNCHANGED <<store, markers, ids, flights, life, version, floor>>

\* Close deletes the marker; closing the client ends like a lost connection.
CloseAside(p) ==
    /\ life[p] = "up" /\ Fault /\ life' = [life EXCEPT ![p] = "closed"]
    /\ markers' = markers \ {cid[p]}
    /\ LET S == {cid[p]} \cap markers IN
       /\ pushes' = [q \in AsideClients |-> IF q = p THEN {} ELSE pushes[q] \cup (tracked[q] \cap S)]
       /\ tracked' = [q \in AsideClients |-> IF q = p THEN {} ELSE tracked[q] \ S]
    /\ cached' = [cached EXCEPT ![p] = Without(@, Items)] /\ cid' = [cid EXCEPT ![p] = NoId]
    /\ get' = Woken(p, Items)
    /\ UNCHANGED <<store, ids, flights, version, floor>>

Crash(p) ==
    /\ life[p] = "up" /\ Fault /\ life' = [life EXCEPT ![p] = "dead"] /\ Forgets(p)
    /\ get' = [g \in Getters |-> IF Home[g] = p THEN Idle ELSE get[g]]
    /\ flights' = [flights EXCEPT ![p] = "none"]
    /\ UNCHANGED <<store, markers, ids, version, floor>>

-----------------------------------------------------------------------------
(* Get *)

\* A command fails: before the server has it, after it, or because the client is closed.
Fails(g) == IF life[Home[g]] = "closed" THEN UNCHANGED budget ELSE Error

GetReturns(g) == get' = [get EXCEPT ![g] = Idle]

Call(g) ==
    /\ get[g].pc = "idle" /\ life[Home[g]] = "up" /\ SpendBudget("gets")
    /\ GetAt(g, "register")
    /\ UNCHANGED <<server, client, version, floor>>

\* register(key)
Register(g) ==
    /\ get[g].pc = "register"
    /\ get' = [get EXCEPT ![g] = [Idle EXCEPT !.pc = "read", !.waits = {Key}]]
    /\ UNCHANGED <<server, client, version, floor, budget>>

Look(x) == IF x = Key THEN store ELSE IF x \in markers THEN Value(0) ELSE Nil

\* client.DoCache of an item: from the cache, or from the server, which tracks it then.
Cached(p, x) == IF x \in DOMAIN cached[p] THEN cached[p][x] ELSE Look(x)
DoCache(p, x) ==
    IF x \in DOMAIN cached[p] THEN UNCHANGED <<cached, tracked>>
    ELSE /\ cached' = [cached EXCEPT ![p] = [y \in DOMAIN @ \cup {x} |-> IF y = x THEN Look(x) ELSE @[y]]]
         /\ tracked' = [tracked EXCEPT ![p] = @ \cup {x}]

Read(g) ==
    LET p == Home[g]
        v == Cached(p, Key) IN
    /\ get[g].pc = "read"
    /\ \/ /\ life[p] = "up" /\ DoCache(p, Key) /\ UNCHANGED budget
          /\ get' = [get EXCEPT ![g] = IF v.kind = "value" THEN Idle
                                       ELSE [get[g] EXCEPT !.pc = IF v = Nil THEN "flight" ELSE "placeholder", !.val = v]]
       \/ Fails(g) /\ GetReturns(g) /\ UNCHANGED <<cached, tracked>>
    /\ UNCHANGED <<store, markers, pushes, cid, ids, flights, life, version, floor>>

BeginFlightAlone(g) ==
    /\ get[g].pc = "flight"
    /\ flights' = [flights EXCEPT ![Home[g]] = g] /\ GetAt(g, "keepalive")
    /\ UNCHANGED <<server, cached, cid, ids, life, version, floor, budget>>

\* beginFlight: the leader populates, the others wait for it.
BeginFlight(g) ==
    LET p == Home[g] IN
    /\ get[g].pc = "flight"
    /\ IF flights[p] = "none" THEN flights' = [flights EXCEPT ![p] = g] /\ GetAt(g, "keepalive")
                              ELSE GetAt(g, "join") /\ UNCHANGED flights
    /\ UNCHANGED <<server, cached, cid, ids, life, version, floor, budget>>

JoinEnds(g) ==
    /\ get[g].pc = "join" /\ Fails(g) /\ GetReturns(g)
    /\ UNCHANGED <<server, client, version, floor>>

\* finishFlight, and what Get does with the result.
FinishFlight(g, next) ==
    /\ flights' = [flights EXCEPT ![Home[g]] = "none"]
    /\ get' = [h \in Getters |->
                  IF h = g THEN next
                  ELSE IF Home[h] = Home[g] /\ get[h].pc = "join" THEN [get[h] EXCEPT !.pc = "register"]
                  ELSE get[h]]

\* keepalive: the id of the client, or a new one with its marker.
KeepAlive(g) ==
    LET p == Home[g]
        i == <<p, ids[p] + 1>> IN
    /\ get[g].pc = "keepalive"
    /\ \/ /\ cid[p] # NoId
          /\ get' = [get EXCEPT ![g].pc = "lock", ![g].id = cid[p]]
          /\ UNCHANGED <<server, cid, ids, flights, budget>>
       \/ /\ cid[p] = NoId /\ ids[p] < MaxIds /\ life[p] = "up"
          /\ markers' = markers \cup {i} /\ Changes({i})
          /\ cid' = [cid EXCEPT ![p] = i] /\ ids' = [ids EXCEPT ![p] = @ + 1]
          /\ get' = [get EXCEPT ![g].pc = "lock", ![g].id = i]
          /\ UNCHANGED <<store, flights, budget>>
       \/ cid[p] = NoId /\ Fails(g) /\ FinishFlight(g, Idle) /\ UNCHANGED <<server, cid, ids>>
    /\ UNCHANGED <<cached, life, version, floor>>

\* SET NX GET: the key was empty, or its value is returned.
Lock(g) ==
    LET p == Home[g] IN
    /\ get[g].pc = "lock"
    /\ \/ /\ life[p] = "up" /\ store = Nil
          /\ Put(Placeholder(get[g].id)) /\ GetAt(g, "load")
          /\ UNCHANGED <<flights, budget>>
       \/ /\ life[p] = "up" /\ store # Nil
          /\ FinishFlight(g, IF store.kind = "value" THEN Idle
                             ELSE [get[g] EXCEPT !.pc = "placeholder", !.val = store])
          /\ UNCHANGED <<store, tracked, pushes, budget>>
       \/ /\ Fails(g) /\ GetAt(g, "cleanup") /\ UNCHANGED flights
          /\ \/ UNCHANGED <<store, tracked, pushes>>
             \/ life[p] = "up" /\ store = Nil /\ Put(Placeholder(get[g].id))
    /\ UNCHANGED <<markers, cached, cid, ids, life, version, floor>>

\* fn loads the data, or fails.
Load(g) ==
    /\ get[g].pc = "load"
    /\ \/ get' = [get EXCEPT ![g].pc = "set", ![g].val = Value(version)] /\ UNCHANGED budget
       \/ Error /\ GetAt(g, "cleanup")
    /\ UNCHANGED <<server, client, version, floor>>

Mine(g) == store = Placeholder(get[g].id)

SetBlindly(g) ==
    /\ get[g].pc = "set"
    /\ life[Home[g]] = "up" /\ FinishFlight(g, Idle)
    /\ Put(get[g].val)
    /\ UNCHANGED <<markers, cached, cid, ids, life, version, floor, budget>>

\* setkey: only over the own placeholder, and no error otherwise.
Set(g) ==
    /\ get[g].pc = "set"
    /\ \/ /\ life[Home[g]] = "up" /\ FinishFlight(g, Idle) /\ UNCHANGED budget
          /\ IF Mine(g) THEN Put(get[g].val) ELSE UNCHANGED <<store, tracked, pushes>>
       \/ /\ Fails(g) /\ GetAt(g, "cleanup") /\ UNCHANGED flights
          /\ \/ UNCHANGED <<store, tracked, pushes>>
             \/ life[Home[g]] = "up" /\ Mine(g) /\ Put(get[g].val)
    /\ UNCHANGED <<markers, cached, cid, ids, life, version, floor>>

\* delkey of the deferred cleanup; its error is ignored.
Cleanup(g) ==
    /\ get[g].pc = "cleanup" /\ FinishFlight(g, Idle)
    /\ \/ /\ life[Home[g]] = "up" /\ UNCHANGED budget
          /\ IF Mine(g) THEN Put(Nil) ELSE UNCHANGED <<store, tracked, pushes>>
       \/ Fails(g) /\ UNCHANGED <<store, tracked, pushes>>
    /\ UNCHANGED <<markers, cached, cid, ids, life, version, floor>>

\* The value is a placeholder: register its marker, then look it up.
RegisterMarker(g) ==
    /\ get[g].pc = "placeholder"
    /\ get' = [get EXCEPT ![g].pc = "marker", ![g].waits = @ \cup {get[g].val.of}]
    /\ UNCHANGED <<server, client, version, floor, budget>>

CheckMarker(g) ==
    LET p == Home[g]
        i == get[g].val.of IN
    /\ get[g].pc = "marker"
    /\ \/ /\ life[p] = "up" /\ DoCache(p, i) /\ UNCHANGED budget
          /\ GetAt(g, IF Cached(p, i) = Nil THEN "release" ELSE "wait")
       \/ Fails(g) /\ GetReturns(g) /\ UNCHANGED <<cached, tracked>>
    /\ UNCHANGED <<store, markers, pushes, cid, ids, flights, life, version, floor>>

\* The client of the placeholder is gone: delkey, and again.
Release(g) ==
    /\ get[g].pc = "release" /\ GetAt(g, "register")
    /\ \/ /\ life[Home[g]] = "up" /\ UNCHANGED budget
          /\ IF store = get[g].val THEN Put(Nil) ELSE UNCHANGED <<store, tracked, pushes>>
       \/ Fails(g) /\ UNCHANGED <<store, tracked, pushes>>
    /\ UNCHANGED <<markers, client, version, floor>>

\* One of the two channels is closed, or the context is done.
Wait(g) ==
    /\ get[g].pc = "wait"
    /\ \/ get[g].woken /\ GetAt(g, "register") /\ UNCHANGED budget
       \/ Error /\ GetReturns(g)
    /\ UNCHANGED <<server, client, version, floor>>

GetStep(g) ==
    \/ Register(g) \/ Read(g) \/ BeginFlight(g) \/ JoinEnds(g) \/ KeepAlive(g) \/ Lock(g) \/ Load(g)
    \/ Set(g) \/ Cleanup(g) \/ RegisterMarker(g) \/ CheckMarker(g) \/ Release(g) \/ Wait(g)

AsideNext ==
    \/ \E g \in Getters : Call(g) \/ GetStep(g)
    \/ \E p \in AsideClients : RefreshMarker(p) \/ Lost(p) \/ CloseAside(p) \/ Crash(p)
    \/ \E p \in AsideClients, x \in Items : Invalidate(p, x)
    \/ \E i \in Ids : MarkerGone(i)
    \/ Write \/ Del \/ KeyExpires \/ LeftoverExpires

\* Goroutines run, pushes arrive, TTLs end: faults, errors, calls and writes need not happen.
AsideFair ==
    /\ WF_asideVars(\E g \in Getters : GetStep(g))
    /\ WF_asideVars(\E p \in AsideClients, x \in Items : Invalidate(p, x))
    /\ WF_asideVars(LeftoverExpires \/ \E i \in Ids : MarkerGone(i) /\ budget' = budget)

AsideSpec == AsideInit /\ [][AsideNext]_asideVars /\ AsideFair

-----------------------------------------------------------------------------
\* Data that was loaded before a Del is never under the key after it, although Get stores what
\* it loaded long ago and all goroutines of a client use the same id for their placeholders.
NoStaleValue == store.kind = "value" => store.of[1] >= floor

\* No two calls of fn are under the same placeholder: the value is loaded once.
OneLoader ==
    \A g, h \in Getters : g # h /\ {get[g].pc, get[h].pc} \subseteq {"load", "set"} => ~(Mine(g) /\ Mine(h))

\* Every Get returns (AsideBusy ~> ~AsideBusy): who waits for a placeholder is woken when it is replaced, and
\* also when its client crashed, was closed or lost its connection, whatever its own context.
AsideBusy == \E g \in Getters : get[g].pc # "idle"
=============================================================================
