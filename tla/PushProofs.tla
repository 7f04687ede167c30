----------------------------- MODULE PushProofs -----------------------------
(* Coherent and MonotonicReads of ClientCache for any number of callers,     *)
(* keys, commands and writes.                                                *)
EXTENDS ClientCache, TLAPS

CallSteps == {"idle", "flight", "miss", "wait", "send", "reply", "cancel", "return"}
Owners == Callers \cup {Nil}
Requests == [by : Owners, slot : Slots]
Messages ==
    [type : {"reply"}, by : Owners, slot : Slots, v : Versions]
        \cup [type : {"error"}, by : Owners]
        \cup [type : {"invalidate"}, by : {Nil}, keys : SUBSET Keys]

\* The i-th message on its way is a reply about k, or says that k is invalid.
IsReply(i, k) == i \in DOMAIN replies /\ replies[i].type = "reply" /\ KeyOf[replies[i].slot] = k
IsInval(i, k) == i \in DOMAIN replies /\ replies[i].type = "invalidate" /\ k \in replies[i].keys

\* A version of k that c has returned, or is about to.
Seen(c, k, n) ==
    \/ n = last[c][k]
    \/ cpc[c] = "return" /\ KeyOf[slot[c]] = k /\ cres[c] = n /\ n # Nil

CacheTypes ==
    /\ entry \in [Slots -> Versions \cup {Pending, Nil}] /\ db \in [Keys -> Versions] /\ tracked \subseteq Keys
    /\ cpc \in [Callers -> CallSteps] /\ slot \in [Callers -> Slots \cup {Nil}]
    /\ cres \in [Callers -> Versions \cup {Nil}] /\ last \in [Callers -> [Keys -> Versions]]
    /\ net \in Seq(Requests) /\ replies \in Seq(Messages) /\ up \in BOOLEAN
    /\ \A c \in Callers : cpc[c] # "idle" => slot[c] \in Slots
    /\ ~up => net = <<>> /\ replies = <<>>

\* A reply's caller waits for it and for no other.
Owned ==
    /\ \A i \in DOMAIN net : net[i].by # Nil => cpc[net[i].by] = "reply" /\ slot[net[i].by] = net[i].slot
    /\ \A i \in DOMAIN replies : replies[i].by # Nil =>
           cpc[replies[i].by] = "reply" /\ (replies[i].type = "reply" => slot[replies[i].by] = replies[i].slot)
    /\ \A i, j \in DOMAIN net : net[i].by # Nil /\ net[i].by = net[j].by => i = j
    /\ \A i, j \in DOMAIN replies : replies[i].by # Nil /\ replies[i].by = replies[j].by => i = j
    /\ \A i \in DOMAIN net, j \in DOMAIN replies : net[i].by # Nil => net[i].by # replies[j].by

\* What is cached, and what a reply says, is current and tracked by the server, or an invalidation
\* follows it.
EntriesCurrent ==
    \A s \in Slots : up /\ Filled(s) =>
        \/ entry[s] = db[KeyOf[s]] /\ KeyOf[s] \in tracked
        \/ \E j \in DOMAIN replies : IsInval(j, KeyOf[s])
RepliesCurrent ==
    \A k \in Keys, i \in DOMAIN replies : IsReply(i, k) =>
        \/ replies[i].v = db[k] /\ k \in tracked
        \/ \E j \in DOMAIN replies : i < j /\ IsInval(j, k)

\* Versions grow from what callers have seen over what is cached and the replies in their order to
\* the server's, and between two that differ is an invalidation.
SeenGrows ==
    \A c \in Callers, k \in Keys, n \in Versions : Seen(c, k, n) =>
        /\ n <= db[k]
        /\ \A s \in Slots : Filled(s) /\ KeyOf[s] = k => n <= entry[s]
        /\ \A i \in DOMAIN replies : IsReply(i, k) => n <= replies[i].v
EntriesGrow ==
    \A s \in Slots : Filled(s) =>
        /\ entry[s] <= db[KeyOf[s]]
        /\ \A t \in Slots : Filled(t) /\ KeyOf[t] = KeyOf[s] => entry[t] = entry[s]
        /\ \A i \in DOMAIN replies : IsReply(i, KeyOf[s]) =>
               /\ entry[s] <= replies[i].v
               /\ entry[s] = replies[i].v \/ \E j \in DOMAIN replies : j < i /\ IsInval(j, KeyOf[s])
RepliesGrow ==
    \A k \in Keys, i \in DOMAIN replies : IsReply(i, k) =>
        /\ replies[i].v <= db[k]
        /\ \A l \in DOMAIN replies : i < l /\ IsReply(l, k) =>
               /\ replies[i].v <= replies[l].v
               /\ replies[i].v = replies[l].v \/ \E j \in DOMAIN replies : i < j /\ j < l /\ IsInval(j, k)

\* A result is not older than what its caller has returned before.
ResultsGrow ==
    \A c \in Callers : cpc[c] = "return" /\ cres[c] # Nil => last[c][KeyOf[slot[c]]] <= cres[c]

Order == EntriesCurrent /\ RepliesCurrent /\ SeenGrows /\ EntriesGrow /\ RepliesGrow
CacheInv == CacheTypes /\ Owned /\ Order /\ ResultsGrow

USE CacheAssumption

\* What is on its way keeps its order and its contents: a message loses its owner at most.
SameReplies ==
    /\ DOMAIN replies' = DOMAIN replies
    /\ \A i \in DOMAIN replies, k \in Keys :
           /\ IsReply(i, k)' <=> IsReply(i, k)
           /\ IsInval(i, k)' <=> IsInval(i, k)
           /\ IsReply(i, k) => replies'[i].v = replies[i].v

USE ZenonT(60)

\* A step that changes nothing the invariant speaks of: a ttl that ends is one.
LEMMA CacheUntouched ==
    ASSUME CacheInv, UNCHANGED <<entry, cpc, slot, cres, last, net, replies, db, tracked, up>>
    PROVE  CacheInv'
  BY SMTT(30) DEF CacheInv, Order, CacheTypes, Owned, EntriesCurrent, RepliesCurrent, SeenGrows, EntriesGrow, RepliesGrow,
         ResultsGrow, Filled, Seen, IsReply, IsInval

\* The caches' keys are keys.
LEMMA KeyIs == \A s \in Slots : KeyOf[s] \in Keys
  BY DEF Keys

\* Steps of callers, and what removes entries: a caller sees what it saw or what was cached.
LEMMA CallersKeep ==
    ASSUME CacheInv, SameReplies, UNCHANGED <<db, tracked, up>>,
           \A s \in Slots : entry'[s] = entry[s] \/ entry'[s] \in {Pending, Nil},
           \A c \in Callers, k \in Keys, n \in Versions : Seen(c, k, n)' =>
               Seen(c, k, n) \/ \E s \in Slots : Filled(s) /\ KeyOf[s] = k /\ entry[s] = n
    PROVE  Order'
<1>1. \A s \in Slots : Filled(s)' => Filled(s) /\ entry'[s] = entry[s]
  BY DEF Filled
<1>2. EntriesCurrent'
  BY <1>1, KeyIs DEF CacheInv, Order, EntriesCurrent, SameReplies
<1>3. RepliesCurrent'
  BY DEF CacheInv, Order, RepliesCurrent, SameReplies
<1>4. SeenGrows'
  <2> SUFFICES ASSUME NEW c \in Callers, NEW k \in Keys, NEW n \in Versions, Seen(c, k, n)'
               PROVE  /\ n <= db[k]
                      /\ \A s \in Slots : Filled(s) /\ KeyOf[s] = k => n <= entry[s]
                      /\ \A i \in DOMAIN replies : IsReply(i, k) => n <= replies[i].v
    BY <1>1 DEF SeenGrows, SameReplies
  <2>1. CASE Seen(c, k, n)
    BY <2>1 DEF CacheInv, Order, SeenGrows
  <2>2. ASSUME NEW s \in Slots, Filled(s), KeyOf[s] = k, entry[s] = n
        PROVE  /\ n <= db[k]
               /\ \A t \in Slots : Filled(t) /\ KeyOf[t] = k => n <= entry[t]
               /\ \A i \in DOMAIN replies : IsReply(i, k) => n <= replies[i].v
    BY SMTT(30), <2>2 DEF CacheInv, Order, EntriesGrow, Versions
  <2> QED
    BY SMTT(30), <2>1, <2>2
<1>5. EntriesGrow'
  <2> SUFFICES ASSUME NEW s \in Slots, Filled(s)'
               PROVE  /\ entry'[s] <= db'[KeyOf[s]]
                      /\ \A t \in Slots : Filled(t)' /\ KeyOf[t] = KeyOf[s] => entry'[t] = entry'[s]
                      /\ \A i \in DOMAIN replies' : IsReply(i, KeyOf[s])' =>
                             /\ entry'[s] <= replies'[i].v
                             /\ entry'[s] = replies'[i].v \/ \E j \in DOMAIN replies' : j < i /\ IsInval(j, KeyOf[s])'
    BY DEF EntriesGrow
  <2>1. Filled(s) /\ entry'[s] = entry[s] /\ KeyOf[s] \in Keys
    BY <1>1, KeyIs
  <2>2. /\ entry[s] <= db[KeyOf[s]]
        /\ \A t \in Slots : Filled(t) /\ KeyOf[t] = KeyOf[s] => entry[t] = entry[s]
        /\ \A i \in DOMAIN replies : IsReply(i, KeyOf[s]) =>
               /\ entry[s] <= replies[i].v
               /\ entry[s] = replies[i].v \/ \E j \in DOMAIN replies : j < i /\ IsInval(j, KeyOf[s])
    BY <2>1 DEF CacheInv, Order, EntriesGrow
  <2> QED
    BY SMTT(30), <1>1, <2>1, <2>2 DEF SameReplies
<1>6. RepliesGrow'
  BY SMTT(30) DEF CacheInv, Order, RepliesGrow, SameReplies
<1> QED
  BY <1>2, <1>3, <1>4, <1>5, <1>6 DEF Order

\* A step that leaves the messages alone.
LEMMA SameIs ==
    ASSUME UNCHANGED replies
    PROVE  SameReplies
  BY DEF SameReplies, IsReply, IsInval

\* A message has an owner or none.
LEMMA HasOwner ==
    ASSUME CacheTypes
    PROVE  /\ \A i \in DOMAIN net : net[i] \in Requests /\ net[i].by \in Owners /\ net[i].slot \in Slots
           /\ \A i \in DOMAIN replies : replies[i] \in Messages /\ replies[i].by \in Owners
<1>1. \A i \in DOMAIN net : net[i] \in Requests
  BY SMTT(30) DEF CacheTypes
<1>2. \A i \in DOMAIN replies : replies[i] \in Messages
  BY SMTT(30) DEF CacheTypes
<1>3. \A m \in Requests : m.by \in Owners /\ m.slot \in Slots
  BY DEF Requests
<1>4. \A m \in Messages : m.by \in Owners
  BY DEF Messages, Owners
<1> QED
  BY <1>1, <1>2, <1>3, <1>4

\* A reply has a version of the key of its slot.
LEMMA ReplyIs ==
    ASSUME CacheTypes
    PROVE  \A k \in Keys, i \in DOMAIN replies : IsReply(i, k) =>
               replies[i].v \in Versions /\ replies[i].slot \in Slots /\ KeyOf[replies[i].slot] = k
<1>1. \A m \in Messages : m.type = "reply" => m.v \in Versions /\ m.slot \in Slots
  BY DEF Messages
<1> QED
  BY <1>1, HasOwner DEF IsReply

\* Owners of messages stay where they are.
LEMMA OwnersKeep ==
    ASSUME CacheInv, UNCHANGED <<net, replies>>,
           \A d \in Callers : cpc[d] = "reply" => cpc'[d] = cpc[d] /\ slot'[d] = slot[d]
    PROVE  Owned'
<1>1. /\ \A i \in DOMAIN net : net[i].by \in Callers \cup {Nil}
      /\ \A i \in DOMAIN replies : replies[i].by \in Callers \cup {Nil}
  BY HasOwner DEF CacheInv, Owners
<1> QED
  BY SMTT(30), <1>1 DEF CacheInv, Owned

\* A caller that has no request under way goes on, perhaps with what it found in the cache.
LEMMA MoveKeeps ==
    ASSUME CacheInv, NEW c \in Callers, UNCHANGED <<db, tracked, up, last, net, replies>>,
           cpc' \in [Callers -> CallSteps], slot' \in [Callers -> Slots \cup {Nil}], cres' \in [Callers -> Versions \cup {Nil}],
           entry' \in [Slots -> Versions \cup {Pending, Nil}],
           \A s \in Slots : entry'[s] = entry[s] \/ entry'[s] \in {Pending, Nil},
           \A d \in Callers \ {c} : cpc'[d] = cpc[d] /\ slot'[d] = slot[d] /\ cres'[d] = cres[d],
           cpc[c] # "reply" \/ ~up, cpc'[c] # "reply", cpc'[c] # "idle" => slot'[c] \in Slots,
           cpc'[c] = "return" => cres'[c] = Nil \/ \E s \in Slots : Filled(s) /\ KeyOf[s] = KeyOf[slot'[c]] /\ entry[s] = cres'[c]
    PROVE  CacheInv'
<1>2. CacheTypes'
  BY DEF CacheInv, CacheTypes
<1>3. Owned'
  <2>1. CASE cpc[c] # "reply"
    BY <2>1, OwnersKeep
  <2>2. CASE ~up
    <3>1. DOMAIN net' = {} /\ DOMAIN replies' = {}
      BY SMTT(30), <2>2 DEF CacheInv, CacheTypes
    <3> QED
      BY <3>1 DEF Owned
  <2> QED
    BY <2>1, <2>2
<1>4. \A d \in Callers, k \in Keys, n \in Versions : Seen(d, k, n)' =>
          Seen(d, k, n) \/ \E s \in Slots : Filled(s) /\ KeyOf[s] = k /\ entry[s] = n
  BY SMTT(30) DEF Seen
<1>5. ResultsGrow'
  <2>1. ASSUME cpc'[c] = "return", cres'[c] # Nil
        PROVE  last[c][KeyOf[slot'[c]]] <= cres'[c]
    <3>1. PICK s \in Slots : Filled(s) /\ KeyOf[s] = KeyOf[slot'[c]] /\ entry[s] = cres'[c]
      BY <2>1
    <3>2. KeyOf[s] \in Keys /\ last[c][KeyOf[s]] \in Versions
      BY SMTT(30), KeyIs DEF CacheInv, CacheTypes
    <3> QED
      BY SMTT(30), <3>1, <3>2 DEF CacheInv, Order, SeenGrows, Seen
  <2> QED
    BY <2>1 DEF CacheInv, ResultsGrow
<1> QED
  BY <1>2, <1>3, <1>4, <1>5, CallersKeep, SameIs DEF CacheInv

\* DoCache up to the point where a request goes out, and waiting that ends.
LEMMA FlightKeeps ==
    ASSUME CacheInv, NEW c \in Callers,
           DoCache(c) \/ FlightRead(c) \/ FlightWrite(c) \/ Fail(c) \/ StopWaiting(c)
    PROVE  CacheInv'
<1>1. /\ cpc \in [Callers -> CallSteps] /\ slot \in [Callers -> Slots \cup {Nil}]
      /\ cres \in [Callers -> Versions \cup {Nil}] /\ entry \in [Slots -> Versions \cup {Pending, Nil}]
      /\ cpc[c] # "idle" => slot[c] \in Slots
      /\ slot = [slot EXCEPT ![c] = slot[c]] /\ cres = [cres EXCEPT ![c] = cres[c]]
  BY DEF CacheInv, CacheTypes
<1> USE DEF CallerAt, Return, CallSteps
<1>2. CASE DoCache(c)
  <2>1. PICK s \in Slots : slot' = [slot EXCEPT ![c] = s]
    BY <1>2 DEF DoCache
  <2> QED
    BY <1>1, <1>2, <2>1, MoveKeeps DEF DoCache, cache, cacheServer
<1>3. CASE FlightRead(c)
  <2>1. UNCHANGED <<db, tracked, up, last, net, replies, entry, slot>> /\ cpc[c] = "flight"
    BY <1>3 DEF FlightRead, cacheServer
  <2>2. \/ Fresh(slot[c]) /\ cpc' = [cpc EXCEPT ![c] = "return"] /\ cres' = [cres EXCEPT ![c] = entry[slot[c]]]
        \/ cpc' = [cpc EXCEPT ![c] = "wait"] /\ cres' = cres
        \/ cpc' = [cpc EXCEPT ![c] = "miss"] /\ cres' = cres
    BY <1>3 DEF FlightRead
  <2>3. CASE Fresh(slot[c]) /\ cpc' = [cpc EXCEPT ![c] = "return"] /\ cres' = [cres EXCEPT ![c] = entry[slot[c]]]
    <3>1. slot[c] \in Slots /\ Filled(slot[c]) /\ entry[slot[c]] \in Versions
      BY <1>1, <2>1, <2>3 DEF Fresh, Filled
    <3> QED
      BY <1>1, <2>1, <2>3, <3>1, MoveKeeps
  <2> QED
    BY SMTT(30), <1>1, <2>1, <2>2, <2>3, MoveKeeps
<1>4. CASE FlightWrite(c)
  <2>1. UNCHANGED <<db, tracked, up, last, net, replies, slot>> /\ cpc[c] = "miss" /\ slot[c] \in Slots
    BY <1>1, <1>4 DEF FlightWrite, cacheServer
  <2>2. \/ Fresh(slot[c]) /\ cpc' = [cpc EXCEPT ![c] = "return"] /\ cres' = [cres EXCEPT ![c] = entry[slot[c]]]
           /\ entry' = entry
        \/ cpc' = [cpc EXCEPT ![c] = "wait"] /\ cres' = cres /\ entry' = entry
        \/ cpc' = [cpc EXCEPT ![c] = "send"] /\ cres' = cres
           /\ (entry' = entry \/ entry' = [entry EXCEPT ![slot[c]] = Pending])
    BY <1>4 DEF FlightWrite
  <2>3. CASE /\ Fresh(slot[c]) /\ cpc' = [cpc EXCEPT ![c] = "return"] /\ cres' = [cres EXCEPT ![c] = entry[slot[c]]]
             /\ entry' = entry
    <3>1. Filled(slot[c]) /\ entry[slot[c]] \in Versions
      BY <2>3 DEF Fresh, Filled
    <3> QED
      BY <1>1, <2>1, <2>3, <3>1, MoveKeeps
  <2>4. CASE /\ cpc' = [cpc EXCEPT ![c] = "send"] /\ cres' = cres
             /\ (entry' = entry \/ entry' = [entry EXCEPT ![slot[c]] = Pending])
    <3>1. /\ entry' \in [Slots -> Versions \cup {Pending, Nil}]
          /\ \A s \in Slots : entry'[s] = entry[s] \/ entry'[s] \in {Pending, Nil}
      BY <1>1, <2>1, <2>4
    <3> QED
      BY <1>1, <2>1, <2>4, <3>1, MoveKeeps
  <2> QED
    BY SMTT(30), <1>1, <2>1, <2>2, <2>3, <2>4, MoveKeeps
<1>5. CASE Fail(c)
  BY <1>1, <1>5, MoveKeeps DEF Fail, cache, cacheServer
<1>6. CASE StopWaiting(c)
  BY <1>1, <1>6, MoveKeeps DEF StopWaiting, cache, cacheServer
<1> QED
  BY <1>2, <1>3, <1>4, <1>5, <1>6

\* The request goes out, or fails on a broken pipe.
LEMMA SendKeeps ==
    ASSUME CacheInv, NEW c \in Callers, Send(c)
    PROVE  CacheInv'
<1>1. /\ cpc \in [Callers -> CallSteps] /\ cpc[c] = "send" /\ slot[c] \in Slots
      /\ UNCHANGED <<entry, slot, cres, last, replies, db, tracked, up>>
  BY DEF Send, CacheInv, CacheTypes, cache, cacheServer
<1>2. CASE ~up
  BY ZenonT(60), <1>1, <1>2, MoveKeeps DEF Send, CallerAt, CallSteps, CacheInv, CacheTypes
<1>3. CASE up
  <2>1. PICK q : q = [by |-> c, slot |-> slot[c]]
    OBVIOUS
  <2>2. net' = Append(net, q) /\ cpc' = [cpc EXCEPT ![c] = "reply"] /\ q.by = c /\ q.slot = slot[c]
    BY <1>3, <2>1 DEF Send, CallerAt
  <2>3. q \in Requests /\ net \in Seq(Requests)
    BY <1>1, <2>1 DEF Requests, Owners, CacheInv, CacheTypes
  <2>4. /\ net' \in Seq(Requests) /\ DOMAIN net' = 1..(Len(net) + 1) /\ DOMAIN net = 1..Len(net) /\ Len(net) \in Nat
        /\ net'[Len(net) + 1] = q /\ \A i \in DOMAIN net : net'[i] = net[i]
    BY SMTT(30), <2>2, <2>3
  <2>5. CacheTypes'
    BY <1>1, <1>3, <2>2, <2>4 DEF CacheInv, CacheTypes, CallSteps
  <2>6. /\ \A i \in DOMAIN net : net[i].by \in Owners /\ net[i].by # c
        /\ \A i \in DOMAIN replies : replies[i].by \in Owners /\ replies[i].by # c
    BY <1>1, HasOwner DEF CacheInv, Owned
  <2>7. Owned'
    <3>1. \A d \in Callers \ {c} : cpc'[d] = cpc[d]
      BY <1>1, <2>2
    <3>2. \A i \in DOMAIN net' : net'[i].by # Nil => cpc'[net'[i].by] = "reply" /\ slot[net'[i].by] = net'[i].slot
      BY SMTT(30), <1>1, <2>2, <2>4, <2>6, <3>1 DEF CacheInv, Owned, Owners
    <3>3. \A i \in DOMAIN replies : replies[i].by # Nil =>
             cpc'[replies[i].by] = "reply" /\ (replies[i].type = "reply" => slot[replies[i].by] = replies[i].slot)
      BY <2>6, <3>1 DEF CacheInv, Owned, Owners
    <3>4. \A i, j \in DOMAIN net' : net'[i].by # Nil /\ net'[i].by = net'[j].by => i = j
      BY SMTT(30), <2>2, <2>4, <2>6 DEF CacheInv, Owned
    <3>5. \A i \in DOMAIN net', j \in DOMAIN replies : net'[i].by # Nil => net'[i].by # replies[j].by
      BY SMTT(30), <2>2, <2>4, <2>6 DEF CacheInv, Owned
    <3>6. \A i, j \in DOMAIN replies : replies[i].by # Nil /\ replies[i].by = replies[j].by => i = j
      BY DEF CacheInv, Owned
    <3> QED
      BY <1>1, <3>2, <3>3, <3>4, <3>5, <3>6 DEF Owned
  <2>8. ResultsGrow' /\ \A d \in Callers, k \in Keys, n \in Versions : Seen(d, k, n)' => Seen(d, k, n)
    BY <1>1, <2>2 DEF CacheInv, ResultsGrow, Seen
  <2> QED
    BY <1>1, <2>5, <2>7, <2>8, CallersKeep, SameIs DEF CacheInv
<1> QED
  BY <1>2, <1>3

\* A message that loses its owner is otherwise the same.
Without(m) == [m EXCEPT !.by = Nil]

\* Disown takes the owner from the messages of one caller.
LEMMA DisownIs ==
    ASSUME NEW S, NEW q \in Seq(S), NEW c, \A m \in S : Without(m) \in S, NEW p, p = Disown(c, q)
    PROVE  /\ p \in Seq(S) /\ DOMAIN p = DOMAIN q
           /\ \A i \in DOMAIN q : p[i] = IF q[i].by = c THEN Without(q[i]) ELSE q[i]
  BY SMTT(30) DEF Disown, Without

\* What a message without its owner is.
LEMMA WithoutOwner ==
    /\ \A m \in Requests : Without(m) \in Requests /\ Without(m).by = Nil /\ Without(m).slot = m.slot
    /\ \A m \in Messages :
           /\ Without(m) \in Messages /\ Without(m).by = Nil /\ Without(m).type = m.type
           /\ m.type = "reply" => Without(m).slot = m.slot /\ Without(m).v = m.v
           /\ m.type = "invalidate" => Without(m).keys = m.keys
<1>1. ASSUME NEW m \in Requests, NEW n, n = Without(m)
      PROVE  n \in Requests /\ n.by = Nil /\ n.slot = m.slot
  BY <1>1 DEF Requests, Owners, Without
<1>2. ASSUME NEW m \in Messages, NEW n, n = Without(m)
      PROVE  /\ n \in Messages /\ n.by = Nil /\ n.type = m.type
             /\ m.type = "reply" => n.slot = m.slot /\ n.v = m.v
             /\ m.type = "invalidate" => n.keys = m.keys
  <2>1. CASE m \in [type : {"reply"}, by : Owners, slot : Slots, v : Versions]
    BY <1>2, <2>1 DEF Messages, Owners, Without
  <2>2. CASE m \in [type : {"error"}, by : Owners]
    BY <1>2, <2>2 DEF Messages, Owners, Without
  <2>3. CASE m \in [type : {"invalidate"}, by : {Nil}, keys : SUBSET Keys]
    BY <1>2, <2>3 DEF Messages, Owners, Without
  <2> QED
    BY <2>1, <2>2, <2>3 DEF Messages
<1> QED
  BY <1>1, <1>2

\* The context is done while the request is under way.
LEMMA AbortKeeps ==
    ASSUME CacheInv, NEW c \in Callers, Abort(c)
    PROVE  CacheInv'
<1>1. /\ cpc \in [Callers -> CallSteps] /\ cpc[c] = "reply" /\ cpc' = [cpc EXCEPT ![c] = "cancel"]
      /\ UNCHANGED <<entry, slot, cres, last, db, tracked, up>>
      /\ net' = Disown(c, net) /\ replies' = Disown(c, replies)
      /\ net \in Seq(Requests) /\ replies \in Seq(Messages)
  BY DEF Abort, CallerAt, CacheInv, CacheTypes, cache, cacheServer
<1>2. /\ net' \in Seq(Requests) /\ DOMAIN net' = DOMAIN net
      /\ \A i \in DOMAIN net : net'[i] = IF net[i].by = c THEN Without(net[i]) ELSE net[i]
  BY SMTT(30), <1>1, DisownIs, WithoutOwner
<1>3. /\ replies' \in Seq(Messages) /\ DOMAIN replies' = DOMAIN replies
      /\ \A i \in DOMAIN replies :
             replies'[i] = IF replies[i].by = c THEN Without(replies[i]) ELSE replies[i]
  BY SMTT(30), <1>1, DisownIs, WithoutOwner
<1>4. \A i \in DOMAIN net : net'[i].slot = net[i].slot /\ net'[i].by = IF net[i].by = c THEN Nil ELSE net[i].by
  BY SMTT(30), <1>2, HasOwner, WithoutOwner DEF CacheInv
<1>5. \A i \in DOMAIN replies :
          /\ replies'[i].type = replies[i].type
          /\ replies'[i].by = IF replies[i].by = c THEN Nil ELSE replies[i].by
          /\ replies[i].type = "reply" => replies'[i].slot = replies[i].slot /\ replies'[i].v = replies[i].v
          /\ replies[i].type = "invalidate" => replies'[i].keys = replies[i].keys
  BY SMTT(30), <1>3, HasOwner, WithoutOwner DEF CacheInv
<1>6. CacheTypes'
  <2>1. ~up => net' = <<>> /\ replies' = <<>>
    BY SMTT(30), <1>1, <1>2, <1>3 DEF CacheInv, CacheTypes
  <2> QED
    BY <1>1, <1>2, <1>3, <2>1 DEF CacheInv, CacheTypes, CallSteps
<1>7. SameReplies
  BY <1>3, <1>5 DEF SameReplies, IsReply, IsInval
<1>8. Owned'
  <2>1. \A d \in Callers \ {c} : cpc'[d] = cpc[d]
    BY <1>1
  <2>2. /\ \A i \in DOMAIN net : net[i].by \in Owners
        /\ \A i \in DOMAIN replies : replies[i].by \in Owners
    BY HasOwner DEF CacheInv
  <2>3. \A i \in DOMAIN net' : net'[i].by # Nil => cpc'[net'[i].by] = "reply" /\ slot[net'[i].by] = net'[i].slot
    BY SMTT(30), <1>2, <1>4, <2>1, <2>2 DEF CacheInv, Owned, Owners
  <2>4. \A i \in DOMAIN replies' : replies'[i].by # Nil =>
           cpc'[replies'[i].by] = "reply" /\ (replies'[i].type = "reply" => slot[replies'[i].by] = replies'[i].slot)
    BY SMTT(30), <1>3, <1>5, <2>1, <2>2 DEF CacheInv, Owned, Owners
  <2>5. /\ \A i, j \in DOMAIN net' : net'[i].by # Nil /\ net'[i].by = net'[j].by => i = j
        /\ \A i, j \in DOMAIN replies' : replies'[i].by # Nil /\ replies'[i].by = replies'[j].by => i = j
        /\ \A i \in DOMAIN net', j \in DOMAIN replies' : net'[i].by # Nil => net'[i].by # replies'[j].by
    BY SMTT(30), <1>2, <1>3, <1>4, <1>5 DEF CacheInv, Owned
  <2> QED
    BY <1>1, <2>3, <2>4, <2>5 DEF Owned
<1>9. ResultsGrow' /\ \A d \in Callers, k \in Keys, n \in Versions : Seen(d, k, n)' => Seen(d, k, n)
  BY <1>1 DEF CacheInv, ResultsGrow, Seen
<1> QED
  BY <1>1, <1>6, <1>7, <1>8, <1>9, CallersKeep DEF CacheInv

\* The flight of a caller that gives up is removed, the caches' own Close ends all flights, and a
\* caller returns.
LEMMA EndKeeps ==
    ASSUME CacheInv, CloseCache \/ \E c \in Callers : CancelFlight(c) \/ FinishCall(c)
    PROVE  CacheInv'
<1>1. /\ cpc \in [Callers -> CallSteps] /\ slot \in [Callers -> Slots \cup {Nil}]
      /\ cres \in [Callers -> Versions \cup {Nil}] /\ entry \in [Slots -> Versions \cup {Pending, Nil}]
      /\ \A c \in Callers : cpc[c] # "idle" => slot[c] \in Slots
  BY DEF CacheInv, CacheTypes
<1>2. ASSUME NEW D \in SUBSET Callers, \A d \in D : cpc[d] \notin {"reply", "idle"},
             UNCHANGED <<db, tracked, up, last, net, replies, slot>>,
             entry' \in [Slots -> Versions \cup {Pending, Nil}],
             \A s \in Slots : entry'[s] = entry[s] \/ entry'[s] \in {Pending, Nil},
             cpc' = [d \in Callers |-> IF d \in D THEN "return" ELSE cpc[d]],
             cres' = [d \in Callers |-> IF d \in D THEN Nil ELSE cres[d]]
      PROVE  CacheInv'
  <2>1. CacheTypes'
    BY <1>1, <1>2 DEF CacheInv, CacheTypes, CallSteps
  <2>2. Owned'
    BY <1>1, <1>2, OwnersKeep
  <2>3. ResultsGrow' /\ \A d \in Callers, k \in Keys, n \in Versions : Seen(d, k, n)' => Seen(d, k, n)
    BY <1>1, <1>2 DEF CacheInv, ResultsGrow, Seen
  <2> QED
    BY <1>2, <2>1, <2>2, <2>3, CallersKeep, SameIs DEF CacheInv
<1>3. CASE CloseCache
  <2>1. PICK D : D = {d \in Callers : \E s \in {x \in Slots : entry[x] = Pending} : d \in WaitingFor(s)}
    OBVIOUS
  <2>2. /\ D \in SUBSET Callers /\ \A d \in D : cpc[d] \notin {"reply", "idle"}
    BY <2>1 DEF WaitingFor
  <2>3. /\ cpc' = [d \in Callers |-> IF d \in D THEN "return" ELSE cpc[d]]
        /\ cres' = [d \in Callers |-> IF d \in D THEN Nil ELSE cres[d]]
    BY <1>3, <2>1 DEF CloseCache, Release
  <2>4. UNCHANGED <<db, tracked, up, last, net, replies, slot>> /\ entry' = [s \in Slots |-> Nil]
    BY <1>3 DEF CloseCache, cacheServer
  <2> QED
    BY <1>1, <1>2, <2>2, <2>3, <2>4
<1>4. ASSUME NEW c \in Callers, CancelFlight(c)
      PROVE  CacheInv'
  <2>1. PICK R : R = IF entry[slot[c]] = Pending THEN WaitingFor(slot[c]) ELSE {}
    OBVIOUS
  <2>2. PICK D : D = R \cup {c}
    OBVIOUS
  <2>3. /\ cpc' = [d \in Callers |-> IF d \in D THEN "return" ELSE cpc[d]]
        /\ cres' = [d \in Callers |-> IF d \in D THEN Nil ELSE cres[d]]
        /\ entry' = [t \in Slots |-> IF t = slot[c] /\ entry[t] = Pending THEN Nil ELSE entry[t]]
        /\ UNCHANGED <<db, tracked, up, last, net, replies, slot>>
    BY <1>4, <2>1, <2>2 DEF CancelFlight, cacheServer
  <2>4. D \in SUBSET Callers /\ \A d \in D : cpc[d] \in {"cancel", "wait"}
    BY <1>4, <2>1, <2>2 DEF CancelFlight, WaitingFor
  <2>5. /\ entry' \in [Slots -> Versions \cup {Pending, Nil}]
        /\ \A s \in Slots : entry'[s] = entry[s] \/ entry'[s] \in {Pending, Nil}
    BY <1>1, <2>3
  <2> QED
    BY <1>2, <2>3, <2>4, <2>5
<1>5. ASSUME NEW c \in Callers, FinishCall(c)
      PROVE  CacheInv'
  <2>1. /\ cpc[c] = "return" /\ cpc' = [cpc EXCEPT ![c] = "idle"] /\ slot' = [slot EXCEPT ![c] = Nil]
        /\ cres' = [cres EXCEPT ![c] = Nil] /\ UNCHANGED <<entry, db, tracked, up, net, replies>>
        /\ last' = IF cres[c] = Nil THEN last ELSE [last EXCEPT ![c][KeyOf[slot[c]]] = cres[c]]
    BY <1>5 DEF FinishCall, CallerAt, cache, cacheServer
  <2>2. slot[c] \in Slots /\ KeyOf[slot[c]] \in Keys /\ last \in [Callers -> [Keys -> Versions]]
    BY <1>1, <2>1, KeyIs DEF CacheInv, CacheTypes
  <2>3. /\ last' \in [Callers -> [Keys -> Versions]]
        /\ \A d \in Callers, k \in Keys : \/ last'[d][k] = last[d][k]
                                          \/ d = c /\ k = KeyOf[slot[c]] /\ last'[d][k] = cres[c] /\ cres[c] # Nil
    BY <1>1, <2>1, <2>2
  <2>4. CacheTypes'
    BY <1>1, <2>1, <2>3 DEF CacheInv, CacheTypes, CallSteps
  <2>5. Owned'
    BY <1>1, <2>1, OwnersKeep
  <2>6. \A d \in Callers, k \in Keys, n \in Versions : Seen(d, k, n)' => Seen(d, k, n)
    BY SMTT(30), <1>1, <2>1, <2>3 DEF Seen
  <2>7. ResultsGrow'
    BY <1>1, <2>1, <2>3, KeyIs DEF CacheInv, ResultsGrow
  <2> QED
    BY <2>1, <2>4, <2>5, <2>6, <2>7, CallersKeep, SameIs DEF CacheInv
<1> QED
  BY <1>3, <1>4, <1>5

\* The first message has been read: the others keep their order.
Shifted ==
    /\ 1 \in DOMAIN replies /\ DOMAIN replies \subseteq Nat \ {0} /\ DOMAIN replies' \subseteq Nat \ {0}
    /\ \A i \in DOMAIN replies' : i + 1 \in DOMAIN replies /\ replies'[i] = replies[i + 1]
    /\ \A i \in DOMAIN replies' : \A k \in Keys :
           (IsReply(i, k)' <=> IsReply(i + 1, k)) /\ (IsInval(i, k)' <=> IsInval(i + 1, k))
    /\ \A j \in DOMAIN replies \ {1} : j - 1 \in DOMAIN replies'
    /\ \A j \in DOMAIN replies \ {1} : \A k \in Keys : IsInval(j - 1, k)' <=> IsInval(j, k)

\* What the read loop does to the cache and to callers with the first message: it fills entries and
\* answers callers with a reply, and leaves no entry that the message invalidates.
ReadFills ==
    \A s \in Slots : Filled(s)' => \/ Filled(s) /\ entry'[s] = entry[s] /\ ~IsInval(1, KeyOf[s])
                                   \/ IsReply(1, KeyOf[s]) /\ entry'[s] = replies[1].v
ReadSees ==
    \A c \in Callers, k \in Keys, n \in Versions :
        Seen(c, k, n)' => Seen(c, k, n) \/ (IsReply(1, k) /\ n = replies[1].v)

-----------------------------------------------------------------------------
\* The read loop takes the first message.
LEMMA TailIs ==
    ASSUME CacheTypes, replies # <<>>, replies' = Tail(replies)
    PROVE  /\ replies' \in Seq(Messages) /\ 1 \in DOMAIN replies /\ Head(replies) = replies[1] /\ up
           /\ Shifted
<1>1. replies \in Seq(Messages) /\ Len(replies) \in Nat \ {0} /\ DOMAIN replies = 1..Len(replies) /\ up
  BY SMTT(30) DEF CacheTypes
<1>2. /\ replies' \in Seq(Messages) /\ DOMAIN replies' = 1..(Len(replies) - 1) /\ Head(replies) = replies[1]
      /\ \A i \in 1..(Len(replies) - 1) : replies'[i] = replies[i + 1]
  BY SMTT(30), <1>1
<1>3. /\ \A i \in DOMAIN replies' : i + 1 \in DOMAIN replies /\ replies'[i] = replies[i + 1] /\ i \in Nat
      /\ \A j \in DOMAIN replies \ {1} : j - 1 \in DOMAIN replies' /\ replies'[j - 1] = replies[j]
  BY SMTT(30), <1>1, <1>2
<1> QED
  BY SMTT(30), <1>1, <1>2, <1>3 DEF IsReply, IsInval, Shifted

\* The order after the first message has been read.
LEMMA ReadKeepsOrder ==
    ASSUME Order, Shifted, UNCHANGED <<db, tracked, up>>, ReadFills, ReadSees
    PROVE  Order'
<1>1. \A k \in Keys : \A j \in DOMAIN replies \ {1} : IsInval(j, k) => j - 1 \in DOMAIN replies' /\ IsInval(j - 1, k)'
  BY DEF Shifted
<1>2. \A s \in Slots : Filled(s) /\ IsReply(1, KeyOf[s]) => entry[s] = replies[1].v
  BY SMTT(30) DEF Order, EntriesGrow, Shifted
<1>3. EntriesCurrent'
  <2> SUFFICES ASSUME NEW s \in Slots, up, Filled(s)'
               PROVE  \/ entry'[s] = db[KeyOf[s]] /\ KeyOf[s] \in tracked
                      \/ \E j \in DOMAIN replies' : IsInval(j, KeyOf[s])'
    BY DEF EntriesCurrent
  <2>1. KeyOf[s] \in Keys
    BY KeyIs
  <2>2. CASE Filled(s) /\ entry'[s] = entry[s] /\ ~IsInval(1, KeyOf[s])
    BY <1>1, <2>1, <2>2 DEF Order, EntriesCurrent
  <2>3. CASE IsReply(1, KeyOf[s]) /\ entry'[s] = replies[1].v
    BY SMTT(30), <1>1, <2>1, <2>3 DEF Order, RepliesCurrent, Shifted
  <2> QED
    BY <2>2, <2>3 DEF ReadFills
<1>4. RepliesCurrent'
  <2> SUFFICES ASSUME NEW k \in Keys, NEW i \in DOMAIN replies', IsReply(i, k)'
               PROVE  \/ replies'[i].v = db[k] /\ k \in tracked
                      \/ \E j \in DOMAIN replies' : i < j /\ IsInval(j, k)'
    BY DEF RepliesCurrent
  <2>1. i + 1 \in DOMAIN replies /\ replies'[i] = replies[i + 1] /\ IsReply(i + 1, k) /\ i \in Nat
    BY DEF Shifted
  <2>2. CASE \E j \in DOMAIN replies : i + 1 < j /\ IsInval(j, k)
    <3>1. PICK j \in DOMAIN replies : i + 1 < j /\ IsInval(j, k)
      BY <2>2
    <3>2. j \in Nat /\ j # 1 /\ i < j - 1
      BY SMTT(30), <2>1, <3>1 DEF Shifted
    <3> QED
      BY <1>1, <3>1, <3>2
  <2> QED
    BY <2>1, <2>2 DEF Order, RepliesCurrent
<1>5. SeenGrows'
  <2> SUFFICES ASSUME NEW c \in Callers, NEW k \in Keys, NEW n \in Versions, Seen(c, k, n)'
               PROVE  /\ n <= db[k]
                      /\ \A s \in Slots : Filled(s)' /\ KeyOf[s] = k => n <= entry'[s]
                      /\ \A i \in DOMAIN replies' : IsReply(i, k)' => n <= replies'[i].v
    BY DEF SeenGrows
  <2>1. n <= n
    BY SMTT(30) DEF Versions
  <2>2. CASE Seen(c, k, n)
    <3>1. /\ n <= db[k]
          /\ \A s \in Slots : Filled(s) /\ KeyOf[s] = k => n <= entry[s]
          /\ \A i \in DOMAIN replies : IsReply(i, k) => n <= replies[i].v
      BY <2>2 DEF Order, SeenGrows
    <3> QED
      BY <3>1 DEF Shifted, ReadFills
  <2>3. CASE IsReply(1, k) /\ n = replies[1].v
    <3>1. n <= db[k] /\ \A l \in DOMAIN replies : 1 < l /\ IsReply(l, k) => n <= replies[l].v
      BY <2>3 DEF Order, RepliesGrow, Shifted
    <3>2. \A i \in DOMAIN replies' : 1 < i + 1
      BY SMTT(30) DEF Shifted
    <3> QED
      BY <1>2, <2>1, <2>3, <3>1, <3>2 DEF Shifted, ReadFills
  <2> QED
    BY <2>2, <2>3 DEF ReadSees
<1>6. EntriesGrow'
  <2> SUFFICES ASSUME NEW s \in Slots, Filled(s)'
               PROVE  /\ entry'[s] <= db[KeyOf[s]]
                      /\ \A t \in Slots : Filled(t)' /\ KeyOf[t] = KeyOf[s] => entry'[t] = entry'[s]
                      /\ \A i \in DOMAIN replies' : IsReply(i, KeyOf[s])' =>
                             /\ entry'[s] <= replies'[i].v
                             /\ entry'[s] = replies'[i].v \/ \E j \in DOMAIN replies' : j < i /\ IsInval(j, KeyOf[s])'
    BY DEF EntriesGrow
  <2>1. KeyOf[s] \in Keys
    BY KeyIs
  <2>2. \A i \in DOMAIN replies', j \in DOMAIN replies : j < i + 1 /\ j # 1 => j - 1 < i
    BY SMTT(30) DEF Shifted
  <2>3. CASE Filled(s) /\ entry'[s] = entry[s] /\ ~IsInval(1, KeyOf[s])
    <3>1. /\ entry[s] <= db[KeyOf[s]]
          /\ \A t \in Slots : Filled(t) /\ KeyOf[t] = KeyOf[s] => entry[t] = entry[s]
          /\ \A i \in DOMAIN replies : IsReply(i, KeyOf[s]) =>
                 /\ entry[s] <= replies[i].v
                 /\ entry[s] = replies[i].v \/ \E j \in DOMAIN replies : j < i /\ IsInval(j, KeyOf[s])
      BY <2>3 DEF Order, EntriesGrow
    <3>2. \A t \in Slots : Filled(t)' /\ KeyOf[t] = KeyOf[s] => entry'[t] = entry'[s]
      BY <1>2, <2>3, <3>1 DEF ReadFills
    <3>3. ASSUME NEW i \in DOMAIN replies', IsReply(i, KeyOf[s])'
          PROVE  /\ entry'[s] <= replies'[i].v
                 /\ entry'[s] = replies'[i].v \/ \E j \in DOMAIN replies' : j < i /\ IsInval(j, KeyOf[s])'
      <4>1. i + 1 \in DOMAIN replies /\ IsReply(i + 1, KeyOf[s]) /\ replies'[i] = replies[i + 1]
        BY <2>1, <3>3 DEF Shifted
      <4>2. CASE \E j \in DOMAIN replies : j < i + 1 /\ IsInval(j, KeyOf[s])
        <5>1. PICK j \in DOMAIN replies : j < i + 1 /\ IsInval(j, KeyOf[s])
          BY <4>2
        <5>2. j # 1
          BY <2>3, <5>1
        <5>3. j - 1 \in DOMAIN replies' /\ j - 1 < i /\ IsInval(j - 1, KeyOf[s])'
          BY <1>1, <2>1, <2>2, <5>1, <5>2
        <5> QED
          BY <2>3, <3>1, <4>1, <5>3
      <4> QED
        BY <2>3, <3>1, <4>1, <4>2
    <3> QED
      BY <2>3, <3>1, <3>2, <3>3
  <2>4. CASE IsReply(1, KeyOf[s]) /\ entry'[s] = replies[1].v
    <3>1. /\ replies[1].v <= db[KeyOf[s]]
          /\ \A l \in DOMAIN replies : 1 < l /\ IsReply(l, KeyOf[s]) =>
                 /\ replies[1].v <= replies[l].v
                 /\ replies[1].v = replies[l].v \/ \E j \in DOMAIN replies : 1 < j /\ j < l /\ IsInval(j, KeyOf[s])
      BY <2>1, <2>4 DEF Order, RepliesGrow, Shifted
    <3>2. \A t \in Slots : Filled(t)' /\ KeyOf[t] = KeyOf[s] => entry'[t] = entry'[s]
      BY <1>2, <2>4 DEF ReadFills
    <3>3. ASSUME NEW i \in DOMAIN replies', IsReply(i, KeyOf[s])'
          PROVE  /\ entry'[s] <= replies'[i].v
                 /\ entry'[s] = replies'[i].v \/ \E j \in DOMAIN replies' : j < i /\ IsInval(j, KeyOf[s])'
      <4>1. i + 1 \in DOMAIN replies /\ IsReply(i + 1, KeyOf[s]) /\ replies'[i] = replies[i + 1] /\ 1 < i + 1
        BY SMTT(30), <2>1, <3>3 DEF Shifted
      <4>2. CASE \E j \in DOMAIN replies : 1 < j /\ j < i + 1 /\ IsInval(j, KeyOf[s])
        <5>1. PICK j \in DOMAIN replies : 1 < j /\ j < i + 1 /\ IsInval(j, KeyOf[s])
          BY <4>2
        <5>2. j - 1 \in DOMAIN replies' /\ j - 1 < i /\ IsInval(j - 1, KeyOf[s])'
          BY SMTT(30), <1>1, <2>1, <2>2, <5>1
        <5> QED
          BY <2>4, <3>1, <4>1, <5>2
      <4> QED
        BY <2>4, <3>1, <4>1, <4>2
    <3> QED
      BY <2>4, <3>1, <3>2, <3>3
  <2> QED
    BY <2>3, <2>4 DEF ReadFills
<1>7. RepliesGrow'
  <2> SUFFICES ASSUME NEW k \in Keys, NEW i \in DOMAIN replies', IsReply(i, k)'
               PROVE  /\ replies'[i].v <= db[k]
                      /\ \A l \in DOMAIN replies' : i < l /\ IsReply(l, k)' =>
                             /\ replies'[i].v <= replies'[l].v
                             /\ \/ replies'[i].v = replies'[l].v
                                \/ \E j \in DOMAIN replies' : i < j /\ j < l /\ IsInval(j, k)'
    BY DEF RepliesGrow
  <2>1. i + 1 \in DOMAIN replies /\ replies'[i] = replies[i + 1] /\ IsReply(i + 1, k) /\ i \in Nat
    BY DEF Shifted
  <2>2. /\ replies[i + 1].v <= db[k]
        /\ \A l \in DOMAIN replies : i + 1 < l /\ IsReply(l, k) =>
               /\ replies[i + 1].v <= replies[l].v
               /\ \/ replies[i + 1].v = replies[l].v
                  \/ \E j \in DOMAIN replies : i + 1 < j /\ j < l /\ IsInval(j, k)
    BY <2>1 DEF Order, RepliesGrow
  <2>3. ASSUME NEW l \in DOMAIN replies', i < l, IsReply(l, k)'
        PROVE  /\ replies'[i].v <= replies'[l].v
               /\ replies'[i].v = replies'[l].v \/ \E j \in DOMAIN replies' : i < j /\ j < l /\ IsInval(j, k)'
    <3>1. l + 1 \in DOMAIN replies /\ replies'[l] = replies[l + 1] /\ IsReply(l + 1, k) /\ i + 1 < l + 1 /\ l \in Nat
      BY SMTT(30), <2>1, <2>3 DEF Shifted
    <3>2. CASE \E j \in DOMAIN replies : i + 1 < j /\ j < l + 1 /\ IsInval(j, k)
      <4>1. PICK j \in DOMAIN replies : i + 1 < j /\ j < l + 1 /\ IsInval(j, k)
        BY <3>2
      <4>2. j \in Nat /\ j # 1 /\ i < j - 1 /\ j - 1 < l
        BY SMTT(30), <2>1, <3>1, <4>1 DEF Shifted
      <4>3. j - 1 \in DOMAIN replies' /\ IsInval(j - 1, k)'
        BY <1>1, <4>1, <4>2
      <4> QED
        BY <2>1, <2>2, <3>1, <4>2, <4>3
    <3> QED
      BY <2>1, <2>2, <3>1, <3>2
  <2> QED
    BY <2>1, <2>2, <2>3
<1> QED
  BY <1>3, <1>4, <1>5, <1>6, <1>7 DEF Order

\* The owner of the message that was read may go on, the others wait for theirs.
LEMMA ReadKeepsOwners ==
    ASSUME CacheInv, replies # <<>>, replies' = Tail(replies), UNCHANGED <<net, slot>>,
           \A d \in Callers : cpc[d] = "reply" /\ d # replies[1].by => cpc'[d] = cpc[d]
    PROVE  Owned'
<1>1. /\ 1 \in DOMAIN replies /\ DOMAIN replies' \subseteq Nat \ {0}
      /\ \A i \in DOMAIN replies' : i + 1 \in DOMAIN replies /\ replies'[i] = replies[i + 1]
  BY TailIs DEF CacheInv, Shifted
<1>2. /\ \A i \in DOMAIN net : net[i].by \in Owners
      /\ \A i \in DOMAIN replies : replies[i].by \in Owners
  BY HasOwner DEF CacheInv
<1>3. \A i \in DOMAIN net : net[i].by # Nil => net[i].by # replies[1].by
  BY <1>1 DEF CacheInv, Owned
<1>4. \A i \in DOMAIN replies' : replies'[i].by # Nil => replies'[i].by # replies[1].by
  <2> SUFFICES ASSUME NEW i \in DOMAIN replies', replies'[i].by # Nil
               PROVE  replies'[i].by # replies[1].by
    OBVIOUS
  <2>1. i + 1 \in DOMAIN replies /\ replies'[i] = replies[i + 1] /\ i + 1 # 1
    BY SMTT(30), <1>1
  <2> QED
    BY SMTT(30), <1>1, <2>1 DEF CacheInv, Owned
<1>5. \A i \in DOMAIN net : net[i].by # Nil => cpc'[net[i].by] = "reply" /\ slot[net[i].by] = net[i].slot
  BY <1>2, <1>3 DEF CacheInv, Owned, Owners
<1>6. \A i \in DOMAIN replies' : replies'[i].by # Nil =>
          cpc'[replies'[i].by] = "reply" /\ (replies'[i].type = "reply" => slot[replies'[i].by] = replies'[i].slot)
  BY SMTT(30), <1>1, <1>2, <1>4 DEF CacheInv, Owned, Owners
<1>7. \A i, j \in DOMAIN replies' : replies'[i].by # Nil /\ replies'[i].by = replies'[j].by => i = j
  <2> SUFFICES ASSUME NEW i \in DOMAIN replies', NEW j \in DOMAIN replies', replies'[i].by # Nil,
                      replies'[i].by = replies'[j].by
               PROVE  i = j
    OBVIOUS
  <2>1. i + 1 = j + 1
    BY SMTT(30), <1>1 DEF CacheInv, Owned
  <2> QED
    BY SMTT(30), <1>1, <2>1
<1>8. \A i \in DOMAIN net, j \in DOMAIN replies' : net[i].by # Nil => net[i].by # replies'[j].by
  BY SMTT(30), <1>1 DEF CacheInv, Owned
<1>9. \A i, j \in DOMAIN net : net[i].by # Nil /\ net[i].by = net[j].by => i = j
  BY DEF CacheInv, Owned
<1> QED
  BY <1>5, <1>6, <1>7, <1>8, <1>9 DEF Owned

\* An error reply, and an invalidation.
LEMMA ReadOtherKeeps ==
    ASSUME CacheInv, ReadError \/ ReadInvalidation
    PROVE  CacheInv'
<1>1. /\ cpc \in [Callers -> CallSteps] /\ entry \in [Slots -> Versions \cup {Pending, Nil}]
      /\ \A c \in Callers : cpc[c] # "idle" => slot[c] \in Slots
  BY DEF CacheInv, CacheTypes
<1>2. replies # <<>> /\ replies' = Tail(replies) /\ UNCHANGED <<slot, cres, last, net, db, tracked, up>>
  BY DEF ReadError, ReadInvalidation, locals, cacheServer
<1>3. replies' \in Seq(Messages) /\ 1 \in DOMAIN replies /\ Head(replies) = replies[1] /\ up /\ Shifted
  BY <1>2, TailIs DEF CacheInv
<1>4. CASE ReadError
  <2>1. /\ replies[1].type = "error" /\ entry' = entry
        /\ cpc' = [c \in Callers |-> IF c = replies[1].by THEN "cancel" ELSE cpc[c]]
    BY <1>3, <1>4 DEF ReadError, cache
  <2>2. \A c \in Callers : c = replies[1].by => cpc[c] = "reply"
    BY <1>3 DEF CacheInv, Owned
  <2>3. CacheTypes'
    BY <1>1, <1>2, <1>3, <2>1, <2>2 DEF CacheInv, CacheTypes, CallSteps
  <2>4. Owned'
    BY <1>2, <2>1, ReadKeepsOwners
  <2>5. ResultsGrow' /\ ReadSees
    BY <1>1, <1>2, <2>1 DEF CacheInv, ResultsGrow, Seen, ReadSees
  <2>6. ReadFills
    BY <2>1 DEF Filled, IsInval, ReadFills
  <2> QED
    BY <1>2, <1>3, <2>3, <2>4, <2>5, <2>6, ReadKeepsOrder DEF CacheInv
<1>5. CASE ReadInvalidation
  <2>1. PICK out : out = Purged(replies[1].keys)
    OBVIOUS
  <2>2. /\ replies[1].type = "invalidate" /\ entry' = [s \in Slots |-> IF s \in out THEN Nil ELSE entry[s]]
        /\ cpc' = cpc
    BY <1>3, <1>5, <2>1 DEF ReadInvalidation, locals
  <2>3. CacheTypes'
    BY <1>1, <1>2, <1>3, <2>2 DEF CacheInv, CacheTypes
  <2>4. Owned'
    BY <1>2, <2>2, ReadKeepsOwners
  <2>5. ResultsGrow' /\ ReadSees
    BY <1>2, <2>2 DEF CacheInv, ResultsGrow, Seen, ReadSees
  <2>6. ReadFills
    BY <2>1, <2>2 DEF Filled, IsInval, Purged, ReadFills
  <2> QED
    BY <1>2, <1>3, <2>3, <2>4, <2>5, <2>6, ReadKeepsOrder DEF CacheInv
<1> QED
  BY <1>4, <1>5

\* A reply fills the pending entry it finds, and answers its caller and those who wait for it.
LEMMA ReadCachedKeeps ==
    ASSUME CacheInv, ReadCached
    PROVE  CacheInv'
<1>1. /\ cpc \in [Callers -> CallSteps] /\ entry \in [Slots -> Versions \cup {Pending, Nil}]
      /\ cres \in [Callers -> Versions \cup {Nil}]
      /\ \A c \in Callers : cpc[c] # "idle" => slot[c] \in Slots
  BY DEF CacheInv, CacheTypes
<1>2. replies # <<>> /\ replies' = Tail(replies) /\ UNCHANGED <<slot, last, net, db, tracked, up>>
  BY DEF ReadCached, cacheServer
<1>3. replies' \in Seq(Messages) /\ 1 \in DOMAIN replies /\ Head(replies) = replies[1] /\ up /\ Shifted
  BY <1>2, TailIs DEF CacheInv
<1>4. PICK m : m = replies[1]
  OBVIOUS
<1>5. m.type = "reply" /\ m.slot \in Slots /\ m.v \in Versions /\ m.by \in Owners /\ KeyOf[m.slot] \in Keys
  <2>1. m \in Messages /\ m.type = "reply"
    BY <1>3, <1>4, HasOwner DEF ReadCached, CacheInv
  <2>2. m \in [type : {"reply"}, by : Owners, slot : Slots, v : Versions]
    BY <2>1 DEF Messages
  <2> QED
    BY <2>2, KeyIs
<1>6. PICK R : R = IF entry[m.slot] = Pending THEN WaitingFor(m.slot) ELSE {}
  OBVIOUS
<1>7. PICK D : D = R \cup {m.by}
  OBVIOUS
<1>8. /\ cpc' = [c \in Callers |-> IF c \in D THEN "return" ELSE cpc[c]]
      /\ cres' = [c \in Callers |-> IF c \in D THEN m.v ELSE cres[c]]
      /\ Update(m.slot, m.v)
  BY <1>3, <1>4, <1>6, <1>7 DEF ReadCached
<1>9. \A c \in D \cap Callers : slot[c] = m.slot /\ cpc[c] \in {"wait", "reply"} /\ (cpc[c] = "reply" => c = m.by)
  <2>1. \A c \in R : slot[c] = m.slot /\ cpc[c] = "wait"
    BY <1>6 DEF WaitingFor
  <2>2. m.by \in Callers => slot[m.by] = m.slot /\ cpc[m.by] = "reply"
    BY <1>3, <1>4, <1>5 DEF CacheInv, Owned
  <2> QED
    BY <1>7, <2>1, <2>2
<1>10. /\ entry' \in [Slots -> Versions \cup {Pending, Nil}]
       /\ \A s \in Slots : Filled(s)' => entry'[s] = entry[s] \/ (s = m.slot /\ entry'[s] = m.v)
  <2>1. PICK out : entry' = [s \in Slots |->
            IF s \in out THEN Nil ELSE IF s = m.slot /\ entry[s] = Pending THEN m.v ELSE entry[s]]
    BY <1>8 DEF Update
  <2> QED
    BY <1>1, <1>5, <2>1 DEF Filled
<1>11. IsReply(1, KeyOf[m.slot])
  BY <1>3, <1>4, <1>5 DEF IsReply
<1>12. CacheTypes'
  BY <1>1, <1>2, <1>3, <1>5, <1>8, <1>9, <1>10 DEF CacheInv, CacheTypes, CallSteps
<1>13. Owned'
  BY <1>1, <1>2, <1>4, <1>8, <1>9, ReadKeepsOwners
<1>14. ReadFills
  BY <1>4, <1>5, <1>10, <1>11 DEF Filled, IsInval, ReadFills
<1>15. ReadSees
  BY SMTT(30), <1>1, <1>2, <1>4, <1>8, <1>9, <1>11 DEF Seen, ReadSees
<1>16. ResultsGrow'
  <2>1. ASSUME NEW c \in Callers, c \in D
        PROVE  last[c][KeyOf[slot[c]]] <= m.v
    <3>1. slot[c] = m.slot /\ last[c][KeyOf[m.slot]] \in Versions
      BY SMTT(30), <1>5, <1>9, <2>1 DEF CacheInv, CacheTypes
    <3> QED
      BY <1>3, <1>4, <1>5, <1>11, <3>1 DEF CacheInv, Order, SeenGrows, Seen
  <2> QED
    BY <1>1, <1>2, <1>8, <2>1 DEF CacheInv, ResultsGrow
<1> QED
  BY <1>2, <1>3, <1>12, <1>13, <1>14, <1>15, <1>16, ReadKeepsOrder DEF CacheInv

-----------------------------------------------------------------------------
\* The server adds a message behind the others.
LEMMA AddedIs ==
    ASSUME CacheTypes, NEW m \in Messages, replies' = Append(replies, m)
    PROVE  /\ replies' \in Seq(Messages) /\ DOMAIN replies \subseteq Nat /\ DOMAIN replies \subseteq DOMAIN replies'
           /\ Len(replies) + 1 \in DOMAIN replies' /\ replies'[Len(replies) + 1] = m
           /\ \A i \in DOMAIN replies : i < Len(replies) + 1 /\ replies'[i] = replies[i]
           /\ \A i \in DOMAIN replies' : i \in DOMAIN replies \/ i = Len(replies) + 1
           /\ \A i \in DOMAIN replies : \A k \in Keys :
                  (IsReply(i, k)' <=> IsReply(i, k)) /\ (IsInval(i, k)' <=> IsInval(i, k))
           /\ Len(replies) + 1 \in Nat
<1>1. replies \in Seq(Messages) /\ Len(replies) \in Nat /\ DOMAIN replies = 1..Len(replies)
  BY SMTT(30) DEF CacheTypes
<1>2. /\ replies' \in Seq(Messages) /\ DOMAIN replies' = 1..(Len(replies) + 1) /\ replies'[Len(replies) + 1] = m
      /\ \A i \in 1..Len(replies) : replies'[i] = replies[i]
  BY SMTT(30), <1>1
<1>3. \A i \in DOMAIN replies : i \in DOMAIN replies' /\ i < Len(replies) + 1 /\ replies'[i] = replies[i]
  BY SMTT(30), <1>1, <1>2
<1> QED
  BY SMTT(30), <1>1, <1>2, <1>3 DEF IsReply, IsInval

\* What a write of the keys K does: to the keys, to what callers have seen, and to the messages on
\* their way, behind which it adds no reply but the invalidation of what the server tracks.
Written(K) ==
    /\ db' \in [Keys -> Versions] /\ \A k \in Keys : db[k] <= db'[k] /\ (k \in K \/ db'[k] = db[k])
    /\ tracked \ K \subseteq tracked'
SeenStays == \A c \in Callers, k \in Keys, n \in Versions : Seen(c, k, n)' => Seen(c, k, n)
Behind ==
    /\ DOMAIN replies \subseteq DOMAIN replies' /\ DOMAIN replies' \subseteq Nat
    /\ \A i \in DOMAIN replies : replies'[i] = replies[i]
    /\ \A i \in DOMAIN replies : \A k \in Keys :
           (IsReply(i, k)' <=> IsReply(i, k)) /\ (IsInval(i, k)' <=> IsInval(i, k))
NoReplyAdded == \A k \in Keys : \A i \in DOMAIN replies' : IsReply(i, k)' => i \in DOMAIN replies
Invalidated(K) == \A k \in K \cap tracked : \E j \in DOMAIN replies' : IsInval(j, k)' /\ \A i \in DOMAIN replies : i < j

\* Keys are written: what was cached of a tracked key, and replies about it, are followed by the
\* invalidation, which comes last.
LEMMA WriteKeepsOrder ==
    ASSUME CacheInv, NEW K \in SUBSET Keys, UNCHANGED <<entry, up>>, SeenStays, Written(K), Behind, NoReplyAdded, Invalidated(K)
    PROVE  Order'
<1>1. \A s \in Slots : Filled(s)' <=> Filled(s)
  BY DEF Filled
<1>2. db \in [Keys -> Versions] /\ \A k \in Keys : \A n \in Versions : n <= db[k] => n <= db'[k]
  BY SMTT(30) DEF CacheInv, CacheTypes, Versions, Written
<1>3. EntriesCurrent'
  <2> SUFFICES ASSUME NEW s \in Slots, up, Filled(s)
               PROVE  \/ entry[s] = db'[KeyOf[s]] /\ KeyOf[s] \in tracked'
                      \/ \E j \in DOMAIN replies' : IsInval(j, KeyOf[s])'
    BY <1>1 DEF EntriesCurrent
  <2>1. KeyOf[s] \in Keys
    BY KeyIs
  <2>2. \/ entry[s] = db[KeyOf[s]] /\ KeyOf[s] \in tracked
        \/ \E j \in DOMAIN replies : IsInval(j, KeyOf[s])
    BY DEF CacheInv, Order, EntriesCurrent
  <2>3. CASE KeyOf[s] \in K \cap tracked
    BY <2>3 DEF Invalidated
  <2> QED
    BY <2>1, <2>2, <2>3 DEF Written, Behind
<1>4. RepliesCurrent'
  <2> SUFFICES ASSUME NEW k \in Keys, NEW i \in DOMAIN replies, IsReply(i, k)
               PROVE  \/ replies[i].v = db'[k] /\ k \in tracked'
                      \/ \E j \in DOMAIN replies' : i < j /\ IsInval(j, k)'
    BY DEF RepliesCurrent, NoReplyAdded, Behind
  <2>1. \/ replies[i].v = db[k] /\ k \in tracked
        \/ \E j \in DOMAIN replies : i < j /\ IsInval(j, k)
    BY DEF CacheInv, Order, RepliesCurrent
  <2>2. CASE k \in K \cap tracked
    BY <2>2 DEF Invalidated
  <2> QED
    BY <2>1, <2>2 DEF Written, Behind
<1>5. SeenGrows'
  <2> SUFFICES ASSUME NEW c \in Callers, NEW k \in Keys, NEW n \in Versions, Seen(c, k, n)
               PROVE  /\ n <= db'[k]
                      /\ \A s \in Slots : Filled(s) /\ KeyOf[s] = k => n <= entry[s]
                      /\ \A i \in DOMAIN replies : IsReply(i, k) => n <= replies[i].v
    BY <1>1 DEF SeenGrows, SeenStays, NoReplyAdded, Behind
  <2> QED
    BY <1>2 DEF CacheInv, Order, SeenGrows
<1>6. EntriesGrow'
  <2> SUFFICES ASSUME NEW s \in Slots, Filled(s)
               PROVE  /\ entry[s] <= db'[KeyOf[s]]
                      /\ \A t \in Slots : Filled(t) /\ KeyOf[t] = KeyOf[s] => entry[t] = entry[s]
                      /\ \A i \in DOMAIN replies : IsReply(i, KeyOf[s]) =>
                             /\ entry[s] <= replies[i].v
                             /\ entry[s] = replies[i].v \/ \E j \in DOMAIN replies' : j < i /\ IsInval(j, KeyOf[s])'
    BY <1>1, KeyIs DEF EntriesGrow, NoReplyAdded, Behind
  <2>1. KeyOf[s] \in Keys /\ entry[s] \in Versions
    BY KeyIs DEF Filled
  <2> QED
    BY <1>2, <2>1 DEF CacheInv, Order, EntriesGrow, Behind
<1>7. RepliesGrow'
  <2> SUFFICES ASSUME NEW k \in Keys, NEW i \in DOMAIN replies, IsReply(i, k)
               PROVE  /\ replies[i].v <= db'[k]
                      /\ \A l \in DOMAIN replies : i < l /\ IsReply(l, k) =>
                             /\ replies[i].v <= replies[l].v
                             /\ \/ replies[i].v = replies[l].v
                                \/ \E j \in DOMAIN replies' : i < j /\ j < l /\ IsInval(j, k)'
    BY DEF RepliesGrow, NoReplyAdded, Behind
  <2>1. replies[i].v \in Versions
    BY ReplyIs DEF CacheInv
  <2> QED
    BY <1>2, <2>1 DEF CacheInv, Order, RepliesGrow, Behind
<1> QED
  BY <1>3, <1>4, <1>5, <1>6, <1>7 DEF Order

\* The server's reply says what it has, behind the invalidations of what was cached or said before.
LEMMA ReplyKeepsOrder ==
    ASSUME CacheInv, up, UNCHANGED <<cache, locals, db, up>>, NEW m \in Messages, m.type = "reply", m.v = db[KeyOf[m.slot]],
           replies' = Append(replies, m), tracked' = tracked \cup {KeyOf[m.slot]}
    PROVE  Order'
<1> PICK new : new = Len(replies) + 1
  OBVIOUS
<1>1. \A s \in Slots : Filled(s)' <=> Filled(s)
  BY DEF Filled, cache
<1>2. CacheTypes /\ \A i \in DOMAIN replies : i \in Nat
  BY SMTT(30) DEF CacheInv, CacheTypes
<1>3. /\ DOMAIN replies \subseteq DOMAIN replies' /\ new \in DOMAIN replies' /\ replies'[new] = m /\ new \in Nat
      /\ \A i \in DOMAIN replies : i < new /\ replies'[i] = replies[i]
      /\ \A i \in DOMAIN replies' : i \in DOMAIN replies \/ i = new
      /\ \A i \in DOMAIN replies : \A k \in Keys :
             (IsReply(i, k)' <=> IsReply(i, k)) /\ (IsInval(i, k)' <=> IsInval(i, k))
  BY <1>2, AddedIs
<1>4. \A k \in Keys : IsReply(new, k)' => k = KeyOf[m.slot] /\ ~IsInval(new, k)'
  BY <1>3 DEF IsReply, IsInval
<1>5. UNCHANGED <<entry, db>> /\ db \in [Keys -> Versions] /\ \A k \in Keys : db[k] <= db[k]
  BY SMTT(30), <1>2 DEF CacheTypes, Versions, cache
<1>6. EntriesCurrent'
  <2> SUFFICES ASSUME NEW s \in Slots, Filled(s)
               PROVE  \/ entry[s] = db[KeyOf[s]] /\ KeyOf[s] \in tracked'
                      \/ \E j \in DOMAIN replies' : IsInval(j, KeyOf[s])'
    BY <1>1, <1>5 DEF EntriesCurrent
  <2> QED
    BY <1>3, KeyIs DEF CacheInv, Order, EntriesCurrent
<1>7. RepliesCurrent'
  <2> SUFFICES ASSUME NEW k \in Keys, NEW i \in DOMAIN replies', IsReply(i, k)'
               PROVE  \/ replies'[i].v = db[k] /\ k \in tracked'
                      \/ \E j \in DOMAIN replies' : i < j /\ IsInval(j, k)'
    BY <1>5 DEF RepliesCurrent
  <2>1. CASE i \in DOMAIN replies
    <3>1. \/ replies[i].v = db[k] /\ k \in tracked
          \/ \E j \in DOMAIN replies : i < j /\ IsInval(j, k)
      BY <1>3, <2>1 DEF CacheInv, Order, RepliesCurrent
    <3> QED
      BY <1>3, <2>1, <3>1
  <2> QED
    BY <1>3, <1>4, <2>1
<1>8. SeenGrows'
  <2> SUFFICES ASSUME NEW c \in Callers, NEW k \in Keys, NEW n \in Versions, Seen(c, k, n)
               PROVE  /\ n <= db[k]
                      /\ \A s \in Slots : Filled(s) /\ KeyOf[s] = k => n <= entry[s]
                      /\ \A i \in DOMAIN replies' : IsReply(i, k)' => n <= replies'[i].v
    BY <1>1, <1>5 DEF SeenGrows, Seen, locals
  <2> QED
    BY SMTT(30), <1>3, <1>4 DEF CacheInv, Order, SeenGrows
<1>9. EntriesGrow'
  <2> SUFFICES ASSUME NEW s \in Slots, Filled(s)
               PROVE  /\ entry[s] <= db[KeyOf[s]]
                      /\ \A t \in Slots : Filled(t) /\ KeyOf[t] = KeyOf[s] => entry[t] = entry[s]
                      /\ \A i \in DOMAIN replies' : IsReply(i, KeyOf[s])' =>
                             /\ entry[s] <= replies'[i].v
                             /\ entry[s] = replies'[i].v \/ \E j \in DOMAIN replies' : j < i /\ IsInval(j, KeyOf[s])'
    BY <1>1, <1>5 DEF EntriesGrow
  <2>1. KeyOf[s] \in Keys
    BY KeyIs
  <2>2. /\ entry[s] <= db[KeyOf[s]]
        /\ \A t \in Slots : Filled(t) /\ KeyOf[t] = KeyOf[s] => entry[t] = entry[s]
        /\ \A i \in DOMAIN replies : IsReply(i, KeyOf[s]) =>
               /\ entry[s] <= replies[i].v
               /\ entry[s] = replies[i].v \/ \E j \in DOMAIN replies : j < i /\ IsInval(j, KeyOf[s])
    BY DEF CacheInv, Order, EntriesGrow
  <2>3. entry[s] = db[KeyOf[s]] \/ \E j \in DOMAIN replies : IsInval(j, KeyOf[s])
    BY DEF CacheInv, Order, EntriesCurrent
  <2> QED
    BY SMTT(30), <1>3, <1>4, <2>1, <2>2, <2>3
<1>10. RepliesGrow'
  <2> SUFFICES ASSUME NEW k \in Keys, NEW i \in DOMAIN replies', IsReply(i, k)'
               PROVE  /\ replies'[i].v <= db[k]
                      /\ \A l \in DOMAIN replies' : i < l /\ IsReply(l, k)' =>
                             /\ replies'[i].v <= replies'[l].v
                             /\ \/ replies'[i].v = replies'[l].v
                                \/ \E j \in DOMAIN replies' : i < j /\ j < l /\ IsInval(j, k)'
    BY <1>5 DEF RepliesGrow
  <2>1. CASE i = new
    <3>1. \A l \in DOMAIN replies' : ~(i < l)
      BY SMTT(30), <1>2, <1>3, <2>1
    <3> QED
      BY <1>3, <1>4, <1>5, <2>1, <3>1
  <2>2. CASE i \in DOMAIN replies
    <3>1. /\ replies[i].v <= db[k]
          /\ \A l \in DOMAIN replies : i < l /\ IsReply(l, k) =>
                 /\ replies[i].v <= replies[l].v
                 /\ replies[i].v = replies[l].v \/ \E j \in DOMAIN replies : i < j /\ j < l /\ IsInval(j, k)
      BY <1>3, <2>2 DEF CacheInv, Order, RepliesGrow
    <3>2. replies[i].v = db[k] \/ \E j \in DOMAIN replies : i < j /\ IsInval(j, k)
      BY <1>3, <2>2 DEF CacheInv, Order, RepliesCurrent
    <3> QED
      BY SMTT(30), <1>3, <1>4, <2>2, <3>1, <3>2
  <2> QED
    BY <1>3, <2>1, <2>2
<1> QED
  BY <1>6, <1>7, <1>8, <1>9, <1>10 DEF Order

\* A request that the server has read becomes the message to its caller.
LEMMA ExecKeepsOwners ==
    ASSUME CacheInv, UNCHANGED <<cpc, slot>>, net # <<>>, net' = Tail(net),
           NEW m \in Messages, replies' = Append(replies, m), m.by = net[1].by, m.type = "reply" => m.slot = net[1].slot
    PROVE  net' \in Seq(Requests) /\ Owned'
<1> PICK new : new = Len(replies) + 1
  OBVIOUS
<1>1. /\ net \in Seq(Requests) /\ net' \in Seq(Requests) /\ 1 \in DOMAIN net
      /\ \A i \in DOMAIN net' : i \in Nat /\ i + 1 \in DOMAIN net /\ net'[i] = net[i + 1] /\ i + 1 # 1
  BY SMTT(30) DEF CacheInv, CacheTypes
<1>2. /\ replies'[new] = m
      /\ \A i \in DOMAIN replies : replies'[i] = replies[i]
      /\ \A i \in DOMAIN replies' : i \in DOMAIN replies \/ i = new
  BY AddedIs DEF CacheInv
<1>3. /\ \A i \in DOMAIN net : net[i].by # Nil => cpc[net[i].by] = "reply" /\ slot[net[i].by] = net[i].slot
      /\ \A i \in DOMAIN replies : replies[i].by # Nil =>
             cpc[replies[i].by] = "reply" /\ (replies[i].type = "reply" => slot[replies[i].by] = replies[i].slot)
      /\ \A i, j \in DOMAIN net : net[i].by # Nil /\ net[i].by = net[j].by => i = j
      /\ \A i, j \in DOMAIN replies : replies[i].by # Nil /\ replies[i].by = replies[j].by => i = j
      /\ \A i \in DOMAIN net, j \in DOMAIN replies : net[i].by # Nil => net[i].by # replies[j].by
  BY DEF CacheInv, Owned
<1>4. \A i \in DOMAIN net' : net'[i].by # Nil => cpc[net'[i].by] = "reply" /\ slot[net'[i].by] = net'[i].slot
  BY SMTT(30), <1>1, <1>3
<1>5. \A i \in DOMAIN replies' : replies'[i].by # Nil =>
          cpc[replies'[i].by] = "reply" /\ (replies'[i].type = "reply" => slot[replies'[i].by] = replies'[i].slot)
  BY SMTT(30), <1>1, <1>2, <1>3
<1>6. \A i, j \in DOMAIN net' : net'[i].by # Nil /\ net'[i].by = net'[j].by => i = j
  BY SMTT(30), <1>1, <1>3
<1>7. \A i, j \in DOMAIN replies' : replies'[i].by # Nil /\ replies'[i].by = replies'[j].by => i = j
  BY SMTT(30), <1>1, <1>2, <1>3
<1>8. \A i \in DOMAIN net', j \in DOMAIN replies' : net'[i].by # Nil => net'[i].by # replies'[j].by
  BY SMTT(30), <1>1, <1>2, <1>3
<1> QED
  BY <1>1, <1>4, <1>5, <1>6, <1>7, <1>8 DEF Owned

\* The server executes a request: its message goes behind those on their way.
LEMMA ExecKeeps == CacheInv /\ Exec => CacheInv'
<1> SUFFICES ASSUME CacheInv, Exec PROVE CacheInv'
  OBVIOUS
<1>1. CacheTypes /\ net # <<>> /\ net' = Tail(net) /\ UNCHANGED <<cache, locals, db, up, asked>>
  BY DEF CacheInv, Exec
<1>2. UNCHANGED <<entry, cpc, slot, cres, last>>
  BY <1>1 DEF cache, locals
<1>3. up /\ net[1] = Head(net) /\ net[1] \in Requests
  BY SMTT(30), <1>1 DEF CacheTypes
<1>4. net[1].by \in Owners /\ net[1].slot \in Slots /\ KeyOf[net[1].slot] \in Keys
  BY <1>3, KeyIs DEF Requests
<1>5. ResultsGrow'
  BY <1>2 DEF CacheInv, ResultsGrow
<1>6. ASSUME NEW m \in Messages, replies' = Append(replies, m), m.by = net[1].by,
             m.type = "reply" => m.slot = net[1].slot, tracked' \subseteq Keys
      PROVE  CacheTypes' /\ Owned'
  <2>1. net' \in Seq(Requests) /\ Owned'
    BY <1>1, <1>2, <1>6, ExecKeepsOwners
  <2>2. replies' \in Seq(Messages)
    BY <1>1, <1>6, AddedIs
  <2> QED
    BY <1>1, <1>2, <1>3, <1>6, <2>1, <2>2 DEF CacheTypes
<1>7. ASSUME replies' = Append(replies, [type |-> "reply", by |-> net[1].by, slot |-> net[1].slot, v |-> db[KeyOf[net[1].slot]]]),
             tracked' = tracked \cup {KeyOf[net[1].slot]}
      PROVE  CacheInv'
  <2> PICK m : m = [type |-> "reply", by |-> net[1].by, slot |-> net[1].slot, v |-> db[KeyOf[net[1].slot]]]
    OBVIOUS
  <2>1. m \in Messages /\ m.type = "reply" /\ m.by = net[1].by /\ m.slot = net[1].slot /\ m.v = db[KeyOf[m.slot]]
    BY <1>1, <1>4 DEF CacheTypes, Messages
  <2>2. Order'
    BY <1>1, <1>3, <1>7, <2>1, ReplyKeepsOrder
  <2>3. CacheTypes' /\ Owned'
    BY <1>1, <1>4, <1>6, <1>7, <2>1 DEF CacheTypes
  <2> QED
    BY <1>5, <2>2, <2>3 DEF CacheInv
<1>8. ASSUME replies' = Append(replies, [type |-> "error", by |-> net[1].by]), UNCHANGED tracked
      PROVE  CacheInv'
  <2> PICK m : m = [type |-> "error", by |-> net[1].by]
    OBVIOUS
  <2>1. m \in Messages /\ m.type = "error" /\ m.by = net[1].by
    BY <1>4 DEF Messages
  <2>2. CacheTypes' /\ Owned' /\ replies' \in Seq(Messages)
    BY <1>1, <1>6, <1>8, <2>1, AddedIs DEF CacheTypes
  <2> PICK new : new = Len(replies) + 1
    OBVIOUS
  <2>3. /\ DOMAIN replies \subseteq DOMAIN replies' /\ replies'[new] = m
        /\ \A i \in DOMAIN replies : replies'[i] = replies[i]
        /\ \A i \in DOMAIN replies' : i \in DOMAIN replies \/ i = new
        /\ \A i \in DOMAIN replies : \A k \in Keys :
               (IsReply(i, k)' <=> IsReply(i, k)) /\ (IsInval(i, k)' <=> IsInval(i, k))
    BY <1>1, <1>8, <2>1, AddedIs
  <2>4. \A k \in Keys : ~IsReply(new, k)'
    BY <2>1, <2>3 DEF IsReply
  <2>5. SeenStays /\ \A K \in SUBSET Keys : Written(K)
    BY SMTT(30), <1>1, <1>2, <1>8, <2>2 DEF SeenStays, Seen, Written, CacheTypes, Versions
  <2>7. Behind /\ NoReplyAdded /\ Invalidated({})
    BY SMTT(30), <2>2, <2>3, <2>4 DEF Behind, NoReplyAdded, Invalidated
  <2>6. Order'
    BY <1>1, <1>2, <2>5, <2>7, WriteKeepsOrder DEF cache, cacheServer
  <2> QED
    BY <1>5, <2>2, <2>6 DEF CacheInv
<1> QED
  BY <1>3, <1>7, <1>8 DEF Exec

\* A ttl that ends, and a connection that breaks with everything on its way.
LEMMA ServerKeeps == CacheInv /\ (Expire \/ CacheBreaks) => CacheInv'
<1>1. ASSUME CacheInv, Expire PROVE CacheInv'
  <2>1. UNCHANGED <<entry, cpc, slot, cres, last, net, replies, db, tracked, up>>
    BY <1>1 DEF Expire, locals, cacheServer
  <2> QED
    BY <1>1, <2>1, CacheUntouched
<1>2. ASSUME CacheInv, CacheBreaks PROVE CacheInv'
  <2>1. UNCHANGED <<entry, cpc, slot, cres, last, db, tracked>> /\ up' = FALSE /\ net' = <<>> /\ replies' = <<>>
    BY <1>2 DEF CacheBreaks, cache, locals, cacheServer
  <2>2. DOMAIN net' = {} /\ DOMAIN replies' = {} /\ net' \in Seq(Requests) /\ replies' \in Seq(Messages)
    BY SMTT(30), <2>1
  <2>3. CacheTypes' /\ Owned' /\ ResultsGrow'
    BY <1>2, <2>1, <2>2 DEF CacheInv, CacheTypes, Owned, ResultsGrow
  <2>4. EntriesCurrent' /\ RepliesCurrent' /\ RepliesGrow'
    BY <2>1, <2>2 DEF EntriesCurrent, RepliesCurrent, RepliesGrow
  <2>5. SeenGrows' /\ EntriesGrow'
    BY SMTT(30), <1>2, <2>1, <2>2 DEF CacheInv, Order, SeenGrows, EntriesGrow, Filled, Seen
  <2> QED
    BY <2>3, <2>4, <2>5 DEF CacheInv, Order
<1> QED
  BY <1>1, <1>2

\* A write invalidates what this client has been told of the keys, behind everything said about them.
LEMMA WriteKeeps == CacheInv /\ Write => CacheInv'
<1> SUFFICES ASSUME CacheInv, up, NEW K \in Writes,
                    \A k \in K : db[k] < MaxWrites,
                    db' = [k \in Keys |-> IF k \in K THEN db[k] + 1 ELSE db[k]],
                    replies' = IF K \cap tracked = {} THEN replies
                               ELSE Append(replies, [type |-> "invalidate", by |-> Nil, keys |-> K]),
                    tracked' = tracked \ K, UNCHANGED <<cache, locals, net, up, asked>>
             PROVE  CacheInv'
  BY DEF Write
<1>1. UNCHANGED <<entry, cpc, slot, cres, last, net, up>> /\ CacheTypes
  BY DEF cache, locals, CacheInv
<1>2. K \in SUBSET Keys
  BY DEF Writes
<1>3. /\ db' \in [Keys -> Versions] /\ \A k \in Keys : db[k] <= db'[k] /\ (k \in K \/ db'[k] = db[k])
      /\ tracked \ K \subseteq tracked' /\ tracked' \subseteq Keys
  BY SMTT(30), <1>1, <1>2 DEF CacheTypes, Versions
<1>4. SeenStays /\ ResultsGrow' /\ Written(K)
  BY <1>1, <1>3 DEF SeenStays, Seen, CacheInv, ResultsGrow, Written
<1>5. CASE K \cap tracked = {}
  <2>1. UNCHANGED replies /\ replies \in Seq(Messages)
    BY <1>1, <1>5 DEF CacheTypes
  <2>2. Behind /\ NoReplyAdded /\ Invalidated(K)
    BY SMTT(30), <1>5, <2>1 DEF IsReply, IsInval, Behind, NoReplyAdded, Invalidated
  <2>3. Order'
    BY <1>1, <1>2, <1>4, <2>2, WriteKeepsOrder
  <2>4. CacheTypes' /\ Owned'
    BY SMTT(30), <1>1, <1>3, <2>1 DEF CacheInv, CacheTypes, Owned
  <2> QED
    BY <1>4, <2>3, <2>4 DEF CacheInv
<1>6. CASE K \cap tracked # {}
  <2> PICK m : m = [type |-> "invalidate", by |-> Nil, keys |-> K]
    OBVIOUS
  <2>1. m \in Messages /\ m.type = "invalidate" /\ m.by = Nil /\ m.keys = K
    BY <1>2 DEF Messages
  <2>2. replies' = Append(replies, m)
    BY <1>6
  <2> PICK new : new = Len(replies) + 1
    OBVIOUS
  <2>3. /\ DOMAIN replies \subseteq DOMAIN replies' /\ new \in DOMAIN replies' /\ replies'[new] = m
        /\ \A i \in DOMAIN replies : i < new /\ replies'[i] = replies[i]
        /\ \A i \in DOMAIN replies' : i \in DOMAIN replies \/ i = new
        /\ \A i \in DOMAIN replies : \A k \in Keys :
               (IsReply(i, k)' <=> IsReply(i, k)) /\ (IsInval(i, k)' <=> IsInval(i, k))
        /\ replies' \in Seq(Messages)
    BY <1>1, <2>1, <2>2, AddedIs
  <2>4. \A k \in Keys : ~IsReply(new, k)' /\ (k \in K => IsInval(new, k)')
    BY <2>1, <2>3 DEF IsReply, IsInval
  <2>5. Behind /\ NoReplyAdded /\ Invalidated(K)
    <3>1. DOMAIN replies' \subseteq Nat
      BY SMTT(30), <2>3
    <3>2. NoReplyAdded /\ Behind
      BY <2>3, <2>4, <3>1 DEF NoReplyAdded, Behind
    <3>3. Invalidated(K)
      BY SMTT(30), <1>2, <2>3, <2>4 DEF Invalidated
    <3> QED
      BY SMTT(30), <3>2, <3>3
  <2>6. Order'
    BY <1>1, <1>2, <1>4, <2>5, WriteKeepsOrder
  <2>7. Owned'
    BY SMTT(30), <1>1, <2>1, <2>3 DEF CacheInv, Owned
  <2>8. CacheTypes'
    BY SMTT(30), <1>1, <1>3, <2>3 DEF CacheTypes
  <2> QED
    BY <1>4, <2>6, <2>7, <2>8 DEF CacheInv
<1> QED
  BY <1>5, <1>6

-----------------------------------------------------------------------------
\* CacheInv holds in every state of every behaviour of the cache.
LEMMA CacheHolds == CacheSpec => []CacheInv
<1>1. CacheInit => CacheInv
  <2> SUFFICES ASSUME CacheInit PROVE CacheInv
    OBVIOUS
  <2>1. DOMAIN net = {} /\ DOMAIN replies = {} /\ 0 \in Versions /\ \A s \in Slots : ~Filled(s)
    BY SMTT(30) DEF CacheInit, Versions, Filled
  <2>2. CacheTypes
    BY SMTT(30), <2>1 DEF CacheInit, CacheTypes, CallSteps
  <2>3. Owned /\ EntriesCurrent /\ RepliesCurrent /\ EntriesGrow /\ RepliesGrow
    BY <2>1 DEF Owned, EntriesCurrent, RepliesCurrent, EntriesGrow, RepliesGrow
  <2>4. SeenGrows /\ ResultsGrow
    BY SMTT(30), <2>1 DEF CacheInit, SeenGrows, Seen, ResultsGrow
  <2> QED
    BY <2>2, <2>3, <2>4 DEF CacheInv, Order
<1>2. CacheInv /\ [CacheNext]_cacheVars => CacheInv'
  <2> SUFFICES ASSUME CacheInv, [CacheNext]_cacheVars PROVE CacheInv'
    OBVIOUS
  <2>1. ASSUME NEW c \in Callers, DoCache(c) \/ Caller(c) \/ Abort(c) \/ StopWaiting(c) PROVE CacheInv'
    BY <2>1, FlightKeeps, SendKeeps, AbortKeeps, EndKeeps DEF Caller
  <2>2. CASE CacheReader
    BY <2>2, ReadCachedKeeps, ReadOtherKeeps, EndKeeps DEF CacheReader
  <2>3. CASE CacheDone \/ UNCHANGED cacheVars
    <3>1. UNCHANGED <<entry, cpc, slot, cres, last, net, replies, db, tracked, up>>
      BY <2>3 DEF CacheDone, cacheVars, cache, locals, cacheServer
    <3> QED
      BY <3>1, CacheUntouched
  <2> QED
    BY <2>1, <2>2, <2>3, ExecKeeps, WriteKeeps, ServerKeeps DEF CacheNext
<1> QED
  BY <1>1, <1>2, PTL DEF CacheSpec

\* Whatever calls, replies, invalidations, evictions and breaks do: what lru.go holds is what the
\* server has, or the invalidation is on its way.
THEOREM CacheIsCoherent == CacheSpec => []Coherent
<1>1. CacheInv => Coherent
  BY DEF CacheInv, Order, EntriesCurrent, IsInval, Coherent
<1> QED
  BY <1>1, CacheHolds, PTL

\* No caller of DoCache reads an older version of a key than it has read before.
THEOREM ReadsNeverGoBack == CacheSpec => MonotonicReads
<1>1. CacheInv /\ [CacheNext]_cacheVars => [\A c \in Callers, k \in Keys : last'[c][k] >= last[c][k]]_last
  <2> SUFFICES ASSUME CacheInv, CacheNext, last' # last, NEW c \in Callers, NEW k \in Keys
               PROVE  last'[c][k] >= last[c][k]
    BY DEF cacheVars, locals
  <2>1. PICK d \in Callers : FinishCall(d)
    BY DEF CacheNext, Caller, DoCache, FlightRead, FlightWrite, Send, Fail, CancelFlight, Abort, StopWaiting, CacheReader,
           ReadCached, ReadError, ReadInvalidation, CloseCache, Exec, Write, Expire, CacheBreaks, CacheDone, cacheVars, locals
  <2>2. /\ last \in [Callers -> [Keys -> Versions]] /\ last[c][k] >= last[c][k]
        /\ cpc[d] = "return" /\ cres[d] # Nil /\ last[d][KeyOf[slot[d]]] <= cres[d] /\ cres[d] \in Versions
    BY SMTT(30), <2>1 DEF FinishCall, CacheInv, CacheTypes, ResultsGrow, Versions
  <2>3. last' = [last EXCEPT ![d][KeyOf[slot[d]]] = cres[d]]
    BY <2>1, <2>2 DEF FinishCall
  <2> QED
    BY <2>2, <2>3 DEF Versions
<1> QED
  BY <1>1, CacheHolds, PTL DEF CacheSpec, MonotonicReads
=============================================================================
