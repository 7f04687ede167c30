---------------------------- MODULE ClientCache -----------------------------
(* Server-assisted client-side caching on one connection: lru.go, and the   *)
(* parts of pipe.go that feed it.  DoCache registers a flight, its request  *)
(* goes to the server, and the read loop applies replies and invalidations  *)
(* to the cache in the order in which they arrive.                          *)
EXTENDS Integers, Sequences

CONSTANTS Callers,
          Slots,      \* pairs of key and command, the entries of the cache
          KeyOf,      \* function from Slots to their keys
          MaxFilled,  \* c.max, in entries with a value
          MaxCalls,   \* bound: calls of DoCache
          MaxWrites,  \* bound: writes of other clients
          Pending, Nil

Keys == {KeyOf[s] : s \in Slots}

\* A cache entry is missing, pending (val.typ == 0), or holds the version of its key it
\* was read at; 0 is the version before any write.
Versions == 0..MaxWrites

\* What the constants are: an entry tells a version from nothing and from a flight, and a reply
\* whose caller gave up from one that has a caller.
ASSUME CacheAssumption ==
    MaxWrites \in Nat /\ {Pending, Nil} \cap Versions = {} /\ Pending # Nil /\ Nil \notin Callers

VARIABLES entry,     \* per slot: Nil, Pending, or the version it holds
          expired,   \* filled slots whose ttl is over
          list,      \* c.list: slots by recent use, pending and filled
          gone,      \* lru.Close ran: c.store is nil
          cpc, slot, cres,  \* per caller: step, what it asks for, what it got
          last,      \* per caller and key: the newest version it has seen
          net,       \* requests on their way to the server
          replies,   \* replies and invalidations on their way to the client
          db, tracked,    \* server: version per key, keys this client is told about
          up,        \* the connection works
          asked

cache == <<entry, expired, list, gone>>
locals == <<cpc, slot, cres, last>>
cacheServer == <<db, tracked>>
cacheVars == <<cache, locals, net, replies, cacheServer, up, asked>>

CacheInit ==
    /\ entry = [s \in Slots |-> Nil] /\ expired = {} /\ list = <<>> /\ gone = FALSE
    /\ cpc = [c \in Callers |-> "idle"] /\ slot = [c \in Callers |-> Nil]
    /\ cres = [c \in Callers |-> Nil] /\ last = [c \in Callers |-> [k \in Keys |-> 0]]
    /\ net = <<>> /\ replies = <<>>
    /\ db = [k \in Keys |-> 0] /\ tracked = {}
    /\ up = TRUE /\ asked = 0

CallerAt(c, l) == cpc' = [cpc EXCEPT ![c] = l]

Filled(s) == entry[s] \in Versions
Fresh(s) == Filled(s) /\ s \notin expired
WaitingFor(s) == {c \in Callers : cpc[c] = "wait" /\ slot[c] = s}

\* c has its result: a version, or Nil for an error.
Return(c, v) ==
    /\ CallerAt(c, "return")
    /\ cres' = [cres EXCEPT ![c] = v]

\* close(e.ch): everyone in Wait for one of the slots has its result.
Release(S, v) ==
    /\ cpc' = [c \in Callers |-> IF \E s \in S : c \in WaitingFor(s) THEN "return" ELSE cpc[c]]
    /\ cres' = [c \in Callers |-> IF \E s \in S : c \in WaitingFor(s) THEN v ELSE cres[c]]

Unlisted(s) == SelectSeq(list, LAMBDA t : t # s)
MoveToBack(s) == list' = Append(Unlisted(s), s)

-----------------------------------------------------------------------------
(* DoCache: Flight, and what follows from it *)

DoCache(c) ==
    /\ cpc[c] = "idle" /\ asked < MaxCalls
    /\ \E s \in Slots : slot' = [slot EXCEPT ![c] = s]
    /\ asked' = asked + 1
    /\ CallerAt(c, "flight")
    /\ UNCHANGED <<cache, cres, last, net, replies, cacheServer, up>>

\* Under the read lock.  A hit may move the entry to the back of the list; that takes the
\* write lock again, which changes nothing else and is part of this step.
FlightRead(c) ==
    /\ cpc[c] = "flight"
    /\ LET s == slot[c] IN
           /\ CASE Fresh(s)            -> Return(c, entry[s])
                [] entry[s] = Pending  -> CallerAt(c, "wait") /\ UNCHANGED cres
                [] OTHER               -> CallerAt(c, "miss") /\ UNCHANGED cres
           /\ \/ UNCHANGED list
              \/ (Fresh(s) \/ entry[s] = Pending) /\ MoveToBack(s)
    /\ UNCHANGED <<entry, expired, gone, slot, last, net, replies, cacheServer, up, asked>>

\* Under the write lock: look again, then take the flight.
FlightWrite(c) ==
    /\ cpc[c] = "miss"
    /\ LET s == slot[c] IN
           \/ /\ gone
              /\ CallerAt(c, "send")
              /\ UNCHANGED <<entry, expired, list, cres>>
           \/ /\ ~gone /\ (Fresh(s) \/ entry[s] = Pending)
              /\ IF Fresh(s) THEN Return(c, entry[s]) ELSE CallerAt(c, "wait") /\ UNCHANGED cres
              /\ MoveToBack(s)
              /\ UNCHANGED <<entry, expired>>
           \/ /\ ~gone /\ ~Fresh(s) /\ entry[s] # Pending
              /\ CallerAt(c, "send")
              /\ entry' = [entry EXCEPT ![s] = Pending] /\ expired' = expired \ {s}
              /\ MoveToBack(s)
              /\ UNCHANGED cres
    /\ UNCHANGED <<gone, slot, last, net, replies, cacheServer, up, asked>>

\* DoMulti with the opt-in, MULTI, PTTL, the command and EXEC; it fails on a broken pipe.
Send(c) ==
    /\ cpc[c] = "send"
    /\ IF up
       THEN net' = Append(net, [by |-> c, slot |-> slot[c]]) /\ CallerAt(c, "reply")
       ELSE CallerAt(c, "cancel") /\ UNCHANGED net
    /\ UNCHANGED <<cache, slot, cres, last, replies, cacheServer, up, asked>>

\* The context is done while the request is under way: its reply will find nobody.
Disown(c, q) == [i \in DOMAIN q |-> IF q[i].by = c THEN [q[i] EXCEPT !.by = Nil] ELSE q[i]]

Abort(c) ==
    /\ cpc[c] = "reply"
    /\ net' = Disown(c, net) /\ replies' = Disown(c, replies)
    /\ CallerAt(c, "cancel")
    /\ UNCHANGED <<cache, slot, cres, last, cacheServer, up, asked>>

\* The connection broke before the reply.
Fail(c) ==
    /\ cpc[c] = "reply" /\ ~up
    /\ CallerAt(c, "cancel")
    /\ UNCHANGED <<cache, slot, cres, last, net, replies, cacheServer, up, asked>>

\* cacheEntry.Wait returns because the context is done.
StopWaiting(c) ==
    /\ cpc[c] = "wait"
    /\ Return(c, Nil)
    /\ UNCHANGED <<cache, slot, last, net, replies, cacheServer, up, asked>>

\* lru.Cancel: a pending entry is removed and its error delivered.  The entry is found by
\* key and command, so it may be a later flight than the caller's own.
CancelFlight(c) ==
    /\ cpc[c] = "cancel"
    /\ LET s == slot[c]
           released == IF entry[s] = Pending THEN WaitingFor(s) ELSE {}
       IN  /\ entry' = [t \in Slots |-> IF t = s /\ entry[t] = Pending THEN Nil ELSE entry[t]]
           /\ list' = IF entry[s] = Pending THEN Unlisted(s) ELSE list
           /\ cpc' = [d \in Callers |-> IF d \in released \cup {c} THEN "return" ELSE cpc[d]]
           /\ cres' = [d \in Callers |-> IF d \in released \cup {c} THEN Nil ELSE cres[d]]
    /\ UNCHANGED <<expired, gone, slot, last, net, replies, cacheServer, up, asked>>

FinishUpdating(c) ==
    /\ cpc[c] = "return"
    /\ last' = IF cres[c] = Nil THEN last ELSE [last EXCEPT ![c][KeyOf[slot[c]]] = cres[c]]
    /\ entry' = IF cres[c] = Nil \/ entry[slot[c]] = Nil THEN entry
                ELSE [entry EXCEPT ![slot[c]] = cres[c]]
    /\ CallerAt(c, "idle")
    /\ slot' = [slot EXCEPT ![c] = Nil] /\ cres' = [cres EXCEPT ![c] = Nil]
    /\ UNCHANGED <<expired, list, gone, net, replies, cacheServer, up, asked>>

FinishCall(c) ==
    /\ cpc[c] = "return"
    /\ last' = IF cres[c] = Nil THEN last ELSE [last EXCEPT ![c][KeyOf[slot[c]]] = cres[c]]
    /\ CallerAt(c, "idle")
    /\ slot' = [slot EXCEPT ![c] = Nil] /\ cres' = [cres EXCEPT ![c] = Nil]
    /\ UNCHANGED <<cache, net, replies, cacheServer, up, asked>>
-----------------------------------------------------------------------------
(* The read loop *)

\* lru.Update evicts filled entries from the front of the list while there are too many.
Evicted(filled) ==
    LET old == SelectSeq(list, LAMBDA s : s \in filled)
    IN  {old[i] : i \in 1 .. Len(old) - MaxFilled}

\* lru.Update, if it finds an entry at all, fills it only when it is pending.
Update(s, v) ==
    LET filled == {t \in Slots : Filled(t)} \cup {t \in {s} : entry[t] = Pending}
        out == IF entry[s] = Nil THEN {} ELSE Evicted(filled)
    IN  /\ entry' = [t \in Slots |->
               IF t \in out THEN Nil
               ELSE IF t = s /\ entry[t] = Pending THEN v ELSE entry[t]]
        /\ expired' = expired \ out
        /\ list' = SelectSeq(list, LAMBDA t : t \notin out)

\* The reply of EXEC is applied to the cache and then handed to its caller, if it is
\* still there.
ReadCached ==
    /\ replies # <<>> /\ Head(replies).type = "reply"
    /\ LET m == Head(replies)
           released == IF entry[m.slot] = Pending THEN WaitingFor(m.slot) ELSE {}
       IN  /\ Update(m.slot, m.v)
           /\ cpc' = [c \in Callers |-> IF c \in released \cup {m.by} THEN "return" ELSE cpc[c]]
           /\ cres' = [c \in Callers |-> IF c \in released \cup {m.by} THEN m.v ELSE cres[c]]
    /\ replies' = Tail(replies)
    /\ UNCHANGED <<gone, slot, last, net, cacheServer, up, asked>>

\* An error reply leaves the cache alone; its caller will cancel the flight.
ReadError ==
    /\ replies # <<>> /\ Head(replies).type = "error"
    /\ cpc' = [c \in Callers |-> IF c = Head(replies).by THEN "cancel" ELSE cpc[c]]
    /\ replies' = Tail(replies)
    /\ UNCHANGED <<cache, slot, cres, last, net, cacheServer, up, asked>>

PurgedUnlessPending(K) ==
    IF \E s \in Slots : KeyOf[s] \in K /\ entry[s] = Pending THEN {}
    ELSE {s \in Slots : KeyOf[s] \in K /\ Filled(s)}

\* lru.purge keeps pending entries.
Purged(K) == {s \in Slots : KeyOf[s] \in K /\ Filled(s)}

\* handlePush "invalidate": lru.Delete.
ReadInvalidation ==
    /\ replies # <<>> /\ Head(replies).type = "invalidate"
    /\ LET out == Purged(Head(replies).keys) IN
           /\ entry' = [s \in Slots |-> IF s \in out THEN Nil ELSE entry[s]]
           /\ expired' = expired \ out
           /\ list' = SelectSeq(list, LAMBDA s : s \notin out)
    /\ replies' = Tail(replies)
    /\ UNCHANGED <<gone, locals, net, cacheServer, up, asked>>

\* lru.Close, by the worker when its loops have ended.
CloseCache ==
    /\ ~up /\ ~gone
    /\ Release({s \in Slots : entry[s] = Pending}, Nil)
    /\ entry' = [s \in Slots |-> Nil] /\ expired' = {} /\ list' = <<>>
    /\ gone' = TRUE
    /\ UNCHANGED <<slot, last, net, replies, cacheServer, up, asked>>

-----------------------------------------------------------------------------
(* The server and its clock, and the connection *)

\* The server executes requests in order; a read that succeeds is tracked.
Exec ==
    /\ net # <<>>
    /\ LET r == Head(net)
           k == KeyOf[r.slot]
       IN  \/ /\ replies' = Append(replies, [type |-> "reply", by |-> r.by, slot |-> r.slot,
                                           v |-> db[k]])
              /\ tracked' = tracked \cup {k}
           \/ /\ replies' = Append(replies, [type |-> "error", by |-> r.by])
              /\ UNCHANGED tracked
    /\ net' = Tail(net)
    /\ UNCHANGED <<cache, locals, db, up, asked>>

Writes == {{k} : k \in Keys} \cup {Keys}

\* Another client writes a key, or flushes the database: the client is told once about a
\* key it has read since.
Write ==
    /\ up
    /\ \E K \in Writes :
           /\ \A k \in K : db[k] < MaxWrites
           /\ db' = [k \in Keys |-> IF k \in K THEN db[k] + 1 ELSE db[k]]
           /\ replies' = IF K \cap tracked = {} THEN replies
                        ELSE Append(replies, [type |-> "invalidate", by |-> Nil, keys |-> K])
           /\ tracked' = tracked \ K
    /\ UNCHANGED <<cache, locals, net, up, asked>>

\* The ttl of an entry is over.
Expire ==
    /\ \E s \in Slots : Fresh(s) /\ expired' = expired \cup {s}
    /\ UNCHANGED <<entry, list, gone, locals, net, replies, cacheServer, up, asked>>

CacheBreaks ==
    /\ up
    /\ up' = FALSE /\ net' = <<>> /\ replies' = <<>>
    /\ UNCHANGED <<cache, locals, cacheServer, asked>>

-----------------------------------------------------------------------------
Caller(c) ==
    \/ FlightRead(c) \/ FlightWrite(c) \/ Send(c) \/ Fail(c) \/ CancelFlight(c) \/ FinishCall(c)

CacheReader == ReadCached \/ ReadError \/ ReadInvalidation \/ CloseCache

CacheDone ==
    /\ asked = MaxCalls /\ \A c \in Callers : cpc[c] = "idle"
    /\ UNCHANGED cacheVars

CacheNext ==
    \/ \E c \in Callers : DoCache(c) \/ Caller(c) \/ Abort(c) \/ StopWaiting(c)
    \/ CacheReader \/ Exec \/ Write \/ Expire \/ CacheBreaks
    \/ CacheDone

CacheSpec == CacheInit /\ [][CacheNext]_cacheVars

\* What goes on by itself: nobody need give up or write.
CacheSteps == (\E c \in Callers : Caller(c)) \/ CacheReader \/ Exec

-----------------------------------------------------------------------------
\* A cached value is the server's current one, or the invalidation that will remove it is
\* on its way.  Replies that come after their caller gave up are included.
Coherent ==
    up => \A s \in Slots : Filled(s) =>
        \/ entry[s] = db[KeyOf[s]]
        \/ \E i \in DOMAIN replies :
               replies[i].type = "invalidate" /\ KeyOf[s] \in replies[i].keys

\* A caller never reads an older version of a key than it has read before, from the
\* cache or from the server.
MonotonicReads == [][\A c \in Callers, k \in Keys : last'[c][k] >= last[c][k]]_last

CacheBusy == \E c \in Callers : cpc[c] # "idle"
=============================================================================
