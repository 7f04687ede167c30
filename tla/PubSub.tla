------------------------------- MODULE PubSub -------------------------------
(* Subscriptions on one connection: pubsub.go (subs), and in pipe.go Receive, *)
(* SetPubSubHooks, the pushes the read loop takes from the server, and what    *)
(* _background does with subscribers and hooks when the loops have ended.      *)
(* A critical section of s.mu is one step, except Publish, which sends to the  *)
(* subscribers one by one while it has the read lock.                          *)
EXTENDS Integers, Sequences, FiniteSets

CONSTANTS Receivers,  \* goroutines, each with one call of Receive; also its subscription
          Setters,    \* goroutines that call SetPubSubHooks; also the hooks they set
          Channels,
          Cap,        \* capacity of sub.ch
          Settings,   \* the circumstances of a behaviour, see AllSettings
          None

ASSUME PubSubAssumption ==
    /\ Cap \in Nat \ {0}
    /\ None \notin Receivers \cup Setters
    /\ IsFiniteSet(Channels) /\ IsFiniteSet(Receivers)

\* wants: the channels of each receiver, none if it takes no part; setters: who sets hooks;
\* msgs: bound on published messages; unsubs: bound on unsubscriptions from elsewhere;
\* closes: the pipe may be closed; deadline: the contexts of Receive end some day; hook:
\* what WithOnReceiveReturnHook does when the context is done: nothing, or UNSUBSCRIBE, with
\* a context that ends or one that does not.
AllSettings == [wants : [Receivers -> SUBSET Channels], setters : SUBSET Setters, msgs : Nat,
                unsubs : Nat, closes : BOOLEAN, deadline : BOOLEAN, hook : {"none", "deadline", "background"}]

ASSUME SettingsAssumption == Settings # <<>> /\ \A i \in DOMAIN Settings : Settings[i] \in AllSettings

VARIABLES setting,
          used,      \* s.cnt # 0
          sub, chs,  \* subscribers, and the subscribers of each channel
          flushed,   \* s.chs == nil
          buf, closed,    \* per subscriber its channel: contents, whether it is closed
          draining,  \* subscribers whose cancel reads the channel until it is closed
          rd, targets, skip,  \* read loop: step, subscribers yet to get the message, skip
          toClose,   \* channels that subs.Close has yet to close
          queue, executed,  \* commands without a reply, how many of them the server executed
          stream,    \* replies and pushes on their way to the client
          subscribed, sent, unsubs,  \* server: channels of this connection, counts
          live,      \* waiting receivers whose SUBSCRIBE was executed and not undone
          open,
          err,       \* p.error is set
          pc, res,   \* per receiver: step, result
          got, owed, \* per waiting receiver: messages fn got, messages sent since its SUBSCRIBE
          cut,       \* receivers removed by an unsubscription
          hooks, hpc, hch,  \* p.pshks; per setter: step, its error channel
          panicked   \* a closed channel was closed or sent to, or a reply fits no command

registry == <<used, sub, chs, flushed>>
channel == <<buf, closed, draining>>
loop == <<rd, targets, skip, toClose>>
link == <<queue, executed, stream, open, err>>
server == <<subscribed, sent, unsubs, live, owed>>
calls == <<pc, res, got, cut>>
hookVars == <<hooks, hpc, hch>>
vars == <<setting, registry, channel, loop, link, server, calls, hookVars, panicked>>

set == Settings[setting]
want == set.wants

Init ==
    /\ setting \in DOMAIN Settings
    /\ used = FALSE /\ sub = {} /\ chs = [c \in Channels |-> {}] /\ flushed = FALSE
    /\ buf = [r \in Receivers |-> <<>>] /\ closed = {} /\ draining = {}
    /\ rd = "read" /\ targets = <<>> /\ skip = 0 /\ toClose = {}
    /\ queue = <<>> /\ executed = 0 /\ stream = <<>> /\ open = TRUE /\ err = FALSE
    /\ subscribed = {} /\ sent = 0 /\ unsubs = 0 /\ live = {}
    /\ owed = [r \in Receivers |-> {}]
    /\ pc = [r \in Receivers |-> "idle"]
    /\ res = [r \in Receivers |-> "none"] /\ got = [r \in Receivers |-> {}] /\ cut = {}
    /\ hooks = None /\ hpc = [h \in Setters |-> "idle"] /\ hch = [h \in Setters |-> "none"]
    /\ panicked = FALSE

Goto(r, l) == pc' = [pc EXCEPT ![r] = l]
Result(r, l, v) == Goto(r, l) /\ res' = [res EXCEPT ![r] = v]

ToSet(q) == {q[i] : i \in DOMAIN q}

\* The orders in which the elements of S can come.
Listings(S) == {q \in [1..Cardinality(S) -> S] : ToSet(q) = S}

\* s.mu can be taken for writing: Publish is not in the middle of its loop.
Unlocked == rd # "publish"

-----------------------------------------------------------------------------
(* subs *)

RemoveFromOne(S) ==
    /\ sub' = sub \ S
    /\ chs' = [c \in Channels |->
          IF \E r \in S : c = CHOOSE d \in want[r] : TRUE THEN chs[c] \ S ELSE chs[c]]
    /\ closed' = closed \cup S
    /\ panicked' = (panicked \/ S \cap closed # {})

\* subs.remove, for a set of subscribers that are in s.sub.
RemoveSubs(S) ==
    /\ sub' = sub \ S
    /\ chs' = [c \in Channels |-> chs[c] \ S]
    /\ closed' = closed \cup S
    /\ panicked' = (panicked \/ S \cap closed # {})

-----------------------------------------------------------------------------
(* Receive *)

Receive(r) ==
    /\ pc[r] = "idle" /\ want[r] # {}
    /\ used' = TRUE
    /\ Goto(r, "add")
    /\ UNCHANGED <<setting, sub, chs, flushed, channel, loop, link, server, res, got, cut, hookVars, panicked>>

\* subs.Subscribe; without a channel Receive returns at once.
Subscribe(r) ==
    /\ pc[r] = "add" /\ Unlocked
    /\ IF flushed
       THEN Result(r, "done", IF err THEN "err" ELSE "nil") /\ UNCHANGED <<sub, chs>>
       ELSE /\ sub' = sub \cup {r}
            /\ chs' = [c \in Channels |-> IF c \in want[r] THEN chs[c] \cup {r} ELSE chs[c]]
            /\ Goto(r, "do") /\ UNCHANGED res
    /\ UNCHANGED <<setting, used, flushed, channel, loop, link, server, got, cut, hookVars, panicked>>

\* p.Do of SUBSCRIBE, or of the hook's UNSUBSCRIBE: queued, or refused once the pipe has
\* an error.
Do(r) ==
    /\ pc[r] \in {"do", "hookdo"}
    /\ \/ /\ rd # "end"
          /\ queue' = Append(queue, [by |-> r, kind |-> IF pc[r] = "do" THEN "sub" ELSE "unsub"])
          /\ Goto(r, IF pc[r] = "do" THEN "reply" ELSE "hook") /\ UNCHANGED res
       \/ /\ err
          /\ UNCHANGED queue
          /\ IF pc[r] = "do" THEN Result(r, "return", "err") ELSE Goto(r, "cancel") /\ UNCHANGED res
    /\ UNCHANGED <<setting, registry, channel, loop, executed, stream, open, err, server, got, cut, hookVars, panicked>>

\* The context of Receive, or of the hook's command, is done.
CtxDone(r) ==
    /\ set.deadline
    /\ \/ pc[r] \in {"do", "reply", "loop"} /\ Result(r, "return", "ctx")
       \/ pc[r] = "hook" /\ set.hook = "deadline" /\ Goto(r, "cancel") /\ UNCHANGED res
    /\ UNCHANGED <<setting, registry, channel, loop, link, server, got, cut, hookVars, panicked>>

Handle(r) ==
    /\ pc[r] = "loop" /\ buf[r] # <<>>
    /\ got' = [got EXCEPT ![r] = @ \cup {Head(buf[r])}]
    /\ buf' = [buf EXCEPT ![r] = Tail(@)]
    /\ UNCHANGED <<setting, registry, closed, draining, loop, link, server, pc, res, cut, hookVars, panicked>>

ChannelClosed(r) ==
    /\ pc[r] = "loop" /\ buf[r] = <<>> /\ r \in closed
    /\ Result(r, "return", "nil")
    /\ UNCHANGED <<setting, registry, channel, loop, link, server, got, cut, hookVars, panicked>>

\* The end of Receive: p.Error() for want of another error, then the return hook.
Finish(r) ==
    /\ pc[r] = "return"
    /\ res' = [res EXCEPT ![r] = IF @ = "nil" /\ err THEN "err" ELSE @]
    /\ Goto(r, IF res[r] = "ctx" /\ set.hook # "none" THEN "hookdo" ELSE "cancel")
    /\ live' = live \ {r} /\ owed' = [owed EXCEPT ![r] = {}] /\ got' = [got EXCEPT ![r] = {}]
    /\ UNCHANGED <<setting, registry, channel, loop, link, subscribed, sent, unsubs, cut, hookVars, panicked>>

CancelNoDrain(r) ==
    /\ pc[r] = "cancel"
    /\ Goto(r, "lock")
    /\ UNCHANGED <<setting, registry, channel, loop, link, server, res, got, cut, hookVars, panicked>>

\* The deferred cancel: first the goroutine that empties the channel, then the lock.
Cancel(r) ==
    /\ pc[r] = "cancel"
    /\ draining' = draining \cup {r}
    /\ Goto(r, "lock")
    /\ UNCHANGED <<setting, registry, buf, closed, loop, link, server, res, got, cut, hookVars, panicked>>

CancelRemove(r) ==
    /\ pc[r] = "lock" /\ Unlocked
    /\ IF r \in sub THEN RemoveSubs({r}) ELSE UNCHANGED <<sub, chs, closed, panicked>>
    /\ Goto(r, "done")
    /\ UNCHANGED <<setting, used, flushed, buf, draining, loop, link, server, res, got, cut, hookVars>>

DrainChannel(r) ==
    /\ r \in draining
    /\ IF buf[r] # <<>> THEN buf' = [buf EXCEPT ![r] = Tail(@)] /\ UNCHANGED draining
       ELSE r \in closed /\ draining' = draining \ {r} /\ UNCHANGED buf
    /\ UNCHANGED <<setting, registry, closed, loop, link, server, calls, hookVars, panicked>>

-----------------------------------------------------------------------------
(* The read loop *)

Reads(t) == rd = "read" /\ stream # <<>> /\ Head(stream).type = t

\* The oldest command without a reply is answered: its caller, if it still waits, goes on
\* to l with the result v.
Answer(l, v) ==
    LET e == Head(queue) IN
    /\ queue' = Tail(queue)
    /\ executed' = IF executed = 0 THEN 0 ELSE executed - 1
    /\ IF e.kind = "sub"
       THEN IF pc[e.by] = "reply" THEN Result(e.by, l, v) ELSE UNCHANGED <<pc, res>>
       ELSE /\ IF pc[e.by] = "hook" THEN Goto(e.by, "cancel") ELSE UNCHANGED pc
            /\ UNCHANGED res

\* "message": Publish looks at the counter before it takes the lock.
ReadMessage ==
    /\ Reads("message")
    /\ IF used THEN rd' = "lock" /\ UNCHANGED stream ELSE stream' = Tail(stream) /\ UNCHANGED rd
    /\ UNCHANGED <<setting, registry, channel, targets, skip, toClose, queue, executed, open, err, server, calls, hookVars, panicked>>

\* The subscribers of the channel, in the order of a map.
PublishLock ==
    /\ rd = "lock"
    /\ rd' = "publish" /\ targets' \in Listings(chs[Head(stream).ch])
    /\ UNCHANGED <<setting, registry, channel, skip, toClose, link, server, calls, hookVars, panicked>>

PublishOrDrop ==
    /\ rd = "publish" /\ targets # <<>>
    /\ LET r == Head(targets) IN
           /\ buf' = IF Len(buf[r]) < Cap THEN [buf EXCEPT ![r] = Append(@, Head(stream).n)] ELSE buf
           /\ panicked' = (panicked \/ r \in closed)
    /\ targets' = Tail(targets)
    /\ UNCHANGED <<setting, registry, closed, draining, rd, skip, toClose, link, server, calls, hookVars>>

\* sb.ch <- msg waits for room.
PublishSend ==
    /\ rd = "publish" /\ targets # <<>>
    /\ LET r == Head(targets) IN
           /\ Len(buf[r]) < Cap
           /\ buf' = [buf EXCEPT ![r] = Append(@, Head(stream).n)]
           /\ panicked' = (panicked \/ r \in closed)
    /\ targets' = Tail(targets)
    /\ UNCHANGED <<setting, registry, closed, draining, rd, skip, toClose, link, server, calls, hookVars>>

PublishDone ==
    /\ rd = "publish" /\ targets = <<>>
    /\ rd' = "read" /\ stream' = Tail(stream)
    /\ UNCHANGED <<setting, registry, channel, targets, skip, toClose, queue, executed, open, err, server, calls, hookVars, panicked>>

\* How many confirmations follow the first one.
Rest(r) == Cardinality(want[r]) - 1

\* "subscribe": the first confirmation is the reply, the others are skipped.
ReadSubscribed ==
    /\ Reads("subscribe")
    /\ IF skip > 0
       THEN skip' = skip - 1 /\ UNCHANGED <<queue, executed, pc, res, panicked>>
       ELSE IF queue # <<>> /\ Head(queue).kind = "sub"
            THEN skip' = Rest(Head(queue).by) /\ Answer("loop", "none") /\ UNCHANGED panicked
            ELSE panicked' = TRUE /\ UNCHANGED <<skip, queue, executed, pc, res>>
    /\ stream' = Tail(stream)
    /\ UNCHANGED <<setting, registry, channel, rd, targets, toClose, open, err, server, got, cut, hookVars>>

\* "unsubscribe": subs.Unsubscribe; it is never taken for a reply.
ReadUnsubscribed ==
    /\ Reads("unsubscribe")
    /\ RemoveSubs(chs[Head(stream).ch])
    /\ cut' = cut \cup chs[Head(stream).ch]
    /\ skip' = IF skip > 0 THEN skip - 1 ELSE 0
    /\ stream' = Tail(stream)
    /\ UNCHANGED <<setting, used, flushed, buf, draining, rd, targets, toClose, queue, executed, open, err, server, pc, res, got, hookVars>>

\* An error for SUBSCRIBE, or the reply of the PING that follows UNSUBSCRIBE.
ReadReply ==
    /\ Reads("reply") /\ queue # <<>>
    /\ Answer("return", "err")
    /\ stream' = Tail(stream)
    /\ UNCHANGED <<setting, registry, channel, loop, open, err, server, got, cut, hookVars, panicked>>

ExitQuietly ==
    /\ rd = "read" /\ ~open
    /\ rd' = "flush"
    /\ stream' = <<>> /\ executed' = 0 /\ skip' = 0
    /\ UNCHANGED <<setting, registry, channel, targets, toClose, queue, open, err, server, calls, hookVars, panicked>>

\* The connection is broken and the loop ends, whatever it has not read yet: _exit.
Exit ==
    /\ rd = "read" /\ ~open
    /\ err' = TRUE
    /\ rd' = "flush"
    /\ stream' = <<>> /\ executed' = 0 /\ skip' = 0
    /\ UNCHANGED <<setting, registry, channel, targets, toClose, queue, open, server, calls, hookVars, panicked>>

\* subs.Close: empties the registry under the lock and closes the channels after it.
CloseSubs ==
    /\ rd = "flush"
    /\ flushed' = TRUE /\ sub' = {} /\ chs' = [c \in Channels |-> {}]
    /\ toClose' = sub
    /\ rd' = "close"
    /\ UNCHANGED <<setting, used, channel, targets, skip, link, server, calls, hookVars, panicked>>

CloseChannel ==
    /\ rd = "close"
    /\ IF toClose = {} THEN rd' = "hooks" /\ UNCHANGED <<closed, toClose, panicked>>
       ELSE \E r \in toClose :
                /\ closed' = closed \cup {r} /\ toClose' = toClose \ {r}
                /\ panicked' = (panicked \/ r \in closed)
                /\ UNCHANGED rd
    /\ UNCHANGED <<setting, registry, buf, draining, targets, skip, link, server, calls, hookVars>>

\* The drain loop of _background answers what is queued.
Drain ==
    /\ rd = "drain"
    /\ IF queue = <<>> THEN rd' = "end" /\ UNCHANGED <<queue, executed, pc, res>>
       ELSE Answer("return", "err") /\ UNCHANGED rd
    /\ UNCHANGED <<setting, registry, channel, targets, skip, toClose, stream, open, err, server, got, cut, hookVars, panicked>>

-----------------------------------------------------------------------------
(* PubSubHooks *)

\* Swap(h): the error channel of the hooks before is closed, after an error or without.
Swap(h, how) ==
    /\ hooks' = h
    /\ panicked' = (panicked \/ (hooks # None /\ hch[hooks] # "open"))
    /\ hch' = [g \in Setters |-> IF g = hooks THEN how ELSE IF g = h THEN "open" ELSE hch[g]]

SetPubSubHooks(h) ==
    /\ hpc[h] = "idle" /\ h \in set.setters
    /\ Swap(h, "closed")
    /\ hpc' = [hpc EXCEPT ![h] = "check"]
    /\ UNCHANGED <<setting, registry, channel, loop, link, server, calls>>

CheckNothing(h) ==
    /\ hpc[h] = "check"
    /\ hpc' = [hpc EXCEPT ![h] = "set"]
    /\ UNCHANGED <<setting, registry, channel, loop, link, server, calls, hooks, hch, panicked>>

CheckError(h) ==
    /\ hpc[h] = "check"
    /\ hpc' = [hpc EXCEPT ![h] = IF err THEN "unset" ELSE "set"]
    /\ UNCHANGED <<setting, registry, channel, loop, link, server, calls, hooks, hch, panicked>>

UnsetHooks(h) ==
    /\ hpc[h] = "unset"
    /\ Swap(None, "error")
    /\ hpc' = [hpc EXCEPT ![h] = "set"]
    /\ UNCHANGED <<setting, registry, channel, loop, link, server, calls>>

\* SetPubSubHooks with no hook.
ClearHooks(h) ==
    /\ hpc[h] = "set"
    /\ Swap(None, "closed")
    /\ hpc' = [hpc EXCEPT ![h] = "cleared"]
    /\ UNCHANGED <<setting, registry, channel, loop, link, server, calls>>

ExitHooks ==
    /\ rd = "hooks"
    /\ Swap(None, "error")
    /\ rd' = "drain"
    /\ UNCHANGED <<setting, registry, channel, targets, skip, toClose, link, server, calls, hpc>>

-----------------------------------------------------------------------------
(* The server and the connection *)

Push(t, c) == [type |-> t, ch |-> c, n |-> 0]
Pushes(t, C) == LET q == CHOOSE q \in Listings(C) : TRUE IN [i \in 1..Cardinality(C) |-> Push(t, q[i])]
Affected(C) == {r \in Receivers : want[r] \cap C # {}}

\* The server executes a command and sends everything it has to say about it at once.
Execute ==
    /\ open /\ executed < Len(queue)
    /\ LET e == queue[executed + 1]
           C == want[e.by]
       IN  \/ /\ e.kind = "sub"
              /\ stream' = stream \o Pushes("subscribe", C)
              /\ subscribed' = subscribed \cup C /\ live' = live \cup {r \in {e.by} : pc[r] = "reply"}
           \/ /\ e.kind = "sub"
              /\ stream' = Append(stream, Push("reply", None))
              /\ UNCHANGED <<subscribed, live>>
           \/ /\ e.kind = "unsub"
              /\ stream' = stream \o Pushes("unsubscribe", C) \o <<Push("reply", None)>>
              /\ subscribed' = subscribed \ C /\ live' = live \ Affected(C)
    /\ executed' = executed + 1
    /\ UNCHANGED <<setting, registry, channel, loop, queue, open, err, sent, unsubs, owed, calls, hookVars, panicked>>

\* Another client publishes a message.
Publish ==
    /\ open /\ sent < set.msgs
    /\ \E c \in subscribed :
           /\ stream' = Append(stream, [type |-> "message", ch |-> c, n |-> sent + 1])
           /\ owed' = [r \in Receivers |->
                 IF r \in live /\ c \in want[r] THEN owed[r] \cup {sent + 1} ELSE owed[r]]
    /\ sent' = sent + 1
    /\ UNCHANGED <<setting, registry, channel, loop, queue, executed, open, err, subscribed, unsubs, live, calls, hookVars, panicked>>

\* A channel moves to another node (sunsubscribe), or another user of the connection
\* unsubscribes from it.
Unsubscribe ==
    /\ open /\ unsubs < set.unsubs
    /\ \E c \in subscribed :
           /\ stream' = Append(stream, Push("unsubscribe", c))
           /\ subscribed' = subscribed \ {c} /\ live' = live \ Affected({c})
    /\ unsubs' = unsubs + 1
    /\ UNCHANGED <<setting, registry, channel, loop, queue, executed, open, err, sent, owed, calls, hookVars, panicked>>

\* p.Close, or the write loop fails: first the error, then the connection.
Close ==
    /\ set.closes /\ ~err
    /\ err' = TRUE
    /\ UNCHANGED <<setting, registry, channel, loop, queue, executed, stream, open, server, calls, hookVars, panicked>>

Break ==
    /\ open
    /\ open' = FALSE
    /\ UNCHANGED <<setting, registry, channel, loop, queue, executed, stream, err, server, calls, hookVars, panicked>>

-----------------------------------------------------------------------------
Receiver(r) ==
    \/ Subscribe(r) \/ Do(r) \/ Handle(r) \/ ChannelClosed(r) \/ Finish(r)
    \/ Cancel(r) \/ CancelRemove(r) \/ DrainChannel(r)

Reader ==
    \/ ReadMessage \/ PublishLock \/ PublishSend \/ PublishDone
    \/ ReadSubscribed \/ ReadUnsubscribed \/ ReadReply
    \/ Exit \/ CloseSubs \/ CloseChannel \/ ExitHooks \/ Drain

Setter(h) == CheckError(h) \/ UnsetHooks(h)

Done ==
    /\ rd = "end" /\ \A r \in Receivers : pc[r] \in {"idle", "done"} /\ r \notin draining
    /\ UNCHANGED vars

Next ==
    \/ \E r \in Receivers : Receive(r) \/ Receiver(r) \/ CtxDone(r)
    \/ \E h \in Setters : SetPubSubHooks(h) \/ Setter(h) \/ ClearHooks(h)
    \/ Reader \/ Execute \/ Publish \/ Unsubscribe \/ Close \/ Break
    \/ Done

Spec == Init /\ [][Next]_vars

\* As long as a goroutine can run some goroutine does, the server executes what it gets, Close
\* closes the connection in the end (its timer sees to that), and a deadline passes.
Steps ==
    \/ \E r \in Receivers : Receiver(r) \/ CtxDone(r)
    \/ \E h \in Setters : Setter(h)
    \/ Reader \/ Execute \/ (err /\ Break)

FairSpec == Spec /\ WF_vars(Steps)

-----------------------------------------------------------------------------
\* No channel of a subscriber is closed twice or sent to after it was closed, whether by
\* remove, by cancel or by subs.Close, which closes without the lock; the error channel of
\* hooks is closed once; and every confirmation of a subscription finds its command.
NoPanic == ~panicked

\* While the read loop runs, a Receive that is waiting for messages has missed none: each
\* message the server sent to one of its channels after it executed the SUBSCRIBE was
\* handed to fn, is in the channel, or has not been read or published to it yet.
NoMessageMissed ==
    rd \in {"read", "lock", "publish"} => \A r \in sub : pc[r] = "loop" =>
        \A n \in owed[r] :
            \/ n \in got[r] \cup ToSet(buf[r])
            \/ \E i \in DOMAIN stream :
                   stream[i].n = n /\ (i = 1 /\ rd = "publish" => r \in ToSet(targets))

\* Receive returns nil only when an unsubscription of one of its channels was read, never
\* because the connection ended: the error is set before the channels are closed.
NilMeansUnsubscribed ==
    \A r \in Receivers :
        res[r] = "nil" /\ pc[r] \in {"cancel", "lock", "done"} => r \in cut

Ending == (set.deadline \/ err \/ ~open) /\ \E r \in Receivers : pc[r] # "idle"
Ended == \A r \in Receivers : pc[r] \in {"idle", "done"} /\ r \notin draining

\* Every Receive returns when its context ends or its connection does, and the goroutine
\* that empties its channel ends too, also when more messages are on their way than its channel holds.
EveryReceiveReturns == Ending ~> Ended

\* When the connection has ended, the error channel of all hooks ever set gets closed,
\* also that of hooks that are set while the pipe is being shut down.
HookChannelsClose ==
    ~open /\ (\E h \in Setters : hch[h] = "open") ~> \A h \in Setters : hch[h] # "open"
=============================================================================
