---------------------------- MODULE PubSubProofs ----------------------------
(* NoPanic, NoMessageMissed and NilMeansUnsubscribed for any number of       *)
(* receivers, channels, messages and hooks, and any circumstances.           *)
EXTENDS PubSub, FiniteSetTheorems, TLAPS

-----------------------------------------------------------------------------
(* The inductive invariant. *)

ReceiverSteps == {"idle", "add", "do", "reply", "loop", "return", "hookdo", "hook", "cancel", "lock", "done"}
Running == {"read", "lock", "publish"}
Stopping == {"flush", "close", "hooks", "drain", "end"}
Entries == [by : Receivers, kind : {"sub", "unsub"}]
Items == [type : {"message", "subscribe", "unsubscribe", "reply"}, ch : Channels \cup {None}, n : Nat]

PubSubTypeOK ==
    /\ setting \in DOMAIN Settings
    /\ used \in BOOLEAN /\ flushed \in BOOLEAN /\ open \in BOOLEAN /\ err \in BOOLEAN
    /\ sub \subseteq Receivers /\ chs \in [Channels -> SUBSET Receivers]
    /\ buf \in [Receivers -> Seq(Nat)] /\ closed \subseteq Receivers /\ draining \subseteq Receivers
    /\ rd \in Running \cup Stopping /\ targets \in Seq(Receivers) /\ skip \in Nat /\ toClose \subseteq Receivers
    /\ queue \in Seq(Entries) /\ executed \in 0..Len(queue) /\ stream \in Seq(Items)
    /\ subscribed \subseteq Channels /\ sent \in Nat /\ live \subseteq Receivers
    /\ owed \in [Receivers -> SUBSET Nat] /\ got \in [Receivers -> SUBSET Nat]
    /\ pc \in [Receivers -> ReceiverSteps] /\ res \in [Receivers -> {"none", "nil", "err", "ctx"}]
    /\ hooks \in Setters \cup {None}
    /\ hpc \in [Setters -> {"idle", "check", "unset", "set", "cleared"}]
    /\ hch \in [Setters -> {"none", "open", "closed", "error"}]

\* The registry: a subscriber is under all its channels or under none; its channel is open while it
\* is registered, and is closed once, by whoever took it out of the registry.
RegistryInv ==
    /\ \A c \in Channels : chs[c] \subseteq sub
    /\ \A r \in sub : \A c \in want[r] : r \in chs[c]
    /\ sub \cap closed = {} /\ toClose \cap closed = {} /\ toClose \cap sub = {}
    /\ \A r \in sub \cup closed \cup toClose : pc[r] \notin {"idle", "add"}
    /\ rd = "publish" => ToSet(targets) \subseteq sub

\* The hooks that are set have an open error channel, and their setter does not set them again.
HooksInv == hooks # None => hch[hooks] = "open" /\ hpc[hooks] # "idle"

\* The error is set before a channel is closed for another reason than an unsubscription.
ErrorInv ==
    /\ rd \in Stopping => err /\ ~open /\ stream = <<>> /\ executed = 0 /\ skip = 0
    /\ flushed => err
    /\ \A r \in closed : r \in cut \/ err \/ pc[r] = "done"
    /\ \A r \in Receivers : res[r] = "nil" => r \in cut \/ (pc[r] = "return" /\ err)

\* The reply of the i-th executed command is at p[i] in the stream, and its last confirmation at z[i].
Replies(p, z) ==
    /\ \A i \in 1..executed :
          /\ skip < p[i] /\ p[i] <= z[i] /\ z[i] <= Len(stream)
          /\ \/ stream[p[i]].type = "reply" /\ z[i] = p[i]
             \/ stream[p[i]].type = "subscribe" /\ queue[i].kind = "sub" /\ z[i] = p[i] + Rest(queue[i].by)
          /\ \A j \in 1..Len(stream) : p[i] <= j /\ j <= z[i] => stream[j].type = stream[p[i]].type
    /\ \A i, k \in 1..executed : i < k => z[i] < p[k]
    /\ \A j \in 1..Len(stream) : stream[j].type \in {"reply", "subscribe"} =>
          j <= skip \/ \E i \in 1..executed : p[i] <= j /\ j <= z[i]

\* The stream is what is left of the confirmations of one command, and then in the order of the queue
\* those of the executed commands, between pushes that answer nothing.
WireInv ==
    /\ skip <= Len(stream)
    /\ \A j \in 1..skip : stream[j].type = "subscribe"
    /\ \E p, z \in [1..executed -> 1..Len(stream)] : Replies(p, z)
    /\ \A i \in 1..Len(queue) : pc[queue[i].by] # "idle"

\* A receiver is served from the execution of its SUBSCRIBE to its return, and drains after that.
CallInv ==
    /\ \A r \in Receivers : pc[r] # "idle" => used /\ want[r] # {}
    /\ \A r \in Receivers : r \in live \/ owed[r] # {} => pc[r] \in {"reply", "loop", "return"}
    /\ \A r \in Receivers : 0 \notin owed[r]
    /\ \A r \in draining : pc[r] \in {"lock", "done"}

\* The message that is being published stays the head of the stream; only messages are numbered.
StreamInv ==
    /\ rd \in {"lock", "publish"} => stream # <<>> /\ stream[1].type = "message"
    /\ \A j \in 1..Len(stream) : /\ stream[j].type # "reply" => stream[j].ch \in Channels
                                 /\ stream[j].type # "message" => stream[j].n = 0

\* Where a message is that a receiver is owed.
OnItsWay(r, n, i) == /\ stream[i].n = n /\ stream[i].ch \in want[r]
                     /\ i = 1 /\ rd = "publish" => r \in ToSet(targets)
NotMissed(r, n) == \/ n \in got[r] \cup ToSet(buf[r])
                   \/ \E i \in 1..Len(stream) : OnItsWay(r, n, i)
MessageInv ==
    /\ CallInv /\ StreamInv
    /\ rd \in Running => \A r \in sub : pc[r] \in {"reply", "loop"} => \A n \in owed[r] : NotMissed(r, n)

PubSubInv == PubSubTypeOK /\ RegistryInv /\ HooksInv /\ ErrorInv /\ WireInv /\ MessageInv /\ ~panicked

-----------------------------------------------------------------------------
(* Sequences, listings and the circumstances. *)

USE PubSubAssumption

USE ZenonT(60)

\* What is left of a sequence when its head is taken.
LEMMA TailIs ==
    ASSUME NEW S, NEW s \in Seq(S), s # <<>>
    PROVE  /\ Head(s) = s[1] /\ s[1] \in S /\ Len(s) \in Nat \ {0}
           /\ Tail(s) \in Seq(S) /\ Len(Tail(s)) = Len(s) - 1
           /\ \A i \in 1..(Len(s) - 1) : Tail(s)[i] = s[i + 1]
  BY SMTT(30)

\* Two numbers that are one less keep their distance.
LEMMA OneLess ==
    ASSUME NEW a \in Nat, NEW b \in Nat, NEW c \in Nat, NEW d \in Nat, NEW x \in Nat, c + 1 = a, d + 1 = b
    PROVE  (a = b => c = d) /\ (a = b + x => c = d + x)
  BY SMTT(30)

\* What the server sends.
LEMMA ItemIs ==
    ASSUME NEW t \in {"message", "subscribe", "unsubscribe", "reply"}, NEW c \in Channels \cup {None}, NEW n \in Nat
    PROVE  [type |-> t, ch |-> c, n |-> n] \in Items /\ Push(t, c) \in Items
  BY DEF Items, Push

\* What a sequence is with one more element.
LEMMA AppendIs ==
    ASSUME NEW S, NEW s \in Seq(S), NEW x \in S
    PROVE  /\ Append(s, x) \in Seq(S) /\ Len(Append(s, x)) = Len(s) + 1 /\ Len(s) \in Nat
           /\ \A i \in 1..Len(s) : Append(s, x)[i] = s[i]
           /\ Append(s, x)[Len(s) + 1] = x
  BY SMTT(30)

\* The elements of a sequence that loses its head or gets one more.
LEMMA ElementsAre ==
    ASSUME NEW S, NEW s \in Seq(S), NEW x \in S
    PROVE  /\ ToSet(Append(s, x)) = ToSet(s) \cup {x} /\ ToSet(s) \subseteq S
           /\ s # <<>> => Head(s) \in ToSet(s) /\ ToSet(s) = {Head(s)} \cup ToSet(Tail(s))
<1>0. DOMAIN s = 1..Len(s) /\ Len(s) \in Nat
  BY SMTT(30)
<1>1. ToSet(Append(s, x)) = ToSet(s) \cup {x}
  <2>1. DOMAIN Append(s, x) = 1..(Len(s) + 1)
    BY SMTT(30)
  <2> QED
    BY SMTT(30), <1>0, <2>1, AppendIs DEF ToSet
<1>2. ASSUME s # <<>>
      PROVE  Head(s) \in ToSet(s) /\ ToSet(s) = {Head(s)} \cup ToSet(Tail(s))
  <2>1. DOMAIN Tail(s) = 1..(Len(s) - 1) /\ Head(s) = s[1] /\ 1 \in DOMAIN s
    BY SMTT(30), <1>2
  <2>2. \A i \in 1..Len(s) : i = 1 \/ (i - 1 \in 1..(Len(s) - 1) /\ s[i] = Tail(s)[i - 1])
    BY SMTT(30), <1>2, TailIs
  <2>3. \A i \in 1..(Len(s) - 1) : i + 1 \in 1..Len(s) /\ Tail(s)[i] = s[i + 1]
    BY SMTT(30), <1>2, TailIs
  <2>4. ASSUME NEW v \in ToSet(s)
        PROVE  v = s[1] \/ v \in ToSet(Tail(s))
    <3>1. PICK i \in 1..Len(s) : v = s[i]
      BY <1>0, <2>4 DEF ToSet
    <3>2. CASE i - 1 \in 1..(Len(s) - 1) /\ s[i] = Tail(s)[i - 1]
      BY <2>1, <3>1, <3>2 DEF ToSet
    <3> QED
      BY <2>2, <3>1, <3>2
  <2>5. \A v \in ToSet(Tail(s)) : v \in ToSet(s)
    BY <1>0, <2>1, <2>3 DEF ToSet
  <2>6. s[1] \in ToSet(s)
    BY <2>1 DEF ToSet
  <2> QED
    BY <2>1, <2>4, <2>5, <2>6
<1>3. ToSet(s) \subseteq S
  BY SMTT(30), <1>0 DEF ToSet
<1> QED
  BY <1>1, <1>2, <1>3

\* A finite set can be listed, in as many places as it has elements.
LEMMA ListingExists ==
    ASSUME NEW S, IsFiniteSet(S)
    PROVE  Cardinality(S) \in Nat /\ \E q : q \in Listings(S)
<1>1. Cardinality(S) \in Nat /\ ExistsBijection(1..Cardinality(S), S)
  BY FS_CardinalityType
<1>2. PICK f : f \in Surjection(1..Cardinality(S), S)
  BY <1>1 DEF ExistsBijection, Bijection
<1>3. f \in [1..Cardinality(S) -> S] /\ ToSet(f) = S
  BY <1>2 DEF Surjection, ToSet
<1> QED
  BY <1>1, <1>3 DEF Listings

\* The channels of a receiver are finitely many, and at least one if it calls Receive.
LEMMA WantIs ==
    ASSUME PubSubTypeOK
    PROVE  /\ set \in AllSettings /\ want \in [Receivers -> SUBSET Channels]
           /\ \A r \in Receivers : IsFiniteSet(want[r]) /\ Cardinality(want[r]) \in Nat
           /\ \A r \in Receivers : want[r] # {} => Rest(r) \in Nat /\ Cardinality(want[r]) = Rest(r) + 1
<1>1. set \in AllSettings
  BY SettingsAssumption DEF PubSubTypeOK, set
<1>2. want \in [Receivers -> SUBSET Channels]
  BY <1>1 DEF AllSettings, want
<1>3. \A r \in Receivers : IsFiniteSet(want[r])
  BY <1>2, FS_Subset
<1>4. \A r \in Receivers : Cardinality(want[r]) \in Nat /\ (want[r] # {} => Cardinality(want[r]) # 0)
  BY <1>3, FS_CardinalityType, FS_EmptySet
<1>5. \A r \in Receivers : want[r] # {} => Rest(r) \in Nat /\ Cardinality(want[r]) = Rest(r) + 1
  BY SMTT(30), <1>4 DEF Rest
<1> QED
  BY <1>1, <1>2, <1>3, <1>4, <1>5

\* The confirmations for the channels of a receiver.
LEMMA PushesAre ==
    ASSUME PubSubTypeOK, NEW r \in Receivers, NEW t \in {"subscribe", "unsubscribe"}
    PROVE  /\ Pushes(t, want[r]) \in Seq(Items) /\ Len(Pushes(t, want[r])) = Cardinality(want[r])
           /\ \A i \in 1..Cardinality(want[r]) :
                 Pushes(t, want[r])[i].type = t /\ Pushes(t, want[r])[i].n = 0 /\ Pushes(t, want[r])[i].ch \in Channels
<1>1. PICK C : C = want[r]
  OBVIOUS
<1>2. C \subseteq Channels /\ IsFiniteSet(C)
  BY <1>1, WantIs
<1>3. PICK q \in Listings(C) : q = CHOOSE x \in Listings(C) : TRUE
  BY <1>2, ListingExists
<1>4. \A i \in 1..Cardinality(C) : q[i] \in Channels
  BY <1>2, <1>3 DEF Listings
<1>5. Cardinality(C) \in Nat
  BY <1>2, ListingExists
<1>6. Pushes(t, C) = [i \in 1..Cardinality(C) |-> Push(t, q[i])]
  BY <1>3 DEF Pushes
<1>7. \A x \in Channels : Push(t, x) \in Items /\ Push(t, x).type = t /\ Push(t, x).n = 0 /\ Push(t, x).ch = x
  BY DEF Push, Items
<1> QED
  BY SMTT(30), <1>1, <1>4, <1>5, <1>6, <1>7

-----------------------------------------------------------------------------
(* Types. *)

\* A receiver at an answer: as before, or it goes on to l with v, or from its hook to cancel.
Answered(r, l, v) ==
    \/ pc'[r] = pc[r] /\ res'[r] = res[r]
    \/ pc[r] = "reply" /\ pc'[r] = l /\ res'[r] = v
    \/ pc[r] = "hook" /\ pc'[r] = "cancel" /\ res'[r] = res[r]

\* What an answer does: the command leaves the queue, and whoever waits for it goes on.
LEMMA AnswerIs ==
    ASSUME PubSubTypeOK, queue # <<>>, NEW l \in {"loop", "return"}, NEW v \in {"none", "err"}, Answer(l, v)
    PROVE  /\ queue' = Tail(queue) /\ queue' \in Seq(Entries) /\ executed' \in 0..Len(queue')
           /\ executed' = IF executed = 0 THEN 0 ELSE executed - 1
           /\ pc' \in [Receivers -> ReceiverSteps] /\ res' \in [Receivers -> {"none", "nil", "err", "ctx"}]
           /\ \A r \in Receivers : Answered(r, l, v)
<1>1. PICK e \in Entries : e = Head(queue)
  BY SMTT(30), TailIs DEF PubSubTypeOK
<1>2. e.by \in Receivers
  BY <1>1 DEF Entries
<1>3. queue' = Tail(queue) /\ executed' = IF executed = 0 THEN 0 ELSE executed - 1
  BY DEF Answer
<1>4. queue' \in Seq(Entries) /\ executed' \in 0..Len(queue')
  BY SMTT(30), <1>3, TailIs DEF PubSubTypeOK
<1>5. \/ pc' = pc /\ res' = res
      \/ pc[e.by] = "reply" /\ pc' = [pc EXCEPT ![e.by] = l] /\ res' = [res EXCEPT ![e.by] = v]
      \/ pc[e.by] = "hook" /\ pc' = [pc EXCEPT ![e.by] = "cancel"] /\ res' = res
  BY <1>1 DEF Answer, Result, Goto
<1>6. pc \in [Receivers -> ReceiverSteps] /\ res \in [Receivers -> {"none", "nil", "err", "ctx"}]
  BY DEF PubSubTypeOK
<1>7. pc' \in [Receivers -> ReceiverSteps] /\ res' \in [Receivers -> {"none", "nil", "err", "ctx"}]
  BY SMTT(30), <1>2, <1>5, <1>6 DEF ReceiverSteps
<1>8. \A r \in Receivers : Answered(r, l, v)
  BY <1>2, <1>5, <1>6 DEF Answered
<1> QED
  BY <1>3, <1>4, <1>7, <1>8

\* A command in the queue.
LEMMA EntryIs == \A e \in Entries : e.by \in Receivers /\ e.kind \in {"sub", "unsub"}
  BY DEF Entries

\* Swap leaves the hooks and their error channels.
LEMMA SwapIs ==
    ASSUME PubSubTypeOK, NEW h \in Setters \cup {None}, NEW how \in {"closed", "error"}, Swap(h, how)
    PROVE  hooks' \in Setters \cup {None} /\ hch' \in [Setters -> {"none", "open", "closed", "error"}]
  BY DEF Swap, PubSubTypeOK

\* A receiver's step keeps the types.
LEMMA ReceiverTypes ==
    ASSUME PubSubTypeOK, NEW r \in Receivers, Receive(r) \/ Receiver(r) \/ CtxDone(r)
    PROVE  PubSubTypeOK'
<1> USE DEF registry, channel, loop, link, server, calls, hookVars
<1>t. /\ pc \in [Receivers -> ReceiverSteps] /\ res \in [Receivers -> {"none", "nil", "err", "ctx"}]
      /\ chs \in [Channels -> SUBSET Receivers] /\ sub \subseteq Receivers /\ closed \subseteq Receivers
      /\ buf \in [Receivers -> Seq(Nat)] /\ draining \subseteq Receivers
  BY DEF PubSubTypeOK
<1>p. ASSUME NEW l \in ReceiverSteps, NEW v \in {"none", "nil", "err", "ctx"}
      PROVE  /\ Goto(r, l) => pc' \in [Receivers -> ReceiverSteps]
             /\ Result(r, l, v) => /\ pc' \in [Receivers -> ReceiverSteps]
                                   /\ res' \in [Receivers -> {"none", "nil", "err", "ctx"}]
  BY <1>t DEF Goto, Result
<1>s. {"add", "done", "do", "reply", "hook", "return", "cancel", "hookdo", "lock"} \subseteq ReceiverSteps
  BY DEF ReceiverSteps
<1>1. CASE Receive(r)
  BY <1>1, <1>p, <1>s DEF Receive, PubSubTypeOK, Goto
<1>2. CASE Subscribe(r)
  <2>1. sub' \subseteq Receivers /\ chs' \in [Channels -> SUBSET Receivers]
    BY SMTT(30), <1>2, <1>t DEF Subscribe
  <2>2. pc' \in [Receivers -> ReceiverSteps] /\ res' \in [Receivers -> {"none", "nil", "err", "ctx"}]
    <3>1. PICK v : v \in {"err", "nil"} /\ v = IF err THEN "err" ELSE "nil"
      OBVIOUS
    <3> QED
      BY <1>2, <1>p, <1>s, <1>t, <3>1 DEF Subscribe
  <2> QED
    BY <1>2, <2>1, <2>2 DEF Subscribe, PubSubTypeOK
<1>3. CASE Do(r)
  <2>1. \A k \in {"sub", "unsub"} : [by |-> r, kind |-> k] \in Entries
    BY DEF Entries
  <2>2. queue' \in Seq(Entries) /\ executed' \in 0..Len(queue')
    <3>1. CASE UNCHANGED queue
      BY <1>3, <3>1 DEF Do, PubSubTypeOK
    <3>2. ASSUME NEW k \in {"sub", "unsub"}, queue' = Append(queue, [by |-> r, kind |-> k])
          PROVE  queue' \in Seq(Entries) /\ executed' \in 0..Len(queue')
      <4>0. PICK e \in Entries : e = [by |-> r, kind |-> k]
        BY <2>1, <3>2
      <4>1. queue' \in Seq(Entries) /\ Len(queue') = Len(queue) + 1 /\ Len(queue) \in Nat
        BY SMTT(30), <3>2, <4>0 DEF PubSubTypeOK
      <4>2. executed' = executed /\ executed \in 0..Len(queue)
        BY <1>3 DEF Do, PubSubTypeOK
      <4> QED
        BY SMTT(30), <4>1, <4>2
    <3> QED
      BY <1>3, <3>1, <3>2 DEF Do
  <2>3. pc' \in [Receivers -> ReceiverSteps] /\ res' \in [Receivers -> {"none", "nil", "err", "ctx"}]
    BY <1>3, <1>p, <1>s, <1>t DEF Do
  <2> QED
    BY <1>3, <2>2, <2>3 DEF Do, PubSubTypeOK
<1>4. CASE CtxDone(r)
  BY <1>4, <1>p, <1>s DEF CtxDone, PubSubTypeOK
<1>5. CASE Handle(r)
  <2>1. buf' \in [Receivers -> Seq(Nat)] /\ got' \in [Receivers -> SUBSET Nat]
    <3>1. buf[r] \in Seq(Nat) /\ buf[r] # <<>>
      BY <1>5, <1>t DEF Handle
    <3>2. Head(buf[r]) \in Nat /\ Tail(buf[r]) \in Seq(Nat)
      BY SMTT(30), <3>1
    <3>3. got \in [Receivers -> SUBSET Nat]
      BY DEF PubSubTypeOK
    <3> QED
      BY <1>5, <1>t, <3>2, <3>3 DEF Handle
  <2> QED
    BY <1>5, <2>1 DEF Handle, PubSubTypeOK
<1>6. CASE ChannelClosed(r)
  BY <1>6, <1>p, <1>s DEF ChannelClosed, PubSubTypeOK
<1>7. CASE Finish(r)
  <2>1. pc' \in [Receivers -> ReceiverSteps]
    <3>1. PICK l : l \in {"hookdo", "cancel"} /\ l = IF res[r] = "ctx" /\ set.hook # "none" THEN "hookdo" ELSE "cancel"
      OBVIOUS
    <3> QED
      BY <1>7, <1>p, <1>s, <3>1 DEF Finish
  <2>2. res' \in [Receivers -> {"none", "nil", "err", "ctx"}]
    BY <1>7, <1>t DEF Finish
  <2>3. live' \subseteq Receivers /\ owed' \in [Receivers -> SUBSET Nat] /\ got' \in [Receivers -> SUBSET Nat]
    BY <1>7 DEF Finish, PubSubTypeOK
  <2> QED
    BY <1>7, <2>1, <2>2, <2>3 DEF Finish, PubSubTypeOK
<1>8. CASE Cancel(r)
  BY <1>8, <1>p, <1>s DEF Cancel, PubSubTypeOK
<1>9. CASE CancelRemove(r)
  <2>1. sub' \subseteq Receivers /\ closed' \subseteq Receivers /\ chs' \in [Channels -> SUBSET Receivers]
    BY SMTT(30), <1>9, <1>t DEF CancelRemove, RemoveSubs
  <2> QED
    BY <1>9, <1>p, <1>s, <2>1 DEF CancelRemove, PubSubTypeOK
<1>10. CASE DrainChannel(r)
  <2>1. buf' \in [Receivers -> Seq(Nat)] /\ draining' \subseteq Receivers
    <3>1. CASE buf[r] # <<>>
      <4>1. Tail(buf[r]) \in Seq(Nat)
        BY SMTT(30), <1>t, <3>1
      <4> QED
        BY <1>10, <1>t, <3>1, <4>1 DEF DrainChannel
    <3> QED
      BY <1>10, <1>t, <3>1 DEF DrainChannel
  <2> QED
    BY <1>10, <2>1 DEF DrainChannel, PubSubTypeOK
<1> QED
  BY <1>1, <1>2, <1>3, <1>4, <1>5, <1>6, <1>7, <1>8, <1>9, <1>10 DEF Receiver
\* A step of the read loop keeps the types.
LEMMA ReaderTypes ==
    ASSUME PubSubInv, Reader
    PROVE  PubSubTypeOK'
<1>i. PubSubTypeOK
  BY DEF PubSubInv
<1> USE DEF registry, channel, loop, link, server, calls, hookVars
<1>t. /\ pc \in [Receivers -> ReceiverSteps] /\ res \in [Receivers -> {"none", "nil", "err", "ctx"}]
      /\ chs \in [Channels -> SUBSET Receivers] /\ sub \subseteq Receivers /\ closed \subseteq Receivers
      /\ buf \in [Receivers -> Seq(Nat)] /\ stream \in Seq(Items) /\ targets \in Seq(Receivers)
      /\ queue \in Seq(Entries) /\ executed \in 0..Len(queue) /\ skip \in Nat
  BY <1>i DEF PubSubTypeOK
<1>u. ASSUME stream # <<>>
      PROVE  Tail(stream) \in Seq(Items) /\ Head(stream) = stream[1] /\ stream[1].n \in Nat /\ Len(stream) \in Nat \ {0}
  <2>1. Tail(stream) \in Seq(Items) /\ Head(stream) = stream[1] /\ stream[1] \in Items /\ Len(stream) \in Nat \ {0}
    BY SMTT(30), <1>t, <1>u
  <2> QED
    BY <2>1 DEF Items
<1>v. ASSUME stream # <<>>, stream[1].type # "reply"
      PROVE  stream[1].ch \in Channels
  <2>1. 1 \in 1..Len(stream)
    BY SMTT(30), <1>u, <1>v
  <2> QED
    BY <1>v, <2>1 DEF PubSubInv, MessageInv, CallInv, StreamInv
<1>w. rd \in {"lock", "publish"} => stream # <<>> /\ stream[1].type = "message"
  BY DEF PubSubInv, MessageInv, CallInv, StreamInv
<1>r. {"read", "lock", "publish", "flush", "close", "hooks", "drain", "end"} \subseteq Running \cup Stopping
  BY DEF Running, Stopping
<1>1. CASE ReadMessage
  BY <1>i, <1>1, <1>u, <1>r DEF ReadMessage, Reads, PubSubTypeOK
<1>2. CASE PublishLock
  <2>1. PICK C : C = chs[Head(stream).ch] /\ C \subseteq Receivers
    <3>1. Head(stream).ch \in Channels /\ chs[Head(stream).ch] \subseteq Receivers
      BY <1>2, <1>t, <1>u, <1>v, <1>w DEF PublishLock
    <3> QED
      BY <3>1
  <2>2. Cardinality(C) \in Nat => targets' \in Seq(Receivers)
    BY SMTT(30), <1>2, <2>1 DEF PublishLock, Listings
  <2>3. Cardinality(C) \in Nat
    BY <2>1, FS_Subset, FS_CardinalityType
  <2> QED
    BY <1>i, <1>2, <1>r, <2>2, <2>3 DEF PublishLock, PubSubTypeOK
<1>3. CASE PublishSend
  <2>1. Tail(targets) \in Seq(Receivers) /\ Head(targets) \in Receivers
    BY SMTT(30), <1>3, <1>t DEF PublishSend
  <2>2. Append(buf[Head(targets)], Head(stream).n) \in Seq(Nat)
    BY SMTT(30), <1>3, <1>t, <1>u, <1>w, <2>1 DEF PublishSend
  <2>3. buf' \in [Receivers -> Seq(Nat)]
    BY <1>3, <1>t, <2>1, <2>2 DEF PublishSend
  <2> QED
    BY <1>i, <1>3, <2>1, <2>3 DEF PublishSend, PubSubTypeOK
<1>4. CASE PublishDone
  BY <1>i, <1>4, <1>u, <1>w, <1>r DEF PublishDone, PubSubTypeOK
<1>5. CASE ReadSubscribed
  <2>1. stream' \in Seq(Items)
    BY <1>5, <1>u DEF ReadSubscribed, Reads
  <2>2. CASE skip > 0
    <3>1. skip' \in Nat
      BY SMTT(30), <1>5, <1>t, <2>2 DEF ReadSubscribed
    <3> QED
      BY <1>i, <1>5, <2>1, <2>2, <3>1 DEF ReadSubscribed, PubSubTypeOK
  <2>3. CASE ~(skip > 0) /\ queue # <<>> /\ Head(queue).kind = "sub"
    <3>1. PICK e \in Entries : e = Head(queue)
      BY SMTT(30), <1>t, <2>3
    <3>2. e.by \in Receivers /\ skip' = Rest(e.by)
      BY <1>5, <2>2, <2>3, <3>1, EntryIs DEF ReadSubscribed
    <3>3. 1 \in 1..Len(queue) /\ e = queue[1]
      BY SMTT(30), <1>t, <2>3, <3>1
    <3>4. want[e.by] # {}
      BY <3>2, <3>3 DEF PubSubInv, WireInv, MessageInv, CallInv, StreamInv
    <3>5. skip' \in Nat
      BY <1>i, <3>2, <3>4, WantIs
    <3> QED
      BY <1>i, <1>5, <2>1, <2>3, <3>5, AnswerIs DEF ReadSubscribed, PubSubTypeOK
  <2> QED
    BY <1>i, <1>5, <2>1, <2>2, <2>3 DEF ReadSubscribed, PubSubTypeOK
<1>6. CASE ReadUnsubscribed
  <2>1. chs[Head(stream).ch] \subseteq Receivers
    BY <1>6, <1>t, <1>u, <1>v DEF ReadUnsubscribed, Reads
  <2>2. sub' \subseteq Receivers /\ closed' \subseteq Receivers /\ chs' \in [Channels -> SUBSET Receivers]
    BY <1>6, <1>t, <2>1 DEF ReadUnsubscribed, RemoveSubs
  <2>3. skip' \in Nat
    BY SMTT(30), <1>6, <1>t DEF ReadUnsubscribed
  <2> QED
    BY <1>i, <1>6, <1>u, <2>2, <2>3 DEF ReadUnsubscribed, Reads, PubSubTypeOK
<1>7. CASE ReadReply
  BY <1>i, <1>7, <1>u, AnswerIs DEF ReadReply, Reads, PubSubTypeOK
<1>8. CASE Exit
  <2>1. stream' \in Seq(Items) /\ skip' \in Nat /\ executed' \in 0..Len(queue')
    BY SMTT(30), <1>8, <1>t DEF Exit
  <2> QED
    BY <1>i, <1>8, <1>r, <2>1 DEF Exit, PubSubTypeOK
<1>9. CASE CloseSubs
  <2>1. sub' \subseteq Receivers /\ chs' \in [Channels -> SUBSET Receivers]
    BY <1>9 DEF CloseSubs
  <2> QED
    BY <1>i, <1>9, <1>r, <2>1 DEF CloseSubs, PubSubTypeOK
<1>10. CASE CloseChannel
  BY <1>i, <1>10, <1>r DEF CloseChannel, PubSubTypeOK
<1>11. CASE ExitHooks
  <2>1. hooks' \in Setters \cup {None} /\ hch' \in [Setters -> {"none", "open", "closed", "error"}]
    BY <1>i, <1>11, SwapIs DEF ExitHooks
  <2> QED
    BY <1>i, <1>11, <1>r, <2>1 DEF ExitHooks, PubSubTypeOK
<1>12. CASE Drain
  <2>1. CASE queue = <<>>
    BY <1>i, <1>12, <1>r, <2>1 DEF Drain, PubSubTypeOK
  <2>2. CASE queue # <<>>
    BY <1>i, <1>12, <2>2, AnswerIs DEF Drain, PubSubTypeOK
  <2> QED
    BY <2>1, <2>2
<1> QED
  BY <1>1, <1>2, <1>3, <1>4, <1>5, <1>6, <1>7, <1>8, <1>9, <1>10, <1>11, <1>12 DEF Reader
\* A step of a setter of hooks keeps the types.
LEMMA SetterTypes ==
    ASSUME PubSubTypeOK, NEW h \in Setters, SetPubSubHooks(h) \/ Setter(h) \/ ClearHooks(h)
    PROVE  PubSubTypeOK'
<1> USE DEF registry, channel, loop, link, server, calls, hookVars
<1>t. hpc \in [Setters -> {"idle", "check", "unset", "set", "cleared"}]
  BY DEF PubSubTypeOK
<1>1. CASE SetPubSubHooks(h)
  BY <1>1, <1>t, SwapIs DEF SetPubSubHooks, PubSubTypeOK
<1>2. CASE CheckError(h)
  <2>1. hpc' \in [Setters -> {"idle", "check", "unset", "set", "cleared"}]
    BY <1>2, <1>t DEF CheckError
  <2> QED
    BY <1>2, <2>1 DEF CheckError, PubSubTypeOK
<1>3. CASE UnsetHooks(h)
  BY <1>3, <1>t, SwapIs DEF UnsetHooks, PubSubTypeOK
<1>4. CASE ClearHooks(h)
  BY <1>4, <1>t, SwapIs DEF ClearHooks, PubSubTypeOK
<1> QED
  BY <1>1, <1>2, <1>3, <1>4 DEF Setter

\* The server executes the command of r: it sends confirmations, or an error, or what ends with the
\* reply of a PING.
Executes(r, t) ==
    /\ r = queue[executed + 1].by
    /\ \/ /\ t = "subscribe" /\ queue[executed + 1].kind = "sub" /\ stream' = stream \o Pushes(t, want[r])
          /\ live' = live \cup {d \in {r} : pc[d] = "reply"}
       \/ /\ t = "reply" /\ queue[executed + 1].kind = "sub" /\ stream' = Append(stream, Push(t, None))
          /\ live' = live
       \/ /\ t = "unsubscribe" /\ queue[executed + 1].kind = "unsub"
          /\ stream' = stream \o Pushes(t, want[r]) \o <<Push("reply", None)>>
          /\ live' = live \ Affected(want[r])

\* What Execute does for the command it executes.
LEMMA ExecuteIs ==
    ASSUME PubSubTypeOK, Execute
    PROVE  /\ open /\ executed \in Nat /\ executed + 1 \in 1..Len(queue) /\ executed' = executed + 1
           /\ \E r \in Receivers : \E t \in {"subscribe", "unsubscribe", "reply"} : Executes(r, t)
           /\ stream' \in Seq(Items) /\ subscribed' \subseteq Channels /\ live' \subseteq Receivers
<1>1. open /\ executed \in Nat /\ executed + 1 \in 1..Len(queue) /\ executed' = executed + 1
  <2>1. open /\ executed < Len(queue) /\ executed' = executed + 1
    BY DEF Execute
  <2>2. executed \in 0..Len(queue) /\ queue \in Seq(Entries)
    BY DEF PubSubTypeOK
  <2> QED
    BY SMTT(30), <2>1, <2>2
<1>2. PICK e \in Entries : e = queue[executed + 1]
  BY SMTT(30), <1>1 DEF PubSubTypeOK
<1>3. e.by \in Receivers /\ e.kind \in {"sub", "unsub"}
  BY <1>2, EntryIs
<1>4. \/ /\ e.kind = "sub" /\ stream' = stream \o Pushes("subscribe", want[e.by])
         /\ subscribed' = subscribed \cup want[e.by] /\ live' = live \cup {d \in {e.by} : pc[d] = "reply"}
      \/ /\ e.kind = "sub" /\ stream' = Append(stream, Push("reply", None))
         /\ UNCHANGED <<subscribed, live>>
      \/ /\ e.kind = "unsub" /\ stream' = stream \o Pushes("unsubscribe", want[e.by]) \o <<Push("reply", None)>>
         /\ subscribed' = subscribed \ want[e.by] /\ live' = live \ Affected(want[e.by])
  BY <1>2 DEF Execute
<1>5. want[e.by] \subseteq Channels /\ subscribed \subseteq Channels /\ live \subseteq Receivers /\ stream \in Seq(Items)
  BY <1>3, WantIs DEF PubSubTypeOK
<1>6. Push("reply", None) \in Items
  BY DEF Push, Items
<1>7. stream' \in Seq(Items)
  <2>1. Pushes("subscribe", want[e.by]) \in Seq(Items) /\ Pushes("unsubscribe", want[e.by]) \in Seq(Items)
    BY <1>3, PushesAre
  <2>2. PICK a \in Seq(Items), b \in Seq(Items), x \in Items :
            a = Pushes("subscribe", want[e.by]) /\ b = Pushes("unsubscribe", want[e.by]) /\ x = Push("reply", None)
    BY <1>6, <2>1
  <2>3. stream' = stream \o a \/ stream' = Append(stream, x) \/ stream' = stream \o b \o <<x>>
    BY <1>4, <2>2
  <2>4. Append(stream, x) \in Seq(Items) /\ stream \o a \in Seq(Items) /\ stream \o b \in Seq(Items) /\ <<x>> \in Seq(Items)
    BY SMTT(30), <1>5, <2>2
  <2>5. stream \o b \o <<x>> \in Seq(Items)
    BY SMTT(30), <2>4
  <2> QED
    BY <2>3, <2>4, <2>5
<1>8. subscribed' \subseteq Channels /\ live' \subseteq Receivers
  BY <1>3, <1>4, <1>5
<1>9. \E t \in {"subscribe", "unsubscribe", "reply"} : Executes(e.by, t)
  BY <1>2, <1>4 DEF Executes
<1> QED
  BY <1>1, <1>3, <1>7, <1>8, <1>9

\* A step of the server or of the connection keeps the types.
LEMMA ServerTypes ==
    ASSUME PubSubTypeOK, Execute \/ Publish \/ Unsubscribe \/ Close \/ Break \/ Done \/ UNCHANGED vars
    PROVE  PubSubTypeOK'
<1> USE DEF registry, channel, loop, link, server, calls, hookVars
<1>t. stream \in Seq(Items) /\ subscribed \subseteq Channels /\ owed \in [Receivers -> SUBSET Nat] /\ sent \in Nat
  BY DEF PubSubTypeOK
<1>1. CASE Execute
  <2>1. executed' \in 0..Len(queue') /\ stream' \in Seq(Items) /\ subscribed' \subseteq Channels /\ live' \subseteq Receivers
    <3>1. executed \in Nat /\ executed + 1 \in 1..Len(queue) /\ executed' = executed + 1 /\ queue' = queue
      BY <1>1, ExecuteIs DEF Execute
    <3>2. executed' \in 0..Len(queue')
      BY SMTT(30), <3>1
    <3> QED
      BY <1>1, <3>2, ExecuteIs
  <2> QED
    BY <1>1, <2>1 DEF Execute, PubSubTypeOK
<1>2. CASE Publish
  <2>1. PICK c \in subscribed : /\ stream' = Append(stream, [type |-> "message", ch |-> c, n |-> sent + 1])
                               /\ owed' = [r \in Receivers |->
                                     IF r \in live /\ c \in want[r] THEN owed[r] \cup {sent + 1} ELSE owed[r]]
    BY <1>2 DEF Publish
  <2>s. sent + 1 \in Nat
    BY SMTT(30), <1>t
  <2>c. c \in Channels \cup {None}
    BY <1>t
  <2>2. [type |-> "message", ch |-> c, n |-> sent + 1] \in Items /\ sent + 1 \in Nat
    BY <2>s, <2>c, ItemIs
  <2>3. PICK x \in Items : x = [type |-> "message", ch |-> c, n |-> sent + 1]
    BY <2>2
  <2>4. stream' \in Seq(Items)
    BY SMTT(30), <1>t, <2>1, <2>3
  <2>5. owed' \in [Receivers -> SUBSET Nat]
    BY <1>t, <2>1, <2>2
  <2>6. sent' \in Nat
    BY <1>2, <2>2 DEF Publish
  <2> QED
    BY <1>2, <2>4, <2>5, <2>6 DEF Publish, PubSubTypeOK
<1>3. CASE Unsubscribe
  <2>1. PICK c \in subscribed : stream' = Append(stream, Push("unsubscribe", c)) /\ subscribed' = subscribed \ {c}
                               /\ live' = live \ Affected({c})
    BY <1>3 DEF Unsubscribe
  <2>2. PICK x \in Items : x = Push("unsubscribe", c)
    BY <1>t, ItemIs
  <2>3. stream' \in Seq(Items)
    BY SMTT(30), <1>t, <2>1, <2>2
  <2> QED
    BY <1>3, <2>1, <2>3 DEF Unsubscribe, PubSubTypeOK
<1>4. CASE Close
  BY <1>4 DEF Close, PubSubTypeOK
<1>5. CASE Break
  BY <1>5 DEF Break, PubSubTypeOK
<1>6. CASE UNCHANGED vars
  BY <1>6 DEF vars, PubSubTypeOK
<1> QED
  BY <1>1, <1>2, <1>3, <1>4, <1>5, <1>6 DEF Done
-----------------------------------------------------------------------------
(* The registry, step by step. *)

\* The circumstances of a behaviour do not change.
LEMMA SameSet == setting' = setting => set' = set /\ want' = want
  BY DEF set, want

\* No receiver is back before its SUBSCRIBE.
Onward == \A d \in Receivers : pc[d] \notin {"idle", "add"} => pc'[d] \notin {"idle", "add"}

\* A step that leaves the registry and the channels alone.
LEMMA RegistryCalm ==
    ASSUME PubSubTypeOK, RegistryInv, Onward, UNCHANGED <<setting, sub, chs, closed, toClose>>,
           rd' = "publish" => rd = "publish" /\ targets' = targets
    PROVE  RegistryInv'
<1>1. want' = want
  BY SameSet
<1>2. \A d \in sub \cup closed \cup toClose : pc'[d] \notin {"idle", "add"}
  BY DEF RegistryInv, Onward, PubSubTypeOK
<1> QED
  BY <1>1, <1>2 DEF RegistryInv

\* Where a receiver is after a step of it.
LEMMA GotoIs ==
    ASSUME PubSubTypeOK, NEW r \in Receivers, NEW l, Goto(r, l)
    PROVE  pc'[r] = l /\ \A d \in Receivers : d # r => pc'[d] = pc[d]
  BY DEF PubSubTypeOK, Goto

\* A receiver's step.
LEMMA ReceiverRegistry ==
    ASSUME PubSubInv, NEW r \in Receivers, Receive(r) \/ Receiver(r) \/ CtxDone(r)
    PROVE  RegistryInv' /\ ~panicked'
<1> USE DEF registry, channel, loop, link, server, calls, hookVars
<1>i. PubSubTypeOK /\ RegistryInv /\ ~panicked
  BY DEF PubSubInv
<1>c. ASSUME NEW l, Goto(r, l), pc[r] = "idle" \/ l \notin {"idle", "add"}
      PROVE  Onward
  <2>1. pc'[r] = l /\ \A d \in Receivers : d # r => pc'[d] = pc[d]
    BY <1>c, <1>i, GotoIs
  <2> QED
    BY <1>c, <2>1 DEF Onward
<1>d. pc' = pc => Onward
  BY DEF Onward
<1>1. CASE Receive(r)
  BY <1>1, <1>i, <1>c, RegistryCalm DEF Receive
<1>2. CASE Subscribe(r)
  <2>1. CASE flushed
    <3>1. Goto(r, "done") /\ UNCHANGED <<setting, sub, chs, closed, toClose, rd, targets, panicked>>
      BY <1>2, <2>1 DEF Subscribe, Result
    <3>2. Onward
      BY <1>c, <3>1
    <3> QED
      BY <1>i, <3>1, <3>2, RegistryCalm
  <2>2. CASE ~flushed
    <3>1. /\ UNCHANGED <<setting, closed, toClose, rd, panicked>> /\ sub' = sub \cup {r} /\ rd # "publish"
          /\ chs' = [c \in Channels |-> IF c \in want[r] THEN chs[c] \cup {r} ELSE chs[c]]
          /\ pc[r] = "add" /\ Goto(r, "do")
      BY <1>2, <2>2 DEF Subscribe, Unlocked
    <3>2. pc'[r] = "do" /\ \A d \in Receivers : d # r => pc'[d] = pc[d]
      BY <1>i, <3>1, GotoIs
    <3>3. \A c \in Channels : chs'[c] = IF c \in want[r] THEN chs[c] \cup {r} ELSE chs[c]
      BY <3>1
    <3>4. r \notin sub /\ r \notin closed /\ r \notin toClose
      BY <1>i, <3>1 DEF RegistryInv
    <3>5. want' = want /\ \A d \in Receivers : want[d] \subseteq Channels
      BY <1>i, <3>1, SameSet, WantIs
    <3>6. \A c \in Channels : chs'[c] \subseteq sub'
      BY <1>i, <3>1, <3>3 DEF RegistryInv
    <3>7. \A d \in sub' : \A c \in want'[d] : d \in chs'[c]
      BY <1>i, <3>1, <3>3, <3>5 DEF RegistryInv, PubSubTypeOK
    <3>8. sub' \cap closed' = {} /\ toClose' \cap closed' = {} /\ toClose' \cap sub' = {}
      BY <1>i, <3>1, <3>4 DEF RegistryInv
    <3>9. \A d \in sub' \cup closed' \cup toClose' : pc'[d] \notin {"idle", "add"}
      BY <1>i, <3>1, <3>2 DEF RegistryInv, PubSubTypeOK
    <3> QED
      BY <1>i, <3>1, <3>6, <3>7, <3>8, <3>9 DEF RegistryInv
  <2> QED
    BY <2>1, <2>2
<1>3. CASE Do(r)
  <2>1. Onward
    BY <1>3, <1>c DEF Do, Result
  <2> QED
    BY <1>3, <1>i, <2>1, RegistryCalm DEF Do
<1>4. CASE CtxDone(r)
  BY <1>4, <1>i, <1>c, RegistryCalm DEF CtxDone, Result
<1>5. CASE Handle(r)
  BY <1>5, <1>i, <1>d, RegistryCalm DEF Handle
<1>6. CASE ChannelClosed(r)
  BY <1>6, <1>i, <1>c, RegistryCalm DEF ChannelClosed, Result
<1>7. CASE Finish(r)
  <2>1. Onward
    BY <1>7, <1>c DEF Finish
  <2> QED
    BY <1>7, <1>i, <2>1, RegistryCalm DEF Finish
<1>8. CASE Cancel(r)
  BY <1>8, <1>i, <1>c, RegistryCalm DEF Cancel
<1>9. CASE CancelRemove(r)
  <2>0. Goto(r, "done") /\ Onward /\ rd # "publish" /\ UNCHANGED <<setting, toClose, rd>> /\ want' = want
    BY <1>9, <1>c, SameSet DEF CancelRemove, Unlocked
  <2>1. CASE r \notin sub
    BY <1>9, <1>i, <2>0, <2>1, RegistryCalm DEF CancelRemove
  <2>2. CASE r \in sub
    <3>1. /\ sub' = sub \ {r} /\ closed' = closed \cup {r} /\ chs' = [c \in Channels |-> chs[c] \ {r}]
          /\ panicked' = (panicked \/ {r} \cap closed # {})
      BY <1>9, <2>2 DEF CancelRemove, RemoveSubs
    <3>2. r \notin closed /\ r \notin toClose
      BY <1>i, <2>2 DEF RegistryInv
    <3>3. ~panicked'
      BY <1>i, <3>1, <3>2
    <3>4. \A c \in Channels : chs'[c] = chs[c] \ {r}
      BY <3>1
    <3>5. \A d \in Receivers : want[d] \subseteq Channels
      BY <1>i, WantIs
    <3>6. \A c \in Channels : chs'[c] \subseteq sub'
      BY <1>i, <3>1, <3>4 DEF RegistryInv
    <3>7. \A d \in sub' : \A c \in want'[d] : d \in chs'[c]
      BY <1>i, <2>0, <3>1, <3>4, <3>5 DEF RegistryInv, PubSubTypeOK
    <3>8. sub' \cap closed' = {} /\ toClose' \cap closed' = {} /\ toClose' \cap sub' = {}
      BY <1>i, <2>0, <3>1, <3>2 DEF RegistryInv
    <3>9. \A d \in sub' \cup closed' \cup toClose' : pc'[d] \notin {"idle", "add"}
      BY <1>i, <2>0, <2>2, <3>1 DEF RegistryInv, PubSubTypeOK, Onward
    <3> QED
      BY <2>0, <3>3, <3>6, <3>7, <3>8, <3>9 DEF RegistryInv
  <2> QED
    BY <2>1, <2>2
<1>10. CASE DrainChannel(r)
  BY <1>10, <1>i, <1>d, RegistryCalm DEF DrainChannel
<1> QED
  BY <1>1, <1>2, <1>3, <1>4, <1>5, <1>6, <1>7, <1>8, <1>9, <1>10 DEF Receiver
-----------------------------------------------------------------------------
(* The wire: which part of the stream answers which command. *)

\* No receiver is back to idle.
Begun == \A d \in Receivers : pc[d] # "idle" => pc'[d] # "idle"

\* The positions of the replies, as numbers.
Layout(p, z) ==
    /\ Replies(p, z) /\ Len(stream) \in Nat /\ executed \in Nat /\ Len(queue) \in Nat /\ executed <= Len(queue)
    /\ p \in [1..executed -> 1..Len(stream)] /\ z \in [1..executed -> 1..Len(stream)]
    /\ \A i \in 1..Len(queue) : queue[i].by \in Receivers /\ Rest(queue[i].by) \in Nat

\* They exist.
LEMMA LayoutExists ==
    ASSUME PubSubInv
    PROVE  \E p, z : Layout(p, z)
<1>1. PICK p, z \in [1..executed -> 1..Len(stream)] : Replies(p, z)
  BY DEF PubSubInv, WireInv
<1>2. Len(stream) \in Nat /\ executed \in Nat /\ Len(queue) \in Nat /\ executed <= Len(queue)
  BY SMTT(30) DEF PubSubInv, PubSubTypeOK
<1>3. \A i \in 1..Len(queue) : queue[i] \in Entries
  BY SMTT(30) DEF PubSubInv, PubSubTypeOK
<1>4. ASSUME NEW i \in 1..Len(queue)
      PROVE  queue[i].by \in Receivers /\ Rest(queue[i].by) \in Nat
  <2>1. queue[i].by \in Receivers
    BY <1>3, EntryIs
  <2>2. want[queue[i].by] # {}
    BY <2>1 DEF PubSubInv, WireInv, MessageInv, CallInv, StreamInv
  <2> QED
    BY <2>1, <2>2, WantIs DEF PubSubInv
<1> QED
  BY <1>1, <1>2, <1>4 DEF Layout

\* A reply that is the head of the stream, with nothing to skip, is that of the first command.
LEMMA HeadAnswers ==
    ASSUME PubSubInv, stream # <<>>, skip = 0, stream[1].type \in {"reply", "subscribe"}
    PROVE  /\ \E p, z : Layout(p, z) /\ p[1] = 1
           /\ executed # 0 /\ queue # <<>> /\ Head(queue) = queue[1]
           /\ stream[1].type = "subscribe" => queue[1].kind = "sub"
<1>1. PICK p, z : Layout(p, z)
  BY LayoutExists
<1>2. 1 \in 1..Len(stream) /\ ~(1 <= skip)
  BY SMTT(30) DEF PubSubInv, PubSubTypeOK
<1>3. PICK i \in 1..executed : p[i] <= 1 /\ 1 <= z[i]
  BY SMTT(30), <1>1, <1>2 DEF Layout, Replies
<1>4. p[i] = 1 /\ 1 \in 1..executed /\ executed # 0
  BY SMTT(30), <1>1, <1>3 DEF Layout
<1>5. i = 1
  <2>1. ASSUME 1 < i
        PROVE  FALSE
    <3>1. z[1] < p[i]
      BY <1>1, <1>4, <2>1 DEF Layout, Replies
    <3>2. z[1] \in 1..Len(stream)
      BY <1>1, <1>4 DEF Layout
    <3> QED
      BY SMTT(30), <1>1, <1>4, <3>1, <3>2 DEF Layout
  <2> QED
    BY SMTT(30), <1>4, <2>1 DEF Layout
<1>6. stream[1].type = "subscribe" => queue[1].kind = "sub"
  BY <1>1, <1>4, <1>5 DEF Layout, Replies
<1>7. queue # <<>> /\ Head(queue) = queue[1]
  BY SMTT(30), <1>1, <1>4 DEF Layout, PubSubInv, PubSubTypeOK
<1> QED
  BY <1>1, <1>4, <1>5, <1>6, <1>7

\* The confirmations keep their number.
LEMMA SameRest == setting' = setting => \A r : Rest(r)' = Rest(r)
  BY SameSet DEF Rest

\* The stream loses its head, and the head answers nothing.
LEMMA WireShift ==
    ASSUME PubSubInv, Begun, stream # <<>>, stream' = Tail(stream), UNCHANGED <<setting, queue, executed>>,
           skip' = IF skip > 0 THEN skip - 1 ELSE 0, skip > 0 \/ stream[1].type \notin {"reply", "subscribe"}
    PROVE  WireInv'
<1>1. PICK p, z : Layout(p, z)
  BY LayoutExists
<1>2. PICK N \in Nat \ {0} : N = Len(stream) /\ Len(stream') = N - 1 /\ skip \in Nat
                            /\ \A j \in 1..(N - 1) : stream'[j] = stream[j + 1] /\ j + 1 \in 1..N
  <2>1. stream \in Seq(Items) /\ skip \in Nat
    BY DEF PubSubInv, PubSubTypeOK
  <2>2. /\ Len(stream) \in Nat \ {0} /\ Len(stream') = Len(stream) - 1
        /\ \A j \in 1..(Len(stream) - 1) : stream'[j] = stream[j + 1] /\ j + 1 \in 1..Len(stream)
    BY SMTT(30), <2>1
  <2> QED
    BY <2>1, <2>2
<1>3. \A i \in 1..executed : 1 < p[i] /\ skip < p[i] /\ p[i] <= z[i]
  <2> SUFFICES ASSUME NEW i \in 1..executed
               PROVE  1 < p[i] /\ skip < p[i] /\ p[i] <= z[i]
    OBVIOUS
  <2>1. skip < p[i] /\ p[i] <= z[i] /\ stream[p[i]].type \in {"reply", "subscribe"}
    BY <1>1 DEF Layout, Replies
  <2>2. p[i] \in 1..Len(stream)
    BY <1>1 DEF Layout
  <2> QED
    BY SMTT(30), <1>2, <2>1, <2>2
<1>4. skip' <= Len(stream') /\ skip' \in Nat /\ skip' < skip + 1
  BY SMTT(30), <1>2 DEF PubSubInv, WireInv
<1>5. \A j \in 1..skip' : stream'[j].type = "subscribe"
  BY SMTT(30), <1>2, <1>4 DEF PubSubInv, WireInv
<1>6. \A i \in 1..Len(queue') : pc'[queue'[i].by] # "idle"
  BY <1>1 DEF Layout, PubSubInv, WireInv, Begun
<1>p. PICK P, Z : P = [i \in 1..executed |-> p[i] - 1] /\ Z = [i \in 1..executed |-> z[i] - 1]
  OBVIOUS
<1>7. P \in [1..executed' -> 1..Len(stream')] /\ Z \in [1..executed' -> 1..Len(stream')]
  BY SMTT(90), <1>p, <1>1, <1>2, <1>3 DEF Layout
<1>8. ASSUME NEW i \in 1..executed
      PROVE  /\ skip' < P[i] /\ P[i] <= Z[i] /\ Z[i] <= Len(stream') /\ P[i] \in Nat /\ Z[i] \in Nat
             /\ P[i] + 1 = p[i] /\ Z[i] + 1 = z[i] /\ stream'[P[i]] = stream[p[i]] /\ i \in 1..Len(queue) /\ p[i] \in Nat /\ z[i] \in Nat
  BY SMTT(90), <1>p, <1>1, <1>2, <1>3, <1>4 DEF Layout
<1>9. Replies(P, Z)'
  <2>1. ASSUME NEW i \in 1..executed'
        PROVE  \/ stream'[P[i]].type = "reply" /\ Z[i] = P[i]
               \/ stream'[P[i]].type = "subscribe" /\ queue'[i].kind = "sub" /\ Z[i] = P[i] + Rest(queue[i].by)'
    <3>1. \/ stream[p[i]].type = "reply" /\ z[i] = p[i]
          \/ stream[p[i]].type = "subscribe" /\ queue[i].kind = "sub" /\ z[i] = p[i] + Rest(queue[i].by)
      BY <1>1 DEF Layout, Replies
    <3>2. Rest(queue[i].by)' = Rest(queue[i].by) /\ Rest(queue[i].by) \in Nat
      BY <1>1, <1>8, SameRest DEF Layout
    <3>3. P[i] \in Nat /\ Z[i] \in Nat /\ p[i] \in Nat /\ z[i] \in Nat /\ P[i] + 1 = p[i] /\ Z[i] + 1 = z[i] /\ stream'[P[i]] = stream[p[i]]
      BY <1>8
    <3>4. PICK x \in Nat : x = Rest(queue[i].by)
      BY <3>2
    <3>a. PICK a \in Nat, b \in Nat, c \in Nat, d \in Nat : a = z[i] /\ b = p[i] /\ c = Z[i] /\ d = P[i]
      BY <3>3
    <3>b. c + 1 = a /\ d + 1 = b
      BY <3>3, <3>a
    <3>c. (a = b => c = d) /\ (a = b + x => c = d + x)
      BY SMTT(30), <3>b
    <3>5. (z[i] = p[i] => Z[i] = P[i]) /\ (z[i] = p[i] + x => Z[i] = P[i] + x)
      BY <3>a, <3>c
    <3> QED
      BY <3>1, <3>2, <3>3, <3>4, <3>5
  <2>2. ASSUME NEW i \in 1..executed', NEW j \in 1..Len(stream'), P[i] <= j, j <= Z[i]
        PROVE  stream'[j].type = stream'[P[i]].type
    <3>1. j + 1 \in 1..Len(stream) /\ stream'[j] = stream[j + 1] /\ p[i] <= j + 1 /\ j + 1 <= z[i]
      BY SMTT(30), <1>2, <1>8, <2>2
    <3>2. stream[j + 1].type = stream[p[i]].type
      BY <1>1, <3>1 DEF Layout, Replies
    <3>3. stream'[P[i]] = stream[p[i]]
      BY <1>8
    <3> QED
      BY <3>1, <3>2, <3>3
  <2>3. ASSUME NEW i \in 1..executed', NEW k \in 1..executed', i < k
        PROVE  Z[i] < P[k]
    <3>1. z[i] < p[k]
      BY <1>1, <2>3 DEF Layout, Replies
    <3> QED
      BY SMTT(30), <1>8, <3>1
  <2>4. ASSUME NEW j \in 1..Len(stream'), stream'[j].type \in {"reply", "subscribe"}
        PROVE  j <= skip' \/ \E i \in 1..executed' : P[i] <= j /\ j <= Z[i]
    <3>1. j + 1 \in 1..Len(stream) /\ stream'[j] = stream[j + 1] /\ j \in Nat
      BY SMTT(30), <1>2
    <3>2. j + 1 <= skip \/ \E i \in 1..executed : p[i] <= j + 1 /\ j + 1 <= z[i]
      BY <1>1, <2>4, <3>1 DEF Layout, Replies
    <3>3. CASE j + 1 <= skip
      BY SMTT(30), <1>2, <3>1, <3>3
    <3>4. ASSUME NEW i \in 1..executed, p[i] <= j + 1, j + 1 <= z[i]
          PROVE  P[i] <= j /\ j <= Z[i]
      BY SMTT(30), <1>8, <3>1, <3>4
    <3> QED
      BY <3>2, <3>3, <3>4
  <2> QED
    BY <1>8, <2>1, <2>2, <2>3, <2>4 DEF Replies
<1> QED
  BY <1>4, <1>5, <1>6, <1>7, <1>9 DEF WireInv
\* The stream loses its head, which answers the first command.
LEMMA WireDrop ==
    ASSUME PubSubInv, Begun, stream # <<>>, skip = 0, stream[1].type \in {"reply", "subscribe"}, stream' = Tail(stream),
           queue' = Tail(queue), executed' = IF executed = 0 THEN 0 ELSE executed - 1, setting' = setting,
           skip' = IF stream[1].type = "subscribe" THEN Rest(queue[1].by) ELSE 0
    PROVE  WireInv'
<1>0. executed # 0 /\ queue # <<>>
  BY HeadAnswers
<1>1. PICK p, z : Layout(p, z) /\ p[1] = 1
  BY HeadAnswers
<1>2. PICK N \in Nat \ {0} : N = Len(stream) /\ Len(stream') = N - 1 /\ 1 \in 1..N
                            /\ \A j \in 1..(N - 1) : stream'[j] = stream[j + 1] /\ j + 1 \in 1..N
  <2>1. stream \in Seq(Items)
    BY DEF PubSubInv, PubSubTypeOK
  <2>2. /\ Len(stream) \in Nat \ {0} /\ Len(stream') = Len(stream) - 1 /\ 1 \in 1..Len(stream)
        /\ \A j \in 1..(Len(stream) - 1) : stream'[j] = stream[j + 1] /\ j + 1 \in 1..Len(stream)
    BY SMTT(30), <2>1
  <2> QED
    BY <2>1, <2>2
<1>3. PICK E \in Nat : /\ executed = E + 1 /\ executed' = E /\ 1 \in 1..executed /\ 1 \in 1..Len(queue)
                       /\ \A i \in 1..E : i \in 1..executed /\ i + 1 \in 1..executed /\ 1 < i + 1
                                         /\ queue'[i] = queue[i + 1] /\ i + 1 \in 1..Len(queue)
  <2>1. queue \in Seq(Entries) /\ executed \in Nat /\ executed <= Len(queue)
    BY SMTT(30) DEF PubSubInv, PubSubTypeOK
  <2>2. executed - 1 \in Nat /\ executed = (executed - 1) + 1 /\ executed' = executed - 1
    BY SMTT(30), <1>0, <2>1
  <2>3. /\ 1 \in 1..executed /\ 1 \in 1..Len(queue)
        /\ \A i \in 1..(executed - 1) : i \in 1..executed /\ i + 1 \in 1..executed /\ 1 < i + 1
                                        /\ queue'[i] = queue[i + 1] /\ i + 1 \in 1..Len(queue)
    BY SMTT(30), <1>0, <2>1, <2>2
  <2> QED
    BY <2>2, <2>3
<1>4. \A i \in 1..executed : p[i] \in 1..N /\ z[i] \in 1..N /\ p[i] <= z[i]
  BY <1>1, <1>2 DEF Layout, Replies
<1>5. skip' \in Nat /\ z[1] = 1 + skip'
  <2>1. \/ stream[1].type = "reply" /\ z[1] = 1
        \/ stream[1].type = "subscribe" /\ z[1] = 1 + Rest(queue[1].by)
    BY <1>1, <1>3 DEF Layout, Replies
  <2>2. Rest(queue[1].by) \in Nat
    BY <1>1, <1>3 DEF Layout
  <2> QED
    BY SMTT(30), <2>1, <2>2
<1>6. skip' <= Len(stream')
  <2>1. z[1] \in 1..N
    BY <1>3, <1>4
  <2> QED
    BY SMTT(30), <1>2, <1>5, <2>1
<1>7. \A j \in 1..skip' : stream'[j].type = "subscribe"
  <2> SUFFICES ASSUME NEW j \in 1..skip'
               PROVE  stream'[j].type = "subscribe"
    OBVIOUS
  <2>1. stream[1].type = "subscribe"
    BY SMTT(30), <1>5
  <2>2. j + 1 \in 1..N /\ stream'[j] = stream[j + 1] /\ p[1] <= j + 1 /\ j + 1 <= z[1]
    BY SMTT(30), <1>1, <1>2, <1>5, <1>6
  <2>3. stream[j + 1].type = stream[p[1]].type
    BY <1>1, <1>2, <1>3, <2>2 DEF Layout, Replies
  <2> QED
    BY <1>1, <2>1, <2>2, <2>3
<1>8. \A i \in 1..Len(queue') : pc'[queue'[i].by] # "idle"
  <2>1. queue \in Seq(Entries)
    BY DEF PubSubInv, PubSubTypeOK
  <2>2. \A i \in 1..Len(queue') : queue'[i] = queue[i + 1] /\ i + 1 \in 1..Len(queue)
    BY SMTT(30), <1>0, <2>1
  <2> QED
    BY <1>1, <2>2 DEF Layout, PubSubInv, WireInv, Begun
<1>p. PICK P, Z : P = [i \in 1..E |-> p[i + 1] - 1] /\ Z = [i \in 1..E |-> z[i + 1] - 1]
  OBVIOUS
<1>9. ASSUME NEW i \in 1..E
      PROVE  /\ P[i] \in 1..(N - 1) /\ Z[i] \in 1..(N - 1) /\ P[i] <= Z[i] /\ skip' < P[i]
             /\ P[i] + 1 = p[i + 1] /\ Z[i] + 1 = z[i + 1] /\ stream'[P[i]] = stream[p[i + 1]]
  <2>1. i + 1 \in 1..executed /\ z[1] < p[i + 1]
    BY <1>1, <1>3 DEF Layout, Replies
  <2>2. p[i + 1] \in 1..N /\ z[i + 1] \in 1..N /\ p[i + 1] <= z[i + 1]
    BY <1>4, <2>1
  <2>3. PICK a \in 1..N, b \in 1..N, w \in 1..N : a = p[i + 1] /\ b = z[i + 1] /\ w = z[1] /\ w < a /\ a <= b
    BY <1>3, <1>4, <2>1, <2>2
  <2>4. P[i] = a - 1 /\ Z[i] = b - 1
    BY <1>p, <2>3
  <2>5. /\ a - 1 \in 1..(N - 1) /\ b - 1 \in 1..(N - 1) /\ a - 1 <= b - 1 /\ skip' < a - 1
        /\ (a - 1) + 1 = a /\ (b - 1) + 1 = b
    BY SMTT(30), <1>5, <2>3
  <2>6. stream'[a - 1] = stream[a]
    BY <1>2, <2>5
  <2> QED
    BY <2>3, <2>4, <2>5, <2>6
<1>10. P \in [1..executed' -> 1..Len(stream')] /\ Z \in [1..executed' -> 1..Len(stream')]
  <2>1. P \in [1..E -> 1..(N - 1)] /\ Z \in [1..E -> 1..(N - 1)]
    BY <1>p, <1>9
  <2> QED
    BY <1>2, <1>3, <2>1
<1>11. Replies(P, Z)'
  <2>1. ASSUME NEW i \in 1..E
        PROVE  /\ skip' < P[i] /\ P[i] <= Z[i] /\ Z[i] <= Len(stream')
               /\ \/ stream'[P[i]].type = "reply" /\ Z[i] = P[i]
                  \/ stream'[P[i]].type = "subscribe" /\ queue'[i].kind = "sub" /\ Z[i] = P[i] + Rest(queue[i].by)'
    <3>1. \/ stream[p[i + 1]].type = "reply" /\ z[i + 1] = p[i + 1]
          \/ stream[p[i + 1]].type = "subscribe" /\ queue[i + 1].kind = "sub" /\ z[i + 1] = p[i + 1] + Rest(queue[i + 1].by)
      BY <1>1, <1>3 DEF Layout, Replies
    <3>2. Rest(queue[i].by)' = Rest(queue[i + 1].by) /\ Rest(queue[i + 1].by) \in Nat
      BY <1>1, <1>3, SameRest DEF Layout
    <3>3. PICK x \in Nat : x = Rest(queue[i + 1].by)
      BY <3>2
    <3>6. PICK a \in 1..(N - 1), b \in 1..(N - 1) : a = P[i] /\ b = Z[i] /\ a + 1 = p[i + 1] /\ b + 1 = z[i + 1]
      BY <1>9
    <3>7. (b + 1 = a + 1 => b = a) /\ (b + 1 = a + 1 + x => b = a + x)
      BY SMTT(30), <1>5
    <3>4. (z[i + 1] = p[i + 1] => Z[i] = P[i]) /\ (z[i + 1] = p[i + 1] + x => Z[i] = P[i] + x)
      BY <3>6, <3>7
    <3>5. skip' < P[i] /\ P[i] <= Z[i] /\ Z[i] <= Len(stream')
      BY SMTT(30), <1>2, <1>5, <1>9
    <3> QED
      BY <1>3, <1>9, <3>1, <3>2, <3>3, <3>4, <3>5
  <2>2. ASSUME NEW i \in 1..E, NEW j \in 1..Len(stream'), P[i] <= j, j <= Z[i]
        PROVE  stream'[j].type = stream'[P[i]].type
    <3>1. j + 1 \in 1..Len(stream) /\ stream'[j] = stream[j + 1] /\ p[i + 1] <= j + 1 /\ j + 1 <= z[i + 1]
      BY SMTT(30), <1>2, <1>5, <1>9, <2>2
    <3>2. stream[j + 1].type = stream[p[i + 1]].type
      BY <1>1, <1>3, <3>1 DEF Layout, Replies
    <3> QED
      BY <1>9, <3>1, <3>2
  <2>3. ASSUME NEW i \in 1..E, NEW k \in 1..E, i < k
        PROVE  Z[i] < P[k]
    <3>1. i + 1 < k + 1
      BY SMTT(30), <2>3, <1>5
    <3>2. z[i + 1] < p[k + 1]
      BY <1>1, <1>3, <3>1 DEF Layout, Replies
    <3> QED
      BY SMTT(30), <1>2, <1>5, <1>9, <3>2
  <2>4. ASSUME NEW j \in 1..Len(stream'), stream'[j].type \in {"reply", "subscribe"}
        PROVE  j <= skip' \/ \E i \in 1..E : P[i] <= j /\ j <= Z[i]
    <3>1. j + 1 \in 1..Len(stream) /\ stream'[j] = stream[j + 1] /\ j \in Nat /\ ~(j + 1 <= skip)
      BY SMTT(30), <1>2, <1>5
    <3>2. PICK k \in 1..executed : p[k] <= j + 1 /\ j + 1 <= z[k]
      BY <1>1, <2>4, <3>1 DEF Layout, Replies
    <3>3. CASE k = 1
      BY SMTT(30), <1>5, <3>1, <3>2, <3>3
    <3>4. CASE k # 1
      <4>1. PICK i \in 1..E : k = i + 1
        BY SMTT(30), <1>3, <1>5, <3>4
      <4>2. P[i] <= j /\ j <= Z[i]
        BY SMTT(30), <1>2, <1>5, <1>9, <3>1, <3>2, <4>1
      <4> QED
        BY <4>2
    <3> QED
      BY <3>3, <3>4
  <2> QED
    BY <1>3, <2>1, <2>2, <2>3, <2>4 DEF Replies
<1> QED
  BY <1>6, <1>7, <1>8, <1>10, <1>11 DEF WireInv
\* The queue and the stream only get longer.
Longer ==
    /\ Len(queue') \in Nat /\ Len(queue) <= Len(queue') /\ Len(stream') \in Nat /\ Len(stream) <= Len(stream')
    /\ \A i \in 1..Len(queue) : queue'[i] = queue[i]
    /\ \A i \in 1..Len(queue') : i <= Len(queue) \/ pc'[queue'[i].by] # "idle"
    /\ \A j \in 1..Len(stream) : stream'[j] = stream[j]

\* The replies are where they were.
Kept(p, z) ==
    /\ skip' <= Len(stream') /\ \A j \in 1..skip' : stream'[j].type = "subscribe"
    /\ \A i \in 1..Len(queue') : pc'[queue'[i].by] # "idle"
    /\ \A i \in 1..executed :
          /\ skip' < p[i] /\ p[i] <= z[i] /\ z[i] <= Len(stream')
          /\ p[i] \in 1..Len(stream') /\ z[i] \in 1..Len(stream')
          /\ \/ stream'[p[i]].type = "reply" /\ z[i] = p[i]
             \/ stream'[p[i]].type = "subscribe" /\ queue'[i].kind = "sub" /\ z[i] = p[i] + Rest(queue[i].by)'
    /\ \A i \in 1..executed, j \in 1..Len(stream') : p[i] <= j /\ j <= z[i] => stream'[j].type = stream'[p[i]].type
    /\ \A j \in 1..Len(stream') : stream'[j].type \in {"reply", "subscribe"} =>
          Len(stream) < j \/ j <= skip' \/ \E i \in 1..executed : p[i] <= j /\ j <= z[i]

\* What stays of the replies when queue and stream get longer.
LEMMA LongerKeeps ==
    ASSUME PubSubInv, Begun, Longer, UNCHANGED <<setting, skip>>, NEW p, NEW z, Layout(p, z)
    PROVE  Kept(p, z)
<1>t. skip \in Nat /\ skip' = skip
  BY DEF PubSubInv, PubSubTypeOK
<1>n. PICK N \in Nat, M \in Nat : N = Len(stream) /\ M = Len(stream') /\ N <= M /\ (\A j \in 1..N : j \in 1..M)
                                 /\ \A j \in 1..M : j <= N => j \in 1..N
  <2>1. Len(stream) \in Nat /\ Len(stream') \in Nat /\ Len(stream) <= Len(stream')
    BY DEF Longer, Layout
  <2>2. (\A j \in 1..Len(stream) : j \in 1..Len(stream')) /\ \A j \in 1..Len(stream') : j <= Len(stream) => j \in 1..Len(stream)
    BY SMTT(30), <2>1, <1>t
  <2> QED
    BY <2>1, <2>2
<1>1. skip' <= Len(stream') /\ \A j \in 1..skip' : stream'[j].type = "subscribe"
  <2>1. skip <= N /\ \A j \in 1..skip : stream[j].type = "subscribe"
    BY <1>n DEF PubSubInv, WireInv
  <2>2. skip <= M /\ \A j \in 1..skip : j \in 1..N
    BY SMTT(30), <1>n, <1>t, <2>1
  <2> QED
    BY <1>n, <1>t, <2>1, <2>2 DEF Longer
<1>2. \A i \in 1..Len(queue') : pc'[queue'[i].by] # "idle"
  <2> SUFFICES ASSUME NEW i \in 1..Len(queue')
               PROVE  pc'[queue'[i].by] # "idle"
    OBVIOUS
  <2>1. CASE i <= Len(queue)
    <3>1. i \in 1..Len(queue)
      BY SMTT(30), <1>t, <2>1 DEF Layout
    <3> QED
      BY <3>1 DEF Longer, Layout, PubSubInv, WireInv, Begun
  <2> QED
    BY <2>1 DEF Longer
<1>3. ASSUME NEW i \in 1..executed
      PROVE  /\ skip' < p[i] /\ p[i] <= z[i] /\ z[i] <= Len(stream')
             /\ p[i] \in 1..Len(stream') /\ z[i] \in 1..Len(stream') /\ stream'[p[i]] = stream[p[i]]
             /\ \/ stream'[p[i]].type = "reply" /\ z[i] = p[i]
                \/ stream'[p[i]].type = "subscribe" /\ queue'[i].kind = "sub" /\ z[i] = p[i] + Rest(queue[i].by)'
  <2>1. p[i] \in 1..N /\ z[i] \in 1..N /\ skip < p[i] /\ p[i] <= z[i]
    BY <1>n DEF Layout, Replies
  <2>2. z[i] <= M
    BY SMTT(30), <1>n, <1>t, <2>1
  <2>3. i \in 1..Len(queue)
    BY SMTT(30), <1>t DEF Layout
  <2>4. queue'[i] = queue[i] /\ Rest(queue[i].by)' = Rest(queue[i].by) /\ stream'[p[i]] = stream[p[i]]
    BY <1>n, <2>1, <2>3, SameRest DEF Longer
  <2>5. \/ stream[p[i]].type = "reply" /\ z[i] = p[i]
        \/ stream[p[i]].type = "subscribe" /\ queue[i].kind = "sub" /\ z[i] = p[i] + Rest(queue[i].by)
    BY DEF Layout, Replies
  <2> QED
    BY <1>n, <1>t, <2>1, <2>2, <2>4, <2>5
<1>4. ASSUME NEW i \in 1..executed, NEW j \in 1..Len(stream'), p[i] <= j, j <= z[i]
      PROVE  stream'[j].type = stream'[p[i]].type
  <2>1. z[i] \in 1..N
    BY <1>n DEF Layout
  <2>2. j <= N
    BY SMTT(30), <1>n, <1>t, <1>4, <2>1
  <2>3. j \in 1..Len(stream) /\ stream'[j] = stream[j]
    BY <1>n, <2>2 DEF Longer
  <2>4. stream[j].type = stream[p[i]].type
    BY <1>4, <2>3 DEF Layout, Replies
  <2> QED
    BY <1>3, <2>3, <2>4
<1>5. ASSUME NEW j \in 1..Len(stream'), stream'[j].type \in {"reply", "subscribe"}, ~(Len(stream) < j)
      PROVE  j <= skip' \/ \E i \in 1..executed : p[i] <= j /\ j <= z[i]
  <2>1. j <= N
    BY SMTT(30), <1>n, <1>t, <1>5
  <2>2. j \in 1..Len(stream) /\ stream'[j] = stream[j]
    BY <1>n, <2>1 DEF Longer
  <2> QED
    BY <1>t, <1>5, <2>2 DEF Layout, Replies
<1> QED
  BY <1>1, <1>2, <1>3, <1>4, <1>5 DEF Kept

\* Nothing new on the wire is a reply.
LEMMA WireGrow ==
    ASSUME PubSubInv, Begun, Longer, UNCHANGED <<setting, skip, executed>>,
           \A j \in 1..Len(stream') : j <= Len(stream) \/ stream'[j].type \notin {"reply", "subscribe"}
    PROVE  WireInv'
<1>1. PICK p, z : Layout(p, z)
  BY LayoutExists
<1>k. Kept(p, z)
  BY <1>1, LongerKeeps
<1>2. \A i, k \in 1..executed : i < k => z[i] < p[k]
  BY <1>1 DEF Layout, Replies
<1>3. p \in [1..executed' -> 1..Len(stream')] /\ z \in [1..executed' -> 1..Len(stream')]
  <2>1. p \in [1..executed -> 1..Len(stream)] /\ z \in [1..executed -> 1..Len(stream)]
    BY <1>1 DEF Layout
  <2> QED
    BY <1>k, <2>1 DEF Kept
<1>4. \A j \in 1..Len(stream') : stream'[j].type \in {"reply", "subscribe"} =>
         j <= skip' \/ \E i \in 1..executed : p[i] <= j /\ j <= z[i]
  <2>1. \A j \in 1..Len(stream') : j <= Len(stream) => ~(Len(stream) < j)
    BY SMTT(30), <1>1 DEF Layout, PubSubInv, PubSubTypeOK
  <2> QED
    BY <1>k, <2>1 DEF Kept
<1>5. Replies(p, z)'
  BY <1>k, <1>2, <1>4 DEF Kept, Replies
<1> QED
  BY <1>k, <1>3, <1>5 DEF Kept, WireInv
\* What is new on the wire has one reply, at a..b.
NewReply(a, b) ==
    /\ Len(stream) < a /\ a <= b /\ b <= Len(stream')
    /\ \A j \in 1..Len(stream') : Len(stream) < j /\ stream'[j].type \in {"reply", "subscribe"} => a <= j /\ j <= b
    /\ \A j \in 1..Len(stream') : a <= j /\ j <= b => stream'[j].type = stream'[a].type
    /\ \/ stream'[a].type = "reply" /\ b = a
       \/ /\ stream'[a].type = "subscribe" /\ queue'[executed + 1].kind = "sub"
          /\ b = a + Rest(queue[executed + 1].by)

\* A command is executed.
LEMMA WireReply ==
    ASSUME PubSubInv, Begun, Longer, UNCHANGED <<setting, skip>>, executed' = executed + 1, queue' = queue,
           NEW a \in Nat, NEW b \in Nat, NewReply(a, b)
    PROVE  WireInv'
<1>1. PICK p, z : Layout(p, z)
  BY LayoutExists
<1>k. Kept(p, z)
  BY <1>1, LongerKeeps
<1>t. skip \in Nat /\ executed \in Nat /\ Len(stream) \in Nat /\ Len(stream') \in Nat /\ skip' = skip
  BY <1>1 DEF PubSubInv, PubSubTypeOK, Layout, Longer
<1>2. PICK E \in Nat : E = executed /\ executed' = E + 1 /\ E + 1 \in 1..(E + 1) /\ ~(E + 1 <= E)
                      /\ \A i \in 1..(E + 1) : i \in 1..E \/ i = E + 1
  <2>1. /\ executed + 1 \in 1..(executed + 1) /\ ~(executed + 1 <= executed)
        /\ \A i \in 1..(executed + 1) : i \in 1..executed \/ i = executed + 1
    BY SMTT(30), <1>t
  <2> QED
    BY <1>t, <2>1
<1>p. PICK P, Z : /\ P = [i \in 1..(E + 1) |-> IF i \in 1..E THEN p[i] ELSE a]
                 /\ Z = [i \in 1..(E + 1) |-> IF i \in 1..E THEN z[i] ELSE b]
  OBVIOUS
<1>3. /\ \A i \in 1..E : i \in 1..(E + 1) /\ P[i] = p[i] /\ Z[i] = z[i]
      /\ P[E + 1] = a /\ Z[E + 1] = b
  <2>1. (\A i \in 1..E : i \in 1..(E + 1)) /\ E + 1 \notin 1..E
    BY SMTT(30), <1>t
  <2> QED
    BY <1>p, <1>2, <2>1
<1>4. a \in 1..Len(stream') /\ b \in 1..Len(stream') /\ skip' < a
  <2>1. Len(stream) < a /\ a <= b /\ b <= Len(stream')
    BY DEF NewReply
  <2>2. skip <= Len(stream)
    BY DEF PubSubInv, WireInv
  <2> QED
    BY SMTT(30), <1>t, <2>1, <2>2
<1>5. P \in [1..executed' -> 1..Len(stream')] /\ Z \in [1..executed' -> 1..Len(stream')]
  <2>1. \A i \in 1..E : p[i] \in 1..Len(stream') /\ z[i] \in 1..Len(stream')
    BY <1>k, <1>2 DEF Kept
  <2> QED
    BY <1>p, <1>2, <1>4, <2>1
<1>7. Replies(P, Z)'
  <2>1. ASSUME NEW i \in 1..executed'
        PROVE  /\ skip' < P[i] /\ P[i] <= Z[i] /\ Z[i] <= Len(stream')
               /\ \/ stream'[P[i]].type = "reply" /\ Z[i] = P[i]
                  \/ stream'[P[i]].type = "subscribe" /\ queue'[i].kind = "sub" /\ Z[i] = P[i] + Rest(queue[i].by)'
               /\ \A j \in 1..Len(stream') : P[i] <= j /\ j <= Z[i] => stream'[j].type = stream'[P[i]].type
    <3>1. CASE i \in 1..E
      <4>1. P[i] = p[i] /\ Z[i] = z[i] /\ i \in 1..executed
        BY <1>2, <1>3, <3>1
      <4>2. /\ skip' < p[i] /\ p[i] <= z[i] /\ z[i] <= Len(stream')
            /\ \/ stream'[p[i]].type = "reply" /\ z[i] = p[i]
               \/ stream'[p[i]].type = "subscribe" /\ queue'[i].kind = "sub" /\ z[i] = p[i] + Rest(queue[i].by)'
        BY <1>k, <4>1 DEF Kept
      <4>3. \A j \in 1..Len(stream') : p[i] <= j /\ j <= z[i] => stream'[j].type = stream'[p[i]].type
        BY <1>k, <4>1 DEF Kept
      <4> QED
        BY <4>1, <4>2, <4>3
    <3>2. CASE i = E + 1
      <4>1. P[i] = a /\ Z[i] = b /\ i = executed + 1
        BY <1>2, <1>3, <3>2
      <4>2. Rest(queue[i].by)' = Rest(queue[i].by)
        BY SameRest
      <4>3. /\ skip' < a /\ a <= b /\ b <= Len(stream')
            /\ \A j \in 1..Len(stream') : a <= j /\ j <= b => stream'[j].type = stream'[a].type
        BY <1>4 DEF NewReply
      <4>4. \/ stream'[a].type = "reply" /\ b = a
            \/ stream'[a].type = "subscribe" /\ queue'[i].kind = "sub" /\ b = a + Rest(queue[i].by)'
        BY <4>1, <4>2 DEF NewReply
      <4> QED
        BY <4>1, <4>3, <4>4
    <3> QED
      BY <1>2, <3>1, <3>2
  <2>2. ASSUME NEW i \in 1..executed', NEW k \in 1..executed', i < k
        PROVE  Z[i] < P[k]
    <3>0. i \in 1..E
      BY SMTT(30), <1>2, <1>t, <2>2
    <3>1. CASE k \in 1..E
      BY <1>1, <1>2, <1>3, <2>2, <3>0, <3>1 DEF Layout, Replies
    <3>2. CASE k = E + 1
      <4>1. z[i] \in 1..Len(stream) /\ Len(stream) < a
        BY <1>1, <1>2, <3>0 DEF Layout, NewReply
      <4>2. z[i] < a
        BY SMTT(30), <1>t, <4>1
      <4> QED
        BY <1>3, <3>0, <3>2, <4>2
    <3> QED
      BY <1>2, <3>1, <3>2
  <2>3. ASSUME NEW j \in 1..Len(stream'), stream'[j].type \in {"reply", "subscribe"}
        PROVE  j <= skip' \/ \E i \in 1..executed' : P[i] <= j /\ j <= Z[i]
    <3>1. CASE Len(stream) < j
      <4>1. a <= j /\ j <= b
        BY <2>3, <3>1 DEF NewReply
      <4> QED
        BY <1>2, <1>3, <4>1
    <3>2. CASE j <= skip' \/ \E i \in 1..executed : p[i] <= j /\ j <= z[i]
      BY <1>2, <1>3, <3>2
    <3> QED
      BY <1>k, <2>3, <3>1, <3>2 DEF Kept
  <2> QED
    BY <2>1, <2>2, <2>3 DEF Replies
<1> QED
  BY <1>k, <1>5, <1>7 DEF Kept, WireInv
\* Neither the queue nor the stream changes.
LEMMA SameLonger ==
    ASSUME PubSubTypeOK, UNCHANGED <<queue, stream>>
    PROVE  Longer /\ \A j \in 1..Len(stream') : j <= Len(stream)
<1>1. Len(queue) \in Nat /\ Len(stream) \in Nat /\ skip \in Nat
  BY SMTT(30) DEF PubSubTypeOK
<1>2. /\ Len(queue) <= Len(queue) /\ Len(stream) <= Len(stream)
      /\ (\A i \in 1..Len(queue) : i <= Len(queue)) /\ \A i \in 1..Len(stream) : i <= Len(stream)
  BY SMTT(30), <1>1
<1> QED
  BY <1>1, <1>2 DEF Longer

\* The wire is left alone.
LEMMA WireCalm ==
    ASSUME PubSubInv, Begun, UNCHANGED <<setting, skip, executed, queue, stream>>
    PROVE  WireInv'
  BY SameLonger, WireGrow DEF PubSubInv

\* The wire is empty, because the loop has ended.
LEMMA WireEmpty ==
    ASSUME stream' = <<>>, skip' = 0, executed' = 0, \A i \in 1..Len(queue') : pc'[queue'[i].by] # "idle"
    PROVE  WireInv'
<1>1. PICK p : p = [i \in {} |-> 0]
  OBVIOUS
<1>2. 1..executed' = {} /\ 1..Len(stream') = {} /\ 1..skip' = {} /\ skip' <= Len(stream')
  BY SMTT(30)
<1>3. p \in [1..executed' -> 1..Len(stream')]
  BY <1>1, <1>2
<1>4. Replies(p, p)'
  BY <1>2 DEF Replies
<1> QED
  BY <1>2, <1>3, <1>4 DEF WireInv

\* Only confirmations are skipped.
LEMMA SkipZero ==
    ASSUME PubSubInv, stream # <<>>, stream[1].type # "subscribe"
    PROVE  skip = 0
<1>1. skip \in Nat
  BY DEF PubSubInv, PubSubTypeOK
<1>2. \A j \in 1..skip : stream[j].type = "subscribe"
  BY DEF PubSubInv, WireInv
<1> QED
  BY SMTT(30), <1>1, <1>2

\* A receiver's step.
LEMMA ReceiverWire ==
    ASSUME PubSubInv, NEW r \in Receivers, Receive(r) \/ Receiver(r) \/ CtxDone(r)
    PROVE  WireInv'
<1> USE DEF registry, channel, loop, link, server, calls, hookVars
<1>i. PubSubTypeOK
  BY DEF PubSubInv
<1>c. ASSUME NEW l, Goto(r, l), l # "idle"
      PROVE  Begun
  <2>1. pc'[r] = l /\ \A d \in Receivers : d # r => pc'[d] = pc[d]
    BY <1>c, <1>i, GotoIs
  <2> QED
    BY <1>c, <2>1 DEF Begun
<1>d. pc' = pc => Begun
  BY DEF Begun
<1>1. CASE Receive(r)
  BY <1>1, <1>c, WireCalm DEF Receive
<1>2. CASE Subscribe(r)
  BY <1>2, <1>c, WireCalm DEF Subscribe, Result
<1>3. CASE Do(r)
  <2>1. Begun
    BY <1>3, <1>c DEF Do, Result
  <2>2. CASE queue' = queue
    BY <1>3, <2>1, <2>2, WireCalm DEF Do
  <2>3. CASE queue' # queue
    <3>1. PICK e : queue' = Append(queue, e) /\ e.by = r /\ e \in Entries
      <4>1. ASSUME NEW k \in {"sub", "unsub"}
            PROVE  [by |-> r, kind |-> k].by = r /\ [by |-> r, kind |-> k] \in Entries
        BY DEF Entries
      <4>2. PICK k \in {"sub", "unsub"} : queue' = Append(queue, [by |-> r, kind |-> k])
        BY <1>3, <2>3 DEF Do
      <4> QED
        BY <4>1, <4>2
    <3>2. pc'[r] # "idle" /\ UNCHANGED <<setting, skip, executed, stream>>
      <4>1. pc[r] # "idle"
        BY <1>3 DEF Do
      <4> QED
        BY <1>3, <2>1, <4>1 DEF Do, Begun
    <3>3. /\ Len(queue) \in Nat /\ Len(stream) \in Nat /\ Len(queue') = Len(queue) + 1 /\ queue'[Len(queue) + 1] = e
          /\ \A i \in 1..Len(queue) : queue'[i] = queue[i]
      BY SMTT(30), <1>i, <3>1 DEF PubSubTypeOK
    <3>4. /\ Len(queue') \in Nat /\ Len(queue) <= Len(queue') /\ Len(stream) <= Len(stream)
          /\ \A i \in 1..Len(queue') : i <= Len(queue) \/ i = Len(queue) + 1
          /\ \A j \in 1..Len(stream) : j <= Len(stream)
      BY SMTT(30), <3>3
    <3>5. Longer
      BY <3>1, <3>2, <3>3, <3>4 DEF Longer
    <3> QED
      BY <2>1, <3>2, <3>4, <3>5, WireGrow
  <2> QED
    BY <2>2, <2>3
<1>4. CASE CtxDone(r)
  BY <1>4, <1>c, WireCalm DEF CtxDone, Result
<1>5. CASE Handle(r)
  BY <1>5, <1>d, WireCalm DEF Handle
<1>6. CASE ChannelClosed(r)
  BY <1>6, <1>c, WireCalm DEF ChannelClosed, Result
<1>7. CASE Finish(r)
  BY <1>7, <1>c, WireCalm DEF Finish
<1>8. CASE Cancel(r)
  BY <1>8, <1>c, WireCalm DEF Cancel
<1>9. CASE CancelRemove(r)
  BY <1>9, <1>c, WireCalm DEF CancelRemove
<1>10. CASE DrainChannel(r)
  BY <1>10, <1>d, WireCalm DEF DrainChannel
<1> QED
  BY <1>1, <1>2, <1>3, <1>4, <1>5, <1>6, <1>7, <1>8, <1>9, <1>10 DEF Receiver
\* What Answer leaves is not before its SUBSCRIBE.
LEMMA AnswerOnward ==
    ASSUME PubSubTypeOK, queue # <<>>, NEW l \in {"loop", "return"}, NEW v \in {"none", "err"}, Answer(l, v)
    PROVE  Begun /\ Onward
<1>1. \A r \in Receivers : Answered(r, l, v)
  BY AnswerIs
<1>2. l # "idle" /\ l # "add"
  OBVIOUS
<1> QED
  BY <1>1, <1>2 DEF Answered, Begun, Onward

\* A step of the read loop.
LEMMA ReaderWire ==
    ASSUME PubSubInv, Reader
    PROVE  WireInv'
<1> USE DEF registry, channel, loop, link, server, calls, hookVars
<1>i. PubSubTypeOK
  BY DEF PubSubInv
<1>d. pc' = pc => Begun
  BY DEF Begun
<1>h. ASSUME stream # <<>>
      PROVE  Head(stream) = stream[1]
  BY SMTT(30), <1>i, <1>h DEF PubSubTypeOK
<1>s. ASSUME stream # <<>>, stream[1].type \in {"message", "unsubscribe"}
      PROVE  /\ skip = 0 /\ stream[1].type \notin {"reply", "subscribe"}
             /\ \A x : x = (IF skip > 0 THEN skip - 1 ELSE 0) <=> x = 0
  <2>1. skip = 0 /\ stream[1].type \notin {"reply", "subscribe"}
    BY <1>s, SkipZero
  <2> QED
    BY SMTT(30), <2>1
<1>1. CASE ReadMessage
  <2>1. Begun /\ stream # <<>> /\ stream[1].type = "message" /\ UNCHANGED <<setting, queue, executed, skip>>
    BY <1>1, <1>d, <1>h DEF ReadMessage, Reads
  <2>2. CASE UNCHANGED stream
    BY <2>1, <2>2, WireCalm
  <2>3. CASE stream' = Tail(stream)
    BY <1>s, <2>1, <2>3, WireShift
  <2> QED
    BY <1>1, <2>2, <2>3 DEF ReadMessage
<1>2. CASE PublishLock
  BY <1>2, <1>d, WireCalm DEF PublishLock
<1>3. CASE PublishSend
  BY <1>3, <1>d, WireCalm DEF PublishSend
<1>4. CASE PublishDone
  <2>1. /\ Begun /\ stream # <<>> /\ stream[1].type = "message" /\ UNCHANGED <<setting, queue, executed, skip>>
        /\ stream' = Tail(stream)
    BY <1>4, <1>d DEF PublishDone, PubSubInv, MessageInv, CallInv, StreamInv
  <2> QED
    BY <1>s, <2>1, WireShift
<1>5. CASE ReadSubscribed
  <2>0. stream # <<>> /\ stream[1].type = "subscribe" /\ stream' = Tail(stream) /\ setting' = setting /\ skip \in Nat
    BY <1>5, <1>h, <1>i DEF ReadSubscribed, Reads, PubSubTypeOK
  <2>1. CASE skip > 0
    BY <1>5, <1>d, <2>0, <2>1, WireShift DEF ReadSubscribed
  <2>2. CASE ~(skip > 0)
    <3>1. skip = 0
      BY SMTT(30), <2>0, <2>2
    <3>2. executed # 0 /\ queue # <<>> /\ Head(queue) = queue[1] /\ queue[1].kind = "sub"
      BY <2>0, <3>1, HeadAnswers
    <3>3. skip' = Rest(queue[1].by) /\ Answer("loop", "none")
      BY <1>5, <2>2, <3>2 DEF ReadSubscribed
    <3>4. Begun /\ queue' = Tail(queue) /\ executed' = IF executed = 0 THEN 0 ELSE executed - 1
      BY <1>i, <3>2, <3>3, AnswerIs, AnswerOnward
    <3> QED
      BY <2>0, <3>1, <3>3, <3>4, WireDrop
  <2> QED
    BY <2>1, <2>2
<1>6. CASE ReadUnsubscribed
  <2>1. /\ Begun /\ stream # <<>> /\ stream[1].type = "unsubscribe" /\ UNCHANGED <<setting, queue, executed>>
        /\ stream' = Tail(stream) /\ skip' = IF skip > 0 THEN skip - 1 ELSE 0
    BY <1>6, <1>d, <1>h DEF ReadUnsubscribed, Reads
  <2> QED
    BY <1>s, <2>1, WireShift
<1>7. CASE ReadReply
  <2>1. /\ stream # <<>> /\ stream[1].type = "reply" /\ UNCHANGED <<setting, skip>> /\ stream' = Tail(stream)
        /\ queue # <<>> /\ Answer("return", "err")
    BY <1>7, <1>h DEF ReadReply, Reads
  <2>2. Begun /\ queue' = Tail(queue) /\ executed' = IF executed = 0 THEN 0 ELSE executed - 1
    BY <1>i, <2>1, AnswerIs, AnswerOnward
  <2>3. skip = 0
    BY <2>1, SkipZero
  <2> QED
    BY <2>1, <2>2, <2>3, WireDrop
<1>8. CASE Exit
  <2>1. \A i \in 1..Len(queue') : pc'[queue'[i].by] # "idle"
    BY <1>8 DEF Exit, PubSubInv, WireInv
  <2> QED
    BY <1>8, <2>1, WireEmpty DEF Exit
<1>9. CASE CloseSubs
  BY <1>9, <1>d, WireCalm DEF CloseSubs
<1>10. CASE CloseChannel
  BY <1>10, <1>d, WireCalm DEF CloseChannel
<1>11. CASE ExitHooks
  BY <1>11, <1>d, WireCalm DEF ExitHooks
<1>12. CASE Drain
  <2>1. CASE queue = <<>>
    BY <1>12, <1>d, <2>1, WireCalm DEF Drain
  <2>2. CASE queue # <<>>
    <3>1. rd = "drain" /\ UNCHANGED <<stream, skip>> /\ Answer("return", "err")
      BY <1>12, <2>2 DEF Drain
    <3>2. stream = <<>> /\ executed = 0 /\ skip = 0
      BY <3>1 DEF PubSubInv, ErrorInv, Stopping
    <3>3. Begun /\ queue' = Tail(queue) /\ executed' = 0
      BY <1>i, <2>2, <3>1, <3>2, AnswerIs, AnswerOnward
    <3>4. \A i \in 1..Len(queue') : queue'[i] = queue[i + 1] /\ i + 1 \in 1..Len(queue) /\ queue[i + 1] \in Entries
      BY SMTT(30), <1>i, <2>2, <3>3 DEF PubSubTypeOK
    <3>5. \A i \in 1..Len(queue') : pc'[queue'[i].by] # "idle"
      BY <3>3, <3>4, EntryIs DEF Begun, PubSubInv, WireInv
    <3> QED
      BY <3>1, <3>2, <3>3, <3>5, WireEmpty
  <2> QED
    BY <2>1, <2>2
<1> QED
  BY <1>1, <1>2, <1>3, <1>4, <1>5, <1>6, <1>7, <1>8, <1>9, <1>10, <1>11, <1>12 DEF Reader

\* The server appends an item to the stream that answers nothing.
LEMMA PushWire ==
    ASSUME PubSubInv, NEW x \in Items, x.type \notin {"reply", "subscribe"}, stream' = Append(stream, x),
           UNCHANGED <<setting, skip, executed, queue, pc>>
    PROVE  WireInv'
<1>1. Begun
  BY DEF Begun
<1>2. stream \in Seq(Items) /\ queue \in Seq(Entries) /\ skip \in Nat
  BY DEF PubSubInv, PubSubTypeOK
<1>3. /\ Len(queue) \in Nat /\ Len(stream) \in Nat /\ Len(stream') \in Nat /\ Len(stream) <= Len(stream')
      /\ \A j \in 1..Len(stream) : stream'[j] = stream[j]
      /\ \A j \in 1..Len(stream') : j <= Len(stream) \/ stream'[j] = x
  BY SMTT(30), <1>2
<1>4. Len(queue) <= Len(queue) /\ \A i \in 1..Len(queue) : i <= Len(queue)
  BY SMTT(30), <1>2, <1>3
<1>5. Longer
  BY <1>3, <1>4 DEF Longer
<1> QED
  BY <1>1, <1>3, <1>5, WireGrow

\* The server executes a command.
LEMMA ExecuteWire ==
    ASSUME PubSubInv, Execute
    PROVE  WireInv'
<1>i. PubSubTypeOK
  BY DEF PubSubInv
<1>1. executed \in Nat /\ executed + 1 \in 1..Len(queue) /\ executed' = executed + 1 /\ UNCHANGED <<setting, queue, skip, pc>>
  BY <1>i, ExecuteIs DEF Execute, loop, calls
<1>2. PICK r \in Receivers, t \in {"subscribe", "unsubscribe", "reply"} : Executes(r, t)
  BY <1>i, ExecuteIs
<1>3. stream \in Seq(Items) /\ queue \in Seq(Entries) /\ skip \in Nat
  BY <1>i DEF PubSubTypeOK
<1>4. PICK N \in Nat : N = Len(stream)
  BY SMTT(30), <1>3
<1>5. PICK x \in Items : x = Push("reply", None)
  BY ItemIs
<1>x. x.type = "reply"
  BY <1>5 DEF Push
<1>6. PICK R \in Nat : R = Rest(r) /\ Cardinality(want[r]) = R + 1
  <2>1. want[r] # {}
    BY <1>1, <1>2 DEF Executes, PubSubInv, WireInv, MessageInv, CallInv, StreamInv
  <2> QED
    BY <1>i, <2>1, WantIs
<1>a. N + (R + 1) = N + R + 1
  BY SMTT(30)
<1>c. ASSUME NEW Q \in Seq(Items), Len(Q) = R + 1
      PROVE  /\ stream \o Q \in Seq(Items) /\ Len(stream \o Q) = N + R + 1
             /\ \A j \in 1..N : (stream \o Q)[j] = stream[j]
             /\ \A i \in 1..(R + 1) : (stream \o Q)[N + i] = Q[i]
  <2>1. /\ stream \o Q \in Seq(Items) /\ Len(stream \o Q) = N + (R + 1)
        /\ \A j \in 1..N : (stream \o Q)[j] = stream[j]
        /\ \A i \in 1..(R + 1) : (stream \o Q)[N + i] = Q[i]
    <3>1. /\ stream \o Q \in Seq(Items) /\ Len(stream \o Q) = Len(stream) + Len(Q)
          /\ \A i \in 1..Len(stream) : (stream \o Q)[i] = stream[i]
          /\ \A i \in 1..Len(Q) : (stream \o Q)[Len(stream) + i] = Q[i]
      BY SMTT(30), <1>3
    <3> QED
      BY <1>4, <1>c, <3>1
  <2> QED
    BY <2>1, <1>a
<1>7. Begun
  BY <1>1 DEF Begun
<1>8. ASSUME Len(stream') \in Nat, N <= Len(stream'), \A j \in 1..N : stream'[j] = stream[j]
      PROVE  Longer
  <2>1. Len(queue) \in Nat /\ Len(queue) <= Len(queue) /\ \A i \in 1..Len(queue) : i <= Len(queue)
    BY SMTT(30), <1>3
  <2> QED
    BY <1>1, <1>4, <1>8, <2>1 DEF Longer
<1>9. CASE t = "subscribe"
  <2>1. PICK Q \in Seq(Items) : /\ Q = Pushes("subscribe", want[r]) /\ Len(Q) = R + 1
                               /\ \A i \in 1..(R + 1) : Q[i].type = "subscribe"
    BY <1>i, <1>6, PushesAre
  <2>2. stream' = stream \o Q /\ queue[executed + 1].kind = "sub" /\ r = queue[executed + 1].by
    BY <1>2, <1>9, <2>1 DEF Executes
  <2>3. /\ Len(stream') = N + R + 1 /\ \A j \in 1..N : stream'[j] = stream[j]
        /\ \A i \in 1..(R + 1) : stream'[N + i] = Q[i]
    BY <1>c, <2>1, <2>2
  <2>4. \A j \in 1..Len(stream') : N < j => stream'[j].type = "subscribe"
    <3> SUFFICES ASSUME NEW j \in 1..Len(stream'), N < j
                 PROVE  stream'[j].type = "subscribe"
      OBVIOUS
    <3>1. j - N \in 1..(R + 1) /\ N + (j - N) = j
      BY SMTT(30), <2>3
    <3> QED
      BY <2>1, <2>3, <3>1
  <2>5. /\ N + 1 \in Nat /\ N + 1 + R \in Nat /\ N < N + 1 /\ N + 1 <= N + 1 + R /\ N + 1 + R <= Len(stream')
        /\ N + 1 \in 1..Len(stream') /\ Len(stream') \in Nat /\ N <= Len(stream')
        /\ \A j \in 1..Len(stream') : (N < j => N + 1 <= j) /\ (N + 1 <= j => N < j) /\ j <= N + 1 + R
    BY SMTT(30), <1>3, <2>3
  <2>6. NewReply(N + 1, N + 1 + R)
    BY <1>1, <1>4, <1>6, <2>2, <2>4, <2>5 DEF NewReply
  <2>7. Longer
    BY <1>8, <2>3, <2>5
  <2> QED
    BY <1>1, <1>7, <2>5, <2>6, <2>7, WireReply
<1>10. CASE t = "reply"
  <2>1. stream' = Append(stream, x)
    BY <1>2, <1>5, <1>10 DEF Executes
  <2>2. /\ Len(stream') = N + 1 /\ (\A j \in 1..N : stream'[j] = stream[j]) /\ stream'[N + 1] = x
    BY SMTT(30), <1>3, <1>4, <1>5, <2>1
  <2>3. /\ N + 1 \in Nat /\ N < N + 1 /\ N + 1 <= N + 1 /\ N + 1 <= Len(stream') /\ Len(stream') \in Nat /\ N <= Len(stream')
        /\ \A j \in 1..Len(stream') : (N < j => N + 1 <= j) /\ j <= N + 1 /\ (N + 1 <= j => j = N + 1)
    BY SMTT(30), <1>3, <2>2
  <2>4. NewReply(N + 1, N + 1)
    BY <1>4, <1>x, <2>2, <2>3 DEF NewReply
  <2>5. Longer
    BY <1>8, <2>2, <2>3
  <2> QED
    BY <1>1, <1>7, <2>3, <2>4, <2>5, WireReply
<1>11. CASE t = "unsubscribe"
  <2>1. PICK Q \in Seq(Items) : /\ Q = Pushes("unsubscribe", want[r]) /\ Len(Q) = R + 1
                               /\ \A i \in 1..(R + 1) : Q[i].type = "unsubscribe"
    BY <1>i, <1>6, PushesAre
  <2>2. stream' = stream \o Q \o <<x>>
    BY <1>2, <1>5, <1>11, <2>1 DEF Executes
  <2>3. PICK T \in Seq(Items) : /\ T = stream \o Q /\ Len(T) = N + R + 1 /\ \A j \in 1..N : T[j] = stream[j]
                               /\ \A i \in 1..(R + 1) : T[N + i] = Q[i]
    BY <1>c, <2>1
  <2>4. /\ Len(stream') = N + R + 2 /\ (\A j \in 1..(N + R + 1) : stream'[j] = T[j]) /\ stream'[N + R + 2] = x
    <3>1. stream' = Append(T, x)
      <4>1. T \o <<x>> = Append(T, x)
        BY SMTT(30), <2>3
      <4> QED
        BY <4>1, <2>2, <2>3
    <3>2. Len(stream') = Len(T) + 1 /\ (\A j \in 1..Len(T) : stream'[j] = T[j]) /\ stream'[Len(T) + 1] = x
      BY SMTT(30), <3>1
    <3>3. N + R + 1 + 1 = N + R + 2
      BY SMTT(30)
    <3> QED
      BY <2>3, <3>2, <3>3
  <2>5. \A j \in 1..Len(stream') : N < j => j = N + R + 2 \/ stream'[j].type = "unsubscribe"
    <3> SUFFICES ASSUME NEW j \in 1..Len(stream'), N < j, j # N + R + 2
                 PROVE  stream'[j].type = "unsubscribe"
      OBVIOUS
    <3>1. j - N \in 1..(R + 1) /\ N + (j - N) = j /\ j \in 1..(N + R + 1)
      BY SMTT(30), <2>4
    <3> QED
      <4>1. stream'[j] = T[j] /\ T[N + (j - N)] = Q[j - N] /\ Q[j - N].type = "unsubscribe"
        BY <2>1, <2>3, <2>4, <3>1
      <4> QED
        BY <4>1, <3>1
  <2>6. /\ N + R + 2 \in Nat /\ N < N + R + 2 /\ N + R + 2 <= N + R + 2 /\ N + R + 2 <= Len(stream')
        /\ Len(stream') \in Nat /\ N <= Len(stream')
        /\ (\A j \in 1..Len(stream') : N + R + 2 <= j /\ j <= N + R + 2 => j = N + R + 2)
        /\ \A j \in 1..N : j \in 1..(N + R + 1)
    BY SMTT(30), <1>3, <2>4
  <2>7. NewReply(N + R + 2, N + R + 2)
    BY <1>4, <1>x, <2>4, <2>5, <2>6 DEF NewReply
  <2>8. Longer
    BY <1>8, <2>3, <2>4, <2>6
  <2> QED
    BY <1>1, <1>7, <2>6, <2>7, <2>8, WireReply
<1> QED
  BY <1>9, <1>10, <1>11
\* A step of somebody else.
OtherStep ==
    \/ \E h \in Setters : SetPubSubHooks(h) \/ Setter(h) \/ ClearHooks(h)
    \/ Execute \/ Publish \/ Unsubscribe \/ Close \/ Break \/ Done \/ UNCHANGED vars

\* It changes neither the registry nor a receiver nor the read loop.
LEMMA OtherIs ==
    ASSUME OtherStep
    PROVE  /\ UNCHANGED <<setting, registry, channel, loop, queue, calls>> /\ UNCHANGED <<used, sub, chs, flushed, buf, closed>>
           /\ UNCHANGED <<draining, rd, targets, skip, toClose, pc, res, got, cut>>
<1> USE DEF registry, channel, loop, calls, link, vars
<1>1. ASSUME NEW h \in Setters, SetPubSubHooks(h) \/ Setter(h) \/ ClearHooks(h)
      PROVE  UNCHANGED <<setting, registry, channel, loop, queue, calls>>
  BY <1>1 DEF SetPubSubHooks, Setter, ClearHooks, CheckError, UnsetHooks
<1>2. UNCHANGED <<setting, registry, channel, loop, queue, calls>>
  BY <1>1 DEF OtherStep, Execute, Publish, Unsubscribe, Close, Break, Done
<1> QED
  BY <1>2

\* It keeps the wire.
LEMMA OtherWire ==
    ASSUME PubSubInv, OtherStep
    PROVE  WireInv'
<1>1. UNCHANGED <<setting, skip, queue, pc>> /\ Begun
  BY OtherIs DEF Begun
<1>2. CASE Execute
  BY <1>2, ExecuteWire
<1>3. CASE Publish
  <2>1. PICK c \in subscribed : stream' = Append(stream, [type |-> "message", ch |-> c, n |-> sent + 1])
    BY <1>3 DEF Publish
  <2>2. c \in Channels /\ sent + 1 \in Nat
    BY SMTT(30) DEF PubSubInv, PubSubTypeOK
  <2>3. PICK x \in Items : x = [type |-> "message", ch |-> c, n |-> sent + 1]
    BY <2>2, ItemIs
  <2>4. x.type = "message"
    BY <2>3
  <2> QED
    BY <1>1, <1>3, <2>1, <2>3, <2>4, PushWire DEF Publish
<1>4. CASE Unsubscribe
  <2>1. PICK c \in subscribed : stream' = Append(stream, Push("unsubscribe", c))
    BY <1>4 DEF Unsubscribe
  <2>2. c \in Channels
    BY DEF PubSubInv, PubSubTypeOK
  <2>3. PICK x \in Items : x = Push("unsubscribe", c)
    BY <2>2, ItemIs
  <2>4. x.type = "unsubscribe"
    BY <2>3 DEF Push
  <2> QED
    BY <1>1, <1>4, <2>1, <2>3, <2>4, PushWire DEF Unsubscribe
<1>5. ASSUME NEW h \in Setters, SetPubSubHooks(h) \/ Setter(h) \/ ClearHooks(h)
      PROVE  UNCHANGED <<executed, stream>>
  BY <1>5 DEF SetPubSubHooks, Setter, ClearHooks, CheckError, UnsetHooks, link
<1>6. CASE Close \/ Break \/ Done \/ UNCHANGED vars
  BY <1>1, <1>6, WireCalm DEF Close, Break, Done, vars, link
<1> QED
  BY <1>1, <1>2, <1>3, <1>4, <1>5, <1>6, WireCalm DEF OtherStep

-----------------------------------------------------------------------------
(* The registry again: what the read loop does to it, now that a confirmation is known to find its command. *)

\* Registered subscribers are removed.
LEMMA RegistryRemove ==
    ASSUME PubSubInv, NEW S, S \subseteq sub, RemoveSubs(S), UNCHANGED <<setting, toClose, pc>>, rd' # "publish"
    PROVE  RegistryInv' /\ ~panicked'
<1>i. PubSubTypeOK /\ RegistryInv /\ ~panicked
  BY DEF PubSubInv
<1>1. /\ sub' = sub \ S /\ closed' = closed \cup S /\ chs' = [c \in Channels |-> chs[c] \ S]
      /\ panicked' = (panicked \/ S \cap closed # {})
  BY DEF RemoveSubs
<1>2. S \cap closed = {} /\ S \cap toClose = {}
  BY <1>i DEF RegistryInv
<1>3. ~panicked'
  BY <1>i, <1>1, <1>2
<1>4. \A c \in Channels : chs'[c] = chs[c] \ S
  BY <1>1
<1>5. want' = want /\ \A d \in Receivers : want[d] \subseteq Channels
  BY <1>i, WantIs, SameSet
<1>6. \A c \in Channels : chs'[c] \subseteq sub'
  BY <1>i, <1>1, <1>4 DEF RegistryInv
<1>7. \A d \in sub' : \A c \in want'[d] : d \in chs'[c]
  BY <1>i, <1>1, <1>4, <1>5 DEF RegistryInv, PubSubTypeOK
<1>8. sub' \cap closed' = {} /\ toClose' \cap closed' = {} /\ toClose' \cap sub' = {}
  BY <1>i, <1>1, <1>2 DEF RegistryInv
<1>9. \A d \in sub' \cup closed' \cup toClose' : pc'[d] \notin {"idle", "add"}
  BY <1>i, <1>1 DEF RegistryInv
<1> QED
  BY <1>3, <1>6, <1>7, <1>8, <1>9 DEF RegistryInv

\* The target of a send is registered.
LEMMA TargetIs ==
    ASSUME PubSubInv, rd = "publish", targets # <<>>
    PROVE  /\ Head(targets) \in Receivers /\ Head(targets) \in sub /\ Head(targets) \notin closed
           /\ ToSet(targets) = {Head(targets)} \cup ToSet(Tail(targets)) /\ ToSet(targets) \subseteq sub
<1>1. targets \in Seq(Receivers)
  BY DEF PubSubInv, PubSubTypeOK
<1>2. Head(targets) \in Receivers
  BY SMTT(30), <1>1
<1>3. Head(targets) \in ToSet(targets) /\ ToSet(targets) = {Head(targets)} \cup ToSet(Tail(targets))
  BY <1>1, <1>2, ElementsAre
<1> QED
  BY <1>2, <1>3 DEF PubSubInv, RegistryInv

\* A step of the read loop, but for the hooks.
LEMMA ReaderRegistry ==
    ASSUME PubSubInv, Reader
    PROVE  RegistryInv' /\ (ExitHooks \/ ~panicked')
<1> USE DEF registry, channel, loop, link, server, calls, hookVars
<1>i. PubSubTypeOK /\ RegistryInv /\ ~panicked
  BY DEF PubSubInv
<1>d. pc' = pc => Onward
  BY DEF Onward
<1>h. ASSUME stream # <<>>
      PROVE  Head(stream) = stream[1] /\ 1 \in 1..Len(stream)
  BY SMTT(30), <1>i, <1>h DEF PubSubTypeOK
<1>a. ASSUME NEW l \in {"loop", "return"}, NEW v \in {"none", "err"}, queue # <<>>, Answer(l, v)
      PROVE  Onward
  BY <1>a, <1>i, AnswerOnward
<1>1. CASE ReadMessage
  BY <1>1, <1>d, <1>i, RegistryCalm DEF ReadMessage
<1>2. CASE PublishLock
  <2>1. stream # <<>> /\ stream[1].ch \in Channels
    <3>1. stream # <<>> /\ stream[1].type = "message"
      BY <1>2 DEF PublishLock, PubSubInv, MessageInv, CallInv, StreamInv
    <3> QED
      BY <3>1, <1>h DEF PubSubInv, MessageInv, CallInv, StreamInv
  <2>2. ToSet(targets') \subseteq sub
    BY <1>2, <1>i, <2>1, <1>h DEF PublishLock, Listings, RegistryInv
  <2>3. UNCHANGED <<setting, sub, chs, closed, toClose, pc, panicked>> /\ want' = want
    BY <1>2, SameSet DEF PublishLock
  <2> QED
    BY <1>i, <2>2, <2>3 DEF RegistryInv
<1>3. CASE PublishSend
  <2>1. rd = "publish" /\ targets # <<>> /\ targets' = Tail(targets) /\ panicked' = (panicked \/ Head(targets) \in closed)
    BY <1>3 DEF PublishSend
  <2>2. UNCHANGED <<setting, sub, chs, closed, toClose, pc>> /\ want' = want
    BY <1>3, SameSet DEF PublishSend
  <2>3. ToSet(targets') \subseteq sub /\ ~panicked'
    BY <1>i, <2>1, TargetIs
  <2> QED
    BY <1>i, <2>2, <2>3 DEF RegistryInv
<1>4. CASE PublishDone
  BY <1>4, <1>d, <1>i, RegistryCalm DEF PublishDone
<1>5. CASE ReadSubscribed
  <2>0. /\ stream # <<>> /\ stream[1].type = "subscribe" /\ skip \in Nat /\ UNCHANGED <<setting, sub, chs, closed, toClose, rd, targets>>
    BY <1>5, <1>h, <1>i DEF ReadSubscribed, Reads, PubSubTypeOK
  <2>1. Onward /\ panicked' = panicked
    <3>1. CASE skip > 0
      BY <1>5, <1>d, <3>1 DEF ReadSubscribed
    <3>2. CASE ~(skip > 0)
      <4>1. skip = 0
        BY SMTT(30), <2>0, <3>2
      <4>2. queue # <<>> /\ Head(queue).kind = "sub"
        BY <2>0, <4>1, HeadAnswers
      <4> QED
        BY <1>5, <1>a, <3>2, <4>2 DEF ReadSubscribed
    <3> QED
      BY <3>1, <3>2
  <2> QED
    BY <1>i, <2>0, <2>1, RegistryCalm
<1>6. CASE ReadUnsubscribed
  <2>1. /\ stream # <<>> /\ stream[1].type = "unsubscribe" /\ Head(stream) = stream[1] /\ 1 \in 1..Len(stream)
        /\ rd' # "publish" /\ UNCHANGED <<setting, toClose, pc>> /\ RemoveSubs(chs[Head(stream).ch])
    BY <1>6, <1>h DEF ReadUnsubscribed, Reads
  <2>2. stream[1].ch \in Channels
    BY <2>1 DEF PubSubInv, MessageInv, CallInv, StreamInv
  <2> QED
    BY <1>i, <2>1, <2>2, RegistryRemove DEF RegistryInv
<1>7. CASE ReadReply
  <2>1. Onward
    BY <1>7, <1>a DEF ReadReply
  <2> QED
    BY <1>7, <1>i, <2>1, RegistryCalm DEF ReadReply
<1>8. CASE Exit
  BY <1>8, <1>d, <1>i, RegistryCalm DEF Exit
<1>9. CASE CloseSubs
  <2>1. /\ sub' = {} /\ chs' = [c \in Channels |-> {}] /\ toClose' = sub /\ rd' = "close"
        /\ UNCHANGED <<closed, pc, panicked>>
    BY <1>9 DEF CloseSubs
  <2>2. \A c \in Channels : chs'[c] \subseteq sub'
    BY <2>1
  <2> QED
    BY <1>i, <2>1, <2>2 DEF RegistryInv
<1>10. CASE CloseChannel
  <2>0. UNCHANGED <<setting, sub, chs, pc>> /\ rd = "close" /\ want' = want
    BY <1>10, SameSet DEF CloseChannel
  <2>1. CASE toClose = {}
    <3>1. UNCHANGED <<closed, toClose, panicked>> /\ rd' = "hooks"
      BY <1>10, <2>1 DEF CloseChannel
    <3> QED
      BY <1>i, <1>d, <2>0, <3>1, RegistryCalm
  <2>2. CASE toClose # {}
    <3>1. PICK r \in toClose : /\ closed' = closed \cup {r} /\ toClose' = toClose \ {r}
                              /\ panicked' = (panicked \/ r \in closed) /\ rd' = rd
      BY <1>10, <2>2 DEF CloseChannel
    <3>2. r \notin closed /\ r \notin sub /\ pc[r] \notin {"idle", "add"}
      BY <1>i DEF RegistryInv
    <3> QED
      BY <1>i, <2>0, <3>1, <3>2 DEF RegistryInv
  <2> QED
    BY <2>1, <2>2
<1>11. CASE ExitHooks
  BY <1>11, <1>d, <1>i, RegistryCalm DEF ExitHooks
<1>12. CASE Drain
  <2>1. Onward
    BY <1>12, <1>a, <1>d DEF Drain
  <2> QED
    BY <1>12, <1>i, <2>1, RegistryCalm DEF Drain
<1> QED
  BY <1>1, <1>2, <1>3, <1>4, <1>5, <1>6, <1>7, <1>8, <1>9, <1>10, <1>11, <1>12 DEF Reader

\* A step of somebody else.
LEMMA OtherRegistry ==
    ASSUME PubSubInv, OtherStep
    PROVE  RegistryInv'
<1>1. Onward
  BY OtherIs DEF Onward
<1> QED
  BY <1>1, OtherIs, RegistryCalm DEF PubSubInv

-----------------------------------------------------------------------------
(* Hooks and errors. *)

\* Hooks are exchanged: those before had an open error channel, and the new ones have one.
LEMMA SwapHooks ==
    ASSUME PubSubInv, NEW h \in Setters \cup {None}, NEW how, Swap(h, how), h # None => h # hooks /\ hpc'[h] # "idle"
    PROVE  HooksInv' /\ ~panicked'
<1>1. /\ hooks' = h /\ panicked' = (panicked \/ (hooks # None /\ hch[hooks] # "open"))
      /\ hch' = [g \in Setters |-> IF g = hooks THEN how ELSE IF g = h THEN "open" ELSE hch[g]]
  BY DEF Swap
<1>2. h # None => h \in Setters /\ hch'[h] = "open"
  BY <1>1
<1> QED
  BY <1>1, <1>2 DEF PubSubInv, HooksInv

\* No step sets hooks that are set, or closes an error channel twice.
LEMMA HooksStep ==
    ASSUME PubSubInv, Next \/ UNCHANGED vars
    PROVE  HooksInv' /\ (OtherStep \/ ExitHooks => ~panicked')
<1> USE DEF hookVars
<1>i. PubSubTypeOK /\ HooksInv /\ ~panicked
  BY DEF PubSubInv
<1>c. UNCHANGED hookVars => HooksInv'
  BY <1>i DEF HooksInv
<1>1. ASSUME NEW r \in Receivers, Receive(r) \/ Receiver(r) \/ CtxDone(r)
      PROVE  UNCHANGED hookVars
  BY <1>1 DEF Receive, Receiver, CtxDone, Subscribe, Do, Handle, ChannelClosed, Finish, Cancel, CancelRemove, DrainChannel
<1>2. ASSUME NEW h \in Setters, SetPubSubHooks(h) \/ Setter(h) \/ ClearHooks(h)
      PROVE  HooksInv' /\ ~panicked'
  <2>1. CASE SetPubSubHooks(h)
    <3>1. Swap(h, "closed") /\ hpc[h] = "idle" /\ hpc' = [hpc EXCEPT ![h] = "check"]
      BY <2>1 DEF SetPubSubHooks
    <3>2. h # hooks /\ hpc'[h] # "idle"
      BY <1>i, <3>1 DEF HooksInv, PubSubTypeOK
    <3> QED
      BY <3>1, <3>2, SwapHooks
  <2>2. CASE CheckError(h)
    <3>1. UNCHANGED <<hooks, hch, panicked>> /\ hpc' = [hpc EXCEPT ![h] = IF err THEN "unset" ELSE "set"]
      BY <2>2 DEF CheckError
    <3>2. \A g \in Setters : hpc[g] # "idle" => hpc'[g] # "idle"
      BY <1>i, <3>1 DEF PubSubTypeOK
    <3>3. hooks # None => hooks \in Setters
      BY <1>i DEF PubSubTypeOK
    <3> QED
      BY <1>i, <3>1, <3>2, <3>3 DEF HooksInv
  <2>3. CASE UnsetHooks(h)
    BY <2>3, SwapHooks DEF UnsetHooks
  <2>4. CASE ClearHooks(h)
    BY <2>4, SwapHooks DEF ClearHooks
  <2> QED
    BY <1>2, <2>1, <2>2, <2>3, <2>4 DEF Setter
<1>3. CASE ExitHooks
  BY <1>3, SwapHooks DEF ExitHooks
<1>4. ASSUME Reader, ~ExitHooks
      PROVE  UNCHANGED hookVars
  BY <1>4 DEF Reader, ReadMessage, PublishLock, PublishSend, PublishDone, ReadSubscribed, ReadUnsubscribed,
                    ReadReply, Exit, CloseSubs, CloseChannel, Drain
<1>5. ASSUME Execute \/ Publish \/ Unsubscribe \/ Close \/ Break \/ Done \/ UNCHANGED vars
      PROVE  UNCHANGED hookVars /\ panicked' = panicked
  BY <1>5 DEF Execute, Publish, Unsubscribe, Close, Break, Done, vars
<1>6. OtherStep => ~panicked'
  BY <1>i, <1>2, <1>5 DEF OtherStep
<1>7. HooksInv'
  BY <1>c, <1>1, <1>2, <1>3, <1>4, <1>5 DEF Next
<1> QED
  BY <1>3, <1>6, <1>7

\* What keeps a receiver's result justified, and a closed channel.
Justified ==
    /\ \A r \in closed' : r \in closed \/ r \in cut' \/ err' \/ pc'[r] = "done"
    /\ \A r \in Receivers : pc[r] = "done" => pc'[r] = "done"
    /\ \A r \in Receivers : res'[r] = "nil" =>
          r \in cut' \/ (pc'[r] = "return" /\ err') \/ (res[r] = "nil" /\ (pc[r] = "return" => pc'[r] = "return"))

\* Nothing but the read loop changes how the loop ends.
LEMMA ErrorKept ==
    ASSUME PubSubInv, Justified, cut \subseteq cut', err => err', flushed' => flushed \/ err',
           rd' \in Stopping => err' /\ ~open' /\ stream' = <<>> /\ executed' = 0 /\ skip' = 0
    PROVE  ErrorInv'
<1>1. closed \subseteq Receivers /\ ErrorInv
  BY DEF PubSubInv, PubSubTypeOK
<1>2. \A r \in closed' : r \in cut' \/ err' \/ pc'[r] = "done"
  BY <1>1 DEF ErrorInv, Justified
<1>3. \A r \in Receivers : res'[r] = "nil" => r \in cut' \/ (pc'[r] = "return" /\ err')
  BY <1>1 DEF ErrorInv, Justified
<1> QED
  BY <1>1, <1>2, <1>3 DEF ErrorInv

\* A receiver's step.
LEMMA ReceiverError ==
    ASSUME PubSubInv, NEW r \in Receivers, Receive(r) \/ Receiver(r) \/ CtxDone(r)
    PROVE  ErrorInv'
<1> USE DEF registry, channel, loop, link, server, calls, hookVars
<1>i. PubSubTypeOK /\ ErrorInv
  BY DEF PubSubInv
<1>1. UNCHANGED <<cut, flushed, rd, err, open, stream, executed, skip>>
  BY DEF Receive, Receiver, CtxDone, Subscribe, Do, Handle, ChannelClosed, Finish, Cancel, CancelRemove, DrainChannel
<1> SUFFICES Justified
  BY <1>i, <1>1, ErrorKept DEF ErrorInv
<1>g. ASSUME NEW l, Goto(r, l), res' = res, closed' = closed \/ (closed' = closed \cup {r} /\ l = "done"),
             pc[r] # "done" /\ pc[r] # "return"
      PROVE  Justified
  <2>1. pc'[r] = l /\ \A d \in Receivers : d # r => pc'[d] = pc[d]
    BY <1>g, <1>i, GotoIs
  <2> QED
    BY <1>g, <2>1 DEF Justified
<1>r. ASSUME NEW l, NEW v, Result(r, l, v), closed' = closed, v = "nil" => l = "return" /\ (r \in cut \/ err), pc[r] # "done"
      PROVE  Justified
  <2>1. pc'[r] = l /\ \A d \in Receivers : d # r => pc'[d] = pc[d]
    BY <1>r, <1>i, GotoIs DEF Result
  <2>2. res'[r] = v /\ \A d \in Receivers : d # r => res'[d] = res[d]
    BY <1>r, <1>i DEF Result, PubSubTypeOK
  <2> QED
    BY <1>1, <1>r, <2>1, <2>2 DEF Justified
<1>s. ASSUME pc' = pc, res' = res, closed' = closed
      PROVE  Justified
  BY <1>s DEF Justified
<1>2. CASE Receive(r)
  BY <1>2, <1>g DEF Receive
<1>3. CASE Subscribe(r)
  <2>1. CASE flushed
    <3>1. err
      BY <1>i, <2>1 DEF ErrorInv
    <3>2. Result(r, "done", "err") /\ closed' = closed /\ pc[r] = "add"
      BY <1>3, <2>1, <3>1 DEF Subscribe
    <3> QED
      BY <1>r, <3>2
  <2>2. CASE ~flushed
    BY <1>3, <1>g, <2>2 DEF Subscribe
  <2> QED
    BY <2>1, <2>2
<1>4. CASE Do(r)
  <2>1. closed' = closed /\ pc[r] \in {"do", "hookdo"}
    BY <1>4 DEF Do
  <2>2. (\E l : Goto(r, l) /\ res' = res) \/ Result(r, "return", "err")
    BY <1>4 DEF Do
  <2> QED
    BY <1>g, <1>r, <2>1, <2>2
<1>5. CASE CtxDone(r)
  <2>1. closed' = closed /\ pc[r] # "done" /\ pc[r] # "return"
    BY <1>5 DEF CtxDone
  <2>2. Result(r, "return", "ctx") \/ (Goto(r, "cancel") /\ res' = res)
    BY <1>5 DEF CtxDone
  <2> QED
    BY <1>g, <1>r, <2>1, <2>2
<1>6. CASE Handle(r)
  BY <1>6, <1>s DEF Handle
<1>7. CASE ChannelClosed(r)
  <2>1. Result(r, "return", "nil") /\ closed' = closed /\ pc[r] = "loop" /\ r \in closed
    BY <1>7 DEF ChannelClosed
  <2>2. r \in cut \/ err
    BY <1>i, <2>1 DEF ErrorInv
  <2> QED
    BY <1>r, <2>1, <2>2
<1>8. CASE Finish(r)
  <2>1. PICK l : Goto(r, l)
    BY <1>8 DEF Finish
  <2>2. closed' = closed /\ pc[r] = "return" /\ res' = [res EXCEPT ![r] = IF @ = "nil" /\ err THEN "err" ELSE @]
    BY <1>8 DEF Finish
  <2>3. pc'[r] = l /\ \A d \in Receivers : d # r => pc'[d] = pc[d]
    BY <1>i, <2>1, GotoIs
  <2>4. res'[r] = (IF res[r] = "nil" /\ err THEN "err" ELSE res[r]) /\ \A d \in Receivers : d # r => res'[d] = res[d]
    BY <1>i, <2>2 DEF PubSubTypeOK
  <2>5. res'[r] = "nil" => r \in cut
    BY <1>i, <2>4 DEF ErrorInv
  <2> QED
    BY <1>1, <2>2, <2>3, <2>4, <2>5 DEF Justified
<1>9. CASE Cancel(r)
  BY <1>9, <1>g DEF Cancel
<1>10. CASE CancelRemove(r)
  <2>1. closed' = closed \/ closed' = closed \cup {r}
    BY <1>10 DEF CancelRemove, RemoveSubs
  <2> QED
    BY <1>10, <1>g, <2>1 DEF CancelRemove
<1>11. CASE DrainChannel(r)
  BY <1>11, <1>s DEF DrainChannel
<1> QED
  BY <1>2, <1>3, <1>4, <1>5, <1>6, <1>7, <1>8, <1>9, <1>10, <1>11 DEF Receiver

\* A step of the read loop.
LEMMA ReaderError ==
    ASSUME PubSubInv, Reader
    PROVE  ErrorInv'
<1> USE DEF registry, channel, loop, link, server, calls, hookVars
<1>i. PubSubTypeOK /\ ErrorInv
  BY DEF PubSubInv
<1>s. ASSUME pc' = pc, res' = res, closed' = closed
      PROVE  Justified
  BY <1>s DEF Justified
<1>a. ASSUME NEW l \in {"loop", "return"}, NEW v \in {"none", "err"}, queue # <<>>, Answer(l, v), closed' = closed
      PROVE  Justified
  <2>1. \A r \in Receivers : Answered(r, l, v)
    BY <1>i, <1>a, AnswerIs
  <2>2. v # "nil"
    OBVIOUS
  <2> QED
    BY <1>a, <2>1, <2>2 DEF Answered, Justified
<1>n. "read" \notin Stopping /\ "lock" \notin Stopping /\ "publish" \notin Stopping
  BY DEF Stopping
<1>1. CASE ReadMessage
  <2>1. rd' \notin Stopping /\ UNCHANGED <<cut, err, flushed, pc, res, closed>>
    BY <1>1, <1>n DEF ReadMessage, Reads
  <2> QED
    BY <1>s, <2>1, ErrorKept
<1>2. CASE PublishLock
  BY <1>2, <1>n, <1>s, ErrorKept DEF PublishLock
<1>3. CASE PublishSend
  BY <1>3, <1>n, <1>s, ErrorKept DEF PublishSend
<1>4. CASE PublishDone
  BY <1>4, <1>n, <1>s, ErrorKept DEF PublishDone
<1>5. CASE ReadSubscribed
  <2>1. rd' \notin Stopping /\ UNCHANGED <<cut, err, flushed, closed>>
    BY <1>5, <1>n DEF ReadSubscribed, Reads
  <2>2. UNCHANGED <<pc, res>> \/ (queue # <<>> /\ Answer("loop", "none"))
    BY <1>5 DEF ReadSubscribed
  <2> QED
    BY <1>a, <1>s, <2>1, <2>2, ErrorKept
<1>6. CASE ReadUnsubscribed
  <2>1. PICK S : RemoveSubs(S) /\ cut' = cut \cup S /\ rd' \notin Stopping /\ UNCHANGED <<err, flushed, pc, res>>
    BY <1>6, <1>n DEF ReadUnsubscribed, Reads
  <2>2. Justified
    BY <2>1 DEF RemoveSubs, Justified
  <2> QED
    BY <2>1, <2>2, ErrorKept
<1>7. CASE ReadReply
  <2>1. rd' \notin Stopping /\ UNCHANGED <<cut, err, flushed, closed>> /\ queue # <<>> /\ Answer("return", "err")
    BY <1>7, <1>n DEF ReadReply, Reads
  <2> QED
    BY <1>a, <2>1, ErrorKept
<1>8. CASE Exit
  BY <1>8, <1>s, ErrorKept DEF Exit
<1>9. CASE CloseSubs
  <2>1. rd \in Stopping /\ UNCHANGED <<cut, err, pc, res, closed, open, stream, executed, skip>>
    BY <1>9 DEF CloseSubs, Stopping
  <2>2. err /\ ~open /\ stream = <<>> /\ executed = 0 /\ skip = 0
    BY <1>i, <2>1 DEF ErrorInv
  <2> QED
    BY <1>s, <2>1, <2>2, ErrorKept
<1>10. CASE CloseChannel
  <2>1. rd \in Stopping /\ UNCHANGED <<cut, err, flushed, pc, res, open, stream, executed, skip>>
    BY <1>10 DEF CloseChannel, Stopping
  <2>2. err /\ ~open /\ stream = <<>> /\ executed = 0 /\ skip = 0
    BY <1>i, <2>1 DEF ErrorInv
  <2>3. Justified
    BY <2>1, <2>2 DEF Justified
  <2> QED
    BY <2>1, <2>2, <2>3, ErrorKept
<1>11. CASE ExitHooks
  <2>1. rd \in Stopping /\ UNCHANGED <<cut, err, flushed, pc, res, closed, open, stream, executed, skip>>
    BY <1>11 DEF ExitHooks, Stopping
  <2> QED
    BY <1>i, <1>s, <2>1, ErrorKept DEF ErrorInv
<1>12. CASE Drain
  <2>1. rd \in Stopping /\ UNCHANGED <<cut, err, flushed, closed, open, stream, skip>>
    BY <1>12 DEF Drain, Stopping
  <2>2. err /\ ~open /\ stream = <<>> /\ executed = 0 /\ skip = 0
    BY <1>i, <2>1 DEF ErrorInv
  <2>3. UNCHANGED <<executed, pc, res>> \/ (queue # <<>> /\ Answer("return", "err"))
    BY <1>12 DEF Drain
  <2>4. executed' = 0
    BY <2>2, <2>3 DEF Answer
  <2> QED
    BY <1>a, <1>s, <2>1, <2>2, <2>3, <2>4, ErrorKept
<1> QED
  BY <1>1, <1>2, <1>3, <1>4, <1>5, <1>6, <1>7, <1>8, <1>9, <1>10, <1>11, <1>12 DEF Reader

\* A step of somebody else.
LEMMA OtherError ==
    ASSUME PubSubInv, OtherStep
    PROVE  ErrorInv'
<1>1. UNCHANGED <<cut, flushed, pc, res, closed, rd, skip>>
  BY OtherIs
<1>2. Justified
  BY <1>1 DEF Justified
<1>3. ErrorInv
  BY DEF PubSubInv
<1>4. ASSUME NEW h \in Setters, SetPubSubHooks(h) \/ Setter(h) \/ ClearHooks(h)
      PROVE  UNCHANGED <<err, open, stream, executed>>
  BY <1>4 DEF SetPubSubHooks, Setter, ClearHooks, CheckError, UnsetHooks, link
<1>5. CASE Execute \/ Publish \/ Unsubscribe
  <2>1. open /\ err' = err
    BY <1>5 DEF Execute, Publish, Unsubscribe
  <2> QED
    BY <1>1, <1>2, <1>3, <2>1, ErrorKept DEF ErrorInv
<1>6. CASE Close
  <2>1. UNCHANGED <<open, stream, executed>> /\ err'
    BY <1>6 DEF Close
  <2> QED
    BY <1>1, <1>2, <1>3, <2>1, ErrorKept DEF ErrorInv
<1>7. CASE Break
  <2>1. UNCHANGED <<err, stream, executed>> /\ ~open'
    BY <1>7 DEF Break
  <2> QED
    BY <1>1, <1>2, <1>3, <2>1, ErrorKept DEF ErrorInv
<1>8. ASSUME UNCHANGED <<err, open, stream, executed>>
      PROVE  ErrorInv'
  BY <1>1, <1>2, <1>3, <1>8, ErrorKept DEF ErrorInv
<1>9. CASE Done \/ UNCHANGED vars
  BY <1>8, <1>9 DEF Done, vars, link
<1> QED
  BY <1>4, <1>5, <1>6, <1>7, <1>8, <1>9 DEF OtherStep

-----------------------------------------------------------------------------
(* The stream. *)

\* Pushes have a channel, and only messages a number.
Fine(x) == (x.type # "reply" => x.ch \in Channels) /\ (x.type # "message" => x.n = 0)

\* The sequence q is s and then items that are fine.
Extends(s, q) ==
    /\ q \in Seq(Items) /\ Len(q) \in Nat /\ Len(s) <= Len(q) /\ \A j \in 1..Len(s) : j \in 1..Len(q) /\ q[j] = s[j]
    /\ \A j \in 1..Len(q) : j \in 1..Len(s) \/ Fine(q[j])

\* A sequence extends itself.
LEMMA ExtendsSelf ==
    ASSUME NEW s \in Seq(Items)
    PROVE  Extends(s, s)
<1>1. Len(s) \in Nat /\ Len(s) <= Len(s)
  BY SMTT(30)
<1> QED
  BY <1>1 DEF Extends

\* Fine items behind a sequence extend it.
LEMMA ExtendsConcat ==
    ASSUME NEW s \in Seq(Items), NEW q \in Seq(Items), \A i \in 1..Len(q) : Fine(q[i])
    PROVE  Extends(s, s \o q)
<1>1. /\ s \o q \in Seq(Items) /\ Len(s \o q) = Len(s) + Len(q) /\ Len(s) \in Nat /\ Len(q) \in Nat
      /\ \A i \in 1..Len(s) : (s \o q)[i] = s[i]
      /\ \A i \in 1..Len(q) : (s \o q)[Len(s) + i] = q[i]
  BY SMTT(30)
<1>2. /\ Len(s) + Len(q) \in Nat /\ Len(s) <= Len(s) + Len(q) /\ \A j \in 1..Len(s) : j \in 1..(Len(s) + Len(q))
      /\ \A j \in 1..(Len(s) + Len(q)) : j \in 1..Len(s) \/ (j - Len(s) \in 1..Len(q) /\ j = Len(s) + (j - Len(s)))
  BY SMTT(30), <1>1
<1>3. ASSUME NEW j \in 1..Len(s \o q), j \notin 1..Len(s)
      PROVE  Fine((s \o q)[j])
  <2>1. j - Len(s) \in 1..Len(q) /\ j = Len(s) + (j - Len(s))
    BY <1>1, <1>2, <1>3
  <2>2. (s \o q)[Len(s) + (j - Len(s))] = q[j - Len(s)]
    BY <1>1, <2>1
  <2> QED
    BY <2>1, <2>2
<1> QED
  BY <1>1, <1>2, <1>3 DEF Extends

\* So does one fine item.
LEMMA ExtendsAppend ==
    ASSUME NEW s \in Seq(Items), NEW x \in Items, Fine(x)
    PROVE  Extends(s, Append(s, x))
<1>1. /\ Append(s, x) \in Seq(Items) /\ Len(Append(s, x)) = Len(s) + 1 /\ Len(s) \in Nat
      /\ (\A i \in 1..Len(s) : Append(s, x)[i] = s[i]) /\ Append(s, x)[Len(s) + 1] = x
  BY SMTT(30)
<1>2. /\ Len(s) + 1 \in Nat /\ Len(s) <= Len(s) + 1 /\ \A j \in 1..Len(s) : j \in 1..(Len(s) + 1)
      /\ \A j \in 1..(Len(s) + 1) : j \in 1..Len(s) \/ j = Len(s) + 1
  BY SMTT(30), <1>1
<1> QED
  BY <1>1, <1>2 DEF Extends

\* An extension of an extension is one.
LEMMA ExtendsMore ==
    ASSUME NEW s \in Seq(Items), NEW q \in Seq(Items), NEW u \in Seq(Items), Extends(s, q), Extends(q, u)
    PROVE  Extends(s, u)
<1>1. Len(s) <= Len(u) /\ Len(u) \in Nat
  BY SMTT(30) DEF Extends
<1>2. \A j \in 1..Len(s) : j \in 1..Len(u) /\ u[j] = s[j]
  BY DEF Extends
<1>3. \A j \in 1..Len(u) : j \in 1..Len(s) \/ Fine(u[j])
  BY DEF Extends
<1> QED
  BY <1>1, <1>2, <1>3 DEF Extends

\* Whoever is not the read loop only adds to the stream.
LEMMA OtherStream ==
    ASSUME PubSubInv, OtherStep
    PROVE  Extends(stream, stream')
<1>i. PubSubTypeOK
  BY DEF PubSubInv
<1>t. stream \in Seq(Items)
  BY <1>i DEF PubSubTypeOK
<1>p. ASSUME NEW t \in {"unsubscribe", "reply"}, NEW c \in Channels \cup {None}, t # "reply" => c \in Channels
      PROVE  Push(t, c) \in Items /\ Fine(Push(t, c))
  <2>1. Push(t, c) \in Items
    BY ItemIs
  <2>2. Push(t, c).type = t /\ Push(t, c).ch = c /\ Push(t, c).n = 0
    BY DEF Push
  <2> QED
    BY <1>p, <2>1, <2>2 DEF Fine
<1>1. CASE Execute
  <2>1. PICK r \in Receivers, t \in {"subscribe", "unsubscribe", "reply"} : Executes(r, t)
    BY <1>1, <1>i, ExecuteIs
  <2>2. ASSUME NEW u \in {"subscribe", "unsubscribe"}
        PROVE  Pushes(u, want[r]) \in Seq(Items) /\ Extends(stream, stream \o Pushes(u, want[r]))
    <3>1. PICK q \in Seq(Items) : /\ q = Pushes(u, want[r]) /\ Len(q) = Cardinality(want[r])
                                 /\ \A i \in 1..Cardinality(want[r]) : q[i].type = u /\ q[i].n = 0 /\ q[i].ch \in Channels
      BY <1>i, PushesAre
    <3>2. \A i \in 1..Len(q) : Fine(q[i])
      BY <3>1 DEF Fine
    <3>3. Extends(stream, stream \o q)
      BY <1>t, <3>2, ExtendsConcat
    <3> QED
      BY <3>1, <3>3
  <2>3. PICK x \in Items : x = Push("reply", None) /\ Fine(x)
    BY <1>p
  <2>4. CASE t = "subscribe"
    BY <2>1, <2>2, <2>4 DEF Executes
  <2>5. CASE t = "reply"
    <3>1. stream' = Append(stream, x)
      BY <2>1, <2>3, <2>5 DEF Executes
    <3> QED
      BY <1>t, <2>3, <3>1, ExtendsAppend
  <2>6. CASE t = "unsubscribe"
    <3>1. PICK q : q = stream \o Pushes("unsubscribe", want[r])
      OBVIOUS
    <3>2. q \in Seq(Items) /\ Extends(stream, q)
      BY <2>2, <3>1 DEF Extends
    <3>3. stream' = q \o <<x>>
      BY <2>1, <2>3, <2>6, <3>1 DEF Executes
    <3>4. q \o <<x>> = Append(q, x)
      BY SMTT(30), <3>2
    <3>5. Extends(q, Append(q, x))
      BY <2>3, <3>2, ExtendsAppend
    <3>6. Extends(q, stream') /\ stream' \in Seq(Items)
      BY <3>3, <3>4, <3>5 DEF Extends
    <3> QED
      BY <1>t, <3>2, <3>6, ExtendsMore
  <2> QED
    BY <2>4, <2>5, <2>6
<1>2. CASE Publish
  <2>1. PICK c \in subscribed : stream' = Append(stream, [type |-> "message", ch |-> c, n |-> sent + 1])
    BY <1>2 DEF Publish
  <2>2. c \in Channels /\ sent + 1 \in Nat
    BY SMTT(30), <1>i DEF PubSubTypeOK
  <2>3. PICK x \in Items : x = [type |-> "message", ch |-> c, n |-> sent + 1]
    BY <2>2, ItemIs
  <2>4. Fine(x)
    BY <2>2, <2>3 DEF Fine
  <2> QED
    BY <1>t, <2>1, <2>3, <2>4, ExtendsAppend
<1>3. CASE Unsubscribe
  <2>1. PICK c \in subscribed : stream' = Append(stream, Push("unsubscribe", c))
    BY <1>3 DEF Unsubscribe
  <2>2. c \in Channels
    BY <1>i DEF PubSubTypeOK
  <2>3. PICK x \in Items : x = Push("unsubscribe", c) /\ Fine(x)
    BY <1>p, <2>2
  <2> QED
    BY <1>t, <2>1, <2>3, ExtendsAppend
<1>4. ASSUME NEW h \in Setters, SetPubSubHooks(h) \/ Setter(h) \/ ClearHooks(h)
      PROVE  stream' = stream
  BY <1>4 DEF SetPubSubHooks, Setter, ClearHooks, CheckError, UnsetHooks, link
<1>5. ASSUME Close \/ Break \/ Done \/ UNCHANGED vars
      PROVE  stream' = stream
  BY <1>5 DEF Close, Break, Done, vars, link
<1> QED
  BY <1>t, <1>1, <1>2, <1>3, <1>4, <1>5, ExtendsSelf DEF OtherStep

\* The stream is extended or left alone.
LEMMA StreamGrows ==
    ASSUME PubSubInv, Extends(stream, stream'), rd' \in {"lock", "publish"} => rd \in {"lock", "publish"} \/ Reads("message")
    PROVE  StreamInv'
<1>i. StreamInv /\ stream \in Seq(Items)
  BY DEF PubSubInv, MessageInv, PubSubTypeOK
<1>1. \A j \in 1..Len(stream') : /\ stream'[j].type # "reply" => stream'[j].ch \in Channels
                                 /\ stream'[j].type # "message" => stream'[j].n = 0
  BY <1>i DEF StreamInv, Extends, Fine
<1>2. ASSUME stream # <<>>
      PROVE  stream' # <<>> /\ stream'[1] = stream[1] /\ Head(stream) = stream[1]
  <2>1. 1 \in 1..Len(stream) /\ Head(stream) = stream[1]
    BY SMTT(30), <1>i, <1>2
  <2>2. 1 \in 1..Len(stream') /\ stream'[1] = stream[1]
    BY <2>1 DEF Extends
  <2> QED
    BY SMTT(30), <2>1, <2>2
<1> QED
  BY <1>i, <1>1, <1>2 DEF StreamInv, Reads

\* The head of the stream is taken.
LEMMA StreamShrinks ==
    ASSUME PubSubInv, stream # <<>>, stream' = Tail(stream), rd' \notin {"lock", "publish"}
    PROVE  StreamInv'
<1>1. stream \in Seq(Items)
  BY DEF PubSubInv, PubSubTypeOK
<1>2. \A j \in 1..Len(stream') : stream'[j] = stream[j + 1] /\ j + 1 \in 1..Len(stream)
  BY SMTT(30), <1>1
<1> QED
  BY <1>2 DEF PubSubInv, MessageInv, StreamInv

\* A receiver's step.
LEMMA ReceiverStream ==
    ASSUME PubSubInv, NEW r \in Receivers, Receive(r) \/ Receiver(r) \/ CtxDone(r)
    PROVE  StreamInv'
<1>1. UNCHANGED <<stream, rd>>
  BY DEF Receive, Receiver, CtxDone, Subscribe, Do, Handle, ChannelClosed, Finish, Cancel, CancelRemove, DrainChannel, link, loop
<1> QED
  BY <1>1, StreamGrows, ExtendsSelf DEF PubSubInv, PubSubTypeOK

\* A step of the read loop.
LEMMA ReaderStream ==
    ASSUME PubSubInv, Reader
    PROVE  StreamInv'
<1> USE DEF link
<1>t. Extends(stream, stream)
  BY ExtendsSelf DEF PubSubInv, PubSubTypeOK
<1>1. CASE ReadMessage
  <2>1. CASE used
    BY <1>t, <1>1, <2>1, StreamGrows DEF ReadMessage
  <2>2. CASE ~used
    BY <1>1, <2>2, StreamShrinks DEF ReadMessage, Reads
  <2> QED
    BY <2>1, <2>2
<1>2. CASE PublishLock \/ PublishSend \/ CloseSubs \/ CloseChannel \/ ExitHooks \/ Drain
  <2>1. stream' = stream
    BY <1>2 DEF PublishLock, PublishSend, CloseSubs, CloseChannel, ExitHooks, Drain
  <2>2. rd' \in {"lock", "publish"} => rd \in {"lock", "publish"}
    BY <1>2 DEF PublishLock, PublishSend, CloseSubs, CloseChannel, ExitHooks, Drain
  <2> QED
    BY <1>t, <2>1, <2>2, StreamGrows
<1>3. CASE PublishDone
  <2>1. stream # <<>>
    BY <1>3 DEF PublishDone, PubSubInv, MessageInv, StreamInv
  <2> QED
    BY <1>3, <2>1, StreamShrinks DEF PublishDone
<1>4. CASE ReadSubscribed \/ ReadUnsubscribed \/ ReadReply
  <2>1. stream # <<>> /\ stream' = Tail(stream) /\ rd' = "read"
    BY <1>4 DEF ReadSubscribed, ReadUnsubscribed, ReadReply, Reads, loop
  <2> QED
    BY <2>1, StreamShrinks
<1>5. CASE Exit
  <2>1. stream' = <<>> /\ rd' = "flush"
    BY <1>5 DEF Exit
  <2>2. 1..Len(stream') = {}
    BY SMTT(30), <2>1
  <2> QED
    BY <2>1, <2>2 DEF StreamInv
<1> QED
  BY <1>1, <1>2, <1>3, <1>4, <1>5 DEF Reader

-----------------------------------------------------------------------------
(* The calls of Receive. *)

\* A receiver's step.
LEMMA CallStep ==
    ASSUME PubSubInv, NEW r \in Receivers, \A d \in Receivers : d # r => pc'[d] = pc[d] /\ owed'[d] = owed[d],
           setting' = setting, used => used', live' \subseteq live, owed'[r] \subseteq owed[r],
           draining' \subseteq draining \cup {r}, r \in draining' => pc'[r] \in {"lock", "done"},
           used' /\ want[r] # {}, pc'[r] \in {"reply", "loop", "return"} \/ (r \notin live' /\ owed'[r] = {})
    PROVE  CallInv'
<1>1. CallInv /\ want' = want /\ draining \subseteq Receivers
  BY SameSet DEF PubSubInv, MessageInv, PubSubTypeOK
<1>2. \A d \in Receivers : pc'[d] # "idle" => used' /\ want'[d] # {}
  BY <1>1 DEF CallInv
<1>3. \A d \in Receivers : d \in live' \/ owed'[d] # {} => pc'[d] \in {"reply", "loop", "return"}
  BY <1>1 DEF CallInv
<1>4. \A d \in Receivers : 0 \notin owed'[d]
  BY <1>1 DEF CallInv
<1>5. \A d \in draining' : pc'[d] \in {"lock", "done"}
  BY <1>1 DEF CallInv
<1> QED
  BY <1>2, <1>3, <1>4, <1>5 DEF CallInv

\* A receiver's step keeps it; one that is not in its call yet is owed nothing.
LEMMA ReceiverCalls ==
    ASSUME PubSubInv, NEW r \in Receivers, Receive(r) \/ Receiver(r) \/ CtxDone(r)
    PROVE  CallInv'
<1> USE DEF registry, channel, loop, link, server, calls, hookVars
<1>i. PubSubTypeOK /\ CallInv
  BY DEF PubSubInv, MessageInv
<1>c. /\ pc[r] # "idle" => used /\ want[r] # {}
      /\ pc[r] \notin {"reply", "loop", "return"} => r \notin live /\ owed[r] = {}
      /\ r \in draining => pc[r] \in {"lock", "done"}
  BY <1>i DEF CallInv
<1>g. ASSUME NEW l, Goto(r, l), UNCHANGED <<setting, live, owed>>, used' /\ want[r] # {},
             l \in {"reply", "loop", "return"} \/ pc[r] \notin {"reply", "loop", "return"},
             draining' = draining \/ draining' = draining \cup {r}, r \in draining' => l \in {"lock", "done"}
      PROVE  CallInv'
  <2>1. pc'[r] = l /\ \A d \in Receivers : d # r => pc'[d] = pc[d]
    BY <1>g, <1>i, GotoIs
  <2> QED
    BY <1>c, <1>g, <2>1, CallStep
<1>s. ASSUME UNCHANGED <<setting, used, live, owed, pc>>, draining' \subseteq draining, pc[r] # "idle"
      PROVE  CallInv'
  BY <1>c, <1>s, CallStep
<1>1. CASE Receive(r)
  BY <1>1, <1>c, <1>g DEF Receive
<1>2. CASE Subscribe(r)
  <2>1. \E l \in {"do", "done"} : Goto(r, l)
    BY <1>2 DEF Subscribe, Result
  <2> QED
    BY <1>2, <1>c, <1>g, <2>1 DEF Subscribe
<1>3. CASE Do(r)
  <2>1. \E l \in {"reply", "return", "hook", "cancel"} : Goto(r, l)
    BY <1>3 DEF Do, Result
  <2> QED
    BY <1>3, <1>c, <1>g, <2>1 DEF Do
<1>4. CASE CtxDone(r)
  <2>1. \/ pc[r] \in {"do", "reply", "loop"} /\ Goto(r, "return")
        \/ pc[r] = "hook" /\ Goto(r, "cancel")
    BY <1>4 DEF CtxDone, Result
  <2> QED
    BY <1>4, <1>c, <1>g, <2>1 DEF CtxDone
<1>5. CASE Handle(r)
  BY <1>5, <1>s DEF Handle
<1>6. CASE ChannelClosed(r)
  BY <1>6, <1>c, <1>g DEF ChannelClosed, Result
<1>7. CASE Finish(r)
  <2>1. PICK l : Goto(r, l)
    BY <1>7 DEF Finish
  <2>2. /\ live' = live \ {r} /\ owed' = [owed EXCEPT ![r] = {}] /\ pc[r] = "return"
        /\ UNCHANGED <<setting, used, draining>>
    BY <1>7 DEF Finish
  <2>3. owed'[r] = {} /\ \A d \in Receivers : d # r => owed'[d] = owed[d]
    BY <1>i, <2>2 DEF PubSubTypeOK
  <2>4. \A d \in Receivers : d # r => pc'[d] = pc[d]
    BY <1>i, <2>1, GotoIs
  <2> QED
    BY <1>c, <2>2, <2>3, <2>4, CallStep
<1>8. CASE Cancel(r)
  BY <1>8, <1>c, <1>g DEF Cancel
<1>9. CASE CancelRemove(r)
  BY <1>9, <1>c, <1>g DEF CancelRemove
<1>10. CASE DrainChannel(r)
  <2>1. UNCHANGED <<setting, used, live, owed, pc>> /\ draining' \subseteq draining /\ r \in draining
    BY <1>10 DEF DrainChannel
  <2> QED
    BY <1>c, <1>s, <2>1
<1> QED
  BY <1>1, <1>2, <1>3, <1>4, <1>5, <1>6, <1>7, <1>8, <1>9, <1>10 DEF Receiver

\* What a step of the read loop does to a receiver.
Moves(d) == \/ pc'[d] = pc[d]
            \/ pc[d] = "reply" /\ pc'[d] \in {"loop", "return"}
            \/ pc[d] = "hook" /\ pc'[d] = "cancel"

\* The read loop answers a command, or leaves the receivers alone; the rest of their state it leaves alone.
LEMMA ReaderMoves ==
    ASSUME PubSubInv, Reader
    PROVE  (\A d \in Receivers : Moves(d)) /\ UNCHANGED <<setting, used, live, owed, draining, got>>
<1> USE DEF registry, channel, loop, link, server, calls, hookVars
<1>a. ASSUME NEW l \in {"loop", "return"}, NEW v \in {"none", "err"}, queue # <<>>, Answer(l, v)
      PROVE  \A d \in Receivers : Moves(d)
  <2>1. \A r \in Receivers : Answered(r, l, v)
    BY <1>a, AnswerIs DEF PubSubInv
  <2> QED
    BY <2>1 DEF Answered, Moves
<1>b. pc' = pc => \A d \in Receivers : Moves(d)
  BY DEF Moves
<1>1. CASE ReadMessage \/ PublishLock \/ PublishSend \/ PublishDone \/ ReadUnsubscribed
  BY <1>1, <1>b DEF ReadMessage, PublishLock, PublishSend, PublishDone, ReadUnsubscribed
<1>2. CASE Exit \/ CloseSubs \/ CloseChannel \/ ExitHooks
  BY <1>2, <1>b DEF Exit, CloseSubs, CloseChannel, ExitHooks
<1>3. CASE ReadSubscribed
  <2>1. pc' = pc \/ (queue # <<>> /\ Answer("loop", "none"))
    BY <1>3 DEF ReadSubscribed
  <2>2. UNCHANGED <<setting, used, live, owed, draining, got>>
    BY <1>3 DEF ReadSubscribed
  <2> QED
    BY <1>a, <1>b, <2>1, <2>2
<1>4. CASE ReadReply
  BY <1>4, <1>a DEF ReadReply
<1>5. CASE Drain
  BY <1>5, <1>a, <1>b DEF Drain
<1> QED
  BY <1>1, <1>2, <1>3, <1>4, <1>5 DEF Reader

\* A step of the read loop.
LEMMA ReaderCalls ==
    ASSUME PubSubInv, Reader
    PROVE  CallInv'
<1>1. CallInv /\ want' = want /\ draining \subseteq Receivers
  BY SameSet, ReaderMoves DEF PubSubInv, MessageInv, PubSubTypeOK
<1>2. (\A d \in Receivers : Moves(d)) /\ UNCHANGED <<setting, used, live, owed, draining>>
  BY ReaderMoves
<1>3. \A d \in Receivers : pc'[d] # "idle" => used' /\ want'[d] # {}
  BY <1>1, <1>2 DEF CallInv, Moves
<1>4. \A d \in Receivers : d \in live' \/ owed'[d] # {} => pc'[d] \in {"reply", "loop", "return"}
  BY <1>1, <1>2 DEF CallInv, Moves
<1>5. \A d \in draining' : pc'[d] \in {"lock", "done"}
  BY <1>1, <1>2 DEF CallInv, Moves
<1> QED
  BY <1>1, <1>2, <1>3, <1>4, <1>5 DEF CallInv

\* What a step of somebody else does to a receiver: it serves one that waits for its reply, and owes one it
\* serves a message that it adds to the stream.
Serves(d) ==
    /\ d \in live' => d \in live \/ pc[d] = "reply"
    /\ \/ owed'[d] = owed[d]
       \/ /\ d \in live /\ stream' # stream /\ 0 # sent + 1 /\ owed'[d] = owed[d] \cup {sent + 1}
          /\ \E i \in 1..Len(stream') : i \notin 1..Len(stream) /\ stream'[i].n = sent + 1 /\ stream'[i].ch \in want[d]

\* It does.
LEMMA OtherServes ==
    ASSUME PubSubInv, OtherStep
    PROVE  \A d \in Receivers : Serves(d)
<1>i. PubSubTypeOK /\ stream \in Seq(Items)
  BY DEF PubSubInv, PubSubTypeOK
<1>s. ASSUME live' \subseteq live, owed' = owed
      PROVE  \A d \in Receivers : Serves(d)
  BY <1>s DEF Serves
<1>1. CASE Execute
  <2>1. PICK r \in Receivers, t \in {"subscribe", "unsubscribe", "reply"} : Executes(r, t)
    BY <1>1, <1>i, ExecuteIs
  <2>2. \A d \in live' : d \in live \/ pc[d] = "reply"
    BY <2>1 DEF Executes
  <2>3. owed' = owed
    BY <1>1 DEF Execute
  <2> QED
    BY <2>2, <2>3 DEF Serves
<1>2. CASE Publish
  <2>1. PICK c \in subscribed :
           /\ stream' = Append(stream, [type |-> "message", ch |-> c, n |-> sent + 1])
           /\ owed' = [r \in Receivers |-> IF r \in live /\ c \in want[r] THEN owed[r] \cup {sent + 1} ELSE owed[r]]
    BY <1>2 DEF Publish
  <2>2. c \in Channels /\ sent + 1 \in Nat /\ 0 # sent + 1
    BY SMTT(30), <1>i DEF PubSubTypeOK
  <2>3. PICK x \in Items : x = [type |-> "message", ch |-> c, n |-> sent + 1]
    BY <2>2, ItemIs
  <2>4. stream' = Append(stream, x) /\ x.n = sent + 1 /\ x.ch = c
    BY <2>1, <2>3
  <2>5. /\ Len(stream) + 1 \in 1..Len(stream') /\ Len(stream) + 1 \notin 1..Len(stream) /\ stream' # stream
        /\ stream'[Len(stream) + 1] = x
    BY SMTT(30), <1>i, <2>4
  <2>6. \A d \in Receivers : owed'[d] = IF d \in live /\ c \in want[d] THEN owed[d] \cup {sent + 1} ELSE owed[d]
    BY <2>1
  <2>7. live' = live
    BY <1>2 DEF Publish
  <2> QED
    BY <2>2, <2>4, <2>5, <2>6, <2>7 DEF Serves
<1>3. CASE Unsubscribe
  <2>1. live' \subseteq live /\ owed' = owed
    BY <1>3 DEF Unsubscribe
  <2> QED
    BY <1>s, <2>1
<1>4. ASSUME NEW h \in Setters, SetPubSubHooks(h) \/ Setter(h) \/ ClearHooks(h)
      PROVE  live' = live /\ owed' = owed
  BY <1>4 DEF SetPubSubHooks, Setter, ClearHooks, CheckError, UnsetHooks, server
<1>5. ASSUME Close \/ Break \/ Done \/ UNCHANGED vars
      PROVE  live' = live /\ owed' = owed
  BY <1>5 DEF Close, Break, Done, vars, server
<1> QED
  BY <1>s, <1>1, <1>2, <1>3, <1>4, <1>5 DEF OtherStep

\* A step of somebody else.
LEMMA OtherCalls ==
    ASSUME PubSubInv, OtherStep
    PROVE  CallInv'
<1>1. CallInv /\ want' = want
  BY SameSet, OtherIs DEF PubSubInv, MessageInv
<1>2. UNCHANGED <<used, pc, draining>> /\ \A d \in Receivers : Serves(d)
  BY OtherIs, OtherServes
<1>3. \A d \in Receivers : d \in live' \/ owed'[d] # {} => pc'[d] \in {"reply", "loop", "return"}
  BY <1>1, <1>2 DEF CallInv, Serves
<1>4. ASSUME NEW d \in Receivers, 0 \in owed'[d]
      PROVE  FALSE
  <2>1. 0 \notin owed[d]
    BY <1>1 DEF CallInv
  <2>2. 0 # sent + 1 /\ owed'[d] = owed[d] \cup {sent + 1}
    BY <1>2, <1>4, <2>1 DEF Serves
  <2> QED
    BY <1>4, <2>1, <2>2
<1> QED
  BY <1>1, <1>2, <1>3, <1>4 DEF CallInv

-----------------------------------------------------------------------------
(* Messages: none is missed. *)

\* The messages a receiver gets while the loop runs are not missed.
Attended == rd \in Running => \A r \in sub : pc[r] \in {"reply", "loop"} => \A n \in owed[r] : NotMissed(r, n)

\* The stream is extended, or left alone.
LEMMA AttendGrow ==
    ASSUME PubSubInv, Extends(stream, stream'), UNCHANGED <<setting, rd, targets>>, NEW d \in Receivers, NEW n,
           NotMissed(d, n), got[d] \cup ToSet(buf[d]) \subseteq got'[d] \cup ToSet(buf'[d])
    PROVE  NotMissed(d, n)'
<1>1. want' = want
  BY SameSet
<1>2. ASSUME NEW i \in 1..Len(stream), OnItsWay(d, n, i)
      PROVE  i \in 1..Len(stream') /\ OnItsWay(d, n, i)'
  <2>1. i \in 1..Len(stream') /\ stream'[i] = stream[i]
    BY DEF Extends
  <2> QED
    BY <1>1, <1>2, <2>1 DEF OnItsWay
<1> QED
  BY <1>2 DEF NotMissed

\* The head of the stream is taken, and it is not a message that is yet to come.
LEMMA AttendTail ==
    ASSUME PubSubInv, stream # <<>>, stream' = Tail(stream), rd' # "publish", setting' = setting, NEW d \in Receivers, NEW n,
           NotMissed(d, n), ~OnItsWay(d, n, 1), UNCHANGED <<got, buf>>
    PROVE  NotMissed(d, n)'
<1>1. want' = want /\ stream \in Seq(Items)
  BY SameSet DEF PubSubInv, PubSubTypeOK
<1>2. ASSUME NEW i \in 1..Len(stream), OnItsWay(d, n, i)
      PROVE  \E k \in 1..Len(stream') : OnItsWay(d, n, k)'
  <2>1. i # 1
    BY <1>2
  <2>2. i - 1 \in 1..Len(stream') /\ stream'[i - 1] = stream[i]
    BY SMTT(30), <1>1, <2>1
  <2>3. OnItsWay(d, n, i - 1)'
    BY <1>1, <1>2, <2>2 DEF OnItsWay
  <2> QED
    BY <2>2, <2>3
<1> QED
  BY <1>2 DEF NotMissed

\* A receiver's step.
LEMMA ReceiverAttended ==
    ASSUME PubSubInv, NEW r \in Receivers, Receive(r) \/ Receiver(r) \/ CtxDone(r)
    PROVE  Attended'
<1> USE DEF registry, channel, loop, link, server, calls, hookVars
<1>i. PubSubTypeOK /\ CallInv /\ Attended
  BY DEF PubSubInv, MessageInv, Attended
<1>1. UNCHANGED <<setting, stream, rd, targets>> /\ Extends(stream, stream')
  <2>1. UNCHANGED <<setting, stream, rd, targets>>
    BY DEF Receive, Receiver, CtxDone, Subscribe, Do, Handle, ChannelClosed, Finish, Cancel, CancelRemove, DrainChannel
  <2> QED
    BY <1>i, <2>1, ExtendsSelf DEF PubSubTypeOK
<1>t. sub' \subseteq sub \cup {r} /\ sub \subseteq Receivers
  BY <1>i DEF Receive, Receiver, CtxDone, Subscribe, Do, Handle, ChannelClosed, Finish, Cancel, CancelRemove, DrainChannel,
                    RemoveSubs, PubSubTypeOK
<1>2. ASSUME \A d \in Receivers : d # r => pc'[d] = pc[d] /\ owed'[d] = owed[d] /\ got'[d] = got[d] /\ buf'[d] = buf[d],
             \/ pc'[r] \notin {"reply", "loop"}
             \/ owed'[r] = {}
             \/ /\ pc[r] = "loop" /\ owed'[r] = owed[r] /\ (r \in sub' => r \in sub)
                /\ got[r] \cup ToSet(buf[r]) \subseteq got'[r] \cup ToSet(buf'[r])
      PROVE  Attended'
  <2> SUFFICES ASSUME rd' \in Running, NEW d \in sub', pc'[d] \in {"reply", "loop"}, NEW n \in owed'[d]
               PROVE  NotMissed(d, n)'
    BY DEF Attended
  <2>1. rd \in Running /\ d \in Receivers /\ (d \in sub \/ d = r)
    BY <1>1, <1>t
  <2>2. CASE d # r
    <3>1. NotMissed(d, n)
      BY <1>2, <1>i, <2>1, <2>2 DEF Attended
    <3> QED
      BY <1>1, <1>2, <2>1, <2>2, <3>1, AttendGrow
  <2>3. CASE d = r
    <3>1. /\ pc[r] = "loop" /\ owed'[r] = owed[r] /\ r \in sub
          /\ got[r] \cup ToSet(buf[r]) \subseteq got'[r] \cup ToSet(buf'[r])
      BY <1>2, <2>3
    <3>2. NotMissed(r, n)
      BY <1>i, <2>1, <2>3, <3>1 DEF Attended
    <3> QED
      BY <1>1, <2>3, <3>1, <3>2, AttendGrow
  <2> QED
    BY <2>2, <2>3
<1>g. ASSUME NEW l, Goto(r, l), UNCHANGED <<owed, got, buf>>, l \notin {"reply", "loop"} \/ pc[r] = "do"
      PROVE  Attended'
  <2>1. pc'[r] = l /\ \A d \in Receivers : d # r => pc'[d] = pc[d]
    BY <1>g, <1>i, GotoIs
  <2>2. pc[r] = "do" => owed[r] = {}
    BY <1>i DEF CallInv
  <2> QED
    BY <1>2, <1>g, <2>1, <2>2
<1>3. CASE Receive(r)
  BY <1>3, <1>g DEF Receive
<1>4. CASE Subscribe(r)
  <2>1. \E l \in {"do", "done"} : Goto(r, l)
    BY <1>4 DEF Subscribe, Result
  <2> QED
    BY <1>4, <1>g, <2>1 DEF Subscribe
<1>5. CASE Do(r)
  <2>1. \E l \in {"reply", "return", "hook", "cancel"} : Goto(r, l) /\ (l = "reply" => pc[r] = "do")
    BY <1>5 DEF Do, Result
  <2>2. UNCHANGED <<owed, got, buf>>
    BY <1>5 DEF Do
  <2> QED
    BY <1>g, <2>1, <2>2
<1>6. CASE CtxDone(r)
  BY <1>6, <1>g DEF CtxDone, Result
<1>7. CASE Handle(r)
  <2>1. /\ pc[r] = "loop" /\ buf[r] # <<>> /\ got' = [got EXCEPT ![r] = @ \cup {Head(buf[r])}]
        /\ buf' = [buf EXCEPT ![r] = Tail(@)] /\ UNCHANGED <<sub, pc, owed>>
    BY <1>7 DEF Handle
  <2>2. got'[r] = got[r] \cup {Head(buf[r])} /\ \A d \in Receivers : d # r => got'[d] = got[d]
    BY <1>i, <2>1 DEF PubSubTypeOK
  <2>3. buf'[r] = Tail(buf[r]) /\ \A d \in Receivers : d # r => buf'[d] = buf[d]
    BY <1>i, <2>1 DEF PubSubTypeOK
  <2>4. ToSet(buf[r]) = {Head(buf[r])} \cup ToSet(Tail(buf[r]))
    <3>1. buf[r] \in Seq(Nat)
      BY <1>i DEF PubSubTypeOK
    <3> QED
      BY <2>1, <3>1, ElementsAre
  <2>5. got[r] \cup ToSet(buf[r]) \subseteq got'[r] \cup ToSet(buf'[r])
    BY <2>2, <2>3, <2>4
  <2> QED
    BY <1>2, <2>1, <2>2, <2>3, <2>5
<1>8. CASE ChannelClosed(r)
  BY <1>8, <1>g DEF ChannelClosed, Result
<1>9. CASE Finish(r)
  <2>1. PICK l \in {"hookdo", "cancel"} : Goto(r, l)
    BY <1>9 DEF Finish
  <2>2. owed' = [owed EXCEPT ![r] = {}] /\ got' = [got EXCEPT ![r] = {}] /\ buf' = buf
    BY <1>9 DEF Finish
  <2>3. pc'[r] = l /\ \A d \in Receivers : d # r => pc'[d] = pc[d]
    BY <1>i, <2>1, GotoIs
  <2>4. \A d \in Receivers : d # r => owed'[d] = owed[d] /\ got'[d] = got[d]
    BY <1>i, <2>2 DEF PubSubTypeOK
  <2> QED
    BY <1>2, <2>2, <2>3, <2>4
<1>10. CASE Cancel(r)
  BY <1>10, <1>g DEF Cancel
<1>11. CASE CancelRemove(r)
  BY <1>11, <1>g DEF CancelRemove
<1>12. CASE DrainChannel(r)
  <2>1. /\ r \in draining /\ UNCHANGED <<pc, owed, got>> /\ (buf' = buf \/ buf' = [buf EXCEPT ![r] = Tail(@)])
    BY <1>12 DEF DrainChannel
  <2>2. pc[r] \in {"lock", "done"}
    BY <1>i, <2>1 DEF CallInv
  <2>3. \A d \in Receivers : d # r => buf'[d] = buf[d]
    BY <1>i, <2>1 DEF PubSubTypeOK
  <2> QED
    BY <1>2, <2>1, <2>2, <2>3
<1> QED
  BY <1>3, <1>4, <1>5, <1>6, <1>7, <1>8, <1>9, <1>10, <1>11, <1>12 DEF Receiver

\* A step of the read loop: what it takes from the stream it has published to everybody it is owed to.
LEMMA ReaderAttended ==
    ASSUME PubSubInv, Reader
    PROVE  Attended'
<1> USE DEF registry, channel, loop, link, server, calls, hookVars
<1>i. PubSubTypeOK /\ CallInv /\ StreamInv /\ RegistryInv /\ Attended
  BY DEF PubSubInv, MessageInv, Attended
<1>h. ASSUME stream # <<>>
      PROVE  Head(stream) = stream[1] /\ 1 \in 1..Len(stream)
  BY SMTT(30), <1>i, <1>h DEF PubSubTypeOK
<1>m. (\A d \in Receivers : Moves(d)) /\ UNCHANGED <<setting, used, live, owed, draining, got>> /\ want' = want
  BY ReaderMoves, SameSet
<1>e. Extends(stream, stream)
  BY <1>i, ExtendsSelf DEF PubSubTypeOK
<1>n. \A l \in Running : l \notin Stopping
  BY DEF Running, Stopping
\* It is enough to look at who was attended before.
<1>1. ASSUME rd \in Running, sub' \subseteq sub,
             \A d \in sub : \A n \in owed[d] : pc[d] \in {"reply", "loop"} /\ NotMissed(d, n) => NotMissed(d, n)'
      PROVE  Attended'
  <2>1. sub \subseteq Receivers
    BY <1>i DEF PubSubTypeOK
  <2>2. \A d \in Receivers : pc'[d] \in {"reply", "loop"} => pc[d] \in {"reply", "loop"}
    BY <1>m DEF Moves
  <2>3. ASSUME NEW d \in sub', pc'[d] \in {"reply", "loop"}, NEW n \in owed'[d]
        PROVE  NotMissed(d, n)'
    <3>1. d \in sub /\ pc[d] \in {"reply", "loop"} /\ n \in owed[d]
      BY <1>1, <1>m, <2>1, <2>2, <2>3
    <3>2. NotMissed(d, n)
      BY <1>1, <1>i, <3>1 DEF Attended
    <3> QED
      BY <1>1, <3>1, <3>2
  <2> QED
    BY <2>3 DEF Attended
\* The head of the stream is taken, and has no number.
<1>2. ASSUME stream # <<>>, stream[1].type # "message", stream' = Tail(stream), rd = "read", rd' = "read", sub' \subseteq sub, buf' = buf
      PROVE  Attended'
  <2>1. stream[1].n = 0
    BY <1>2, <1>h, <1>i DEF StreamInv
  <2>2. ASSUME NEW d \in sub, NEW n \in owed[d], NotMissed(d, n)
        PROVE  NotMissed(d, n)'
    <3>0. d \in Receivers
      BY <1>i DEF PubSubTypeOK
    <3>1. d \in Receivers /\ n # 0
      BY <1>i, <3>0 DEF CallInv
    <3>2. ~OnItsWay(d, n, 1)
      BY <2>1, <3>1 DEF OnItsWay
    <3>3. rd' # "publish"
      BY <1>2
    <3> QED
      BY <1>2, <1>m, <2>2, <3>1, <3>2, <3>3, AttendTail
  <2>3. rd \in Running
    BY <1>2 DEF Running
  <2> QED
    BY <1>1, <1>2, <2>2, <2>3
<1>3. CASE ReadMessage
  <2>1. CASE used
    <3>1. rd = "read" /\ rd' = "lock" /\ UNCHANGED <<stream, sub, buf>>
      BY <1>3, <2>1 DEF ReadMessage, Reads
    <3>2. ASSUME NEW d \in sub, NEW n \in owed[d], NotMissed(d, n)
          PROVE  NotMissed(d, n)'
      <4>1. \A k : OnItsWay(d, n, k) => OnItsWay(d, n, k)'
        BY <1>m, <3>1 DEF OnItsWay
      <4> QED
        BY <1>m, <3>1, <3>2, <4>1 DEF NotMissed
    <3>3. rd \in Running
      BY <3>1 DEF Running
    <3> QED
      BY <1>1, <3>1, <3>2, <3>3
  <2>2. CASE ~used
    <3>1. \A d \in Receivers : pc[d] = "idle"
      BY <1>i, <2>2 DEF CallInv
    <3>2. UNCHANGED <<sub, pc>> /\ sub \subseteq Receivers
      BY <1>3, <1>i DEF ReadMessage, PubSubTypeOK
    <3> QED
      BY <3>1, <3>2 DEF Attended
  <2> QED
    BY <2>1, <2>2
<1>4. CASE PublishLock
  <2>1. rd = "lock" /\ rd' = "publish" /\ UNCHANGED <<stream, sub, buf>> /\ targets' \in Listings(chs[Head(stream).ch])
    BY <1>4 DEF PublishLock
  <2>2. stream # <<>>
    BY <1>i, <2>1 DEF StreamInv
  <2>3. ToSet(targets') = chs[stream[1].ch]
    BY <2>1, <2>2, <1>h DEF Listings
  <2>4. ASSUME NEW d \in sub, NEW n \in owed[d], NotMissed(d, n)
        PROVE  NotMissed(d, n)'
    <3>1. \A c \in want[d] : d \in chs[c]
      BY <1>i DEF RegistryInv
    <3>2. \A k : OnItsWay(d, n, k) => OnItsWay(d, n, k)'
      BY <1>m, <2>1, <2>3, <3>1 DEF OnItsWay
    <3> QED
      BY <1>m, <2>1, <2>4, <3>2 DEF NotMissed
  <2>5. rd \in Running
    BY <2>1 DEF Running
  <2> QED
    BY <1>1, <2>1, <2>4, <2>5
<1>5. CASE PublishSend
  <2>1. PICK t : t = Head(targets)
    OBVIOUS
  <2>2. /\ rd = "publish" /\ rd' = "publish" /\ targets # <<>> /\ targets' = Tail(targets) /\ UNCHANGED <<stream, sub>>
        /\ buf' = [buf EXCEPT ![t] = Append(@, Head(stream).n)]
    BY <1>5, <2>1 DEF PublishSend
  <2>3. stream # <<>> /\ Head(stream) = stream[1] /\ stream[1].n \in Nat
    <3>1. stream # <<>>
      BY <1>i, <2>2 DEF StreamInv
    <3>2. stream[1] \in Items
      BY SMTT(30), <1>i, <1>h, <3>1 DEF PubSubTypeOK
    <3>3. stream[1].n \in Nat
      BY <3>2 DEF Items
    <3> QED
      BY <1>h, <3>1, <3>3
  <2>4. t \in Receivers /\ ToSet(targets) = {t} \cup ToSet(targets')
    BY <2>1, <2>2, TargetIs
  <2>5. ToSet(buf'[t]) = ToSet(buf[t]) \cup {stream[1].n} /\ \A d \in Receivers : d # t => buf'[d] = buf[d]
    <3>1. buf'[t] = Append(buf[t], stream[1].n) /\ \A d \in Receivers : d # t => buf'[d] = buf[d]
      BY <1>i, <2>2, <2>3, <2>4 DEF PubSubTypeOK
    <3>2. buf[t] \in Seq(Nat)
      BY <1>i, <2>4 DEF PubSubTypeOK
    <3>3. ToSet(Append(buf[t], stream[1].n)) = ToSet(buf[t]) \cup {stream[1].n}
      BY SMTT(30), <2>3, <3>2, ElementsAre
    <3> QED
      BY <3>1, <3>3
  <2>6. ASSUME NEW d \in sub, NEW n \in owed[d], NotMissed(d, n)
        PROVE  NotMissed(d, n)'
    <3>1. d \in Receivers
      BY <1>i DEF PubSubTypeOK
    <3>2. CASE d = t
      <4>1. CASE n = stream[1].n
        BY <2>5, <3>2, <4>1 DEF NotMissed
      <4>2. ASSUME n # stream[1].n, NEW k \in 1..Len(stream), OnItsWay(d, n, k)
            PROVE  OnItsWay(d, n, k)'
        BY <1>m, <2>2, <4>2 DEF OnItsWay
      <4> QED
        BY <1>m, <2>2, <2>5, <2>6, <3>2, <4>1, <4>2 DEF NotMissed
    <3>3. CASE d # t
      <4>1. ASSUME NEW k \in 1..Len(stream), OnItsWay(d, n, k)
            PROVE  OnItsWay(d, n, k)'
        BY <1>m, <2>2, <2>4, <3>3, <4>1 DEF OnItsWay
      <4> QED
        BY <1>m, <2>2, <2>5, <2>6, <3>1, <3>3, <4>1 DEF NotMissed
    <3> QED
      BY <3>2, <3>3
  <2>7. rd \in Running
    BY <2>2 DEF Running
  <2> QED
    BY <1>1, <2>2, <2>6, <2>7
<1>6. CASE PublishDone
  <2>1. rd = "publish" /\ rd' = "read" /\ targets = <<>> /\ stream' = Tail(stream) /\ UNCHANGED <<sub, buf>>
    BY <1>6 DEF PublishDone
  <2>2. stream # <<>> /\ rd' # "publish"
    BY <1>i, <2>1 DEF StreamInv
  <2>3. ToSet(targets) = {}
    BY SMTT(30), <2>1 DEF ToSet
  <2>4. ASSUME NEW d \in sub, NEW n \in owed[d], NotMissed(d, n)
        PROVE  NotMissed(d, n)'
    <3>1. d \in Receivers
      BY <1>i DEF PubSubTypeOK
    <3>2. ~OnItsWay(d, n, 1)
      BY <2>1, <2>3 DEF OnItsWay
    <3> QED
      BY <1>m, <2>1, <2>2, <2>4, <3>1, <3>2, AttendTail
  <2>5. rd \in Running
    BY <2>1 DEF Running
  <2> QED
    BY <1>1, <2>1, <2>4, <2>5
<1>7. CASE ReadSubscribed \/ ReadUnsubscribed \/ ReadReply
  <2>1. /\ rd = "read" /\ rd' = "read" /\ stream # <<>> /\ stream' = Tail(stream) /\ buf' = buf
        /\ Head(stream).type \in {"subscribe", "unsubscribe", "reply"}
    BY <1>7 DEF ReadSubscribed, ReadUnsubscribed, ReadReply, Reads
  <2>2. sub' \subseteq sub
    BY <1>7 DEF ReadSubscribed, ReadUnsubscribed, ReadReply, RemoveSubs
  <2> QED
    BY <1>2, <1>h, <2>1, <2>2
<1>8. CASE Exit \/ CloseSubs \/ CloseChannel \/ ExitHooks \/ Drain
  <2>1. rd' \in {"flush", "close", "hooks", "drain", "end"}
    BY <1>8 DEF Exit, CloseSubs, CloseChannel, ExitHooks, Drain
  <2> QED
    BY <1>n, <2>1 DEF Attended, Stopping
<1> QED
  BY <1>3, <1>4, <1>5, <1>6, <1>7, <1>8 DEF Reader

\* A step of somebody else: a message that is sent is on its way.
LEMMA OtherAttended ==
    ASSUME PubSubInv, OtherStep
    PROVE  Attended'
<1>i. Attended /\ StreamInv /\ sub \subseteq Receivers
  BY DEF PubSubInv, MessageInv, Attended, PubSubTypeOK
<1>1. UNCHANGED <<setting, rd, targets, got, buf, sub, pc>> /\ want' = want
  BY OtherIs, SameSet
<1>2. Extends(stream, stream') /\ \A d \in Receivers : Serves(d)
  BY OtherStream, OtherServes
<1> SUFFICES ASSUME rd \in Running, NEW d \in sub, pc[d] \in {"reply", "loop"}, NEW n \in owed'[d]
             PROVE  NotMissed(d, n)'
  BY <1>1 DEF Attended
<1>3. d \in Receivers
  BY <1>i
<1>4. CASE n \in owed[d]
  <2>1. NotMissed(d, n)
    BY <1>4, <1>i DEF Attended
  <2> QED
    BY <1>1, <1>2, <1>3, <2>1, AttendGrow
<1>5. CASE n \notin owed[d]
  <2>1. PICK i \in 1..Len(stream') : i \notin 1..Len(stream) /\ stream'[i].n = n /\ stream'[i].ch \in want[d]
    BY <1>2, <1>3, <1>5 DEF Serves
  <2>2. rd = "publish" => i # 1
    <3>1. rd = "publish" => stream # <<>>
      BY <1>i DEF StreamInv
    <3>2. stream # <<>> => 1 \in 1..Len(stream)
      BY SMTT(30) DEF PubSubInv, PubSubTypeOK
    <3> QED
      BY <2>1, <3>1, <3>2
  <2>3. OnItsWay(d, n, i)'
    BY <1>1, <2>1, <2>2 DEF OnItsWay
  <2> QED
    BY <2>1, <2>3 DEF NotMissed
<1> QED
  BY <1>4, <1>5

-----------------------------------------------------------------------------
(* The invariant and what follows from it. *)

\* It holds at first.
LEMMA InitInv == Init => PubSubInv
<1> SUFFICES ASSUME Init
             PROVE  PubSubInv
  OBVIOUS
<1> USE DEF Init
<1>1. PubSubTypeOK
  <2>1. /\ setting \in DOMAIN Settings /\ used \in BOOLEAN /\ flushed \in BOOLEAN /\ open \in BOOLEAN /\ err \in BOOLEAN
        /\ sub \subseteq Receivers /\ closed \subseteq Receivers /\ draining \subseteq Receivers /\ toClose \subseteq Receivers
        /\ subscribed \subseteq Channels /\ live \subseteq Receivers /\ hooks \in Setters \cup {None}
    OBVIOUS
  <2>2. /\ rd \in Running \cup Stopping /\ targets \in Seq(Receivers) /\ skip \in Nat /\ sent \in Nat
        /\ queue \in Seq(Entries) /\ executed \in 0..Len(queue) /\ stream \in Seq(Items)
    BY SMTT(30) DEF Running
  <2>3. chs \in [Channels -> SUBSET Receivers] /\ owed \in [Receivers -> SUBSET Nat] /\ got \in [Receivers -> SUBSET Nat]
    OBVIOUS
  <2>4. buf \in [Receivers -> Seq(Nat)]
    BY SMTT(30) DEF Init
  <2>5. /\ pc \in [Receivers -> ReceiverSteps] /\ res \in [Receivers -> {"none", "nil", "err", "ctx"}]
        /\ hpc \in [Setters -> {"idle", "check", "unset", "set", "cleared"}]
        /\ hch \in [Setters -> {"none", "open", "closed", "error"}]
    BY DEF ReceiverSteps
  <2> QED
    BY <2>1, <2>2, <2>3, <2>4, <2>5 DEF PubSubTypeOK
<1>2. \A r \in Receivers : pc[r] = "idle" /\ owed[r] = {} /\ res[r] = "none"
  OBVIOUS
<1>3. RegistryInv
  BY DEF RegistryInv
<1>4. HooksInv
  BY DEF HooksInv
<1>5. ErrorInv
  BY <1>2 DEF ErrorInv, Stopping
<1>6. 1..Len(stream) = {} /\ 1..skip = {} /\ 1..executed = {} /\ 1..Len(queue) = {} /\ skip <= Len(stream)
  BY SMTT(30)
<1>7. WireInv
  <2>1. PICK p : p = [i \in {} |-> 0]
    OBVIOUS
  <2>2. p \in [1..executed -> 1..Len(stream)]
    BY <1>6, <2>1
  <2>3. Replies(p, p)
    BY <1>6 DEF Replies
  <2> QED
    BY <1>6, <2>2, <2>3 DEF WireInv
<1>8. MessageInv
  BY <1>2, <1>6 DEF MessageInv, CallInv, StreamInv
<1> QED
  BY <1>1, <1>3, <1>4, <1>5, <1>7, <1>8 DEF PubSubInv

\* Every step keeps it.
LEMMA StepInv == PubSubInv /\ [Next]_vars => PubSubInv'
<1> SUFFICES ASSUME PubSubInv, Next \/ UNCHANGED vars
             PROVE  PubSubInv'
  OBVIOUS
<1>1. HooksInv' /\ (OtherStep \/ ExitHooks => ~panicked')
  BY HooksStep
<1>2. ASSUME NEW r \in Receivers, Receive(r) \/ Receiver(r) \/ CtxDone(r)
      PROVE  PubSubInv'
  <2>1. PubSubTypeOK' /\ RegistryInv' /\ ~panicked' /\ ErrorInv' /\ WireInv'
    BY <1>2, ReceiverTypes, ReceiverRegistry, ReceiverError, ReceiverWire DEF PubSubInv
  <2>2. MessageInv'
    BY <1>2, ReceiverCalls, ReceiverStream, ReceiverAttended DEF MessageInv, Attended
  <2> QED
    BY <1>1, <2>1, <2>2 DEF PubSubInv
<1>3. CASE Reader
  <2>1. PubSubTypeOK' /\ RegistryInv' /\ ~panicked' /\ ErrorInv' /\ WireInv'
    BY <1>1, <1>3, ReaderTypes, ReaderRegistry, ReaderError, ReaderWire
  <2>2. MessageInv'
    BY <1>3, ReaderCalls, ReaderStream, ReaderAttended DEF MessageInv, Attended
  <2> QED
    BY <1>1, <2>1, <2>2 DEF PubSubInv
<1>4. CASE OtherStep
  <2>1. PubSubTypeOK'
    <3>1. \A h \in Setters : SetPubSubHooks(h) \/ Setter(h) \/ ClearHooks(h) => PubSubTypeOK'
      BY SetterTypes DEF PubSubInv
    <3> QED
      BY <1>4, <3>1, ServerTypes DEF PubSubInv, OtherStep
  <2>2. RegistryInv' /\ ~panicked' /\ ErrorInv' /\ WireInv'
    BY <1>1, <1>4, OtherRegistry, OtherError, OtherWire
  <2>3. StreamInv'
    BY <1>4, OtherStream, OtherIs, StreamGrows
  <2>4. MessageInv'
    BY <1>4, <2>3, OtherCalls, OtherAttended DEF MessageInv, Attended
  <2> QED
    BY <1>1, <2>1, <2>2, <2>4 DEF PubSubInv
<1> QED
  BY <1>2, <1>3, <1>4 DEF Next, OtherStep

\* The invariant.
THEOREM PubSubInvariant == Spec => []PubSubInv
  BY InitInv, StepInv, PTL DEF Spec

\* However receivers, the read loop, the hooks and the server interleave: no channel is closed twice or sent to
\* after it was closed, and every confirmation finds its command.
THEOREM NeverPanics == Spec => []NoPanic
<1>1. PubSubInv => NoPanic
  BY DEF PubSubInv, NoPanic
<1> QED
  BY <1>1, PubSubInvariant, PTL

\* A receiver that waits for messages has missed none of those sent since its SUBSCRIBE was executed.
THEOREM MissesNothing == Spec => []NoMessageMissed
<1>1. PubSubInv => NoMessageMissed
  <2> SUFFICES ASSUME PubSubInv, rd \in {"read", "lock", "publish"}, NEW r \in sub, pc[r] = "loop", NEW n \in owed[r]
               PROVE  \/ n \in got[r] \cup ToSet(buf[r])
                      \/ \E i \in DOMAIN stream :
                             stream[i].n = n /\ (i = 1 /\ rd = "publish" => r \in ToSet(targets))
    BY DEF NoMessageMissed
  <2>1. NotMissed(r, n)
    BY DEF PubSubInv, MessageInv, Running
  <2>2. DOMAIN stream = 1..Len(stream)
    BY SMTT(30) DEF PubSubInv, PubSubTypeOK
  <2> QED
    BY <2>1, <2>2 DEF NotMissed, OnItsWay
<1> QED
  BY <1>1, PubSubInvariant, PTL

\* Receive returns nil only if an unsubscription was read.
THEOREM NilIsUnsubscribed == Spec => []NilMeansUnsubscribed
<1>1. PubSubInv => NilMeansUnsubscribed
  BY DEF PubSubInv, ErrorInv, NilMeansUnsubscribed
<1> QED
  BY <1>1, PubSubInvariant, PTL
=============================================================================
