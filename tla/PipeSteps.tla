------------------------------ MODULE PipeSteps -----------------------------
(***************************************************************************)
(* The inductive invariant of a connection's life, and the steps that keep *)
(* it, for any number of goroutines, any capacity of the queue and any     *)
(* circumstances; PipeProofs adds the counting and the theorems.           *)
(*                                                                         *)
(* What must be shown is that one goroutine at a time owns the connection. *)
(* The invariant counts the goroutines wrCounter stands for (CountInv),    *)
(* says who holds the connection because it was alone, and why somebody    *)
(* waits for a worker as long as one is about to be started (HolderInv).   *)
(* The queue and the item in the reader's hands hold exactly those who     *)
(* wait for a result (QueueInv), the replies on the wire are for items     *)
(* taken (WireInv), the drain ends when nobody can come any more           *)
(* (DrainInv), nobody overtakes the calls a Close waits for (CloseInv),    *)
(* and blcksig counts the blocking calls of a healthy connection           *)
(* (BlockInv).                                                             *)
(***************************************************************************)
EXTENDS Pipe, TLAPS

-----------------------------------------------------------------------------
(* The inductive invariant. *)

CallerSteps == {"idle", "incr", "load", "bg", "sync", "fail", "syncdecr", "left", "return",
                "put", "recv", "abandoned", "late", "decr"}
CloserSteps == {"idle", "blk", "incr", "cas", "bg", "ping", "put", "recv", "decrping", "leave", "conn", "done"}
PingSteps == {"idle", "put", "recv", "decrping", "done"}
ReaderSteps == {"off", "skip", "read", "more", "send", "abort", "exit", "select", "drain", "answer", "wait", "done"}
WriterSteps == {"off", "next", "wait", "write", "exit", "close"}
Entries == [by : Actors, n : Nat]
Results == Errors \cup {"ok", "ctx", None}

SharedType ==
    /\ setting \in DOMAIN Settings
    /\ state \in {0, 1, 2, 4} /\ bgState \in BOOLEAN /\ err \in Errors \cup {None}
    /\ open \in BOOLEAN /\ done \in BOOLEAN /\ waits \in Int /\ blcksig \in Int
ActorType ==
    /\ pc \in [Actors -> CallerSteps \cup CloserSteps \cup PingSteps]
    /\ \A c \in Callers : pc[c] \in CallerSteps /\ (pc[c] # "idle" => call[c] \in set.calls)
    /\ \A k \in Closers : pc[k] \in CloserSteps
    /\ pc[Bg] \in PingSteps
LocalType ==
    /\ resp \in [Actors -> Results]
    /\ call \in [Callers -> AllCalls \cup {None}] /\ alone \in [Callers \cup Closers -> BOOLEAN]
    /\ noBlock \in [Closers -> BOOLEAN] /\ pend \in [Closers -> SUBSET Callers]
LoopType ==
    /\ q \in Seq(Entries) /\ taken \in 0..Len(q)
    /\ wpc \in WriterSteps /\ (wpc = "write" => witem \in Entries)
    /\ rpc \in ReaderSteps /\ buf \in Nat /\ sent \in Nat /\ ff \in Nat
PipeTypeOK == SharedType /\ ActorType /\ LocalType /\ LoopType

\* The goroutines that wrCounter counts, and those it counts a second time, for a PING.
Counted == {"load", "bg", "sync", "fail", "syncdecr", "put", "recv", "abandoned", "late", "decr",
            "cas", "ping", "decrping", "leave"}
Once == {a \in Actors : pc[a] \in Counted}
Twice == {k \in Closers : pc[k] \in {"put", "recv", "decrping"}}
CountInv == waits = Cardinality(Once) + Cardinality(Twice)

\* What a goroutine concludes from the count: at 0 nobody is counted, and whoever leaves more than
\* itself behind leaves another.
CountTells ==
    /\ waits = 0 => \A a \in Actors : pc[a] \notin Counted
    /\ waits # 1 /\ Twice = {} => \A a \in Once : \E b \in Once : b # a

\* What the state says of the worker, of the error and of who has come how far.
Stopping == {2, 4}
WorkerInv ==
    /\ bgState => state # 0
    /\ state = 1 => bgState
    /\ ~bgState => wpc = "off" /\ rpc = "off" /\ taken = 0 /\ buf = 0 /\ sent = 0
    /\ rpc \in {"select", "drain", "answer", "wait", "done"} => state \in Stopping
    /\ pc[Bg] # "idle" => rpc \in {"drain", "answer", "wait", "done"}
ErrInv ==
    /\ state \in Stopping \/ rpc = "skip" => err # None
    /\ \A c \in Callers : pc[c] = "fail" => err # None
    /\ \A k \in Closers : pc[k] # "idle" => err # None
ZeroInv ==
    state = 0 => /\ \A c \in Callers : pc[c] \notin {"decr", "late"}
                 /\ \A k \in Closers : pc[k] \in {"idle", "blk", "incr", "cas"}
StateInv == WorkerInv /\ ErrInv /\ ZeroInv

\* The reader has an item; then and in the queue are exactly those who wait for a result, each once.
Holding == rpc \in {"more", "send", "abort", "answer"}
Awaits(a) == pc[a] \in {"recv", "abandoned"}
QueueInv ==
    /\ Holding => ritem \in Entries /\ Awaits(ritem.by) /\ \A i \in 1..Len(q) : q[i].by # ritem.by
    /\ \A i \in 1..Len(q) : Awaits(q[i].by) /\ \A j \in 1..Len(q) : q[i].by = q[j].by => i = j
    /\ \A a \in Actors : Awaits(a) => (Holding /\ ritem.by = a) \/ \E i \in 1..Len(q) : q[i].by = a

\* Replies come only for commands that were taken from the queue: f sums up the commands of the items
\* taken, of which those in the buffer, in the writer's hands and on the wire are a part.
Held == IF wpc = "write" THEN witem.n ELSE 0
Owing == IF rpc = "more" THEN ritem.n - ff ELSE 0
Sums(f) ==
    /\ f[0] = 0
    /\ \A i \in 1..taken : f[i] = f[i - 1] + q[i].n
    /\ sent + buf + Held <= f[taken] + Owing
WireInv == rpc \in {"read", "more", "send"} => \E f \in [0..taken -> Int] : Sums(f)

\* The drain ended only when nobody was counted who could still come to the queue.
DrainInv == rpc \in {"wait", "done"} => \A a \in Actors : pc[a] \notin {"put", "recv", "abandoned", "bg", "ping"}

\* Whoever found itself alone holds the connection; whoever did not waits until a worker is started.
Alone(a) == pc[a] \in {"load", "cas"} /\ alone[a]
Holders == {a \in Actors : pc[a] \in {"bg", "sync", "fail", "syncdecr"} \/ (state = 0 /\ Alone(a))}
Stuck == {a \in Actors : pc[a] \in {"put", "recv", "abandoned"} \/ (pc[a] \in {"load", "cas"} /\ ~alone[a])}
Leaving == \E d \in Callers : pc[d] = "left"
OneHolds ==
    /\ \A a, b \in Holders : a = b
    /\ \A c \in Callers : pc[c] = "sync" => ~bgState /\ ~Leaving
    /\ state = 0 /\ Leaving => Holders = {} /\ Stuck # {}
HolderInv == ~set.givesUp => OneHolds

\* The calls that a Close waits for are synchronous, or in the queue before its PING.
Ahead(c, k) ==
    /\ Holding => ritem.by # k
    /\ \A j \in 1..Len(q) : q[j].by = k => (Holding /\ ritem.by = c) \/ \E i \in 1..Len(q) : i < j /\ q[i].by = c
Answering == {"decrping", "leave", "conn", "done"}
Awaited(k) == \A c \in pend[k] : pc[c] = "sync" \/ (pc[c] = "recv" /\ Ahead(c, k))
Acknowledged(k) == resp[k] = "ok" => pend[k] = {} /\ pc[k] \in Answering
CloseOrder == \A k \in Closers : Awaited(k) /\ Acknowledged(k)
CloseInv == ~set.givesUp => CloseOrder

\* Abandoned calls are not blocking DoMultis, which do not give blcksig back.
TidyBlocks == \A x \in set.calls : x.block /\ x.n # 1 => x.kind \notin {"deadline", "cancel"}
Blocking == {c \in Callers : pc[c] # "idle" /\ call[c].block}
Lasting == \A c \in Callers : pc[c] \in {"abandoned", "late"} => HasDone(c)
Healthy == err = None /\ open
Finished == {"return", "decr", "syncdecr", "left"}
BlocksCounted ==
    /\ blcksig = Cardinality(Blocking)
    /\ \A c \in Callers : pc[c] \in Finished => resp[c] = "ok"
BlockInv ==
    /\ Lasting
    /\ rpc = "abort" => ~open
    /\ ~set.givesUp /\ TidyBlocks /\ Healthy => BlocksCounted

PipeInv == PipeTypeOK /\ CountInv /\ StateInv /\ QueueInv /\ WireInv /\ DrainInv /\ HolderInv /\ CloseInv /\ BlockInv

-----------------------------------------------------------------------------
(* Settings and sequences. *)

USE ZenonT(60)

\* What a setting holds.
LEMMA SettingIs ==
    ASSUME setting \in DOMAIN Settings
    PROVE  set \in AllSettings /\ set.calls \subseteq AllCalls /\ set.givesUp \in BOOLEAN
<1>1. set \in AllSettings
  BY SMTT(30), SettingAssumption DEF set
<1> QED
  BY SMTT(30), <1>1 DEF AllSettings

\* Sums and their order.
LEMMA Arithmetic ==
    /\ \A a \in Nat : \A b \in Nat : \A c \in Nat : a + b + c \in Int
    /\ \A a \in Int : \A b \in Int : a + b \in Int
    /\ \A a \in Int : \A b \in Int : \A c \in Int : a <= b /\ b <= c => a <= c
  BY SMTT(30)

\* The queue after NextResultCh.
LEMMA TailIs ==
    ASSUME NEW S, NEW s \in Seq(S), s # <<>>
    PROVE  /\ Tail(s) \in Seq(S) /\ Head(s) = s[1] /\ Head(s) \in S
           /\ Len(s) \in Nat /\ Len(Tail(s)) \in Nat /\ Len(Tail(s)) = Len(s) - 1
           /\ \A i \in 1..Len(Tail(s)) : Tail(s)[i] = s[i + 1] /\ i + 1 \in 1..Len(s)
  BY SMTT(30)

\* The queue after PutOne or PutMulti.
LEMMA AppendIs ==
    ASSUME NEW S, NEW s \in Seq(S), NEW x \in S
    PROVE  /\ Append(s, x) \in Seq(S) /\ Len(s) \in Nat /\ Len(Append(s, x)) = Len(s) + 1
           /\ Append(s, x)[Len(s) + 1] = x /\ \A i \in 1..Len(s) : Append(s, x)[i] = s[i]
           /\ \A i \in 1..(Len(s) + 1) : i \in 1..Len(s) \/ i = Len(s) + 1
  BY SMTT(30)

\* What is put.
LEMMA EntryIs ==
    ASSUME NEW a \in Actors, NEW m \in Nat
    PROVE  [by |-> a, n |-> m] \in Entries
  BY DEF Entries

\* Whose an item is.
LEMMA OwnerIs ==
    /\ \A e \in Entries : e.by \in Actors /\ e.n \in Nat
    /\ \A s \in Seq(Entries) : \A i \in 1..Len(s) : s[i] \in Entries /\ s[i].by \in Actors /\ s[i].n \in Nat
<1>1. \A e \in Entries : e.by \in Actors /\ e.n \in Nat
  BY SMTT(30) DEF Entries
<1>2. \A s \in Seq(Entries) : \A i \in 1..Len(s) : s[i] \in Entries
  BY SMTT(30)
<1> QED
  BY <1>1, <1>2

-----------------------------------------------------------------------------
(* Types. *)

\* A step of a caller, of a closer, of the writer, of the reader or of the environment; the PINGs
\* of Close and of _background move alike.
CallerMoves(c) ==
    \/ Call(c) \/ IncrWaits(c) \/ LoadState(c) \/ BackgroundThenPut(c) \/ SyncDo(c) \/ SyncFail(c) \/ FailSync(c)
    \/ DecrWaits(c) \/ BackgroundForOthers(c) \/ Return(c) \/ Late(c) \/ PutGaveUp(c) \/ Abort(c)
CloserMoves(k) ==
    \/ CloseError(k) \/ CloseBlock(k) \/ CloseIncr(k) \/ CloseSwap(k) \/ CloseBackground(k) \/ ClosePing(k)
    \/ CloseEscape(k) \/ CloseLeave(k) \/ CloseConn(k)
PingMoves(a) == DecrPing(a) /\ a \notin Callers
Outside == PeerBreak \/ TimerExit \/ UNCHANGED vars

\* Every step is one of these.
LEMMA StepIs ==
    ASSUME [Next]_vars
    PROVE  \/ \E c \in Callers : CallerMoves(c)
           \/ \E k \in Closers : CloserMoves(k)
           \/ \E a \in Actors : Put(a) \/ PingMoves(a)
           \/ Writer \/ Background \/ Outside
  BY ActorAssumption
     DEF Next, Do, Close, PingOfBackground, CallerMoves, CloserMoves, PingMoves, Outside, Quiet, Actors

\* A connection is under the same circumstances all its life.
LEMMA SettingStays ==
    ASSUME [Next]_vars
    PROVE  set' = set
<1> USE DEF shared, queue, locals, writerVars, wire, readerVars
<1>1. setting' = setting
  BY StepIs
     DEF CallerMoves, Call, IncrWaits, LoadState, BackgroundThenPut, SyncDo, SyncFail, FailSync, DecrWaits,
         BackgroundForOthers, Return, Late, PutGaveUp, Abort, CloserMoves, CloseError, CloseBlock, CloseIncr, CloseSwap,
         CloseBackground, ClosePing, CloseEscape, CloseLeave, CloseConn, Put, PingMoves, DecrPing,
         Writer, NextWriteCmd, WaitForWrite, WriteCmd, WriteExit, CloseDone, Background, ReadFirst, ReadMore, Send,
         ReadFail, AbortHalf, ReadExit, SkipReadWrite, Select, Drain, Answer, Finish, Outside, PeerBreak, TimerExit, vars
<1> QED
  BY <1>1 DEF set

\* What counts by one keeps its type.
LEMMA OneMore == /\ \A x \in Int : x + 1 \in Int /\ x - 1 \in Int
                 /\ \A x \in Nat : x + 1 \in Nat
  BY SMTT(30)

\* The atomics keep their types.
LEMMA SharedTypes ==
    ASSUME SharedType, [Next]_vars
    PROVE  SharedType'
<1> USE DEF shared, queue, locals, writerVars, wire, readerVars, set, SharedType, Errors
<1>1. ASSUME NEW c \in Callers, CallerMoves(c)
      PROVE  SharedType'
  <2>1. CASE Call(c) \/ IncrWaits(c) \/ LoadState(c) \/ SyncDo(c) \/ DecrWaits(c) \/ Return(c) \/ Late(c)
    BY <2>1, OneMore DEF Call, IncrWaits, LoadState, SyncDo, DecrWaits, Return, Late
  <2>2. CASE BackgroundThenPut(c) \/ SyncFail(c) \/ FailSync(c) \/ BackgroundForOthers(c) \/ PutGaveUp(c) \/ Abort(c)
    BY <2>2, OneMore DEF BackgroundThenPut, SyncFail, FailSync, BackgroundForOthers, PutGaveUp, Abort,
                StartBackground, SetError, Cut
  <2> QED
    BY <1>1, <2>1, <2>2 DEF CallerMoves
<1>2. ASSUME NEW k \in Closers, CloserMoves(k)
      PROVE  SharedType'
  <2>1. CASE CloseError(k) \/ CloseBlock(k) \/ CloseIncr(k) \/ CloseSwap(k)
    BY <2>1, OneMore DEF CloseError, CloseBlock, CloseIncr, CloseSwap, SetError
  <2>2. CASE CloseBackground(k) \/ ClosePing(k) \/ CloseEscape(k) \/ CloseLeave(k) \/ CloseConn(k)
    BY <2>2, OneMore DEF CloseBackground, ClosePing, CloseEscape, CloseLeave, CloseConn, StartBackground, Cut
  <2> QED
    BY <1>2, <2>1, <2>2 DEF CloserMoves
<1>3. ASSUME NEW a \in Actors, Put(a) \/ PingMoves(a)
      PROVE  SharedType'
  BY <1>3, OneMore DEF Put, PingMoves, DecrPing
<1>4. CASE Writer
  BY <1>4, OneMore DEF Writer, NextWriteCmd, WaitForWrite, WriteCmd, WriteExit, CloseDone, Exit, SetError, Cut
<1>5. CASE Background
  BY <1>5, OneMore DEF Background, ReadFirst, ReadMore, Send, ReadFail, AbortHalf, ReadExit, SkipReadWrite, Select, Drain,
              Answer, Finish, Exit, SetError, Cut
<1>6. CASE Outside
  BY <1>6, OneMore DEF Outside, PeerBreak, TimerExit, vars, Exit, SetError, Cut
<1> QED
  BY <1>1, <1>2, <1>3, <1>4, <1>5, <1>6, StepIs

Moved(a, l) == pc'[a] = l /\ \A b \in Actors : b # a => pc'[b] = pc[b]

\* What Goto does.
LEMMA GotoIs ==
    ASSUME ActorType, NEW a \in Actors, NEW l, Goto(a, l)
    PROVE  Moved(a, l)
  BY DEF ActorType, Goto, Moved

\* An actor that goes to one of its own steps keeps the types of all.
LEMMA ActorGoes ==
    ASSUME ActorType, setting' = setting, NEW a \in Actors, NEW l, Goto(a, l),
           a \in Callers => l \in CallerSteps /\ (l # "idle" => call'[a] \in set.calls),
           a \in Closers => l \in CloserSteps, a = Bg => l \in PingSteps,
           \A c \in Callers : c # a => call'[c] = call[c]
    PROVE  ActorType'
<1>1. Moved(a, l)
  BY GotoIs
<1>2. set' = set
  BY DEF set
<1>3. l \in CallerSteps \cup CloserSteps \cup PingSteps
  BY DEF Actors
<1>4. pc' \in [Actors -> CallerSteps \cup CloserSteps \cup PingSteps]
  BY <1>3 DEF ActorType, Goto
<1>5. \A c \in Callers : pc'[c] \in CallerSteps /\ (pc'[c] # "idle" => call'[c] \in set.calls)
  BY <1>1 DEF ActorType, Moved, Actors
<1>6. \A k \in Closers : pc'[k] \in CloserSteps
  BY <1>1 DEF ActorType, Moved, Actors
<1>7. pc'[Bg] \in PingSteps
  BY <1>1 DEF ActorType, Moved, Actors
<1> QED
  BY <1>2, <1>4, <1>5, <1>6, <1>7 DEF ActorType

\* ... and an actor that stays keeps them too.
LEMMA ActorStays ==
    ASSUME ActorType, UNCHANGED <<setting, pc, call>>
    PROVE  ActorType'
  BY DEF ActorType, set

\* Where the swaps of Close lead.
LEMMA SwapIs ==
    ASSUME SharedType, NEW k \in Closers, CloseSwap(k)
    PROVE  \E l \in {"bg", "ping", "leave"} :
              /\ Goto(k, l)
              /\ l = "bg" => state = 0 /\ alone[k]
              /\ l = "ping" => state = 1 \/ (state = 0 /\ ~alone[k])
              /\ l = "leave" => state > 1
<1> DEFINE x == CASE state = 0 /\ alone[k] -> "bg"
                  [] state = 1 \/ (state = 0 /\ ~alone[k]) -> "ping"
                  [] state > 1 -> "leave"
<1>1. Goto(k, x)
  BY DEF CloseSwap
<1>2. /\ x \in {"bg", "ping", "leave"}
      /\ x = "bg" => state = 0 /\ alone[k]
      /\ x = "ping" => state = 1 \/ (state = 0 /\ ~alone[k])
      /\ x = "leave" => state > 1
  BY SMTT(30) DEF SharedType
<1> HIDE DEF x
<1> QED
  BY <1>1, <1>2

\* Where a result leads, and that the three steps of the reader that deliver one do no more to the actors.
LEMMA DeliverIs ==
    ASSUME ActorType, NEW r, Deliver(r)
    PROVE  /\ pc[ritem.by] \in {"recv", "abandoned"}
           /\ ritem.by \in Callers /\ pc[ritem.by] = "recv" => Goto(ritem.by, "decr")
           /\ ritem.by \in Callers /\ pc[ritem.by] = "abandoned" => Goto(ritem.by, "late")
           /\ ritem.by \in Closers \cup {Bg} => pc[ritem.by] = "recv" /\ Goto(ritem.by, "decrping")
<1>1. ritem.by \in Closers \cup {Bg} => ritem.by \notin Callers /\ pc[ritem.by] # "abandoned"
  BY ActorAssumption DEF ActorType, CloserSteps, PingSteps
<1> QED
  BY SMTT(30), <1>1 DEF Deliver

\* Every goroutine is at a step of its own function.
LEMMA ActorTypes ==
    ASSUME SharedType, ActorType, LocalType, QueueInv, [Next]_vars
    PROVE  ActorType'
<1> USE ActorAssumption DEF shared, queue, locals, writerVars, wire, readerVars, Actors
<1>1. ASSUME NEW c \in Callers, CallerMoves(c)
      PROVE  ActorType'
  <2>1. c \notin Closers /\ c # Bg /\ pc[c] \in CallerSteps /\ (pc[c] # "idle" => call[c] \in set.calls)
    BY DEF ActorType
  <2> SUFFICES ASSUME NEW l \in CallerSteps, Goto(c, l), setting' = setting,
                      l # "idle" => call'[c] \in set.calls, \A d \in Callers : d # c => call'[d] = call[d]
               PROVE  ActorType'
    <3>1. CASE Call(c)
      <4>1. PICK x \in set.calls : call' = [call EXCEPT ![c] = x]
        BY <3>1 DEF Call
      <4> QED
        BY <3>1, <4>1 DEF Call, LocalType, CallerSteps
    <3>2. CASE Return(c) \/ Late(c)
      BY <3>2 DEF Return, Late, Forget, LocalType, CallerSteps
    <3>3. CASE IncrWaits(c) \/ LoadState(c) \/ BackgroundThenPut(c) \/ SyncDo(c) \/ SyncFail(c) \/ FailSync(c)
      BY <2>1, <3>3 DEF IncrWaits, LoadState, BackgroundThenPut, SyncDo, SyncFail, FailSync, Rejected, CallerSteps
    <3>4. CASE DecrWaits(c) \/ BackgroundForOthers(c) \/ PutGaveUp(c) \/ Abort(c)
      BY <2>1, <3>4 DEF DecrWaits, BackgroundForOthers, PutGaveUp, Abort, CallerSteps
    <3> QED
      BY <1>1, <3>1, <3>2, <3>3, <3>4 DEF CallerMoves
  <2> QED
    BY <2>1, ActorGoes
<1>2. ASSUME NEW k \in Closers, CloserMoves(k)
      PROVE  ActorType'
  <2>1. k \notin Callers /\ k # Bg
    BY SMTT(30)
  <2>2. CASE CloseEscape(k)
    BY <2>2, ActorStays DEF CloseEscape
  <2>3. ASSUME NEW l \in CloserSteps, Goto(k, l), UNCHANGED <<setting, call>>
        PROVE  ActorType'
    BY <2>1, <2>3, ActorGoes
  <2>4. CASE CloseError(k) \/ CloseBlock(k) \/ CloseIncr(k) \/ CloseBackground(k) \/ ClosePing(k)
             \/ CloseLeave(k) \/ CloseConn(k)
    BY <2>3, <2>4 DEF CloseError, CloseBlock, CloseIncr, CloseBackground, ClosePing, CloseLeave, CloseConn, CloserSteps
  <2>5. CASE CloseSwap(k)
    <3>1. PICK l \in {"bg", "ping", "leave"} : Goto(k, l)
      BY <2>5, SwapIs
    <3> QED
      BY <2>3, <2>5, <3>1 DEF CloseSwap, CloserSteps
  <2> QED
    BY <1>2, <2>2, <2>4, <2>5 DEF CloserMoves
<1>3. ASSUME NEW a \in Actors, Put(a) \/ PingMoves(a)
      PROVE  ActorType'
  <2>1. UNCHANGED <<setting, call>>
    BY <1>3 DEF Put, PingMoves, DecrPing
  <2>2. CASE Put(a)
    <3>1. pc[a] = "put" /\ Goto(a, "recv")
      BY <2>2 DEF Put
    <3> QED
      BY <2>1, <3>1, ActorGoes DEF ActorType, CallerSteps, CloserSteps, PingSteps
  <2>3. CASE PingMoves(a)
    <3>1. PICK l \in {"done", "leave"} : Goto(a, l) /\ (l = "done" <=> a = Bg) /\ a \notin Callers
      BY <2>3 DEF PingMoves, DecrPing
    <3> QED
      BY <2>1, <3>1, ActorGoes DEF CloserSteps, PingSteps
  <2> QED
    BY <1>3, <2>2, <2>3
<1>4. CASE Writer
  BY <1>4, ActorStays DEF Writer, NextWriteCmd, WaitForWrite, WriteCmd, WriteExit, CloseDone
<1>5. CASE Background
  <2>1. UNCHANGED <<setting, call>>
    BY <1>5 DEF Background, ReadFirst, ReadMore, Send, ReadFail, AbortHalf, ReadExit, SkipReadWrite, Select,
                       Drain, Answer, Finish
  <2>2. ASSUME NEW r, Deliver(r), Holding
        PROVE  ActorType'
    <3>1. ritem.by \in Actors
      BY <2>2 DEF QueueInv, Entries
    <3>2. CASE ritem.by \in Callers
      <4>1. PICK l \in {"decr", "late"} : Goto(ritem.by, l) /\ pc[ritem.by] # "idle"
        BY <2>2, <3>2, DeliverIs
      <4>2. ritem.by \notin Closers /\ ritem.by # Bg /\ l \in CallerSteps /\ call'[ritem.by] \in set.calls
        BY <2>1, <3>2, <4>1 DEF ActorType, CallerSteps
      <4> QED
        BY <2>1, <3>1, <3>2, <4>1, <4>2, ActorGoes
    <3>3. CASE ritem.by \in Closers \cup {Bg}
      <4>1. Goto(ritem.by, "decrping") /\ ritem.by \notin Callers
        BY <2>2, <3>3, DeliverIs
      <4> QED
        BY <2>1, <3>1, <4>1, ActorGoes DEF CloserSteps, PingSteps
    <3> QED
      BY <3>1, <3>2, <3>3
  <2>3. CASE Send \/ AbortHalf \/ Answer
    BY <2>2, <2>3 DEF Send, AbortHalf, Answer, Holding
  <2>4. CASE Select
    <3>1. CASE done
      BY <2>1, <2>4, <3>1, ActorStays DEF Select
    <3>2. CASE ~done
      <4>1. Goto(Bg, "put") /\ Bg \notin Callers /\ Bg \notin Closers
        BY <2>4, <3>2 DEF Select
      <4> QED
        BY <2>1, <4>1, ActorGoes DEF PingSteps
    <3> QED
      BY <3>1, <3>2
  <2>5. CASE ReadFirst \/ ReadMore \/ ReadFail \/ ReadExit \/ SkipReadWrite \/ Drain \/ Finish
    BY <2>5, ActorStays DEF ReadFirst, ReadMore, ReadFail, ReadExit, SkipReadWrite, Drain, Finish
  <2> QED
    BY <1>5, <2>3, <2>4, <2>5 DEF Background
<1>6. CASE Outside
  BY <1>6, ActorStays DEF Outside, PeerBreak, TimerExit, vars
<1> QED
  BY <1>1, <1>2, <1>3, <1>4, <1>5, <1>6, StepIs

\* What the goroutines keep for themselves has its types.
LEMMA LocalTypes ==
    ASSUME SharedType, LocalType, [Next]_vars
    PROVE  LocalType'
<1> USE DEF shared, queue, locals, writerVars, wire, readerVars
<1>t. err \in Results /\ {"ok", "ctx", "broken", None} \subseteq Results /\ set.calls \subseteq AllCalls
  BY SettingIs DEF SharedType, Results, Errors
<1>a. \A r \in Results : \A a : resp \in [Actors -> Results] => [resp EXCEPT ![a] = r] \in [Actors -> Results]
  OBVIOUS
<1>b. \A c : Answered(c) /\ LocalType => pend' \in [Closers -> SUBSET Callers]
  BY DEF Answered, LocalType
<1>1. ASSUME NEW c \in Callers, CallerMoves(c)
      PROVE  LocalType'
  <2>1. CASE Call(c)
    <3>1. PICK x \in set.calls : call' = [call EXCEPT ![c] = x]
      BY <2>1 DEF Call
    <3> QED
      BY <1>t, <2>1, <3>1 DEF Call, LocalType
  <2>2. CASE Return(c) \/ Late(c)
    <3>1. Forget(c)
      BY <2>2 DEF Return, Late
    <3>2. resp' \in [Actors -> Results]
      BY <1>t, <1>a, <3>1 DEF Forget, LocalType
    <3>3. call' \in [Callers -> AllCalls \cup {None}]
      BY <3>1 DEF Forget, LocalType
    <3> QED
      BY <2>2, <3>2, <3>3 DEF Return, Late, LocalType
  <2>3. CASE IncrWaits(c) \/ LoadState(c)
    <3>1. alone' \in [Callers \cup Closers -> BOOLEAN]
      BY <2>3 DEF IncrWaits, LoadState, LocalType
    <3>2. resp' \in [Actors -> Results]
      BY <1>t, <1>a, <2>3 DEF IncrWaits, LoadState, Rejected, LocalType
    <3> QED
      BY <2>3, <3>1, <3>2 DEF IncrWaits, LoadState, LocalType
  <2>4. CASE SyncDo(c) \/ SyncFail(c) \/ Abort(c) \/ PutGaveUp(c)
    <3>1. resp' \in [Actors -> Results]
      BY <1>t, <1>a, <2>4 DEF SyncDo, SyncFail, Abort, PutGaveUp, LocalType
    <3>2. pend' \in [Closers -> SUBSET Callers]
      BY <1>b, <2>4 DEF SyncDo, SyncFail, Abort, PutGaveUp, LocalType
    <3> QED
      BY <2>4, <3>1, <3>2 DEF SyncDo, SyncFail, Abort, PutGaveUp, LocalType
  <2>5. CASE BackgroundThenPut(c) \/ FailSync(c) \/ DecrWaits(c) \/ BackgroundForOthers(c)
    BY <2>5 DEF BackgroundThenPut, FailSync, DecrWaits, BackgroundForOthers, LocalType
  <2> QED
    BY <1>1, <2>1, <2>2, <2>3, <2>4, <2>5 DEF CallerMoves
<1>2. ASSUME NEW k \in Closers, CloserMoves(k)
      PROVE  LocalType'
  <2>1. CASE CloseBlock(k) \/ CloseIncr(k)
    <3>1. noBlock' \in [Closers -> BOOLEAN] /\ alone' \in [Callers \cup Closers -> BOOLEAN]
      BY <2>1 DEF CloseBlock, CloseIncr, LocalType
    <3> QED
      BY <2>1, <3>1 DEF CloseBlock, CloseIncr, LocalType
  <2>2. CASE CloseSwap(k)
    <3>1. alone' \in [Callers \cup Closers -> BOOLEAN] /\ pend' \in [Closers -> SUBSET Callers]
      BY <2>2 DEF CloseSwap, LocalType
    <3> QED
      BY <2>2, <3>1 DEF CloseSwap, LocalType
  <2>3. CASE CloseError(k) \/ CloseBackground(k) \/ ClosePing(k) \/ CloseEscape(k) \/ CloseLeave(k) \/ CloseConn(k)
    BY <2>3 DEF CloseError, CloseBackground, ClosePing, CloseEscape, CloseLeave, CloseConn, LocalType
  <2> QED
    BY <1>2, <2>1, <2>2, <2>3 DEF CloserMoves
<1>3. ASSUME NEW a \in Actors, Put(a) \/ PingMoves(a)
      PROVE  LocalType'
  BY <1>3 DEF Put, PingMoves, DecrPing, LocalType
<1>4. CASE Writer
  BY <1>4 DEF Writer, NextWriteCmd, WaitForWrite, WriteCmd, WriteExit, CloseDone, LocalType
<1>5. CASE Background
  <2>1. ASSUME NEW r \in Results, Deliver(r), UNCHANGED <<call, alone, noBlock>>
        PROVE  LocalType'
    BY <1>a, <1>b, <2>1 DEF Deliver, LocalType
  <2>2. CASE Send \/ AbortHalf \/ Answer
    BY <1>t, <2>1, <2>2 DEF Send, AbortHalf, Answer
  <2>3. CASE ReadFirst \/ ReadMore \/ ReadFail \/ ReadExit \/ SkipReadWrite \/ Select \/ Drain \/ Finish
    BY <2>3 DEF ReadFirst, ReadMore, ReadFail, ReadExit, SkipReadWrite, Select, Drain, Finish, LocalType
  <2> QED
    BY <1>5, <2>2, <2>3 DEF Background
<1>6. CASE Outside
  BY <1>6 DEF Outside, PeerBreak, TimerExit, vars, LocalType
<1> QED
  BY <1>1, <1>2, <1>3, <1>4, <1>5, <1>6, StepIs

\* A reply that can be read is one of an item that the writer has taken: NextResultCh finds it.
LEMMA ReaderFinds ==
    ASSUME LoopType, WireInv, rpc = "read", sent > 0
    PROVE  taken > 0 /\ q # <<>>
<1>1. Held \in Nat
  BY SMTT(30) DEF LoopType, Held, Entries
<1>2. PICK f \in [0..taken -> Int] : Sums(f)
  BY DEF WireInv
<1>3. sent + buf + Held <= f[taken] /\ f[0] = 0
  BY SMTT(30), <1>2 DEF Sums, Owing, LoopType
<1>4. taken > 0
  BY SMTT(30), <1>1, <1>3 DEF LoopType
<1> QED
  BY SMTT(30), <1>4 DEF LoopType

\* The item that the writer takes.
LEMMA WriterTakes ==
    ASSUME LoopType, taken < Len(q)
    PROVE  taken + 1 \in 1..Len(q) /\ taken + 1 \in 0..Len(q) /\ q[taken + 1] \in Entries
  BY SMTT(30) DEF LoopType

\* The queue when the reader or the drain loop takes an item.
LEMMA QueueTaken ==
    ASSUME LoopType, q # <<>>, q' = Tail(q),
           (taken' = taken - 1 /\ taken > 0) \/ (taken' = taken /\ taken < Len(q))
    PROVE  q' \in Seq(Entries) /\ taken' \in 0..Len(q') /\ Head(q) \in Entries
<1>1. /\ Tail(q) \in Seq(Entries) /\ Head(q) \in Entries
      /\ Len(q) \in Nat /\ Len(Tail(q)) \in Nat /\ Len(Tail(q)) = Len(q) - 1
  BY TailIs DEF LoopType
<1>2. taken \in 0..Len(q)
  BY DEF LoopType
<1>3. taken' \in 0..Len(q')
  BY SMTT(30), <1>1, <1>2
<1> QED
  BY <1>1, <1>3

\* The queue after a put.
LEMMA QueueGrows ==
    ASSUME LoopType, LocalType, ActorType, setting \in DOMAIN Settings, NEW a \in Actors, Put(a)
    PROVE  /\ \E m \in Nat : q' = Append(q, [by |-> a, n |-> m])
           /\ q' \in Seq(Entries) /\ taken' \in 0..Len(q')
<1> DEFINE m == IF a \in Callers THEN call[a].n ELSE 1
<1>1. pc[a] = "put" /\ q' = Append(q, [by |-> a, n |-> m]) /\ taken' = taken
  BY DEF Put
<1>2. ASSUME a \in Callers PROVE call[a].n \in Nat
  <2>1. call[a] \in AllCalls
    BY <1>1, <1>2, SettingIs DEF ActorType
  <2> QED
    BY SMTT(30), <2>1 DEF AllCalls
<1>3. m \in Nat
  BY SMTT(30), <1>2
<1> HIDE DEF m
<1>4. [by |-> a, n |-> m] \in Entries
  BY <1>3, EntryIs
<1>e. PICK e \in Entries : e = [by |-> a, n |-> m]
  BY <1>4
<1>q. q \in Seq(Entries) /\ q' = Append(q, e)
  BY <1>1, <1>e DEF LoopType
<1>5. q' \in Seq(Entries) /\ Len(q) \in Nat /\ Len(q') = Len(q) + 1
  BY SMTT(30), <1>q, AppendIs
<1>6. taken' \in 0..Len(q')
  BY SMTT(30), <1>1, <1>5 DEF LoopType
<1> QED
  BY <1>1, <1>3, <1>5, <1>6

\* A worker is started at its first steps.
LEMMA StartIs ==
    ASSUME LoopType, NEW b \in BOOLEAN, StartBackground(b)
    PROVE  wpc' \in WriterSteps /\ rpc' \in ReaderSteps /\ (wpc' = "write" => wpc = "write")
  BY DEF StartBackground, LoopType, WriterSteps, ReaderSteps

\* The loops, the queue and the wire keep their types.
LEMMA LoopTypes ==
    ASSUME SharedType, ActorType, LocalType, LoopType, WireInv, [Next]_vars
    PROVE  LoopType'
<1> USE DEF shared, queue, locals, writerVars, wire, readerVars
<1>0. 0 \in Nat /\ 1 \in Nat
  BY SMTT(30)
<1>u. ASSUME UNCHANGED <<q, taken, wpc, witem, rpc, buf, ff>>, sent' \in {sent, 0}
      PROVE  LoopType'
  BY <1>0, <1>u DEF LoopType
<1>s. ASSUME NEW b \in BOOLEAN, StartBackground(b), UNCHANGED <<q, taken, witem, buf, sent, ff>>
      PROVE  LoopType'
  BY <1>s, StartIs DEF LoopType
<1>1. ASSUME NEW c \in Callers, CallerMoves(c)
      PROVE  LoopType'
  <2>1. CASE BackgroundThenPut(c) \/ FailSync(c) \/ BackgroundForOthers(c)
    BY <1>s, <2>1 DEF BackgroundThenPut, FailSync, BackgroundForOthers
  <2>2. CASE Call(c) \/ IncrWaits(c) \/ LoadState(c) \/ SyncDo(c) \/ SyncFail(c)
    BY <1>u, <2>2 DEF Call, IncrWaits, LoadState, SyncDo, SyncFail, Cut
  <2>3. CASE DecrWaits(c) \/ Return(c) \/ Late(c) \/ PutGaveUp(c) \/ Abort(c)
    BY <1>u, <2>3 DEF DecrWaits, Return, Late, PutGaveUp, Abort
  <2> QED
    BY <1>1, <2>1, <2>2, <2>3 DEF CallerMoves
<1>2. ASSUME NEW k \in Closers, CloserMoves(k)
      PROVE  LoopType'
  <2>1. CASE CloseBackground(k)
    BY <1>s, <2>1 DEF CloseBackground
  <2>2. CASE CloseError(k) \/ CloseBlock(k) \/ CloseIncr(k) \/ CloseSwap(k)
    BY <1>u, <2>2 DEF CloseError, CloseBlock, CloseIncr, CloseSwap
  <2>3. CASE ClosePing(k) \/ CloseEscape(k) \/ CloseLeave(k) \/ CloseConn(k)
    BY <1>u, <2>3 DEF ClosePing, CloseEscape, CloseLeave, CloseConn, Cut
  <2> QED
    BY <1>2, <2>1, <2>2, <2>3 DEF CloserMoves
<1>3. ASSUME NEW a \in Actors, Put(a) \/ PingMoves(a)
      PROVE  LoopType'
  <2>1. CASE Put(a)
    <3>1. q' \in Seq(Entries) /\ taken' \in 0..Len(q')
      BY <2>1, QueueGrows DEF SharedType
    <3> QED
      BY <2>1, <3>1 DEF Put, LoopType
  <2>2. CASE PingMoves(a)
    BY <1>u, <2>2 DEF PingMoves, DecrPing
  <2> QED
    BY <1>3, <2>1, <2>2
<1>4. CASE Writer
  <2>1. ASSUME taken < Len(q), taken' = taken + 1, witem' = q[taken + 1], wpc' = "write", UNCHANGED <<q, wire, readerVars>>
        PROVE  LoopType'
    BY <2>1, WriterTakes DEF LoopType, WriterSteps
  <2>2. CASE NextWriteCmd
    <3>1. CASE sent' = sent + buf /\ buf' = 0 /\ wpc' = "wait" /\ UNCHANGED <<taken, witem, q, readerVars>>
      <4>1. sent + buf \in Nat
        BY SMTT(30) DEF LoopType
      <4> QED
        BY <1>0, <3>1, <4>1 DEF LoopType, WriterSteps
    <3>2. CASE wpc' = "exit" /\ UNCHANGED <<taken, witem, wire, q, readerVars>>
      BY <3>2 DEF LoopType, WriterSteps
    <3> QED
      BY <2>1, <2>2, <3>1, <3>2 DEF NextWriteCmd
  <2>3. CASE WaitForWrite
    BY <2>1, <2>3 DEF WaitForWrite
  <2>4. CASE WriteCmd
    <3>1. buf + witem.n \in Nat /\ sent + buf + witem.n \in Nat
      <4>1. witem.n \in Nat
        BY SMTT(30), <2>4 DEF WriteCmd, LoopType, Entries
      <4> QED
        BY SMTT(30), <4>1 DEF LoopType
    <3>2. wpc' \in {"next", "exit"} /\ buf' \in Nat /\ sent' \in Nat /\ UNCHANGED <<q, taken, readerVars>>
      BY <1>0, <2>4, <3>1 DEF WriteCmd, LoopType
    <3> QED
      BY <3>2 DEF LoopType, WriterSteps
  <2>5. CASE WriteExit \/ CloseDone
    BY <1>0, <2>5 DEF WriteExit, CloseDone, Exit, Cut, LoopType, WriterSteps
  <2> QED
    BY <1>4, <2>2, <2>3, <2>4, <2>5 DEF Writer
<1>5. CASE Background
  <2>1. CASE ReadFirst
    <3>1. q # <<>> /\ taken > 0
      BY <2>1, ReaderFinds DEF ReadFirst
    <3>2. q' \in Seq(Entries) /\ taken' \in 0..Len(q')
      BY <2>1, <3>1, QueueTaken DEF ReadFirst, TakeResult
    <3>3. sent' \in Nat
      BY SMTT(30), <2>1 DEF ReadFirst, LoopType
    <3> QED
      BY <1>0, <2>1, <3>2, <3>3 DEF ReadFirst, LoopType, ReaderSteps
  <2>2. CASE ReadMore
    <3>1. sent' \in Nat /\ ff' \in Nat
      BY SMTT(30), <2>2 DEF ReadMore, LoopType
    <3> QED
      BY <2>2, <3>1 DEF ReadMore, LoopType, ReaderSteps
  <2>3. CASE Drain
    <3>1. CASE UNCHANGED <<q, taken>>
      BY <2>3, <3>1 DEF Drain, LoopType, ReaderSteps
    <3>2. CASE q # <<>> /\ q' = Tail(q) /\ (done \/ taken > 0) /\ taken' = IF done /\ taken < Len(q) THEN taken ELSE taken - 1
      <4>1. (taken' = taken - 1 /\ taken > 0) \/ (taken' = taken /\ taken < Len(q))
        BY SMTT(30), <3>2 DEF LoopType
      <4>2. q' \in Seq(Entries) /\ taken' \in 0..Len(q')
        BY <3>2, <4>1, QueueTaken
      <4> QED
        BY <2>3, <4>2 DEF Drain, LoopType, ReaderSteps
    <3> QED
      BY <2>3, <3>1, <3>2 DEF Drain, TakeResult
  <2>4. CASE Send \/ ReadFail \/ AbortHalf \/ ReadExit
    BY <1>0, <2>4 DEF Send, ReadFail, AbortHalf, ReadExit, Exit, Cut, LoopType, ReaderSteps
  <2>5. CASE SkipReadWrite \/ Select \/ Answer \/ Finish
    BY <1>0, <2>5 DEF SkipReadWrite, Select, Answer, Finish, Exit, Cut, LoopType, ReaderSteps
  <2> QED
    BY <1>5, <2>1, <2>2, <2>3, <2>4, <2>5 DEF Background
<1>6. CASE Outside
  BY <1>u, <1>6 DEF Outside, PeerBreak, TimerExit, vars, Exit, Cut
<1> QED
  BY <1>1, <1>2, <1>3, <1>4, <1>5, <1>6, StepIs

-----------------------------------------------------------------------------
(* What the state tells. *)

\* The values of the state.
LEMMA Values ==
    /\ 0 # 1 /\ 0 # 2 /\ 0 # 4 /\ 1 # 2 /\ 1 # 4 /\ 0 \notin Stopping /\ 1 \notin Stopping
    /\ \A x \in {0, 1, 2, 4} : x > 1 <=> x \in Stopping
  BY SMTT(30) DEF Stopping

\* startBackground leaves a worker behind and the state not 0.
LEMMA StartKeeps ==
    ASSUME SharedType, WorkerInv, NEW b \in BOOLEAN, StartBackground(b), UNCHANGED <<taken, buf, sent>>, pc'[Bg] = pc[Bg]
    PROVE  WorkerInv' /\ state' # 0 /\ bgState' = TRUE /\ (state' \in Stopping <=> state \in Stopping)
<1>1. bgState' = TRUE /\ state' = IF state = 0 THEN 1 ELSE state
  BY DEF StartBackground
<1>2. state' # 0 /\ (state' \in Stopping <=> state \in Stopping)
  BY <1>1, Values
<1>3. rpc' = rpc \/ (~bgState /\ rpc' \in {"skip", "read"})
  BY DEF StartBackground
<1>4. pc[Bg] # "idle" => bgState
  BY DEF WorkerInv
<1> QED
  BY <1>1, <1>2, <1>3, <1>4 DEF WorkerInv

\* _exit takes the state from 1 to 2 and no further.
LEMMA ExitKeeps ==
    ASSUME SharedType, NEW e \in Errors, Exit(e)
    PROVE  /\ err' # None /\ sent' = 0 /\ (state' = 0 <=> state = 0) /\ state' # 1
           /\ state \in Stopping => state' \in Stopping
           /\ state # 0 => state' \in Stopping
<1>1. state' = (IF state = 1 THEN 2 ELSE state) /\ sent' = 0 /\ err' = IF err = None THEN e ELSE err
  BY DEF Exit, Cut, SetError
<1>2. err' # None
  BY <1>1, ActorAssumption
<1> QED
  BY <1>1, <1>2, Values DEF SharedType, Stopping

\* An error stays.
LEMMA ErrStays ==
    ASSUME [Next]_vars
    PROVE  err # None => err' = err
<1> USE DEF shared, queue, locals, writerVars, wire, readerVars, SetError, Exit
<1>1. ASSUME NEW c \in Callers, CallerMoves(c)
      PROVE  err # None => err' = err
  BY <1>1 DEF CallerMoves, Call, IncrWaits, LoadState, BackgroundThenPut, SyncDo, SyncFail, FailSync, DecrWaits,
                     BackgroundForOthers, Return, Late, PutGaveUp, Abort
<1>2. ASSUME NEW k \in Closers, CloserMoves(k)
      PROVE  err # None => err' = err
  BY <1>2 DEF CloserMoves, CloseError, CloseBlock, CloseIncr, CloseSwap, CloseBackground, ClosePing, CloseEscape,
                     CloseLeave, CloseConn
<1>3. ASSUME NEW a \in Actors, Put(a) \/ PingMoves(a)
      PROVE  err # None => err' = err
  BY <1>3 DEF Put, PingMoves, DecrPing
<1>4. CASE Writer
  BY <1>4 DEF Writer, NextWriteCmd, WaitForWrite, WriteCmd, WriteExit, CloseDone
<1>5. CASE Background
  BY <1>5 DEF Background, ReadFirst, ReadMore, Send, ReadFail, AbortHalf, ReadExit, SkipReadWrite, Select, Drain,
                     Answer, Finish
<1>6. CASE Outside
  BY <1>6 DEF Outside, PeerBreak, TimerExit, vars
<1> QED
  BY <1>1, <1>2, <1>3, <1>4, <1>5, <1>6, StepIs

\* Which steps leave the state, the worker and the PING of _background as they are.
LEMMA WorkerStays ==
    ASSUME WorkerInv, UNCHANGED <<state, bgState, wpc, rpc, taken, buf>>, sent' \in {sent, 0}, pc'[Bg] = pc[Bg]
    PROVE  WorkerInv'
  BY DEF WorkerInv

\* The worker runs exactly when startBackground was called, and stops before it drains the queue.
LEMMA WorkerRuns ==
    ASSUME SharedType, ActorType, LoopType, QueueInv, StateInv, [Next]_vars
    PROVE  WorkerInv'
<1> USE DEF shared, queue, locals, writerVars, wire, readerVars
<1>v. WorkerInv /\ Bg \in Actors /\ Bg \notin Callers /\ Bg \notin Closers
  BY ActorAssumption DEF StateInv, Actors
<1>g. ASSUME NEW a \in Actors, NEW l, Goto(a, l), a # Bg
      PROVE  pc'[Bg] = pc[Bg]
  BY <1>g, <1>v, GotoIs DEF Moved
<1>1. ASSUME NEW c \in Callers, CallerMoves(c)
      PROVE  WorkerInv'
  <2>0. c \in Actors /\ c # Bg
    BY <1>v DEF Actors
  <2>1. pc'[Bg] = pc[Bg]
    BY <1>1, <1>g, <2>0
       DEF CallerMoves, Call, IncrWaits, LoadState, Rejected, BackgroundThenPut, SyncDo, SyncFail, FailSync, DecrWaits,
           BackgroundForOthers, Return, Late, PutGaveUp, Abort
  <2>2. CASE BackgroundThenPut(c) \/ FailSync(c) \/ BackgroundForOthers(c)
    BY <1>v, <2>1, <2>2, StartKeeps DEF BackgroundThenPut, FailSync, BackgroundForOthers
  <2>3. CASE Call(c) \/ IncrWaits(c) \/ LoadState(c) \/ SyncDo(c) \/ SyncFail(c)
    BY <1>v, <2>1, <2>3, WorkerStays DEF Call, IncrWaits, LoadState, SyncDo, SyncFail, Cut
  <2>4. CASE DecrWaits(c) \/ Return(c) \/ Late(c) \/ PutGaveUp(c) \/ Abort(c)
    BY <1>v, <2>1, <2>4, WorkerStays DEF DecrWaits, Return, Late, PutGaveUp, Abort
  <2> QED
    BY <1>1, <2>2, <2>3, <2>4 DEF CallerMoves
<1>2. ASSUME NEW k \in Closers, CloserMoves(k)
      PROVE  WorkerInv'
  <2>0. k \in Actors /\ k # Bg
    BY <1>v DEF Actors
  <2>1. pc'[Bg] = pc[Bg]
    BY <1>2, <1>g, <2>0
       DEF CloserMoves, CloseError, CloseBlock, CloseIncr, CloseSwap, CloseBackground, ClosePing, CloseEscape, CloseLeave, CloseConn
  <2>2. CASE CloseBackground(k)
    BY <1>v, <2>1, <2>2, StartKeeps DEF CloseBackground
  <2>3. CASE CloseSwap(k)
    <3>1. state' = (IF state \in {0, 1} THEN 2 ELSE state) /\ UNCHANGED <<bgState, wpc, rpc, taken, buf, sent>>
      BY <2>3 DEF CloseSwap
    <3>2. state' \in Stopping /\ state' # 0 /\ state' # 1
      BY <3>1, Values DEF SharedType, Stopping
    <3> QED
      BY <1>v, <2>1, <3>1, <3>2 DEF WorkerInv
  <2>4. CASE CloseError(k) \/ CloseBlock(k) \/ CloseIncr(k) \/ ClosePing(k) \/ CloseEscape(k) \/ CloseLeave(k) \/ CloseConn(k)
    BY <1>v, <2>1, <2>4, WorkerStays DEF CloseError, CloseBlock, CloseIncr, ClosePing, CloseEscape, CloseLeave, CloseConn, Cut
  <2> QED
    BY <1>2, <2>2, <2>3, <2>4 DEF CloserMoves
<1>3. ASSUME NEW a \in Actors, Put(a) \/ PingMoves(a)
      PROVE  WorkerInv'
  <2>1. pc[a] # "idle" /\ pc[a] # "off" /\ \E l : Goto(a, l)
    BY <1>3 DEF Put, PingMoves, DecrPing
  <2>2. a # Bg => pc'[Bg] = pc[Bg]
    BY <1>g, <2>1
  <2>3. pc'[Bg] # "idle" => pc[Bg] # "idle"
    BY <2>1, <2>2
  <2>4. UNCHANGED <<state, bgState, wpc, rpc, taken, buf, sent>>
    BY <1>3 DEF Put, PingMoves, DecrPing
  <2> QED
    BY <1>v, <2>3, <2>4 DEF WorkerInv
<1>4. CASE Writer
  <2>1. wpc # "off" /\ UNCHANGED <<bgState, rpc, pc>>
    BY <1>4 DEF Writer, NextWriteCmd, WaitForWrite, WriteCmd, WriteExit, CloseDone
  <2>2. bgState /\ state # 0
    BY <1>v, <2>1 DEF WorkerInv
  <2>3. state' = state \/ (state' # 0 /\ state' # 1 /\ state' \in Stopping)
    <3>1. CASE WriteExit
      BY <2>2, <3>1, ExitKeeps DEF WriteExit, Errors
    <3>2. CASE ~WriteExit
      BY <1>4, <3>2 DEF Writer, NextWriteCmd, WaitForWrite, WriteCmd, CloseDone
    <3> QED
      BY <3>1, <3>2
  <2> QED
    BY <1>v, <2>1, <2>2, <2>3 DEF WorkerInv
<1>5. CASE Background
  <2>1. rpc # "off" /\ bgState' = bgState
    BY <1>5 DEF Background, ReadFirst, ReadMore, Send, ReadFail, AbortHalf, ReadExit, SkipReadWrite, Select,
                       Drain, Answer, Finish
  <2>2. bgState /\ state # 0
    BY <1>v, <2>1 DEF WorkerInv
  <2>3. CASE ReadExit \/ SkipReadWrite \/ Finish
    <3>1. CASE ReadExit
      <4>1. state' \in Stopping /\ state' # 0 /\ state' # 1
        BY <2>2, <3>1, ExitKeeps DEF ReadExit, Errors
      <4>2. pc[Bg] = "idle"
        BY <1>v, <3>1 DEF ReadExit, WorkerInv
      <4>3. rpc' = "select" /\ UNCHANGED pc
        BY <3>1 DEF ReadExit
      <4> QED
        BY <1>v, <2>1, <2>2, <4>1, <4>2, <4>3 DEF WorkerInv
    <3>2. CASE SkipReadWrite
      <4>1. err \in Errors
        BY <3>2 DEF SkipReadWrite, StateInv, ErrInv, SharedType
      <4>2. state' \in Stopping /\ state' # 0 /\ state' # 1
        BY <2>2, <3>2, <4>1, ExitKeeps DEF SkipReadWrite
      <4>3. rpc' = "drain" /\ UNCHANGED pc /\ rpc = "skip"
        BY <3>2 DEF SkipReadWrite
      <4> QED
        BY <1>v, <2>1, <2>2, <4>2, <4>3 DEF WorkerInv
    <3>3. CASE Finish
      <4>1. state' \in Stopping /\ state' # 0 /\ state' # 1
        BY <3>3, Values DEF Finish, Stopping
      <4>3. rpc' = "done" /\ UNCHANGED pc /\ rpc = "wait"
        BY <3>3 DEF Finish
      <4> QED
        BY <1>v, <2>1, <2>2, <4>1, <4>3 DEF WorkerInv
    <3> QED
      BY <2>3, <3>1, <3>2, <3>3
  <2>4. CASE Send \/ AbortHalf \/ Answer
    <3>1. pc[ritem.by] # "idle"
      BY <2>4 DEF Send, AbortHalf, Answer, Deliver
    <3>2. ritem.by \in Actors /\ \E l : Goto(ritem.by, l)
      BY <2>4 DEF Send, AbortHalf, Answer, Deliver, QueueInv, Holding, Entries
    <3>3. pc'[Bg] # "idle" => pc[Bg] # "idle"
      BY <1>g, <3>1, <3>2
    <3>4. state' = state /\ (rpc \in {"drain", "answer", "wait", "done"} => rpc' = "drain")
          /\ (rpc' \in {"select", "drain", "answer", "wait", "done"} => rpc = "answer")
      BY <2>4 DEF Send, AbortHalf, Answer
    <3> QED
      BY <1>v, <2>1, <2>2, <3>3, <3>4 DEF WorkerInv
  <2>5. CASE Select
    <3>1. state' = state /\ rpc = "select" /\ rpc' = "drain"
      BY <2>5 DEF Select
    <3> QED
      BY <1>v, <2>1, <2>2, <3>1 DEF WorkerInv
  <2>6. CASE ReadFirst \/ ReadMore \/ ReadFail \/ Drain
    <3>1. UNCHANGED <<state, pc>>
      BY <2>6 DEF ReadFirst, ReadMore, ReadFail, Drain
    <3>2. \/ rpc \in {"read", "more"} /\ rpc' \in {"send", "more", "abort", "exit"}
          \/ rpc = "drain" /\ rpc' \in {"wait", "answer"}
      BY <2>6 DEF ReadFirst, ReadMore, ReadFail, Drain
    <3> QED
      BY <1>v, <2>1, <2>2, <3>1, <3>2 DEF WorkerInv
  <2> QED
    BY <1>5, <2>3, <2>4, <2>5, <2>6 DEF Background
<1>6. CASE Outside
  <2>1. CASE TimerExit
    <3>1. (state' = 0 <=> state = 0) /\ state' # 1 /\ (state \in Stopping => state' \in Stopping) /\ sent' = 0
      BY <2>1, ExitKeeps DEF TimerExit, Errors
    <3> QED
      BY <1>v, <2>1, <3>1 DEF TimerExit, WorkerInv
  <2>2. CASE PeerBreak \/ UNCHANGED vars
    BY <1>v, <2>2, WorkerStays DEF PeerBreak, Cut, vars
  <2> QED
    BY <1>6, <2>1, <2>2 DEF Outside
<1> QED
  BY <1>1, <1>2, <1>3, <1>4, <1>5, <1>6, StepIs

\* While there is no error nobody has failed, closed or stopped the connection.
LEMMA ErrKnown ==
    ASSUME SharedType, ActorType, QueueInv, StateInv, [Next]_vars
    PROVE  ErrInv'
<1> USE DEF shared, queue, locals, writerVars, wire, readerVars
<1>c. CASE err' # None
  BY <1>c DEF ErrInv
<1> SUFFICES ASSUME err' = None PROVE ErrInv'
  BY <1>c
<1>0. /\ err = None /\ state \notin Stopping /\ rpc # "skip" /\ ~(state > 1)
      /\ \A c \in Callers : pc[c] # "fail"
      /\ \A k \in Closers : pc[k] = "idle"
      /\ rpc \notin {"select", "drain", "answer", "wait", "done"} /\ pc[Bg] = "idle"
  BY ErrStays, Values DEF StateInv, ErrInv, WorkerInv, SharedType
<1>e. \A e \in Errors : ~SetError(e)
  BY <1>0, ActorAssumption DEF SetError
<1>s. "broken" \in Errors /\ "closing" \in Errors
  BY DEF Errors
<1>f. ASSUME state' = state \/ state' = 1, rpc' # "skip", \A a \in Actors : pc'[a] # pc[a] => a \in Callers /\ pc'[a] # "fail"
      PROVE  ErrInv'
  BY <1>0, <1>f, Values, ActorAssumption DEF ErrInv, Actors
<1>g. ASSUME NEW c \in Callers, NEW l, Goto(c, l), l # "fail"
      PROVE  \A a \in Actors : pc'[a] # pc[a] => a \in Callers /\ pc'[a] # "fail"
  BY <1>g, GotoIs DEF Moved, Actors
<1>1. ASSUME NEW c \in Callers, CallerMoves(c)
      PROVE  ErrInv'
  <2>1. \A a \in Actors : pc'[a] # pc[a] => a \in Callers /\ pc'[a] # "fail"
    <3>1. CASE DecrWaits(c)
      BY <1>g, <3>1 DEF DecrWaits
    <3>2. CASE Call(c) \/ IncrWaits(c) \/ LoadState(c) \/ SyncDo(c) \/ SyncFail(c) \/ FailSync(c)
      BY <1>0, <1>e, <1>g, <1>s, <3>2 DEF Call, IncrWaits, LoadState, Rejected, SyncDo, SyncFail, FailSync
    <3>3. CASE BackgroundThenPut(c) \/ BackgroundForOthers(c) \/ Return(c) \/ Late(c) \/ PutGaveUp(c) \/ Abort(c)
      BY <1>g, <3>3 DEF BackgroundThenPut, BackgroundForOthers, Return, Late, PutGaveUp, Abort
    <3> QED
      BY <1>1, <3>1, <3>2, <3>3 DEF CallerMoves
  <2>2. CASE BackgroundThenPut(c) \/ BackgroundForOthers(c)
    BY <1>0, <1>f, <2>1, <2>2 DEF BackgroundThenPut, BackgroundForOthers, StartBackground
  <2>3. CASE Call(c) \/ IncrWaits(c) \/ LoadState(c) \/ SyncDo(c) \/ DecrWaits(c)
    BY <1>0, <1>f, <2>1, <2>3 DEF Call, IncrWaits, LoadState, SyncDo, DecrWaits
  <2>4. CASE Return(c) \/ Late(c) \/ PutGaveUp(c) \/ Abort(c)
    BY <1>0, <1>f, <2>1, <2>4 DEF Return, Late, PutGaveUp, Abort
  <2> QED
    BY <1>0, <1>1, <1>e, <1>s, <2>2, <2>3, <2>4 DEF CallerMoves, SyncFail, FailSync
<1>2. ASSUME NEW k \in Closers, CloserMoves(k)
      PROVE  ErrInv'
  BY <1>0, <1>2, <1>e, <1>s
     DEF CloserMoves, CloseError, CloseBlock, CloseIncr, CloseSwap, CloseBackground, ClosePing, CloseEscape, CloseLeave, CloseConn
<1>3. ASSUME NEW a \in Actors, Put(a) \/ PingMoves(a)
      PROVE  ErrInv'
  <2>1. a \in Callers /\ Put(a)
    BY <1>0, <1>3 DEF Put, PingMoves, DecrPing, Actors
  <2> QED
    BY <1>0, <1>f, <1>g, <2>1 DEF Put
<1>4. CASE Writer
  BY <1>0, <1>4, <1>e, <1>f, <1>s DEF Writer, NextWriteCmd, WaitForWrite, WriteCmd, WriteExit, CloseDone, Exit
<1>5. CASE Background
  <2>1. CASE Send \/ AbortHalf
    <3>1. ritem.by \in Actors /\ pc[ritem.by] # "idle"
      BY <2>1 DEF Send, AbortHalf, Deliver, QueueInv, Holding, Entries
    <3>2. ritem.by \in Callers
      BY <1>0, <3>1 DEF Actors
    <3>d. PICK r : Deliver(r)
      BY <2>1 DEF Send, AbortHalf
    <3>3. \E l \in {"decr", "late"} : Goto(ritem.by, l)
      BY <3>d, <3>2, DeliverIs
    <3> QED
      BY <1>0, <1>f, <1>g, <2>1, <3>2, <3>3 DEF Send, AbortHalf
  <2>2. CASE ReadFirst \/ ReadMore \/ ReadFail
    BY <1>0, <1>f, <2>2 DEF ReadFirst, ReadMore, ReadFail
  <2> QED
    BY <1>0, <1>5, <1>e, <1>s, <2>1, <2>2 DEF Background, ReadExit, SkipReadWrite, Select, Drain, Answer, Finish, Exit
<1>6. CASE Outside
  BY <1>0, <1>6, <1>e, <1>f, <1>s DEF Outside, PeerBreak, TimerExit, vars, Exit
<1> QED
  BY <1>1, <1>2, <1>3, <1>4, <1>5, <1>6, StepIs

\* In synchronous mode no call has come back from the queue and no Close got further than its swaps.
LEMMA ZeroKnown ==
    ASSUME SharedType, ActorType, QueueInv, StateInv, [Next]_vars
    PROVE  ZeroInv'
<1> USE DEF shared, queue, locals, writerVars, wire, readerVars
<1> SUFFICES ASSUME state' = 0
             PROVE  /\ \A c \in Callers : pc'[c] \notin {"decr", "late"}
                    /\ \A k \in Closers : pc'[k] \in {"idle", "blk", "incr", "cas"}
  BY DEF ZeroInv
<1>z. ASSUME state = 0
      PROVE  /\ \A c \in Callers : pc[c] \notin {"decr", "late"}
             /\ \A k \in Closers : pc[k] \in {"idle", "blk", "incr", "cas"}
             /\ wpc = "off" /\ rpc = "off" /\ pc[Bg] = "idle" /\ ~(state > 1)
  BY <1>z, Values DEF StateInv, ZeroInv, WorkerInv, SharedType
<1>n. \A b \in BOOLEAN : ~StartBackground(b)
  BY Values DEF StartBackground
<1>x. \A e \in Errors : Exit(e) => state = 0
  BY ExitKeeps
<1>e. "broken" \in Errors /\ "closing" \in Errors
  BY DEF Errors
<1>g. ASSUME NEW a \in Actors, NEW l, Goto(a, l), state = 0,
             a \in Callers => l \notin {"decr", "late"}, a \in Closers => l \in {"idle", "blk", "incr", "cas"}
      PROVE  /\ \A c \in Callers : pc'[c] \notin {"decr", "late"}
             /\ \A k \in Closers : pc'[k] \in {"idle", "blk", "incr", "cas"}
  BY <1>g, <1>z, GotoIs DEF Moved, Actors
<1>1. ASSUME NEW c \in Callers, CallerMoves(c)
      PROVE  /\ \A d \in Callers : pc'[d] \notin {"decr", "late"}
             /\ \A k \in Closers : pc'[k] \in {"idle", "blk", "incr", "cas"}
  <2>1. c \in Actors /\ c \notin Closers
    BY ActorAssumption DEF Actors
  <2>2. state' = state
    BY <1>1, <1>n
       DEF CallerMoves, Call, IncrWaits, LoadState, BackgroundThenPut, SyncDo, SyncFail, FailSync, DecrWaits,
           BackgroundForOthers, Return, Late, PutGaveUp, Abort
  <2>g. ASSUME NEW l, Goto(c, l), l \notin {"decr", "late"}
        PROVE  /\ \A d \in Callers : pc'[d] \notin {"decr", "late"}
               /\ \A k \in Closers : pc'[k] \in {"idle", "blk", "incr", "cas"}
    BY <1>g, <2>1, <2>2, <2>g
  <2> QED
    <3>1. CASE DecrWaits(c)
      BY <2>g, <3>1 DEF DecrWaits
    <3>2. CASE Call(c) \/ IncrWaits(c) \/ LoadState(c) \/ SyncDo(c) \/ SyncFail(c) \/ FailSync(c)
      BY <1>z, <2>2, <2>g, <3>2 DEF Call, IncrWaits, LoadState, Rejected, SyncDo, SyncFail, FailSync
    <3>3. CASE BackgroundThenPut(c) \/ BackgroundForOthers(c) \/ Return(c) \/ Late(c) \/ PutGaveUp(c) \/ Abort(c)
      BY <2>g, <3>3 DEF BackgroundThenPut, BackgroundForOthers, Return, Late, PutGaveUp, Abort
    <3> QED
      BY <1>1, <3>1, <3>2, <3>3 DEF CallerMoves
<1>2. ASSUME NEW k \in Closers, CloserMoves(k)
      PROVE  /\ \A c \in Callers : pc'[c] \notin {"decr", "late"}
             /\ \A j \in Closers : pc'[j] \in {"idle", "blk", "incr", "cas"}
  <2>1. k \in Actors /\ k \notin Callers
    BY ActorAssumption DEF Actors
  <2>2. ~CloseSwap(k) /\ ~CloseBackground(k)
    BY <1>n, Values DEF CloseSwap, CloseBackground
  <2>3. state' = state
    BY <1>2, <2>2 DEF CloserMoves, CloseError, CloseBlock, CloseIncr, ClosePing, CloseEscape, CloseLeave, CloseConn
  <2>4. PICK l \in {"blk", "incr", "cas"} : Goto(k, l)
    BY <1>2, <1>z, <2>2, <2>3 DEF CloserMoves, CloseError, CloseBlock, CloseIncr, ClosePing, CloseEscape, CloseLeave, CloseConn
  <2> QED
    BY <1>g, <2>1, <2>3, <2>4
<1>3. ASSUME NEW a \in Actors, Put(a) \/ PingMoves(a)
      PROVE  /\ \A c \in Callers : pc'[c] \notin {"decr", "late"}
             /\ \A k \in Closers : pc'[k] \in {"idle", "blk", "incr", "cas"}
  <2>1. state' = state
    BY <1>3 DEF Put, PingMoves, DecrPing
  <2>2. a \in Callers /\ Put(a)
    BY <1>3, <1>z, <2>1 DEF Put, PingMoves, DecrPing, Actors
  <2>3. a \notin Closers
    BY <2>2, ActorAssumption
  <2> QED
    BY <1>g, <2>1, <2>2, <2>3 DEF Put
<1>4. CASE Writer
  <2>1. state = 0 /\ wpc # "off"
    BY <1>4, <1>x, <1>e DEF Writer, NextWriteCmd, WaitForWrite, WriteCmd, WriteExit, CloseDone
  <2> QED
    BY <1>z, <2>1
<1>5. CASE Background
  <2>1. rpc = "skip" => err \in Errors
    BY DEF StateInv, ErrInv, SharedType
  <2>2. state = 0 /\ rpc # "off"
    BY <1>5, <1>x, <1>e, <2>1, Values
       DEF Background, ReadFirst, ReadMore, Send, ReadFail, AbortHalf, ReadExit, SkipReadWrite, Select, Drain, Answer, Finish
  <2> QED
    BY <1>z, <2>2
<1>6. CASE Outside
  BY <1>6, <1>x, <1>e, <1>z DEF Outside, PeerBreak, TimerExit, vars
<1> QED
  BY <1>1, <1>2, <1>3, <1>4, <1>5, <1>6, StepIs

-----------------------------------------------------------------------------
(* The queue and those who wait for a result. *)

\* What leaves the queue, the reader's item and the waiting actors alone.
LEMMA QueueStays ==
    ASSUME LoopType, QueueInv, UNCHANGED <<q, ritem>>, Holding' <=> Holding, \A a \in Actors : Awaits(a)' <=> Awaits(a)
    PROVE  QueueInv'
<1> USE DEF Awaits
<1>1. \A i \in 1..Len(q) : q[i].by \in Actors
  BY OwnerIs DEF LoopType
<1>2. Holding => ritem.by \in Actors
  BY DEF QueueInv, Entries
<1> QED
  BY <1>1, <1>2 DEF QueueInv

\* An actor that moves between steps at which it does not wait, or at which it waits.
LEMMA AwaitsStays ==
    ASSUME ActorType, NEW a \in Actors, NEW l, Goto(a, l), Awaits(a) <=> l \in {"recv", "abandoned"}
    PROVE  \A b \in Actors : Awaits(b)' <=> Awaits(b)
  BY GotoIs DEF Moved, Awaits

\* A put adds the actor, which did not wait.
LEMMA QueuePut ==
    ASSUME SharedType, ActorType, LocalType, LoopType, QueueInv, NEW a \in Actors, Put(a)
    PROVE  QueueInv'
<1> USE DEF Awaits
<1>1. PICK m \in Nat : q' = Append(q, [by |-> a, n |-> m])
  BY QueueGrows DEF SharedType
<1>2. PICK e \in Entries : e = [by |-> a, n |-> m] /\ e.by = a
  BY EntryIs
<1>3. q \in Seq(Entries) /\ q' = Append(q, e)
  BY <1>1, <1>2 DEF LoopType
<1>4. PICK n \in Nat : /\ n = Len(q) /\ n + 1 = Len(q') /\ q'[n + 1] = e /\ \A i \in 1..n : q'[i] = q[i]
                       /\ \A i \in 1..(n + 1) : i \in 1..n \/ i = n + 1
  BY SMTT(30), <1>3, AppendIs
<1>5. n + 1 \in 1..(n + 1) /\ n + 1 \notin 1..n /\ 1..n \subseteq 1..(n + 1)
  BY SMTT(30), <1>4
<1>6. Moved(a, "recv") /\ pc[a] = "put" /\ UNCHANGED <<ritem, rpc>>
  BY GotoIs DEF Put, readerVars
<1>7. Awaits(a)' /\ ~Awaits(a) /\ \A b \in Actors : b # a => (Awaits(b)' <=> Awaits(b))
  BY <1>6 DEF Moved, Awaits
<1>8. \A i \in 1..n : Awaits(q[i].by) /\ q[i].by # a /\ q[i].by \in Actors
  <2>1. \A i \in 1..n : q[i].by \in Actors
    BY <1>3, <1>4, OwnerIs
  <2> QED
    BY <1>4, <1>7, <2>1 DEF QueueInv
<1>9. Holding' <=> Holding
  BY <1>6 DEF Holding
<1>10. Holding => ritem \in Entries /\ Awaits(ritem.by) /\ ritem.by # a /\ ritem.by \in Actors /\ \A i \in 1..n : q[i].by # ritem.by
  BY <1>4, <1>7 DEF QueueInv, Entries
<1>o. \A i \in 1..(n + 1) : (i \in 1..n /\ q'[i].by = q[i].by) \/ (i = n + 1 /\ q'[i].by = a)
  BY <1>2, <1>4
<1>11. Holding => ritem \in Entries /\ pc'[ritem.by] \in {"recv", "abandoned"} /\ \A i \in 1..(n + 1) : q'[i].by # ritem.by
  BY <1>7, <1>10, <1>o
<1>12. \A i \in 1..(n + 1) : pc'[q'[i].by] \in {"recv", "abandoned"} /\ \A j \in 1..(n + 1) : q'[i].by = q'[j].by => i = j
  <2>1. \A i \in 1..n : \A j \in 1..n : q[i].by = q[j].by => i = j
    BY <1>4 DEF QueueInv
  <2>2. ASSUME NEW i \in 1..(n + 1) PROVE pc'[q'[i].by] \in {"recv", "abandoned"}
    BY <1>7, <1>8, <1>o
  <2>3. ASSUME NEW i \in 1..(n + 1), NEW j \in 1..(n + 1), q'[i].by = q'[j].by PROVE i = j
    BY <1>8, <1>o, <2>1, <2>3
  <2> QED
    BY <2>2, <2>3
<1>13. \A b \in Actors : pc'[b] \in {"recv", "abandoned"} => (Holding /\ ritem.by = b) \/ \E i \in 1..(n + 1) : q'[i].by = b
  <2>1. \A b \in Actors : Awaits(b) => (Holding /\ ritem.by = b) \/ \E i \in 1..n : q[i].by = b
    BY <1>4 DEF QueueInv
  <2>2. \A i \in 1..n : i \in 1..(n + 1) /\ q'[i].by = q[i].by
    BY <1>4, <1>5
  <2>3. n + 1 \in 1..(n + 1) /\ q'[n + 1].by = a
    BY <1>2, <1>4, <1>5
  <2>4. ASSUME NEW b \in Actors, pc'[b] \in {"recv", "abandoned"}, ~(Holding /\ ritem.by = b)
        PROVE  \E i \in 1..(n + 1) : q'[i].by = b
    <3>1. CASE b = a
      BY <2>3, <3>1
    <3>2. CASE b # a
      <4>1. PICK i \in 1..n : q[i].by = b
        BY <1>7, <2>1, <2>4, <3>2
      <4> QED
        BY <2>2, <4>1
    <3> QED
      BY <3>1, <3>2
  <2> QED
    BY <2>4
<1>14. Len(q') = n + 1 /\ ritem' = ritem
  BY <1>4, <1>6
<1> QED
  BY <1>9, <1>11, <1>12, <1>13, <1>14 DEF QueueInv

\* The reader or the drain loop takes the first item.
LEMMA QueueTake ==
    ASSUME LoopType, QueueInv, ~Holding, q # <<>>, TakeResult, Holding', UNCHANGED pc
    PROVE  QueueInv'
<1> USE DEF Awaits
<1>1. q \in Seq(Entries) /\ q' = Tail(q) /\ ritem' = Head(q)
  BY DEF LoopType, TakeResult
<1>2. PICK n \in Nat : /\ n + 1 = Len(q) /\ n = Len(q') /\ ritem' = q[1] /\ q[1] \in Entries
                       /\ \A i \in 1..n : q'[i] = q[i + 1] /\ i + 1 \in 1..Len(q)
  <2>1. /\ Head(q) = q[1] /\ Head(q) \in Entries /\ Len(q') \in Nat /\ Len(q') = Len(q) - 1 /\ Len(q) \in Nat
        /\ \A i \in 1..Len(q') : q'[i] = q[i + 1] /\ i + 1 \in 1..Len(q)
    BY SMTT(30), <1>1, TailIs
  <2>2. Len(q') + 1 = Len(q)
    BY SMTT(30), <2>1
  <2> QED
    BY <1>1, <2>1, <2>2
<1>3. /\ 1 \in 1..Len(q)
      /\ \A i \in 1..n : i + 1 # 1
      /\ \A i \in 1..n, j \in 1..n : i + 1 = j + 1 => i = j
      /\ \A i \in 1..Len(q) : i = 1 \/ \E j \in 1..n : i = j + 1
  <2>1. \A i \in 1..(n + 1) : i = 1 \/ (i - 1 \in 1..n /\ i = (i - 1) + 1)
    BY SMTT(30)
  <2>2. 1 \in 1..(n + 1) /\ (\A i \in 1..n : i + 1 # 1) /\ \A i \in 1..n, j \in 1..n : i + 1 = j + 1 => i = j
    BY SMTT(30)
  <2> QED
    BY <1>2, <2>1, <2>2
<1>4. \A i \in 1..Len(q) : pc[q[i].by] \in {"recv", "abandoned"} /\ \A j \in 1..Len(q) : q[i].by = q[j].by => i = j
  BY DEF QueueInv
<1>5. \A i \in 1..n : i + 1 \in 1..Len(q) /\ q'[i].by = q[i + 1].by
  BY <1>2
<1>6. q[1].by = ritem'.by /\ pc'[ritem'.by] \in {"recv", "abandoned"} /\ \A i \in 1..n : q'[i].by # q[1].by
  <2>1. ASSUME NEW i \in 1..n, q'[i].by = q[1].by PROVE FALSE
    <3>1. q[i + 1].by = q[1].by /\ i + 1 \in 1..Len(q) /\ 1 \in 1..Len(q)
      BY <1>3, <1>5, <2>1
    <3>2. i + 1 = 1
      BY <1>4, <3>1
    <3> QED
      BY <1>3, <3>2
  <2>2. q[1].by = ritem'.by
    BY <1>2
  <2>3. pc[q[1].by] \in {"recv", "abandoned"}
    BY <1>3, <1>4
  <2> QED
    BY <2>1, <2>2, <2>3
<1>7. \A i \in 1..n : pc'[q'[i].by] \in {"recv", "abandoned"} /\ \A j \in 1..n : q'[i].by = q'[j].by => i = j
  <2>1. ASSUME NEW i \in 1..n PROVE pc'[q'[i].by] \in {"recv", "abandoned"}
    BY <1>4, <1>5
  <2>2. ASSUME NEW i \in 1..n, NEW j \in 1..n, q'[i].by = q'[j].by PROVE i = j
    <3>1. q[i + 1].by = q[j + 1].by /\ i + 1 \in 1..Len(q) /\ j + 1 \in 1..Len(q)
      BY <1>5, <2>2
    <3> QED
      BY <1>3, <1>4, <3>1
  <2> QED
    BY <2>1, <2>2
<1>8. \A b \in Actors : pc'[b] \in {"recv", "abandoned"} => q[1].by = b \/ \E i \in 1..n : q'[i].by = b
  <2>1. ASSUME NEW b \in Actors, pc'[b] \in {"recv", "abandoned"}, q[1].by # b PROVE \E i \in 1..n : q'[i].by = b
    <3>1. PICK i \in 1..Len(q) : q[i].by = b
      BY <2>1 DEF QueueInv
    <3>2. PICK j \in 1..n : i = j + 1
      BY <1>3, <2>1, <3>1
    <3> QED
      BY <1>5, <3>1, <3>2
  <2> QED
    BY <2>1
<1>9. Len(q') = n /\ ritem' \in Entries
  BY <1>2
<1> QED
  BY <1>6, <1>7, <1>8, <1>9 DEF QueueInv

\* The actor that the reader's item belongs to has its result.
LEMMA QueueAnswered ==
    ASSUME ActorType, LoopType, QueueInv, Holding, NEW r, Deliver(r), q' = q, ~Holding'
    PROVE  QueueInv'
<1> USE DEF Awaits
<1>1. PICK a \in Actors : a = ritem.by
  BY DEF QueueInv, Entries
<1>2. PICK l \in {"decr", "late", "decrping"} : Moved(a, l)
  <2>1. \E l \in {"decr", "late", "decrping"} : Goto(a, l)
    BY <1>1, DeliverIs DEF Actors
  <2> QED
    BY <2>1, GotoIs
<1>3. pc'[a] \notin {"recv", "abandoned"} /\ \A b \in Actors : b # a => pc'[b] = pc[b]
  BY <1>2 DEF Moved
<1>4. \A i \in 1..Len(q) : q[i].by \in Actors
  BY OwnerIs DEF LoopType
<1>5. \A i \in 1..Len(q) : pc'[q[i].by] \in {"recv", "abandoned"} /\ \A j \in 1..Len(q) : q[i].by = q[j].by => i = j
  BY <1>1, <1>3, <1>4 DEF QueueInv
<1>6. \A b \in Actors : pc'[b] \in {"recv", "abandoned"} => \E i \in 1..Len(q) : q[i].by = b
  BY <1>1, <1>3 DEF QueueInv
<1> QED
  BY <1>5, <1>6 DEF QueueInv

\* The queue and the reader's item hold exactly the calls and the PINGs that wait for a result, each once.
LEMMA QueueHolds ==
    ASSUME SharedType, ActorType, LocalType, LoopType, QueueInv, StateInv, WireInv, [Next]_vars
    PROVE  QueueInv'
<1> USE DEF shared, queue, locals, writerVars, wire, readerVars
<1>r. UNCHANGED rpc => (Holding' <=> Holding)
  BY DEF Holding
<1>b. \A b \in BOOLEAN : StartBackground(b) => (Holding' <=> Holding)
  BY DEF StartBackground, Holding, StateInv, WorkerInv
<1>u. ASSUME UNCHANGED <<q, ritem, pc>>, Holding' <=> Holding
      PROVE  QueueInv'
  BY <1>u, QueueStays DEF Awaits
<1>g. ASSUME NEW a \in Actors, NEW l, Goto(a, l), UNCHANGED <<q, ritem>>, Holding' <=> Holding,
             pc[a] \in {"recv", "abandoned"} <=> l \in {"recv", "abandoned"}
      PROVE  QueueInv'
  <2>1. Awaits(a) <=> l \in {"recv", "abandoned"}
    BY <1>g DEF Awaits
  <2> QED
    BY <1>g, <2>1, AwaitsStays, QueueStays
<1>1. ASSUME NEW c \in Callers, CallerMoves(c)
      PROVE  QueueInv'
  <2>0. c \in Actors
    BY DEF Actors
  <2>1. CASE DecrWaits(c)
    <3>1. PICK l \in {"left", "return"} : Goto(c, l)
      BY <2>1 DEF DecrWaits
    <3> QED
      BY <1>g, <1>r, <2>0, <2>1, <3>1 DEF DecrWaits
  <2>2. CASE BackgroundThenPut(c) \/ FailSync(c) \/ BackgroundForOthers(c)
    BY <1>g, <1>b, <2>0, <2>2 DEF BackgroundThenPut, FailSync, BackgroundForOthers
  <2>3. CASE Call(c) \/ IncrWaits(c) \/ LoadState(c) \/ SyncDo(c) \/ SyncFail(c)
    BY <1>g, <1>r, <2>0, <2>3 DEF Call, IncrWaits, LoadState, Rejected, SyncDo, SyncFail
  <2>4. CASE Return(c) \/ Late(c) \/ PutGaveUp(c) \/ Abort(c)
    BY <1>g, <1>r, <2>0, <2>4 DEF Return, Late, PutGaveUp, Abort
  <2> QED
    BY <1>1, <2>1, <2>2, <2>3, <2>4 DEF CallerMoves
<1>2. ASSUME NEW k \in Closers, CloserMoves(k)
      PROVE  QueueInv'
  <2>0. k \in Actors
    BY DEF Actors
  <2>1. CASE CloseBackground(k)
    BY <1>g, <1>b, <2>0, <2>1 DEF CloseBackground
  <2>2. CASE CloseSwap(k)
    <3>1. PICK l \in {"bg", "ping", "leave"} : Goto(k, l)
      BY <2>2, SwapIs
    <3> QED
      BY <1>g, <1>r, <2>0, <2>2, <3>1 DEF CloseSwap
  <2>3. CASE CloseEscape(k)
    BY <1>u, <1>r, <2>3 DEF CloseEscape
  <2>4. CASE CloseError(k) \/ CloseBlock(k) \/ CloseIncr(k) \/ ClosePing(k) \/ CloseLeave(k) \/ CloseConn(k)
    BY <1>g, <1>r, <2>0, <2>4 DEF CloseError, CloseBlock, CloseIncr, ClosePing, CloseLeave, CloseConn
  <2> QED
    BY <1>2, <2>1, <2>2, <2>3, <2>4 DEF CloserMoves
<1>3. ASSUME NEW a \in Actors, Put(a) \/ PingMoves(a)
      PROVE  QueueInv'
  <2>1. CASE PingMoves(a)
    <3>1. PICK l \in {"done", "leave"} : Goto(a, l)
      BY <2>1 DEF PingMoves, DecrPing
    <3> QED
      BY <1>g, <1>r, <2>1, <3>1 DEF PingMoves, DecrPing
  <2> QED
    BY <1>3, <2>1, QueuePut
<1>4. CASE Writer
  BY <1>4, <1>u, <1>r DEF Writer, NextWriteCmd, WaitForWrite, WriteCmd, WriteExit, CloseDone
<1>5. CASE Background
  <2>1. CASE ReadFirst
    BY <2>1, ReaderFinds, QueueTake DEF ReadFirst, Holding
  <2>2. CASE Drain
    <3>1. CASE waits = 0
      BY <1>u, <2>2, <3>1 DEF Drain, Holding
    <3>2. CASE waits # 0
      BY <2>2, <3>2, QueueTake DEF Drain, Holding
    <3> QED
      BY <3>1, <3>2
  <2>3. CASE Send \/ AbortHalf \/ Answer
    <3>1. Holding /\ ~Holding' /\ q' = q
      BY <2>3 DEF Send, AbortHalf, Answer, Holding
    <3>2. PICK r : Deliver(r)
      BY <2>3 DEF Send, AbortHalf, Answer
    <3> QED
      BY <3>1, <3>2, QueueAnswered
  <2>4. CASE Select
    <3>0. Holding' <=> Holding
      BY <2>4 DEF Select, Holding
    <3>1. CASE done
      BY <1>u, <2>4, <3>0, <3>1 DEF Select
    <3>2. CASE ~done
      <4>1. Goto(Bg, "put") /\ Bg \in Actors /\ pc[Bg] = "idle"
        BY <2>4, <3>2 DEF Select, Actors, StateInv, WorkerInv
      <4> QED
        BY <1>g, <2>4, <3>0, <4>1 DEF Select
    <3> QED
      BY <3>1, <3>2
  <2>5. CASE ReadMore \/ ReadFail \/ ReadExit \/ SkipReadWrite \/ Finish
    <3>1. Holding' <=> Holding
      BY <2>5 DEF ReadMore, ReadFail, ReadExit, SkipReadWrite, Finish, Holding
    <3> QED
      BY <1>u, <2>5, <3>1 DEF ReadMore, ReadFail, ReadExit, SkipReadWrite, Finish
  <2> QED
    BY <1>5, <2>1, <2>2, <2>3, <2>4, <2>5 DEF Background
<1>6. CASE Outside
  BY <1>6, <1>u, <1>r DEF Outside, PeerBreak, TimerExit, vars
<1> QED
  BY <1>1, <1>2, <1>3, <1>4, <1>5, <1>6, StepIs

-----------------------------------------------------------------------------
(* The commands on the way. *)

\* What leaves the items taken as they are and the wire no fuller.
LEMMA WireStays ==
    ASSUME LoopType, LoopType', WireInv, taken' = taken, \A i \in 1..taken : q'[i] = q[i],
           rpc \in {"read", "more", "send"}, Owing' = Owing, Owing \in Int,
           sent' + buf' + Held' <= sent + buf + Held, Held \in Nat, Held' \in Nat
    PROVE  WireInv'
<1>1. PICK f \in [0..taken -> Int] : Sums(f)
  BY DEF WireInv
<1>2. f[taken] \in Int /\ sent + buf + Held <= f[taken] + Owing
  BY SMTT(30), <1>1 DEF Sums, LoopType
<1>3. sent' + buf' + Held' <= f[taken] + Owing'
  <2>1. sent \in Nat /\ buf \in Nat /\ sent' \in Nat /\ buf' \in Nat
    BY DEF LoopType
  <2>2. sent + buf + Held \in Int /\ sent' + buf' + Held' \in Int
    BY <2>1, Arithmetic
  <2>3. f[taken] + Owing \in Int
    BY <1>2, Arithmetic
  <2> QED
    BY <1>2, <2>2, <2>3, Arithmetic
<1>4. Sums(f)'
  BY <1>1, <1>3 DEF Sums
<1> QED
  BY <1>4 DEF WireInv

\* The writer takes an item: it has its commands in hand.
LEMMA WireTaken ==
    ASSUME LoopType, WireInv, taken < Len(q), taken' = taken + 1, witem' = q[taken + 1], wpc' = "write", wpc # "write",
           UNCHANGED <<q, buf, sent, rpc, ritem, ff>>, rpc \in {"read", "more", "send"}, Owing \in Int
    PROVE  WireInv'
<1>1. PICK f \in [0..taken -> Int] : Sums(f)
  BY DEF WireInv
<1>2. PICK m \in Nat, t \in Nat : m = q[taken + 1].n /\ t = taken
  <2>1. q[taken + 1].n \in Nat
    BY WriterTakes, OwnerIs
  <2>2. taken \in Nat
    BY SMTT(30) DEF LoopType
  <2> QED
    BY <2>1, <2>2
<1>3. PICK x \in Int : x = f[t]
  BY SMTT(30), <1>2
<1>4. PICK g : g = [i \in 0..(t + 1) |-> IF i = t + 1 THEN x + m ELSE f[i]]
  OBVIOUS
<1>5. g \in [0..(t + 1) -> Int] /\ g[t + 1] = x + m /\ \A i \in 0..t : g[i] = f[i]
  BY SMTT(30), <1>1, <1>2, <1>4
<1>6. f[0] = 0 /\ (\A i \in 1..t : f[i] = f[i - 1] + q[i].n) /\ sent + buf + Held <= x + Owing
  BY <1>1, <1>2, <1>3 DEF Sums
<1>7. g[0] = 0
  BY SMTT(30), <1>5, <1>6
<1>8. ASSUME NEW i \in 1..(t + 1) PROVE g[i] = g[i - 1] + q[i].n
  <2>1. CASE i = t + 1
    <3>1. i - 1 = t /\ t \in 0..t
      BY SMTT(30), <2>1
    <3> QED
      BY <1>2, <1>3, <1>5, <2>1, <3>1
  <2>2. CASE i # t + 1
    <3>1. i \in 1..t /\ i \in 0..t /\ i - 1 \in 0..t
      BY SMTT(30), <2>2
    <3> QED
      BY <1>5, <1>6, <3>1
  <2> QED
    BY <2>1, <2>2
<1>9. Held = 0 /\ Held' = m /\ Owing' = Owing
  BY <1>2 DEF Held, Owing
<1>10. sent' + buf' + Held' <= g[t + 1] + Owing'
  <2>1. sent \in Nat /\ buf \in Nat
    BY DEF LoopType
  <2>2. sent + buf + 0 <= x + Owing
    BY <1>6, <1>9
  <2>3. sent + buf + m <= (x + m) + Owing
    BY SMTT(30), <2>1, <2>2
  <2> QED
    BY <1>5, <1>9, <2>3
<1> QED
  BY <1>2, <1>5, <1>7, <1>8, <1>10 DEF WireInv, Sums

\* The reader takes the item of the first reply.
LEMMA WireRead ==
    ASSUME LoopType, LoopType', WireInv, ReadFirst
    PROVE  WireInv'
<1>1. PICK f \in [0..taken -> Int] : Sums(f)
  BY DEF WireInv, ReadFirst
<1>2. taken > 0 /\ q # <<>>
  BY ReaderFinds DEF ReadFirst
<1>3. /\ q' = Tail(q) /\ ritem' = Head(q) /\ taken' = taken - 1 /\ ff' = 1 /\ sent' = sent - 1
      /\ rpc = "read" /\ rpc' = (IF Head(q).n = 1 THEN "send" ELSE "more") /\ UNCHANGED <<buf, wpc, witem>>
  BY DEF ReadFirst, TakeResult, writerVars
<1>4. PICK t \in Nat : t + 1 = taken /\ t = taken'
  BY SMTT(30), <1>2, <1>3 DEF LoopType
<1>5. Head(q) = q[1] /\ Head(q) \in Entries /\ \A i \in 1..Len(q') : q'[i] = q[i + 1]
  BY SMTT(30), <1>2, <1>3, TailIs DEF LoopType
<1>6. PICK m \in Nat : m = q[1].n
  BY <1>5, OwnerIs
<1>7. PICK g : g = [i \in 0..t |-> f[i + 1] - m]
  OBVIOUS
<1>8. g \in [0..t -> Int] /\ \A i \in 0..t : g[i] = f[i + 1] - m /\ i + 1 \in 0..(t + 1) /\ f[i + 1] \in Int
  <2>1. \A i \in 0..t : i + 1 \in 0..(t + 1)
    BY SMTT(30)
  <2>2. \A i \in 0..t : f[i + 1] \in Int
    BY <1>4, <2>1
  <2>3. \A x \in Int : x - m \in Int
    BY SMTT(30)
  <2> QED
    BY <1>7, <2>1, <2>2, <2>3
<1>9. f[0] = 0 /\ (\A i \in 1..(t + 1) : f[i] = f[i - 1] + q[i].n) /\ sent + buf + Held <= f[t + 1] + Owing
  BY <1>1, <1>4 DEF Sums
<1>10. g[0] = 0
  <2>1. f[1] = f[0] + m
    <3>1. 1 \in 1..(t + 1) /\ 1 - 1 = 0
      BY SMTT(30)
    <3> QED
      BY <1>6, <1>9, <3>1
  <2>2. g[0] = f[1] - m
    BY SMTT(30), <1>8
  <2> QED
    BY SMTT(30), <1>9, <2>1, <2>2
<1>11. ASSUME NEW i \in 1..t PROVE g[i] = g[i - 1] + q'[i].n
  <2>1. i \in 0..t /\ i - 1 \in 0..t /\ i + 1 \in 1..(t + 1) /\ (i + 1) - 1 = i /\ (i - 1) + 1 = i /\ i \in 1..Len(q') /\ i \in 0..(t + 1)
    <3>1. t \in 0..Len(q')
      BY <1>4 DEF LoopType
    <3>2. Len(q') \in Nat
      BY SMTT(30) DEF LoopType
    <3> QED
      BY SMTT(30), <3>1, <3>2
  <2>2. PICK y \in Int, z \in Int : y = f[i] /\ z = f[i + 1]
    BY <1>1, <1>4, <1>8, <2>1
  <2>3. g[i] = z - m /\ g[i - 1] = y - m
    BY <1>8, <2>1, <2>2
  <2>4. PICK w \in Nat : w = q[i + 1].n /\ w = q'[i].n
    BY <1>5, <2>1, OwnerIs DEF LoopType
  <2>5. z = y + w
    BY <1>9, <2>1, <2>2, <2>4
  <2>6. z - m = (y - m) + w
    BY SMTT(30), <2>5
  <2> QED
    BY <2>3, <2>4, <2>6
<1>12. Owing = 0 /\ Owing' = m - 1
  <2>1. Owing = 0
    BY <1>3 DEF Owing
  <2>2. Owing' = IF m = 1 THEN 0 ELSE m - 1
    BY <1>3, <1>5, <1>6 DEF Owing
  <2> QED
    BY SMTT(30), <2>1, <2>2
<1>13. Held' = Held /\ Held \in Nat
  BY SMTT(30), <1>3, OwnerIs DEF Held, LoopType
<1>14. sent' + buf' + Held' <= g[t] + Owing'
  <2>1. sent \in Nat /\ buf \in Nat
    BY DEF LoopType
  <2>2. PICK h \in Nat, y \in Int : h = Held /\ y = f[t + 1]
    <3>1. t \in 0..t
      BY SMTT(30)
    <3> QED
      BY <1>8, <1>13, <3>1
  <2>3. g[t] = y - m
    BY SMTT(30), <1>8, <2>2
  <2>4. sent + buf + h <= y + 0
    BY <1>9, <1>12, <2>2
  <2>5. (sent - 1) + buf + h <= (y - m) + (m - 1)
    BY SMTT(30), <2>1, <2>4
  <2> QED
    BY <1>3, <1>12, <1>13, <2>2, <2>3, <2>5
<1> QED
  BY <1>4, <1>8, <1>10, <1>11, <1>14 DEF WireInv, Sums

\* No reply is on the wire for which the queue holds no item that was taken.
LEMMA WireHolds ==
    ASSUME SharedType, ActorType, LocalType, LoopType, LoopType', QueueInv, StateInv, WireInv, [Next]_vars
    PROVE  WireInv'
<1> USE DEF shared, queue, locals, writerVars, wire, readerVars
<1> SUFFICES ASSUME rpc' \in {"read", "more", "send"} PROVE WireInv'
  BY DEF WireInv
<1>t. sent \in Nat /\ buf \in Nat /\ sent' \in Nat /\ buf' \in Nat
  BY DEF LoopType
<1>h. Held \in Nat /\ Held' \in Nat
  <2>1. (wpc = "write" => witem.n \in Nat) /\ (wpc' = "write" => witem'.n \in Nat)
    BY OwnerIs DEF LoopType
  <2> QED
    BY SMTT(30), <2>1 DEF Held
<1>o. Owing \in Int
  <2>1. rpc = "more" => ritem.n \in Nat /\ ff \in Nat
    BY OwnerIs DEF QueueInv, LoopType, Holding
  <2> QED
    BY SMTT(30), <2>1 DEF Owing
<1>f. ASSUME NEW x \in Nat, NEW y \in Nat, NEW z \in Nat PROVE x + y + z <= x + y + z /\ 0 + y + z <= x + y + z
  BY SMTT(30)
<1>u. ASSUME UNCHANGED <<q, taken, wpc, witem, rpc, ritem, ff, buf>>, sent' \in {sent, 0}
      PROVE  WireInv'
  <2>1. Held' = Held /\ Owing' = Owing
    BY <1>u DEF Held, Owing
  <2>2. sent' + buf' + Held' <= sent + buf + Held
    BY <1>t, <1>h, <1>f, <1>u, <2>1
  <2> QED
    BY <1>h, <1>o, <1>u, <2>1, <2>2, WireStays
<1>s. ASSUME NEW b \in BOOLEAN, StartBackground(b), UNCHANGED <<q, taken, witem, ritem, ff, buf, sent>>
      PROVE  WireInv'
  <2>1. CASE bgState
    BY <1>s, <1>u, <2>1 DEF StartBackground
  <2>2. CASE ~bgState
    <3>1. taken' = 0 /\ buf' = 0 /\ sent' = 0 /\ rpc' = "read" /\ wpc' # "write"
      BY <1>s, <2>2 DEF StartBackground, StateInv, WorkerInv
    <3>2. Held' = 0 /\ Owing' = 0
      BY <3>1 DEF Held, Owing
    <3>3. PICK f : f = [i \in 0..0 |-> 0]
      OBVIOUS
    <3>4. f \in [0..0 -> Int] /\ f[0] = 0 /\ 1..0 = {} /\ 0 + 0 + 0 <= 0 + 0
      BY SMTT(30), <3>3
    <3> QED
      BY <3>1, <3>2, <3>4 DEF WireInv, Sums
  <2> QED
    BY <2>1, <2>2
<1>1. ASSUME NEW c \in Callers, CallerMoves(c)
      PROVE  WireInv'
  <2>1. CASE BackgroundThenPut(c) \/ FailSync(c) \/ BackgroundForOthers(c)
    BY <1>s, <2>1 DEF BackgroundThenPut, FailSync, BackgroundForOthers
  <2>2. CASE Call(c) \/ IncrWaits(c) \/ LoadState(c) \/ SyncDo(c) \/ SyncFail(c)
    BY <1>u, <2>2 DEF Call, IncrWaits, LoadState, SyncDo, SyncFail, Cut
  <2>3. CASE DecrWaits(c) \/ Return(c) \/ Late(c) \/ PutGaveUp(c) \/ Abort(c)
    BY <1>u, <2>3 DEF DecrWaits, Return, Late, PutGaveUp, Abort
  <2> QED
    BY <1>1, <2>1, <2>2, <2>3 DEF CallerMoves
<1>2. ASSUME NEW k \in Closers, CloserMoves(k)
      PROVE  WireInv'
  <2>1. CASE CloseBackground(k)
    BY <1>s, <2>1 DEF CloseBackground
  <2>2. CASE CloseError(k) \/ CloseBlock(k) \/ CloseIncr(k) \/ CloseSwap(k)
    BY <1>u, <2>2 DEF CloseError, CloseBlock, CloseIncr, CloseSwap
  <2>3. CASE ClosePing(k) \/ CloseEscape(k) \/ CloseLeave(k) \/ CloseConn(k)
    BY <1>u, <2>3 DEF ClosePing, CloseEscape, CloseLeave, CloseConn, Cut
  <2> QED
    BY <1>2, <2>1, <2>2, <2>3 DEF CloserMoves
<1>3. ASSUME NEW a \in Actors, Put(a) \/ PingMoves(a)
      PROVE  WireInv'
  <2>1. CASE Put(a)
    <3>1. \A i \in 1..taken : q'[i] = q[i]
      <4>1. PICK m \in Nat : q' = Append(q, [by |-> a, n |-> m])
        BY <2>1, QueueGrows DEF SharedType
      <4>2. PICK e \in Entries : e = [by |-> a, n |-> m]
        BY EntryIs
      <4>3. q \in Seq(Entries) /\ q' = Append(q, e) /\ taken \in 0..Len(q)
        BY <4>1, <4>2 DEF LoopType
      <4>4. \A i \in 1..Len(q) : q'[i] = q[i]
        BY SMTT(30), <4>3, AppendIs
      <4>5. \A i \in 1..taken : i \in 1..Len(q)
        BY SMTT(30), <4>3
      <4> QED
        BY <4>4, <4>5
    <3>2. UNCHANGED <<taken, wpc, witem, rpc, ritem, ff, buf, sent>>
      BY <2>1 DEF Put
    <3>3. Held' = Held /\ Owing' = Owing
      BY <3>2 DEF Held, Owing
    <3>4. sent' + buf' + Held' <= sent + buf + Held
      BY <1>t, <1>h, <1>f, <3>2, <3>3
    <3> QED
      BY <1>h, <1>o, <3>1, <3>2, <3>3, <3>4, WireStays
  <2>2. CASE PingMoves(a)
    BY <1>u, <2>2 DEF PingMoves, DecrPing
  <2> QED
    BY <1>3, <2>1, <2>2
<1>4. CASE Writer
  <2>1. UNCHANGED <<q, rpc, ritem, ff>> /\ Owing' = Owing
    BY <1>4 DEF Writer, NextWriteCmd, WaitForWrite, WriteCmd, WriteExit, CloseDone, Owing
  <2>2. ASSUME taken' = taken, sent' + buf' + Held' <= sent + buf + Held
        PROVE  WireInv'
    BY <1>h, <1>o, <2>1, <2>2, WireStays
  <2>3. ASSUME taken < Len(q), taken' = taken + 1, witem' = q[taken + 1], wpc' = "write", wpc # "write", UNCHANGED wire
        PROVE  WireInv'
    BY <1>o, <2>1, <2>3, WireTaken
  <2>4. CASE NextWriteCmd
    <3>1. CASE sent' = sent + buf /\ buf' = 0 /\ wpc' = "wait" /\ taken' = taken
      <4>1. Held = 0 /\ Held' = 0
        BY <2>4, <3>1 DEF NextWriteCmd, Held
      <4>2. (sent + buf) + 0 + 0 <= sent + buf + 0
        BY SMTT(30), <1>t
      <4> QED
        BY <2>2, <3>1, <4>1, <4>2
    <3>2. CASE wpc' = "exit" /\ taken' = taken /\ UNCHANGED wire
      <4>1. Held = 0 /\ Held' = 0
        BY <2>4, <3>2 DEF NextWriteCmd, Held
      <4> QED
        BY <1>t, <1>f, <1>h, <2>2, <3>2, <4>1
    <3> QED
      BY <2>3, <2>4, <3>1, <3>2 DEF NextWriteCmd
  <2>5. CASE WaitForWrite
    BY <2>3, <2>5 DEF WaitForWrite
  <2>6. CASE WriteCmd
    <3>1. PICK h \in Nat : h = Held
      BY <1>h
    <3>2. h = witem.n /\ Held' = 0 /\ taken' = taken
      BY <2>6, <3>1 DEF WriteCmd, Held
    <3>3. \/ buf' = buf + h /\ sent' = sent
          \/ sent' = sent + buf + h /\ buf' = 0
          \/ buf' = buf /\ sent' = sent
      BY <2>6, <3>2 DEF WriteCmd
    <3>4. sent' + buf' + 0 <= sent + buf + h
      <4>1. sent + (buf + h) + 0 <= sent + buf + h /\ (sent + buf + h) + 0 + 0 <= sent + buf + h /\ sent + buf + 0 <= sent + buf + h
        BY SMTT(30), <1>t
      <4> QED
        BY <3>3, <4>1
    <3> QED
      BY <2>2, <3>1, <3>2, <3>4
  <2>7. CASE WriteExit \/ CloseDone
    <3>1. Held = 0 /\ Held' = 0 /\ sent' \in {sent, 0} /\ buf' = buf /\ taken' = taken
      BY <2>7 DEF WriteExit, CloseDone, Held, Exit, Cut
    <3>2. 0 \in Nat
      BY SMTT(30)
    <3> QED
      BY <1>t, <1>f, <2>2, <3>1, <3>2
  <2> QED
    BY <1>4, <2>4, <2>5, <2>6, <2>7 DEF Writer
<1>5. CASE Background
  <2>1. CASE ReadMore
    <3>1. PICK m \in Nat : m = ritem.n
      BY <2>1, OwnerIs DEF ReadMore, QueueInv, Holding
    <3>2. PICK f \in [0..taken -> Int] : Sums(f)
      BY <2>1 DEF WireInv, ReadMore
    <3>3. PICK x \in Int, h \in Nat, o \in Int : x = f[taken] /\ h = Held /\ o = Owing
      <4>1. taken \in 0..taken
        BY SMTT(30) DEF LoopType
      <4> QED
        BY <1>h, <1>o, <4>1
    <3>4. o = m - ff /\ Owing' = m - (ff + 1) /\ ff \in Nat
      <4>1. o = m - ff
        BY <2>1, <3>1, <3>3 DEF ReadMore, Owing
      <4>2. Owing' = IF ff + 1 = m THEN 0 ELSE m - (ff + 1)
        BY <2>1, <3>1 DEF ReadMore, Owing
      <4>3. ff \in Nat
        BY DEF LoopType
      <4>4. Owing' = m - (ff + 1)
        BY SMTT(30), <4>2, <4>3
      <4> QED
        BY <4>1, <4>3, <4>4
    <3>5. sent' = sent - 1 /\ buf' = buf /\ Held' = h /\ UNCHANGED <<q, taken>>
      BY <2>1, <3>3 DEF ReadMore, Held
    <3>6. sent + buf + h <= x + o
      BY <3>2, <3>3 DEF Sums
    <3>7. (sent - 1) + buf + h <= x + (m - (ff + 1))
      BY SMTT(30), <1>t, <3>4, <3>6
    <3>8. Sums(f)'
      BY <3>2, <3>3, <3>4, <3>5, <3>7 DEF Sums
    <3> QED
      BY <3>5, <3>8 DEF WireInv
  <2>2. CASE Send
    <3>1. Owing' = Owing /\ Held' = Held /\ UNCHANGED <<q, taken, buf, sent>>
      BY <2>2 DEF Send, Owing, Held
    <3>2. sent' + buf' + Held' <= sent + buf + Held
      BY <1>t, <1>h, <1>f, <3>1
    <3> QED
      BY <1>h, <1>o, <2>2, <3>1, <3>2, WireStays DEF Send
  <2> QED
    BY <1>5, <2>1, <2>2, WireRead
       DEF Background, ReadFail, AbortHalf, ReadExit, SkipReadWrite, Select, Drain, Answer, Finish
<1>6. CASE Outside
  BY <1>u, <1>6 DEF Outside, PeerBreak, TimerExit, vars, Exit, Cut
<1> QED
  BY <1>1, <1>2, <1>3, <1>4, <1>5, <1>6, StepIs

-----------------------------------------------------------------------------
(* The end of the drain. *)

\* Once the drain loop has ended nobody puts into the queue.
LEMMA DrainEnds ==
    ASSUME SharedType, ActorType, CountTells, StateInv, DrainInv, QueueInv, [Next]_vars
    PROVE  DrainInv'
<1> USE DEF shared, queue, locals, writerVars, wire, readerVars
<1> DEFINE Coming == {"put", "recv", "abandoned", "bg", "ping"}
<1> SUFFICES ASSUME rpc' \in {"wait", "done"} PROVE \A a \in Actors : pc'[a] \notin Coming
  BY DEF DrainInv
<1>d. ASSUME rpc \in {"wait", "done"}
      PROVE  state # 0 /\ state # 1 /\ bgState /\ \A a \in Actors : pc[a] \notin Coming
  <2>1. state \in Stopping /\ \A a \in Actors : pc[a] \notin Coming
    BY <1>d DEF StateInv, WorkerInv, DrainInv
  <2>2. bgState
    BY <1>d DEF StateInv, WorkerInv
  <2> QED
    BY <2>1, <2>2, Values
<1>g. ASSUME rpc \in {"wait", "done"}, NEW a \in Actors, NEW l, Goto(a, l), l \notin Coming
      PROVE  \A b \in Actors : pc'[b] \notin Coming
  BY <1>d, <1>g, GotoIs DEF Moved
<1>s. \A b \in BOOLEAN : StartBackground(b) => rpc' = rpc
  BY DEF StartBackground
<1>1. ASSUME NEW c \in Callers, CallerMoves(c)
      PROVE  \A a \in Actors : pc'[a] \notin Coming
  <2>0. c \in Actors
    BY DEF Actors
  <2>1. rpc' = rpc
    BY <1>1, <1>s
       DEF CallerMoves, Call, IncrWaits, LoadState, BackgroundThenPut, SyncDo, SyncFail, FailSync, DecrWaits,
           BackgroundForOthers, Return, Late, PutGaveUp, Abort
  <2>2. rpc \in {"wait", "done"} /\ state # 0 /\ state # 1 /\ pc[c] \notin Coming
    BY <1>d, <2>0, <2>1
  <2>g. ASSUME NEW l, Goto(c, l), l \notin Coming PROVE \A a \in Actors : pc'[a] \notin Coming
    BY <1>g, <2>0, <2>2, <2>g
  <2>3. CASE DecrWaits(c)
    <3>1. PICK l \in {"left", "return"} : Goto(c, l)
      BY <2>3 DEF DecrWaits
    <3> QED
      BY <2>g, <3>1
  <2>4. CASE Call(c) \/ IncrWaits(c) \/ LoadState(c) \/ SyncDo(c) \/ SyncFail(c) \/ FailSync(c)
    BY <2>2, <2>4, <2>g DEF Call, IncrWaits, LoadState, Rejected, SyncDo, SyncFail, FailSync
  <2>5. CASE BackgroundThenPut(c) \/ BackgroundForOthers(c) \/ Return(c) \/ Late(c) \/ PutGaveUp(c) \/ Abort(c)
    BY <2>2, <2>5, <2>g DEF BackgroundThenPut, BackgroundForOthers, Return, Late, PutGaveUp, Abort
  <2> QED
    BY <1>1, <2>3, <2>4, <2>5 DEF CallerMoves
<1>2. ASSUME NEW k \in Closers, CloserMoves(k)
      PROVE  \A a \in Actors : pc'[a] \notin Coming
  <2>0. k \in Actors
    BY DEF Actors
  <2>1. rpc' = rpc
    BY <1>2, <1>s
       DEF CloserMoves, CloseError, CloseBlock, CloseIncr, CloseSwap, CloseBackground, ClosePing, CloseEscape, CloseLeave, CloseConn
  <2>2. rpc \in {"wait", "done"} /\ state # 0 /\ state # 1 /\ pc[k] \notin Coming
    BY <1>d, <2>0, <2>1
  <2>g. ASSUME NEW l, Goto(k, l), l \notin Coming PROVE \A a \in Actors : pc'[a] \notin Coming
    BY <1>g, <2>0, <2>2, <2>g
  <2>3. CASE CloseSwap(k)
    <3>1. PICK l \in {"bg", "ping", "leave"} : Goto(k, l) /\ (l = "bg" => state = 0) /\ (l = "ping" => state = 1 \/ state = 0)
      BY <2>3, SwapIs
    <3> QED
      BY <2>2, <2>g, <3>1
  <2>4. CASE CloseError(k) \/ CloseBlock(k) \/ CloseIncr(k) \/ CloseLeave(k) \/ CloseConn(k)
    BY <2>g, <2>4 DEF CloseError, CloseBlock, CloseIncr, CloseLeave, CloseConn
  <2>5. CASE CloseBackground(k) \/ ClosePing(k) \/ CloseEscape(k)
    BY <2>2, <2>5 DEF CloseBackground, ClosePing, CloseEscape
  <2> QED
    BY <1>2, <2>3, <2>4, <2>5 DEF CloserMoves
<1>3. ASSUME NEW a \in Actors, Put(a) \/ PingMoves(a)
      PROVE  \A b \in Actors : pc'[b] \notin Coming
  <2>1. rpc \in {"wait", "done"}
    BY <1>3 DEF Put, PingMoves, DecrPing
  <2>2. PICK l \in {"done", "leave"} : Goto(a, l)
    BY <1>3, <1>d, <2>1 DEF Put, PingMoves, DecrPing
  <2> QED
    BY <1>g, <2>1, <2>2
<1>4. CASE Writer
  BY <1>4, <1>d DEF Writer, NextWriteCmd, WaitForWrite, WriteCmd, WriteExit, CloseDone
<1>5. CASE Background
  <2>1. (Drain /\ waits = 0) \/ Finish
    BY <1>5 DEF Background, ReadFirst, ReadMore, Send, ReadFail, AbortHalf, ReadExit, SkipReadWrite, Select, Drain, Answer
  <2>2. UNCHANGED pc
    BY <2>1 DEF Drain, Finish
  <2>3. Coming \subseteq Counted
    BY DEF Counted
  <2>4. CASE Drain /\ waits = 0
    BY <2>2, <2>3, <2>4 DEF CountTells
  <2>5. CASE Finish
    BY <1>d, <2>2, <2>5 DEF Finish
  <2> QED
    BY <2>1, <2>4, <2>5
<1>6. CASE Outside
  BY <1>d, <1>6 DEF Outside, PeerBreak, TimerExit, vars
<1> QED
  BY <1>1, <1>2, <1>3, <1>4, <1>5, <1>6, StepIs

-----------------------------------------------------------------------------
(* The holder of the connection. *)

\* Who holds the connection, and who waits for a worker, after one actor moved.
LEMMA HolderMoves ==
    ASSUME ActorType, ActorType', NEW a \in Actors, NEW l, Goto(a, l), state' = state \/ state' # 0,
           \A b \in Callers \cup Closers : b # a => alone'[b] = alone[b]
    PROVE  /\ \A b \in Holders' : b # a => b \in Holders
           /\ \A b \in Stuck : b # a => b \in Stuck'
           /\ a \in Holders' <=> l \in {"bg", "sync", "fail", "syncdecr"} \/ (state' = 0 /\ l \in {"load", "cas"} /\ alone'[a])
           /\ a \in Stuck' <=> l \in {"put", "recv", "abandoned"} \/ (l \in {"load", "cas"} /\ ~alone'[a])
           /\ pc'[a] = l /\ \A b \in Actors : b # a => pc'[b] = pc[b]
<1>1. pc'[a] = l /\ \A b \in Actors : b # a => pc'[b] = pc[b]
  BY GotoIs DEF Moved
<1>2. pc[Bg] \notin {"load", "cas"} /\ pc'[Bg] \notin {"load", "cas"}
  BY DEF ActorType, PingSteps
<1>3. \A b \in Actors : b # a /\ pc[b] \in {"load", "cas"} => alone'[b] = alone[b]
  BY <1>2 DEF Actors
<1>4. \A b \in Holders' : b # a => b \in Holders
  BY <1>1, <1>3 DEF Holders, Alone
<1>5. \A b \in Stuck : b # a => b \in Stuck'
  BY <1>1, <1>3 DEF Stuck
<1>6. a \in Holders' <=> l \in {"bg", "sync", "fail", "syncdecr"} \/ (state' = 0 /\ l \in {"load", "cas"} /\ alone'[a])
  BY <1>1 DEF Holders, Alone
<1>7. a \in Stuck' <=> l \in {"put", "recv", "abandoned"} \/ (l \in {"load", "cas"} /\ ~alone'[a])
  BY <1>1 DEF Stuck
<1> QED
  BY <1>1, <1>4, <1>5, <1>6, <1>7

\* A step that makes nobody the holder.
LEMMA HolderStays ==
    ASSUME OneHolds, \A b \in Holders' : b \in Holders, \A c \in Callers : pc'[c] = "sync" => pc[c] = "sync",
           bgState' = bgState, \A c \in Callers : pc'[c] = "left" => pc[c] = "left",
           state' = 0 => state = 0 /\ \A b \in Stuck : b \in Stuck'
    PROVE  OneHolds'
  BY DEF OneHolds, Leaving

\* Without anybody counted nobody holds the connection or waits for a worker.
LEMMA NobodyHolds ==
    ASSUME CountTells, waits = 0
    PROVE  Holders = {} /\ Stuck = {} /\ \A c \in Callers : pc[c] # "sync"
<1>1. \A a \in Actors : pc[a] \notin Counted
  BY DEF CountTells
<1>2. {"bg", "sync", "fail", "syncdecr", "load", "cas", "put", "recv", "abandoned"} \subseteq Counted
  BY DEF Counted
<1>3. \A a : a \notin Holders
  BY <1>1, <1>2 DEF Holders, Alone
<1>4. \A a : a \notin Stuck
  BY <1>1, <1>2 DEF Stuck
<1>5. Holders = {} /\ Stuck = {}
  BY <1>3, <1>4
<1> QED
  BY <1>1, <1>2, <1>5 DEF Actors

\* The first to be counted is alone.
LEMMA HolderCounts ==
    ASSUME ActorType, ActorType', CountTells, OneHolds, NEW a \in Callers \cup Closers, NEW l \in {"load", "cas"},
           alone \in [Callers \cup Closers -> BOOLEAN],
           Goto(a, l), pc[a] = "incr", alone' = [alone EXCEPT ![a] = waits = 0], UNCHANGED <<state, bgState>>
    PROVE  OneHolds'
<1>1. a \in Actors /\ (\A b \in Callers \cup Closers : b # a => alone'[b] = alone[b]) /\ (alone'[a] <=> waits = 0)
  BY DEF Actors
<1>2. /\ \A b \in Holders' : b # a => b \in Holders
      /\ \A b \in Stuck : b # a => b \in Stuck'
      /\ a \in Holders' => alone'[a]
      /\ pc'[a] = l /\ \A b \in Actors : b # a => pc'[b] = pc[b]
  BY <1>1, HolderMoves
<1>3. a \notin Stuck
  BY DEF Stuck
<1>4. /\ \A c \in Callers : pc'[c] = "sync" => pc[c] = "sync"
      /\ \A c \in Callers : pc'[c] = "left" => pc[c] = "left"
  BY <1>2 DEF Actors
<1>5. CASE waits = 0
  <2>1. Holders = {} /\ Stuck = {} /\ \A c \in Callers : pc[c] # "sync"
    BY <1>5, NobodyHolds
  <2>2. \A b \in Holders' : b = a
    BY <1>2, <2>1
  <2>3. ~(state' = 0 /\ Leaving')
    BY <1>4, <2>1 DEF OneHolds, Leaving
  <2> QED
    BY <1>4, <2>1, <2>2, <2>3 DEF OneHolds
<1>6. CASE waits # 0
  <2>1. \A b \in Holders' : b \in Holders
    BY <1>1, <1>2, <1>6
  <2>2. \A b \in Stuck : b \in Stuck'
    BY <1>2, <1>3
  <2> QED
    BY <1>4, <2>1, <2>2, HolderStays
<1> QED
  BY <1>5, <1>6

\* Whoever starts the worker holds the connection or has just left it; so no synchronous call runs.
LEMMA HolderStarts ==
    ASSUME ActorType, ActorType', SharedType, OneHolds, NEW a \in Actors, NEW l \in {"put", "syncdecr", "return", "ping"}, Goto(a, l),
           NEW b \in BOOLEAN, StartBackground(b), UNCHANGED alone,
           a \in Holders \/ (a \in Callers /\ pc[a] = "left" /\ l # "syncdecr")
    PROVE  OneHolds'
<1>1. state' # 0
  BY Values DEF StartBackground
<1>2. /\ \A c \in Holders' : c # a => c \in Holders
      /\ a \in Holders' => l = "syncdecr"
      /\ pc'[a] = l /\ \A c \in Actors : c # a => pc'[c] = pc[c]
  BY <1>1, HolderMoves
<1>3. \A c \in Holders' : c \in Holders
  BY <1>2
<1>4. ASSUME NEW c \in Callers, pc'[c] = "sync" PROVE FALSE
  <2>1. c \in Actors /\ c # a /\ pc[c] = "sync"
    BY <1>2, <1>4 DEF Actors
  <2>2. c \in Holders /\ ~Leaving
    BY <2>1 DEF Holders, OneHolds
  <2> QED
    BY <2>1, <2>2 DEF OneHolds, Leaving
<1> QED
  BY <1>1, <1>3, <1>4 DEF OneHolds

\* LoadState: whoever was alone keeps the connection, the others wait for a worker.
LEMMA HolderLoads ==
    ASSUME SharedType, ActorType, ActorType', LocalType, StateInv, OneHolds, NEW c \in Callers, LoadState(c)
    PROVE  OneHolds'
<1>0. c \in Actors /\ pc[c] = "load" /\ UNCHANGED <<state, bgState>> /\ alone' = [alone EXCEPT ![c] = FALSE]
  BY DEF LoadState, Actors, shared
<1>1. \A b \in Callers \cup Closers : b # c => alone'[b] = alone[b]
  BY <1>0 DEF LocalType
<1>2. PICK l \in {"put", "bg", "sync", "decr"} :
         /\ Goto(c, l)
         /\ l = "put" => state = 1 \/ (state = 0 /\ ~alone[c])
         /\ l \in {"bg", "sync"} => state = 0 /\ alone[c]
         /\ l = "decr" => state > 1
  BY DEF LoadState, Rejected
<1>3. l = "decr" => state # 0
  BY <1>2, Values DEF SharedType
<1>4. /\ \A b \in Holders' : b # c => b \in Holders
      /\ \A b \in Stuck : b # c => b \in Stuck'
      /\ c \in Holders' <=> l \in {"bg", "sync"}
      /\ c \in Stuck' <=> l = "put"
      /\ pc'[c] = l /\ \A b \in Actors : b # c => pc'[b] = pc[b]
  BY <1>0, <1>1, <1>2, HolderMoves
<1>5. l \in {"bg", "sync"} => c \in Holders
  BY <1>0, <1>2 DEF Holders, Alone
<1>6. \A b \in Holders' : b \in Holders
  BY <1>4, <1>5
<1>7. \A d \in Callers : pc'[d] = "left" => pc[d] = "left"
  BY <1>2, <1>4 DEF Actors
<1>8. CASE l \in {"bg", "sync"}
  <2>1. state = 0 /\ c \in Holders
    BY <1>2, <1>5, <1>8
  <2>2. ~bgState /\ ~Leaving
    BY <2>1 DEF StateInv, WorkerInv, OneHolds
  <2>3. ~bgState' /\ ~Leaving'
    BY <1>0, <1>7, <2>2 DEF Leaving
  <2> QED
    BY <1>6, <2>3 DEF OneHolds
<1>9. CASE l \in {"put", "decr"}
  <2>1. \A d \in Callers : pc'[d] = "sync" => pc[d] = "sync"
    BY <1>4, <1>9 DEF Actors
  <2>2. state' = 0 => state = 0 /\ \A b \in Stuck : b \in Stuck'
    BY <1>0, <1>3, <1>4, <1>9
  <2> QED
    BY <1>0, <1>6, <1>7, <2>1, <2>2, HolderStays
<1> QED
  BY <1>2, <1>8, <1>9

\* decrWaitsAndIncrRecvs: when the holder leaves others behind, one of them waits for a worker.
LEMMA HolderLeaves ==
    ASSUME SharedType, ActorType, ActorType', CountTells, StateInv, OneHolds, NEW c \in Callers, DecrWaits(c)
    PROVE  OneHolds'
<1>0. /\ c \in Actors /\ pc[c] \in {"decr", "syncdecr"} /\ UNCHANGED <<state, bgState, alone>>
      /\ \A b \in Callers \cup Closers : b # c => alone'[b] = alone[b]
  BY DEF DecrWaits, Actors, locals
<1>1. PICK l \in {"left", "return"} : Goto(c, l) /\ (l = "left" => pc[c] = "syncdecr" /\ waits # 1)
  BY DEF DecrWaits
<1>2. /\ \A b \in Holders' : b # c => b \in Holders
      /\ \A b \in Stuck : b # c => b \in Stuck'
      /\ c \notin Holders'
      /\ pc'[c] = l /\ \A b \in Actors : b # c => pc'[b] = pc[b]
  BY <1>0, <1>1, HolderMoves
<1>3. \A b \in Holders' : b \in Holders /\ b # c
  BY <1>2
<1>4. \A b \in Stuck : b \in Stuck'
  BY <1>0, <1>2 DEF Stuck
<1>5. \A d \in Callers : pc'[d] = "sync" => pc[d] = "sync"
  BY <1>1, <1>2 DEF Actors
<1>6. CASE l = "return"
  BY <1>0, <1>1, <1>2, <1>3, <1>4, <1>5, <1>6, HolderStays DEF Actors
<1>7. CASE l = "left"
  <2>1. c \in Holders /\ c \in Once
    BY <1>0, <1>1, <1>7 DEF Holders, Once, Counted
  <2>2. Holders' = {}
    BY <1>3, <2>1 DEF OneHolds
  <2>3. ASSUME NEW d \in Callers, pc'[d] = "sync" PROVE FALSE
    <3>1. d \in Holders /\ d # c
      BY <1>1, <1>2, <1>5, <1>7, <2>3 DEF Holders, Actors
    <3> QED
      BY <2>1, <3>1 DEF OneHolds
  <2>4. ASSUME state = 0 PROVE Stuck' # {}
    <3>1. /\ \A k \in Closers : pc[k] \in {"idle", "blk", "incr", "cas"}
          /\ \A d \in Callers : pc[d] \notin {"decr", "late"}
          /\ pc[Bg] = "idle"
      BY <2>4, Values DEF StateInv, ZeroInv, WorkerInv
    <3>2. Twice = {}
      BY <3>1 DEF Twice
    <3>3. PICK b \in Once : b # c
      BY <1>1, <1>7, <2>1, <3>2 DEF CountTells
    <3>4. b \in Actors /\ pc[b] \in Counted /\ b \notin Holders
      BY <2>1, <3>3 DEF Once, OneHolds
    <3>5. pc[b] \notin {"bg", "sync", "fail", "syncdecr"} /\ (pc[b] \in {"load", "cas"} => ~alone[b])
      BY <2>4, <3>4 DEF Holders, Alone
    <3>6. CASE b \in Callers
      <4>1. pc[b] \in {"load", "put", "recv", "abandoned"}
        BY <3>1, <3>4, <3>5, <3>6 DEF ActorType, CallerSteps, Counted
      <4> QED
        BY <1>4, <3>4, <3>5, <4>1 DEF Stuck
    <3>7. CASE b \in Closers
      <4>1. pc[b] = "cas"
        BY <3>1, <3>4, <3>7 DEF Counted
      <4> QED
        BY <1>4, <3>4, <3>5, <4>1 DEF Stuck
    <3>8. b # Bg
      BY <3>1, <3>4 DEF Counted
    <3> QED
      BY <3>4, <3>6, <3>7, <3>8 DEF Actors
  <2> QED
    BY <1>0, <2>2, <2>3, <2>4 DEF OneHolds
<1> QED
  BY <1>1, <1>6, <1>7

\* Close: after its swaps the state is not 0, and only whoever was alone goes on to start a worker.
LEMMA HolderSwaps ==
    ASSUME SharedType, ActorType, ActorType', LocalType, OneHolds, NEW k \in Closers, CloseSwap(k)
    PROVE  OneHolds'
<1>0. /\ k \in Actors /\ pc[k] = "cas" /\ bgState' = bgState /\ state' = (IF state \in {0, 1} THEN 2 ELSE state)
      /\ alone' = [alone EXCEPT ![k] = FALSE]
  BY DEF CloseSwap, Actors
<1>1. state' # 0
  BY <1>0, Values
<1>2. \A b \in Callers \cup Closers : b # k => alone'[b] = alone[b]
  BY <1>0 DEF LocalType
<1>3. PICK l \in {"bg", "ping", "leave"} : Goto(k, l) /\ (l = "bg" => state = 0 /\ alone[k])
  BY SwapIs
<1>4. /\ \A b \in Holders' : b # k => b \in Holders
      /\ k \in Holders' => l = "bg"
      /\ pc'[k] = l /\ \A b \in Actors : b # k => pc'[b] = pc[b]
  BY <1>0, <1>1, <1>2, <1>3, HolderMoves
<1>5. \A b \in Holders' : b \in Holders
  BY <1>0, <1>3, <1>4 DEF Holders, Alone
<1>6. \A d \in Callers : (pc'[d] = "sync" => pc[d] = "sync") /\ (pc'[d] = "left" => pc[d] = "left")
  BY <1>3, <1>4 DEF Actors
<1> QED
  BY <1>0, <1>1, <1>5, <1>6, HolderStays

\* One goroutine at a time holds the connection.
LEMMA HolderHolds ==
    ASSUME SharedType, ActorType, ActorType', LocalType, CountTells, StateInv, QueueInv, HolderInv, [Next]_vars
    PROVE  HolderInv'
<1> USE DEF shared, queue, locals, writerVars, wire, readerVars
<1>t. set' = set
  BY SettingStays
<1> SUFFICES ASSUME ~set.givesUp PROVE OneHolds'
  BY <1>t DEF HolderInv
<1>h. OneHolds
  BY DEF HolderInv
<1>g. ASSUME NEW a \in Actors, NEW l, Goto(a, l), UNCHANGED <<state, bgState, alone>>, l \notin {"sync", "left", "load", "cas"},
             l \in {"bg", "fail", "syncdecr"} => pc[a] \in {"bg", "sync", "fail", "syncdecr"},
             state = 0 /\ pc[a] \in {"put", "recv", "abandoned"} => l \in {"put", "recv", "abandoned"}, pc[a] \notin {"load", "cas"}
      PROVE  OneHolds'
  <2>1. /\ \A b \in Holders' : b # a => b \in Holders
        /\ \A b \in Stuck : b # a => b \in Stuck'
        /\ a \in Holders' <=> l \in {"bg", "fail", "syncdecr"}
        /\ a \in Stuck' <=> l \in {"put", "recv", "abandoned"}
        /\ pc'[a] = l /\ \A b \in Actors : b # a => pc'[b] = pc[b]
    BY <1>g, HolderMoves
  <2>2. \A b \in Holders' : b \in Holders
    BY <1>g, <2>1 DEF Holders
  <2>3. state = 0 => \A b \in Stuck : b \in Stuck'
    BY <1>g, <2>1 DEF Stuck
  <2>4. \A d \in Callers : (pc'[d] = "sync" => pc[d] = "sync") /\ (pc'[d] = "left" => pc[d] = "left")
    BY <1>g, <2>1 DEF Actors
  <2> QED
    BY <1>g, <1>h, <2>2, <2>3, <2>4, HolderStays
<1>u. ASSUME UNCHANGED <<bgState, alone, pc>>, state' = state \/ (state # 0 /\ state' # 0)
      PROVE  OneHolds'
  <2>1. \A b \in Holders' : b \in Holders
    BY <1>u DEF Holders, Alone
  <2>2. \A b \in Stuck : b \in Stuck'
    BY <1>u DEF Stuck
  <2> QED
    BY <1>h, <1>u, <2>1, <2>2, HolderStays
<1>x. \A e \in Errors : Exit(e) => state' = state \/ (state # 0 /\ state' # 0)
  BY ExitKeeps, Values DEF Exit
<1>e. "broken" \in Errors
  BY DEF Errors
<1>1. ASSUME NEW c \in Callers, CallerMoves(c)
      PROVE  OneHolds'
  <2>0. c \in Actors /\ c \in Callers \cup Closers
    BY DEF Actors
  <2>1. CASE BackgroundThenPut(c) \/ FailSync(c) \/ BackgroundForOthers(c)
    <3>1. pc[c] \in {"bg", "fail"} => c \in Holders
      BY <2>0 DEF Holders
    <3>2. CASE BackgroundThenPut(c)
      BY <1>h, <2>0, <3>1, <3>2, HolderStarts DEF BackgroundThenPut
    <3>3. CASE FailSync(c)
      BY <1>h, <2>0, <3>1, <3>3, HolderStarts DEF FailSync
    <3>4. CASE BackgroundForOthers(c)
      BY <1>h, <2>0, <3>4, HolderStarts DEF BackgroundForOthers
    <3> QED
      BY <2>1, <3>2, <3>3, <3>4
  <2>2. CASE IncrWaits(c)
    BY <1>h, <2>0, <2>2, HolderCounts DEF IncrWaits, LocalType
  <2>3. CASE LoadState(c) \/ DecrWaits(c)
    BY <1>h, <2>3, HolderLoads, HolderLeaves
  <2>4. CASE Call(c) \/ SyncDo(c) \/ SyncFail(c)
    BY <1>g, <2>0, <2>4 DEF Call, SyncDo, SyncFail
  <2>5. CASE Return(c) \/ Late(c) \/ Abort(c)
    BY <1>g, <2>0, <2>5 DEF Return, Late, Abort
  <2>6. ~PutGaveUp(c)
    BY DEF PutGaveUp
  <2> QED
    BY <1>1, <2>1, <2>2, <2>3, <2>4, <2>5, <2>6 DEF CallerMoves
<1>2. ASSUME NEW k \in Closers, CloserMoves(k)
      PROVE  OneHolds'
  <2>0. k \in Actors /\ k \in Callers \cup Closers
    BY DEF Actors
  <2>1. CASE CloseBackground(k)
    <3>1. k \in Holders
      BY <2>0, <2>1 DEF Holders, CloseBackground
    <3> QED
      BY <1>h, <2>0, <2>1, <3>1, HolderStarts DEF CloseBackground
  <2>2. CASE CloseIncr(k)
    BY <1>h, <2>0, <2>2, HolderCounts DEF CloseIncr, LocalType
  <2>3. CASE CloseSwap(k)
    BY <1>h, <2>3, HolderSwaps
  <2>4. CASE CloseEscape(k)
    BY <1>u, <2>4 DEF CloseEscape
  <2>5. CASE CloseError(k) \/ CloseBlock(k) \/ ClosePing(k) \/ CloseLeave(k) \/ CloseConn(k)
    BY <1>g, <2>0, <2>5 DEF CloseError, CloseBlock, ClosePing, CloseLeave, CloseConn
  <2> QED
    BY <1>2, <2>1, <2>2, <2>3, <2>4, <2>5 DEF CloserMoves
<1>3. ASSUME NEW a \in Actors, Put(a) \/ PingMoves(a)
      PROVE  OneHolds'
  <2>1. CASE PingMoves(a)
    <3>1. PICK l \in {"done", "leave"} : Goto(a, l)
      BY <2>1 DEF PingMoves, DecrPing
    <3> QED
      BY <1>g, <2>1, <3>1 DEF PingMoves, DecrPing
  <2>2. CASE Put(a)
    BY <1>g, <2>2 DEF Put
  <2> QED
    BY <1>3, <2>1, <2>2
<1>4. CASE Writer
  <2>1. CASE WriteExit
    BY <1>u, <1>x, <1>e, <2>1 DEF WriteExit
  <2>2. CASE NextWriteCmd \/ WaitForWrite \/ WriteCmd \/ CloseDone
    BY <1>u, <2>2 DEF NextWriteCmd, WaitForWrite, WriteCmd, CloseDone
  <2> QED
    BY <1>4, <2>1, <2>2 DEF Writer
<1>5. CASE Background
  <2>1. CASE Send \/ AbortHalf \/ Answer
    <3>1. PICK r : Deliver(r)
      BY <2>1 DEF Send, AbortHalf, Answer
    <3>2. ritem.by \in Actors /\ state # 0
      BY <2>1 DEF Send, AbortHalf, Answer, QueueInv, Holding, Entries, StateInv, WorkerInv
    <3>3. PICK l \in {"decr", "late", "decrping"} : Goto(ritem.by, l) /\ pc[ritem.by] \in {"recv", "abandoned"}
      BY <3>1, <3>2, DeliverIs DEF Actors
    <3> QED
      BY <1>g, <2>1, <3>2, <3>3 DEF Send, AbortHalf, Answer
  <2>2. CASE Select
    <3>1. CASE done
      BY <1>u, <2>2, <3>1 DEF Select
    <3>2. CASE ~done
      <4>1. Goto(Bg, "put") /\ Bg \in Actors /\ pc[Bg] = "idle"
        BY <2>2, <3>2 DEF Select, Actors, StateInv, WorkerInv
      <4> QED
        BY <1>g, <2>2, <4>1 DEF Select
    <3> QED
      BY <3>1, <3>2
  <2>3. CASE ReadExit \/ SkipReadWrite
    <3>1. rpc = "skip" => err \in Errors
      BY DEF StateInv, ErrInv, SharedType
    <3> QED
      BY <1>u, <1>x, <1>e, <2>3, <3>1 DEF ReadExit, SkipReadWrite
  <2>4. CASE Finish
    <3>1. state # 0 /\ state' # 0
      BY <2>4, Values DEF Finish, StateInv, WorkerInv
    <3> QED
      BY <1>u, <2>4, <3>1 DEF Finish
  <2>5. CASE ReadFirst \/ ReadMore \/ ReadFail \/ Drain
    BY <1>u, <2>5 DEF ReadFirst, ReadMore, ReadFail, Drain
  <2> QED
    BY <1>5, <2>1, <2>2, <2>3, <2>4, <2>5 DEF Background
<1>6. CASE Outside
  <2>1. CASE TimerExit
    BY <1>u, <1>x, <1>e, <2>1 DEF TimerExit
  <2>2. CASE PeerBreak \/ UNCHANGED vars
    BY <1>u, <2>2 DEF PeerBreak, vars
  <2> QED
    BY <1>6, <2>1, <2>2 DEF Outside
<1> QED
  BY <1>1, <1>2, <1>3, <1>4, <1>5, <1>6, StepIs

-----------------------------------------------------------------------------
(* Close and the calls it waits for. *)

\* What leaves the queue and its reader alone.
LEMMA CloseStays ==
    ASSUME CloseOrder, UNCHANGED <<q, ritem>>, Holding' <=> Holding,
           \A k \in Closers : /\ \A c \in pend'[k] : c \in pend[k] /\ pc'[c] = pc[c]
                              /\ resp'[k] = "ok" => resp[k] = "ok"
                              /\ pc[k] \in Answering => pc'[k] \in Answering
    PROVE  CloseOrder'
<1> SUFFICES ASSUME NEW k \in Closers PROVE Awaited(k)' /\ Acknowledged(k)'
  BY DEF CloseOrder
<1>1. Awaited(k) /\ Acknowledged(k)
  BY DEF CloseOrder
<1>2. ASSUME NEW c \in pend'[k] PROVE pc'[c] = "sync" \/ (pc'[c] = "recv" /\ Ahead(c, k)')
  <2>1. pc[c] = "sync" \/ (pc[c] = "recv" /\ Ahead(c, k))
    BY <1>1, <1>2 DEF Awaited
  <2>2. Ahead(c, k) => Ahead(c, k)'
    BY DEF Ahead
  <2> QED
    BY <1>2, <2>1, <2>2
<1>3. resp'[k] = "ok" => pend'[k] = {} /\ pc'[k] \in Answering
  BY <1>1 DEF Acknowledged
<1> QED
  BY <1>2, <1>3 DEF Awaited, Acknowledged

\* ... with one goroutine that moves, whose call is not waited for any longer.
LEMMA CloseGoes ==
    ASSUME ActorType, LocalType, CloseOrder, UNCHANGED <<q, ritem>>, Holding' <=> Holding,
           NEW a \in Actors, NEW l, Goto(a, l),
           (UNCHANGED pend /\ pc[a] \notin {"sync", "recv"}) \/ Answered(a),
           \A k \in Closers : resp'[k] = "ok" => resp[k] = "ok",
           a \in Closers /\ pc[a] \in Answering => l \in Answering
    PROVE  CloseOrder'
<1>1. Moved(a, l)
  BY GotoIs
<1>2. ASSUME NEW k \in Closers, NEW c \in pend'[k] PROVE c \in pend[k] /\ pc'[c] = pc[c]
  <2>1. c \in pend[k] /\ c # a
    BY <1>2 DEF CloseOrder, Awaited, Answered
  <2>2. c \in Actors
    BY <2>1 DEF LocalType, Actors
  <2> QED
    BY <1>1, <2>1, <2>2 DEF Moved
<1>3. ASSUME NEW k \in Closers, pc[k] \in Answering PROVE pc'[k] \in Answering
  BY <1>1, <1>3 DEF Moved, Actors
<1> QED
  BY <1>2, <1>3, CloseStays

\* The reader takes the oldest item.
LEMMA CloseTakes ==
    ASSUME LoopType, CloseOrder, ~Holding, Holding', q # <<>>, TakeResult, UNCHANGED <<pc, pend, resp>>
    PROVE  CloseOrder'
<1>1. q \in Seq(Entries) /\ q' = Tail(q) /\ ritem' = Head(q)
  BY DEF LoopType, TakeResult
<1>2. /\ ritem' = q[1] /\ Len(q) \in Nat /\ Len(q') \in Nat /\ Len(q') = Len(q) - 1
      /\ \A i \in 1..Len(q') : q'[i] = q[i + 1] /\ i + 1 \in 1..Len(q)
  BY SMTT(30), <1>1, TailIs
<1>3. 1 \in 1..Len(q) /\ \A i \in 1..Len(q) : ~(i < 1)
  BY SMTT(30), <1>2
<1>4. ASSUME NEW i \in 1..Len(q), NEW j \in 1..Len(q'), i < j + 1, i # 1
      PROVE  \E m \in 1..Len(q') : m < j /\ q'[m] = q[i]
  <2>1. i - 1 \in 1..Len(q') /\ i - 1 < j /\ (i - 1) + 1 = i
    BY SMTT(30), <1>2, <1>4
  <2> QED
    BY <1>2, <2>1
<1>5. ASSUME NEW c, NEW k \in Closers, Ahead(c, k) PROVE Ahead(c, k)'
  <2>1. \A j \in 1..Len(q) : q[j].by = k => \E i \in 1..Len(q) : i < j /\ q[i].by = c
    BY <1>5 DEF Ahead
  <2>2. ritem'.by # k
    BY <1>2, <1>3, <2>1
  <2>3. ASSUME NEW j \in 1..Len(q'), q'[j].by = k
        PROVE  ritem'.by = c \/ \E m \in 1..Len(q') : m < j /\ q'[m].by = c
    <3>1. PICK i \in 1..Len(q) : i < j + 1 /\ q[i].by = c
      BY <1>2, <2>1, <2>3
    <3>2. CASE i = 1
      BY <1>2, <3>1, <3>2
    <3>3. CASE i # 1
      BY <1>4, <3>1, <3>3
    <3> QED
      BY <3>2, <3>3
  <2> QED
    BY <2>2, <2>3 DEF Ahead
<1> SUFFICES ASSUME NEW k \in Closers PROVE Awaited(k)' /\ Acknowledged(k)'
  BY DEF CloseOrder
<1>6. Awaited(k) /\ Acknowledged(k)
  BY DEF CloseOrder
<1>7. Awaited(k)'
  BY <1>5, <1>6 DEF Awaited
<1>8. Acknowledged(k)'
  BY <1>6 DEF Acknowledged
<1> QED
  BY <1>7, <1>8

\* A goroutine puts its item behind all others.
LEMMA ClosePuts ==
    ASSUME SharedType, ActorType, LocalType, LoopType, QueueInv, CloseOrder, NEW a \in Actors, Put(a)
    PROVE  CloseOrder'
<1> USE DEF queue, locals, readerVars
<1>1. PICK m \in Nat : q' = Append(q, [by |-> a, n |-> m])
  BY QueueGrows DEF SharedType
<1>e. PICK e \in Entries : e = [by |-> a, n |-> m]
  BY EntryIs
<1>b. e.by = a
  BY <1>e
<1>2. /\ Len(q) \in Nat /\ Len(q') = Len(q) + 1 /\ q'[Len(q) + 1] = e /\ \A i \in 1..Len(q) : q'[i] = q[i]
      /\ \A i \in 1..(Len(q) + 1) : i \in 1..Len(q) \/ i = Len(q) + 1
  <2>1. q \in Seq(Entries) /\ q' = Append(q, e)
    BY <1>1, <1>e DEF LoopType
  <2> QED
    BY SMTT(30), <2>1, AppendIs
<1>3. \A i \in 1..Len(q) : i \in 1..Len(q') /\ i < Len(q) + 1
  BY SMTT(30), <1>2
<1>4. Moved(a, "recv") /\ pc[a] = "put" /\ UNCHANGED <<pend, resp, ritem, rpc>>
  BY GotoIs DEF Put
<1> HIDE DEF queue, locals, readerVars
<1>h. Holding' <=> Holding
  BY <1>4 DEF Holding
<1>5. ASSUME NEW c \in Callers, NEW k \in Closers, Ahead(c, k), pc[c] = "recv" PROVE Ahead(c, k)'
  <2>1. c \in Actors /\ Awaits(c)
    BY <1>5 DEF Awaits, Actors
  <2>2. (Holding /\ ritem.by = c) \/ \E i \in 1..Len(q) : q[i].by = c
    BY <2>1 DEF QueueInv
  <2>3. ASSUME NEW j \in 1..Len(q'), q'[j].by = k
        PROVE  (Holding /\ ritem.by = c) \/ \E i \in 1..Len(q') : i < j /\ q'[i].by = c
    <3>1. CASE j \in 1..Len(q)
      <4>1. (Holding /\ ritem.by = c) \/ \E i \in 1..Len(q) : i < j /\ q[i].by = c
        BY <1>2, <1>5, <2>3, <3>1 DEF Ahead
      <4> QED
        BY <1>2, <1>3, <4>1
    <3>2. CASE j = Len(q) + 1
      BY <1>2, <1>3, <2>2, <3>2
    <3> QED
      BY <1>2, <3>1, <3>2
  <2> QED
    BY <1>4, <1>5, <1>h, <2>3 DEF Ahead
<1> SUFFICES ASSUME NEW k \in Closers PROVE Awaited(k)' /\ Acknowledged(k)'
  BY DEF CloseOrder
<1>6. Awaited(k) /\ Acknowledged(k)
  BY DEF CloseOrder
<1>7. ASSUME NEW c \in pend[k] PROVE pc'[c] = "sync" \/ (pc'[c] = "recv" /\ Ahead(c, k)')
  <2>1. c \in Callers /\ c \in Actors
    BY <1>7 DEF LocalType, Actors
  <2>2. pc[c] = "sync" \/ (pc[c] = "recv" /\ Ahead(c, k))
    BY <1>6, <1>7 DEF Awaited
  <2>3. pc'[c] = pc[c]
    BY <1>4, <2>1, <2>2 DEF Moved
  <2> QED
    BY <1>5, <2>1, <2>2, <2>3
<1>8. Awaited(k)'
  BY <1>4, <1>7 DEF Awaited
<1>9. resp[k] = "ok" => pc'[k] = pc[k]
  BY <1>4, <1>6 DEF Acknowledged, Answering, Moved, Actors
<1>10. Acknowledged(k)'
  BY <1>4, <1>6, <1>9 DEF Acknowledged
<1> QED
  BY <1>8, <1>10

\* A result is handed over: a PING's only when the calls before it have theirs.
LEMMA CloseDelivers ==
    ASSUME ActorType, LocalType, QueueInv, OneHolds, CloseOrder, Holding, ~Holding', NEW r, Deliver(r), q' = q,
           r = "ok" => bgState
    PROVE  CloseOrder'
<1>a. PICK a \in Actors : a = ritem.by
  BY DEF QueueInv, Entries
<1>1. PICK l : Moved(a, l) /\ (a \in Closers => l = "decrping")
  BY <1>a, DeliverIs, GotoIs DEF Actors
<1>2. resp' = [resp EXCEPT ![a] = r] /\ pend' = [k \in Closers |-> pend[k] \ {a}]
  BY <1>a DEF Deliver, Answered
<1>3. \A b \in Actors : resp'[b] = IF b = a THEN r ELSE resp[b]
  BY <1>2 DEF LocalType
<1>4. ASSUME NEW c \in Callers, NEW k \in Closers, Ahead(c, k), c # a PROVE Ahead(c, k)'
  BY <1>a, <1>4 DEF Ahead
<1> SUFFICES ASSUME NEW k \in Closers PROVE Awaited(k)' /\ Acknowledged(k)'
  BY DEF CloseOrder
<1>5. Awaited(k) /\ Acknowledged(k) /\ pend'[k] = pend[k] \ {a} /\ k \in Actors
  BY <1>2 DEF CloseOrder, Actors
<1>6. ASSUME NEW c \in pend'[k] PROVE pc'[c] = "sync" \/ (pc'[c] = "recv" /\ Ahead(c, k)')
  <2>1. c \in Callers /\ c \in Actors /\ c # a /\ c \in pend[k]
    BY <1>5, <1>6 DEF LocalType, Actors
  <2>2. pc[c] = "sync" \/ (pc[c] = "recv" /\ Ahead(c, k))
    BY <1>5, <2>1 DEF Awaited
  <2>3. pc'[c] = pc[c]
    BY <1>1, <2>1 DEF Moved
  <2> QED
    BY <1>4, <2>1, <2>2, <2>3
<1>7. Awaited(k)'
  BY <1>6 DEF Awaited
<1>8. CASE k = a
  <2>1. ASSUME r = "ok", NEW c \in pend[k] PROVE FALSE
    <3>1. c \in Callers
      BY <2>1 DEF LocalType
    <3>2. pc[c] # "sync"
      BY <2>1, <3>1 DEF OneHolds
    <3>3. ~Ahead(c, k)
      BY <1>8, <1>a DEF Ahead
    <3> QED
      BY <1>5, <2>1, <3>2, <3>3 DEF Awaited
  <2>2. r = "ok" => pend'[k] = {}
    BY <1>5, <2>1
  <2>3. pc'[k] = "decrping"
    BY <1>1, <1>8 DEF Moved
  <2>4. resp'[k] = r
    BY <1>3, <1>5, <1>8
  <2>5. Acknowledged(k)'
    BY <2>2, <2>3, <2>4 DEF Acknowledged, Answering
  <2> QED
    BY <1>7, <2>5
<1>9. CASE k # a
  <2>1. resp'[k] = resp[k] /\ pc'[k] = pc[k] /\ (pend[k] = {} => pend'[k] = {})
    BY <1>1, <1>3, <1>5, <1>9 DEF Moved
  <2>2. Acknowledged(k)'
    BY <1>5, <2>1 DEF Acknowledged
  <2> QED
    BY <1>7, <2>2
<1> QED
  BY <1>8, <1>9

\* A Close finds the calls that are under way.
LEMMA CloseSwaps ==
    ASSUME SharedType, ActorType, LocalType, QueueInv, CloseOrder, NEW k \in Closers, CloseSwap(k)
    PROVE  CloseOrder'
<1> USE DEF queue, readerVars
<1>1. PICK l \in {"bg", "ping", "leave"} : Goto(k, l)
  BY SwapIs
<1>2. k \in Actors /\ k \notin Callers /\ pc[k] = "cas" /\ UNCHANGED <<q, ritem, rpc, resp>>
  BY ActorAssumption DEF CloseSwap, Actors
<1>3. Moved(k, l)
  BY <1>1, <1>2, GotoIs
<1>4. pend'[k] = {c \in Callers : pc[c] \in {"sync", "recv"}} /\ \A j \in Closers : j # k => pend'[j] = pend[j]
  BY DEF CloseSwap, LocalType
<1>5. \A c : Ahead(c, k)
  <2>1. Holding => ritem.by # k
    BY <1>2 DEF QueueInv, Awaits
  <2>2. \A j \in 1..Len(q) : q[j].by # k
    BY <1>2 DEF QueueInv, Awaits
  <2> QED
    BY <2>1, <2>2 DEF Ahead
<1>6. ASSUME NEW c, NEW j, Ahead(c, j) PROVE Ahead(c, j)'
  BY <1>2, <1>6 DEF Ahead, Holding
<1>7. \A c \in Callers : pc'[c] = pc[c]
  BY <1>2, <1>3 DEF Moved, Actors
<1> SUFFICES ASSUME NEW j \in Closers PROVE Awaited(j)' /\ Acknowledged(j)'
  BY DEF CloseOrder
<1>8. Awaited(j) /\ Acknowledged(j) /\ j \in Actors
  BY DEF CloseOrder, Actors
<1>9. CASE j = k
  <2>1. Awaited(j)'
    BY <1>4, <1>5, <1>6, <1>7, <1>9 DEF Awaited
  <2>2. resp'[j] # "ok"
    BY <1>2, <1>8, <1>9 DEF Acknowledged, Answering
  <2> QED
    BY <2>1, <2>2 DEF Acknowledged
<1>10. CASE j # k
  <2>1. ASSUME NEW c \in pend'[j] PROVE pc'[c] = "sync" \/ (pc'[c] = "recv" /\ Ahead(c, j)')
    <3>1. c \in pend[j] /\ c \in Callers
      BY <1>4, <1>10, <2>1 DEF LocalType
    <3> QED
      BY <1>6, <1>7, <1>8, <3>1 DEF Awaited
  <2>2. Awaited(j)'
    BY <2>1 DEF Awaited
  <2>3. Acknowledged(j)'
    BY <1>2, <1>3, <1>4, <1>8, <1>10 DEF Acknowledged, Moved
  <2> QED
    BY <2>2, <2>3
<1> QED
  BY <1>9, <1>10

\* A Close whose PING was answered cuts off no call that it found.
LEMMA CloseHolds ==
    ASSUME SharedType, ActorType, LocalType, LoopType, StateInv, QueueInv, WireInv, HolderInv, CloseInv, [Next]_vars
    PROVE  CloseInv'
<1> USE DEF shared, queue, locals, writerVars, wire, readerVars
<1>s. set' = set
  BY SettingStays
<1> SUFFICES ASSUME ~set.givesUp PROVE CloseOrder'
  BY <1>s DEF CloseInv
<1>o. CloseOrder /\ OneHolds
  BY DEF CloseInv, HolderInv
<1>k. \A c \in Callers : \A k \in Closers : c # k
  BY ActorAssumption
<1>r. ASSUME NEW c \in Callers, NEW x, resp' = [resp EXCEPT ![c] = x]
      PROVE  \A k \in Closers : resp'[k] = resp[k]
  BY <1>k, <1>r DEF LocalType, Actors
<1>g. ASSUME NEW a \in Actors, NEW l, Goto(a, l), UNCHANGED <<q, ritem>>, Holding' <=> Holding,
             (UNCHANGED pend /\ pc[a] \notin {"sync", "recv"}) \/ Answered(a),
             \A k \in Closers : resp'[k] = resp[k],
             a \in Closers /\ pc[a] \in Answering => l \in Answering
      PROVE  CloseOrder'
  BY <1>g, <1>o, CloseGoes
<1>u. ASSUME UNCHANGED <<q, ritem, pc, pend, resp>>, Holding' <=> Holding
      PROVE  CloseOrder'
  BY <1>u, <1>o, CloseStays
<1>h. UNCHANGED rpc => (Holding' <=> Holding)
  BY DEF Holding
<1>b. ASSUME NEW b \in BOOLEAN, StartBackground(b) PROVE Holding' <=> Holding
  BY <1>b DEF StartBackground, Holding, StateInv, WorkerInv
<1>t. ASSUME NEW b \in {TRUE, FALSE}, StartBackground(b) PROVE Holding' <=> Holding
  BY <1>b, <1>t
<1>1. ASSUME NEW c \in Callers, CallerMoves(c)
      PROVE  CloseOrder'
  <2>0. c \in Actors /\ c \notin Closers
    BY <1>k DEF Actors
  <2>1. CASE BackgroundThenPut(c) \/ FailSync(c) \/ BackgroundForOthers(c)
    <3>1. Holding' <=> Holding
      BY <1>t, <2>1 DEF BackgroundThenPut, FailSync, BackgroundForOthers
    <3> QED
      BY <1>g, <2>0, <2>1, <3>1 DEF BackgroundThenPut, FailSync, BackgroundForOthers
  <2>2. CASE Call(c) \/ IncrWaits(c) \/ Return(c) \/ Late(c)
    <3>1. \A k \in Closers : resp'[k] = resp[k]
      BY <1>r, <2>2 DEF Call, IncrWaits, Return, Late, Forget
    <3> QED
      BY <1>g, <1>h, <2>0, <2>2, <3>1 DEF Call, IncrWaits, Return, Late
  <2>3. CASE LoadState(c)
    <3>1. \A k \in Closers : resp'[k] = resp[k]
      BY <1>r, <2>3 DEF LoadState, Rejected
    <3>2. PICK l \in {"put", "bg", "sync", "decr"} : Goto(c, l)
      BY <2>3 DEF LoadState, Rejected
    <3> QED
      BY <1>g, <1>h, <2>0, <2>3, <3>1, <3>2 DEF LoadState
  <2>4. CASE SyncDo(c) \/ SyncFail(c) \/ Abort(c)
    <3>1. \A k \in Closers : resp'[k] = resp[k]
      BY <1>r, <2>4 DEF SyncDo, SyncFail, Abort
    <3> QED
      BY <1>g, <1>h, <2>0, <2>4, <3>1 DEF SyncDo, SyncFail, Abort
  <2>5. CASE DecrWaits(c)
    <3>1. PICK l \in {"left", "return"} : Goto(c, l)
      BY <2>5 DEF DecrWaits
    <3> QED
      BY <1>g, <1>h, <2>0, <2>5, <3>1 DEF DecrWaits
  <2>6. ~PutGaveUp(c)
    BY DEF PutGaveUp
  <2> QED
    BY <1>1, <2>1, <2>2, <2>3, <2>4, <2>5, <2>6 DEF CallerMoves
<1>2. ASSUME NEW k \in Closers, CloserMoves(k)
      PROVE  CloseOrder'
  <2>0. k \in Actors
    BY DEF Actors
  <2>1. CASE CloseBackground(k)
    <3>1. Holding' <=> Holding
      BY <1>t, <2>1 DEF CloseBackground
    <3> QED
      BY <1>g, <2>0, <2>1, <3>1 DEF CloseBackground, Answering
  <2>2. CASE CloseSwap(k)
    BY <1>o, <2>2, CloseSwaps
  <2>3. CASE CloseEscape(k)
    BY <1>h, <1>u, <2>3 DEF CloseEscape
  <2>4. CASE CloseError(k) \/ CloseBlock(k) \/ CloseIncr(k) \/ ClosePing(k) \/ CloseLeave(k) \/ CloseConn(k)
    BY <1>g, <1>h, <2>0, <2>4 DEF CloseError, CloseBlock, CloseIncr, ClosePing, CloseLeave, CloseConn, Answering
  <2> QED
    BY <1>2, <2>1, <2>2, <2>3, <2>4 DEF CloserMoves
<1>3. ASSUME NEW a \in Actors, Put(a) \/ PingMoves(a)
      PROVE  CloseOrder'
  <2>1. CASE PingMoves(a)
    <3>1. PICK l \in {"done", "leave"} : Goto(a, l)
      BY <2>1 DEF PingMoves, DecrPing
    <3> QED
      BY <1>g, <1>h, <2>1, <3>1 DEF PingMoves, DecrPing, Answering
  <2> QED
    BY <1>3, <1>o, <2>1, ClosePuts
<1>4. CASE Writer
  <2>1. UNCHANGED <<q, ritem, rpc, pc, pend, resp>>
    BY <1>4 DEF Writer, WriteExit, NextWriteCmd, WaitForWrite, WriteCmd, CloseDone
  <2> QED
    BY <1>h, <1>u, <2>1
<1>5. CASE Background
  <2>1. CASE Send \/ AbortHalf \/ Answer
    <3>1. Holding /\ ~Holding'
      BY <2>1 DEF Send, AbortHalf, Answer, Holding
    <3>2. PICK r : Deliver(r) /\ (r = "ok" => bgState)
      <4>1. CASE Send
        BY <4>1 DEF Send, StateInv, WorkerInv
      <4>2. CASE AbortHalf
        BY <4>2 DEF AbortHalf, StateInv, WorkerInv
      <4>3. CASE Answer
        BY <4>3 DEF Answer, StateInv, WorkerInv
      <4> QED
        BY <2>1, <4>1, <4>2, <4>3
    <3>3. q' = q
      BY <2>1 DEF Send, AbortHalf, Answer
    <3> QED
      BY <1>o, <3>1, <3>2, <3>3, CloseDelivers
  <2>2. CASE Select
    <3>1. UNCHANGED <<q, ritem, pend, resp>> /\ (Holding' <=> Holding)
      BY <2>2 DEF Select, Holding
    <3>2. CASE done
      BY <1>u, <2>2, <3>1, <3>2 DEF Select
    <3>3. CASE ~done
      <4>1. Goto(Bg, "put") /\ Bg \in Actors /\ pc[Bg] = "idle" /\ Bg \notin Closers
        BY <2>2, <3>3, ActorAssumption DEF Select, Actors, StateInv, WorkerInv
      <4> QED
        BY <1>g, <3>1, <4>1
    <3> QED
      BY <3>2, <3>3
  <2>3. CASE ReadExit \/ SkipReadWrite \/ Finish \/ ReadMore \/ ReadFail
    <3>1. UNCHANGED <<q, ritem, pc, pend, resp>>
      BY <2>3 DEF ReadExit, SkipReadWrite, Finish, ReadMore, ReadFail
    <3>2. Holding' <=> Holding
      BY <2>3 DEF ReadExit, SkipReadWrite, Finish, ReadMore, ReadFail, Holding
    <3> QED
      BY <1>u, <3>1, <3>2
  <2>4. CASE ReadFirst
    <3>1. ~Holding /\ Holding'
      BY <2>4 DEF ReadFirst, Holding
    <3>2. q # <<>>
      BY <2>4, ReaderFinds DEF ReadFirst
    <3> QED
      BY <1>o, <2>4, <3>1, <3>2, CloseTakes DEF ReadFirst
  <2>5. CASE Drain
    <3>1. CASE waits = 0
      BY <1>u, <2>5, <3>1 DEF Drain, Holding
    <3>2. CASE waits # 0
      <4>1. ~Holding /\ Holding' /\ q # <<>> /\ TakeResult /\ UNCHANGED <<pc, pend, resp>>
        BY <2>5, <3>2 DEF Drain, Holding
      <4> QED
        BY <1>o, <4>1, CloseTakes
    <3> QED
      BY <3>1, <3>2
  <2> QED
    BY <1>5, <2>1, <2>2, <2>3, <2>4, <2>5 DEF Background
<1>6. CASE Outside
  <2>1. UNCHANGED <<q, ritem, rpc, pc, pend, resp>>
    BY <1>6 DEF Outside, PeerBreak, TimerExit, vars
  <2> QED
    BY <1>h, <1>u, <2>1
<1> QED
  BY <1>1, <1>2, <1>3, <1>4, <1>5, <1>6, StepIs

-----------------------------------------------------------------------------
(* Blocking calls. *)

\* Only a call with a context that can be done is left to another goroutine.
LEMMA LastingHolds ==
    ASSUME SharedType, ActorType, LocalType, QueueInv, Lasting, [Next]_vars
    PROVE  Lasting'
<1> USE DEF shared, queue, locals, writerVars, wire, readerVars
<1>g. ASSUME NEW a \in Actors, NEW l, Goto(a, l), \A c \in Callers : c # a => call'[c] = call[c],
             a \in Callers /\ l \in {"abandoned", "late"} => call'[a] = call[a] /\ HasDone(a)
      PROVE  Lasting'
  <2>1. Moved(a, l)
    BY <1>g, GotoIs
  <2>2. ASSUME NEW c \in Callers, pc'[c] \in {"abandoned", "late"}
        PROVE  call'[c].kind \in {"deadline", "cancel"}
    <3>1. c \in Actors
      BY DEF Actors
    <3>2. CASE c = a
      BY <1>g, <2>1, <2>2, <3>1, <3>2 DEF Moved, HasDone
    <3>3. CASE c # a
      BY <1>g, <2>1, <2>2, <3>1, <3>3 DEF Moved, Lasting, HasDone
    <3> QED
      BY <3>2, <3>3
  <2> QED
    BY <2>2 DEF Lasting, HasDone
<1>u. ASSUME UNCHANGED <<pc, call>> PROVE Lasting'
  BY <1>u DEF Lasting, HasDone
<1>1. ASSUME NEW c \in Callers, CallerMoves(c)
      PROVE  Lasting'
  <2>0. c \in Actors
    BY DEF Actors
  <2>c. ASSUME NEW x, call' = [call EXCEPT ![c] = x]
        PROVE  \A d \in Callers : d # c => call'[d] = call[d]
    BY <2>c DEF LocalType
  <2>1. CASE BackgroundThenPut(c) \/ FailSync(c) \/ BackgroundForOthers(c) \/ IncrWaits(c) \/ SyncDo(c) \/ SyncFail(c) \/ PutGaveUp(c)
    BY <1>g, <2>0, <2>1 DEF BackgroundThenPut, FailSync, BackgroundForOthers, IncrWaits, SyncDo, SyncFail, PutGaveUp
  <2>2. CASE Call(c) \/ Return(c) \/ Late(c)
    <3>1. PICK l \in {"incr", "idle"} : Goto(c, l)
      BY <2>2 DEF Call, Return, Late
    <3>2. \A d \in Callers : d # c => call'[d] = call[d]
      BY <2>2, <2>c DEF Call, Return, Late, Forget
    <3> QED
      BY <1>g, <2>0, <3>1, <3>2
  <2>3. CASE LoadState(c)
    <3>1. PICK l \in {"put", "bg", "sync", "decr"} : Goto(c, l)
      BY <2>3 DEF LoadState, Rejected
    <3> QED
      BY <1>g, <2>0, <2>3, <3>1 DEF LoadState
  <2>4. CASE DecrWaits(c)
    <3>1. PICK l \in {"left", "return"} : Goto(c, l)
      BY <2>4 DEF DecrWaits
    <3> QED
      BY <1>g, <2>0, <2>4, <3>1 DEF DecrWaits
  <2>5. CASE Abort(c)
    BY <1>g, <2>0, <2>5 DEF Abort
  <2> QED
    BY <1>1, <2>1, <2>2, <2>3, <2>4, <2>5 DEF CallerMoves
<1>2. ASSUME NEW k \in Closers, CloserMoves(k)
      PROVE  Lasting'
  <2>0. k \in Actors /\ k \notin Callers
    BY ActorAssumption DEF Actors
  <2>1. CASE CloseSwap(k)
    <3>1. PICK l \in {"bg", "ping", "leave"} : Goto(k, l)
      BY <2>1, SwapIs
    <3> QED
      BY <1>g, <2>0, <2>1, <3>1 DEF CloseSwap
  <2>2. CASE CloseEscape(k)
    BY <1>u, <2>2 DEF CloseEscape
  <2>3. CASE CloseBackground(k) \/ CloseError(k) \/ CloseBlock(k) \/ CloseIncr(k) \/ ClosePing(k) \/ CloseLeave(k) \/ CloseConn(k)
    BY <1>g, <2>0, <2>3 DEF CloseBackground, CloseError, CloseBlock, CloseIncr, ClosePing, CloseLeave, CloseConn
  <2> QED
    BY <1>2, <2>1, <2>2, <2>3 DEF CloserMoves
<1>3. ASSUME NEW a \in Actors, Put(a) \/ PingMoves(a)
      PROVE  Lasting'
  <2>1. CASE PingMoves(a)
    <3>1. PICK l \in {"done", "leave"} : Goto(a, l)
      BY <2>1 DEF PingMoves, DecrPing
    <3> QED
      BY <1>g, <2>1, <3>1 DEF PingMoves, DecrPing
  <2>2. CASE Put(a)
    BY <1>g, <2>2 DEF Put
  <2> QED
    BY <1>3, <2>1, <2>2
<1>4. CASE Writer
  BY <1>4, <1>u DEF Writer, WriteExit, NextWriteCmd, WaitForWrite, WriteCmd, CloseDone
<1>5. CASE Background
  <2>1. CASE Send \/ AbortHalf \/ Answer
    <3>1. PICK r : Deliver(r)
      BY <2>1 DEF Send, AbortHalf, Answer
    <3>2. PICK a \in Actors : a = ritem.by
      BY <2>1 DEF Send, AbortHalf, Answer, QueueInv, Holding, Entries
    <3>3. PICK l \in {"decr", "late", "decrping"} : Goto(a, l) /\ (a \in Callers /\ l = "late" => pc[a] = "abandoned")
      BY <3>1, <3>2, DeliverIs, ActorAssumption DEF Actors
    <3>4. a \in Callers /\ l = "late" => HasDone(a)
      BY <3>3 DEF Lasting
    <3>5. call' = call
      BY <2>1 DEF Send, AbortHalf, Answer
    <3> QED
      BY <1>g, <3>3, <3>4, <3>5
  <2>2. CASE Select
    <3>1. CASE done
      BY <1>u, <2>2, <3>1 DEF Select
    <3>2. CASE ~done
      BY <1>g, <2>2, <3>2 DEF Select, Actors
    <3> QED
      BY <3>1, <3>2
  <2>3. CASE ReadExit \/ SkipReadWrite \/ Finish \/ ReadMore \/ ReadFail \/ ReadFirst \/ Drain
    BY <1>u, <2>3 DEF ReadExit, SkipReadWrite, Finish, ReadMore, ReadFail, ReadFirst, Drain
  <2> QED
    BY <1>5, <2>1, <2>2, <2>3 DEF Background
<1>6. CASE Outside
  BY <1>6, <1>u DEF Outside, PeerBreak, TimerExit, vars
<1> QED
  BY <1>1, <1>2, <1>3, <1>4, <1>5, <1>6, StepIs

\* A connection that is closed or marked with an error stays so; the reader gives up an item only on
\* a closed one.
LEMMA HealthStays ==
    ASSUME rpc = "abort" => ~open, [Next]_vars
    PROVE  (rpc = "abort" => ~open)' /\ (Healthy' => Healthy)
<1> USE DEF shared, queue, locals, writerVars, wire, readerVars
<1>b. ASSUME NEW b, StartBackground(b) PROVE rpc' = "abort" => rpc = "abort"
  BY <1>b DEF StartBackground
<1>1. (open' = open \/ open' = FALSE) /\ (rpc' = "abort" => rpc = "abort" \/ ~open)
  <2>1. ASSUME NEW c \in Callers, CallerMoves(c)
        PROVE  (open' = open \/ open' = FALSE) /\ (rpc' = "abort" => rpc = "abort")
    BY <1>b, <2>1
       DEF CallerMoves, Call, IncrWaits, LoadState, BackgroundThenPut, SyncDo, SyncFail, FailSync, DecrWaits,
           BackgroundForOthers, Return, Late, PutGaveUp, Abort, Cut
  <2>2. ASSUME NEW k \in Closers, CloserMoves(k)
        PROVE  (open' = open \/ open' = FALSE) /\ (rpc' = "abort" => rpc = "abort")
    BY <1>b, <2>2
       DEF CloserMoves, CloseError, CloseBlock, CloseIncr, CloseSwap, CloseBackground, ClosePing, CloseEscape, CloseLeave,
           CloseConn, Cut
  <2>3. ASSUME NEW a \in Actors, Put(a) \/ PingMoves(a)
        PROVE  (open' = open \/ open' = FALSE) /\ (rpc' = "abort" => rpc = "abort")
    BY <2>3 DEF Put, PingMoves, DecrPing
  <2>4. ASSUME Writer \/ Outside
        PROVE  (open' = open \/ open' = FALSE) /\ (rpc' = "abort" => rpc = "abort")
    BY <2>4 DEF Writer, NextWriteCmd, WaitForWrite, WriteCmd, WriteExit, CloseDone, Exit, Cut, Outside, PeerBreak,
                       TimerExit, vars
  <2>5. CASE Background
    BY <2>5 DEF Background, ReadFirst, ReadMore, Send, ReadFail, AbortHalf, ReadExit, SkipReadWrite, Select, Drain,
                       Answer, Finish, Exit, Cut
  <2> QED
    BY <2>1, <2>2, <2>3, <2>4, <2>5, StepIs
<1>2. err' = None => err = None
  BY ErrStays
<1>3. open' => open
  BY <1>1
<1> QED
  BY <1>1, <1>2, <1>3 DEF Healthy

\* While no call is begun or given back, the count stays.
LEMMA BlockStays ==
    ASSUME BlocksCounted, UNCHANGED <<blcksig, call>>,
           \A c \in Callers : /\ pc'[c] = "idle" <=> pc[c] = "idle"
                              /\ pc'[c] \in Finished => resp'[c] = "ok" \/ (pc[c] \in Finished /\ resp'[c] = resp[c])
    PROVE  BlocksCounted'
<1>1. Blocking' = Blocking
  <2>1. Blocking' = {c \in Callers : pc'[c] # "idle" /\ call'[c].block}
    BY DEF Blocking
  <2>2. \A c : c \in Blocking' <=> c \in Blocking
    BY <2>1 DEF Blocking
  <2> QED
    BY <2>2
<1> QED
  BY <1>1 DEF BlocksCounted
=============================================================================
