----------------------------- MODULE PipeProofs -----------------------------
(* The life of a connection and its timers, for any number of goroutines,    *)
(* any capacity of the queue and any circumstances.                          *)
EXTENDS PipeSteps, Timers, FiniteSetTheorems

USE ZenonT(60)

-----------------------------------------------------------------------------
(* The count of those who wait. *)

\* An actor that moves is counted before and after, or starts or stops to be.
LEMMA OneMoves ==
    ASSUME NEW S, NEW T, NEW a, IsFiniteSet(S), \A b : b # a => (b \in S <=> b \in T)
    PROVE  /\ IsFiniteSet(T) /\ Cardinality(S) \in Nat /\ Cardinality(T) \in Nat
           /\ a \in S /\ a \in T => Cardinality(T) = Cardinality(S)
           /\ a \notin S /\ a \notin T => Cardinality(T) = Cardinality(S)
           /\ a \notin S /\ a \in T => Cardinality(T) = Cardinality(S) + 1
           /\ a \in S /\ a \notin T => Cardinality(T) = Cardinality(S) - 1
<1>1. CASE a \in S /\ a \notin T
  <2>1. T = S \ {a}
    BY <1>1
  <2> QED
    BY SMTT(30), <1>1, <2>1, FS_RemoveElement, FS_CardinalityType
<1>2. CASE a \notin S /\ a \in T
  <2>1. T = S \cup {a}
    BY <1>2
  <2> QED
    BY SMTT(30), <1>2, <2>1, FS_AddElement, FS_CardinalityType
<1>3. CASE a \in S <=> a \in T
  <2>1. \A b : b \in S <=> b \in T
    BY <1>3
  <2>2. T = S
    BY SMTT(30), <2>1
  <2> QED
    BY <1>3, <2>2, FS_CardinalityType
<1> QED
  BY <1>1, <1>2, <1>3

\* How often an actor at a step is counted.
Weight(a, l) == IF a \in Closers /\ l \in {"put", "recv", "decrping"} THEN 2 ELSE IF l \in Counted THEN 1 ELSE 0

\* The count is right when it changes with the weight of the actor that moves.
LEMMA CountMoves ==
    ASSUME ActorType, CountInv, waits \in Int, NEW a \in Actors, NEW l, Goto(a, l)
    PROVE  /\ Weight(a, l) = Weight(a, pc[a]) /\ waits' = waits => CountInv'
           /\ Weight(a, l) = Weight(a, pc[a]) + 1 /\ waits' = waits + 1 => CountInv'
           /\ Weight(a, l) = Weight(a, pc[a]) - 1 /\ waits' = waits - 1 => CountInv'
<1>1. Moved(a, l)
  BY GotoIs
<1>2. IsFiniteSet(Once)
  BY SMTT(30), FS_Subset, ActorAssumption DEF Once
<1>3. IsFiniteSet(Twice)
  BY SMTT(30), FS_Subset, ActorAssumption DEF Twice, Actors
<1>4. \A b : b # a => (b \in Once <=> b \in Once')
  BY <1>1 DEF Once, Moved
<1>5. \A b : b # a => (b \in Twice <=> b \in Twice')
  BY <1>1 DEF Twice, Moved, Actors
<1>6. /\ a \in Once <=> pc[a] \in Counted
      /\ a \in Once' <=> l \in Counted
      /\ a \in Twice <=> a \in Closers /\ pc[a] \in {"put", "recv", "decrping"}
      /\ a \in Twice' <=> a \in Closers /\ l \in {"put", "recv", "decrping"}
  BY <1>1 DEF Once, Twice, Moved
<1>7. PICK o \in Nat, p \in Nat, t \in Nat, u \in Nat :
         o = Cardinality(Once) /\ p = Cardinality(Once') /\ t = Cardinality(Twice) /\ u = Cardinality(Twice')
  <2>1. Cardinality(Once) \in Nat /\ Cardinality(Once') \in Nat
    BY <1>2, <1>4, OneMoves
  <2>2. Cardinality(Twice) \in Nat /\ Cardinality(Twice') \in Nat
    BY <1>3, <1>5, OneMoves
  <2> QED
    BY <2>1, <2>2
<1>8. /\ pc[a] \in Counted /\ l \in Counted => p = o
      /\ pc[a] \notin Counted /\ l \notin Counted => p = o
      /\ pc[a] \notin Counted /\ l \in Counted => p = o + 1
      /\ pc[a] \in Counted /\ l \notin Counted => p = o - 1
  BY <1>2, <1>4, <1>6, <1>7, OneMoves
<1>9. /\ a \in Twice /\ a \in Twice' => u = t
      /\ a \notin Twice /\ a \notin Twice' => u = t
      /\ a \notin Twice /\ a \in Twice' => u = t + 1
      /\ a \in Twice /\ a \notin Twice' => u = t - 1
  BY <1>3, <1>5, <1>7, OneMoves
<1>10. PICK w \in {0, 1, 2}, v \in {0, 1, 2} : w = Weight(a, pc[a]) /\ v = Weight(a, l)
  BY DEF Weight
<1>11. {"put", "recv", "decrping"} \subseteq Counted
  BY DEF Counted
<1>12. p + u = o + t + v - w
  BY SMTT(30), <1>6, <1>8, <1>9, <1>10, <1>11 DEF Weight
<1>13. waits = o + t /\ (waits' = p + u => CountInv')
  BY <1>7 DEF CountInv
<1>14. /\ v = w /\ waits' = waits => waits' = p + u
       /\ v = w + 1 /\ waits' = waits + 1 => waits' = p + u
       /\ v = w - 1 /\ waits' = waits - 1 => waits' = p + u
  BY SMTT(30), <1>12, <1>13
<1> QED
  BY <1>10, <1>13, <1>14

\* wrCounter counts exactly the goroutines that are between incrWaits and decrWaits.
LEMMA Counts ==
    ASSUME SharedType, ActorType, CountInv, StateInv, QueueInv, [Next]_vars
    PROVE  CountInv'
<1> USE DEF shared, queue, locals, writerVars, wire, readerVars
<1>t. waits \in Int
  BY DEF SharedType
<1>w. 1 = 0 + 1 /\ 0 = 1 - 1 /\ 2 = 1 + 1 /\ 1 = 2 - 1
  BY SMTT(30)
<1>u. ASSUME UNCHANGED <<waits, pc>> PROVE CountInv'
  BY <1>u DEF CountInv, Once, Twice
<1>s. ASSUME NEW a \in Actors, NEW l, Goto(a, l), waits' = waits, Weight(a, l) = Weight(a, pc[a]) PROVE CountInv'
  BY <1>s, <1>t, CountMoves
<1>p. ASSUME NEW a \in Actors, NEW l, Goto(a, l), waits' = waits + 1, Weight(a, l) = Weight(a, pc[a]) + 1 PROVE CountInv'
  BY <1>p, <1>t, CountMoves
<1>m. ASSUME NEW a \in Actors, NEW l, Goto(a, l), waits' = waits - 1, Weight(a, l) = Weight(a, pc[a]) - 1 PROVE CountInv'
  BY <1>m, <1>t, CountMoves
<1>1. ASSUME NEW c \in Callers, CallerMoves(c)
      PROVE  CountInv'
  <2>0. c \in Actors /\ \A l : Weight(c, l) = IF l \in Counted THEN 1 ELSE 0
    BY ActorAssumption DEF Weight, Actors
  <2>1. CASE Call(c) \/ BackgroundForOthers(c) \/ Return(c)
    BY <1>s, <2>0, <2>1 DEF Call, BackgroundForOthers, Return, Counted
  <2>2. CASE LoadState(c) \/ BackgroundThenPut(c) \/ SyncDo(c) \/ SyncFail(c) \/ FailSync(c) \/ Abort(c)
    BY <1>s, <2>0, <2>2 DEF LoadState, Rejected, BackgroundThenPut, SyncDo, SyncFail, FailSync, Abort, Counted
  <2>3. CASE IncrWaits(c)
    BY <1>w, <1>p, <2>0, <2>3 DEF IncrWaits, Counted
  <2>4. CASE DecrWaits(c) \/ Late(c) \/ PutGaveUp(c)
    <3>1. PICK l \in {"left", "return", "idle"} : Goto(c, l)
      BY <2>4 DEF DecrWaits, Late, PutGaveUp
    <3>2. Weight(c, l) = 0
      BY <2>0, <3>1 DEF Counted
    <3>3. Weight(c, pc[c]) = 1 /\ waits' = waits - 1
      BY <2>0, <2>4 DEF DecrWaits, Late, PutGaveUp, Counted
    <3> QED
      BY <1>w, <1>m, <2>0, <3>1, <3>2, <3>3
  <2> QED
    BY <1>1, <2>1, <2>2, <2>3, <2>4 DEF CallerMoves
<1>2. ASSUME NEW k \in Closers, CloserMoves(k)
      PROVE  CountInv'
  <2>0. k \in Actors
    BY DEF Actors
  <2>1. CASE CloseError(k) \/ CloseBlock(k) \/ CloseConn(k)
    BY <1>s, <2>0, <2>1 DEF CloseError, CloseBlock, CloseConn, Counted, Weight
  <2>2. CASE CloseBackground(k)
    BY <1>s, <2>0, <2>2 DEF CloseBackground, Counted, Weight
  <2>3. CASE CloseSwap(k)
    <3>1. PICK l \in {"bg", "ping", "leave"} : Goto(k, l)
      BY <2>3, SwapIs
    <3> QED
      BY <1>s, <2>0, <2>3, <3>1 DEF CloseSwap, Counted, Weight
  <2>4. CASE CloseIncr(k)
    BY <1>w, <1>p, <2>0, <2>4 DEF CloseIncr, Counted, Weight
  <2>5. CASE ClosePing(k)
    <3>1. CASE noBlock[k]
      BY <1>w, <1>p, <2>0, <2>5, <3>1 DEF ClosePing, Counted, Weight
    <3>2. CASE ~noBlock[k]
      BY <1>s, <2>0, <2>5, <3>2 DEF ClosePing, Counted, Weight
    <3> QED
      BY <3>1, <3>2
  <2>6. CASE CloseEscape(k)
    BY <1>u, <2>6 DEF CloseEscape
  <2>7. CASE CloseLeave(k)
    BY <1>w, <1>m, <2>0, <2>7 DEF CloseLeave, Counted, Weight
  <2> QED
    BY <1>2, <2>1, <2>2, <2>3, <2>4, <2>5, <2>6, <2>7 DEF CloserMoves
<1>3. ASSUME NEW a \in Actors, Put(a) \/ PingMoves(a)
      PROVE  CountInv'
  <2>1. CASE Put(a)
    BY <1>s, <2>1 DEF Put, Counted, Weight
  <2>2. CASE PingMoves(a)
    <3>1. CASE a = Bg
      BY <1>w, <1>m, <2>2, <3>1, ActorAssumption DEF PingMoves, DecrPing, Counted, Weight
    <3>2. CASE a # Bg
      <4>1. a \in Closers
        BY <2>2, <3>2 DEF PingMoves, Actors
      <4> QED
        BY <1>w, <1>m, <2>2, <3>2, <4>1 DEF PingMoves, DecrPing, Counted, Weight
    <3> QED
      BY <3>1, <3>2
  <2> QED
    BY <1>3, <2>1, <2>2
<1>4. CASE Writer
  BY <1>4, <1>u DEF Writer, NextWriteCmd, WaitForWrite, WriteCmd, WriteExit, CloseDone
<1>5. CASE Background
  <2>2. ASSUME NEW r, Deliver(r), Holding, waits' = waits
        PROVE  CountInv'
    <3>1. ritem.by \in Actors
      BY <2>2 DEF QueueInv, Entries
    <3>2. CASE ritem.by \in Callers
      <4>1. PICK l \in {"decr", "late"} : Goto(ritem.by, l) /\ pc[ritem.by] \in {"recv", "abandoned"}
        BY <2>2, <3>2, DeliverIs
      <4>2. ritem.by \notin Closers
        BY <3>2, ActorAssumption
      <4> QED
        BY <1>s, <2>2, <3>1, <4>1, <4>2 DEF Weight, Counted
    <3>3. CASE ritem.by \in Closers \cup {Bg}
      <4>1. Goto(ritem.by, "decrping") /\ pc[ritem.by] = "recv"
        BY <2>2, <3>3, DeliverIs
      <4> QED
        BY <1>s, <2>2, <3>1, <4>1 DEF Weight, Counted
    <3> QED
      BY <3>1, <3>2, <3>3 DEF Actors
  <2>3. CASE Send \/ AbortHalf \/ Answer
    BY <2>2, <2>3 DEF Send, AbortHalf, Answer, Holding
  <2>4. CASE Select
    <3>1. CASE done
      BY <1>u, <2>4, <3>1 DEF Select
    <3>2. CASE ~done
      <4>1. waits' = waits + 1 /\ Goto(Bg, "put") /\ pc[Bg] = "idle" /\ Bg \notin Closers /\ Bg \in Actors
        BY <2>4, <3>2, ActorAssumption DEF Select, StateInv, WorkerInv, Actors
      <4> QED
        BY <1>w, <1>p, <4>1 DEF Weight, Counted
    <3> QED
      BY <3>1, <3>2
  <2>5. CASE ReadFirst \/ ReadMore \/ ReadFail \/ ReadExit \/ SkipReadWrite \/ Drain \/ Finish
    BY <1>u, <2>5 DEF ReadFirst, ReadMore, ReadFail, ReadExit, SkipReadWrite, Drain, Finish
  <2> QED
    BY <1>5, <2>3, <2>4, <2>5 DEF Background
<1>6. CASE Outside
  BY <1>u, <1>6 DEF Outside, PeerBreak, TimerExit, vars
<1> QED
  BY <1>1, <1>2, <1>3, <1>4, <1>5, <1>6, StepIs

\* When the count is zero nobody is between incrWaits and decrWaits.
LEMMA NobodyCounted ==
    ASSUME CountInv, waits = 0
    PROVE  \A a \in Actors : pc[a] \notin Counted
<1>1. IsFiniteSet(Once)
  BY SMTT(30), FS_Subset, ActorAssumption DEF Once
<1>2. IsFiniteSet(Twice)
  BY SMTT(30), FS_Subset, ActorAssumption DEF Twice, Actors
<1>3. Cardinality(Once) \in Nat /\ Cardinality(Twice) \in Nat
  BY <1>1, <1>2, FS_CardinalityType
<1>4. Cardinality(Once) = 0
  BY SMTT(30), <1>3 DEF CountInv
<1>5. Once = {}
  BY <1>1, <1>4, FS_EmptySet
<1> QED
  BY <1>5 DEF Once

\* Somebody else is counted.
LEMMA SomebodyElse ==
    ASSUME CountInv, NEW a \in Once, Twice = {}, waits # 1
    PROVE  \E b \in Once : b # a
<1> SUFFICES ASSUME \A b \in Once : b = a PROVE FALSE
  OBVIOUS
<1>1. Once = {a}
  OBVIOUS
<1>2. Cardinality(Once) = 1 /\ Cardinality(Twice) = 0
  BY <1>1, FS_Singleton, FS_EmptySet
<1> QED
  BY SMTT(30), <1>2 DEF CountInv

\* What the count tells.
LEMMA CountIsTold ==
    ASSUME CountInv
    PROVE  CountTells
<1>1. waits = 0 => \A a \in Actors : pc[a] \notin Counted
  BY NobodyCounted
<1>2. waits # 1 /\ Twice = {} => \A a \in Once : \E b \in Once : b # a
  BY SomebodyElse
<1> QED
  BY <1>1, <1>2 DEF CountTells

-----------------------------------------------------------------------------
(* Blocking calls. *)

\* The blocking calls are finitely many, and blcksig follows the one that changes.
LEMMA BlockMoves ==
    ASSUME BlocksCounted, NEW c \in Callers, \A d \in Callers : d # c => (d \in Blocking <=> d \in Blocking'),
           blcksig \in Int,
           \/ blcksig' = blcksig /\ (c \in Blocking <=> c \in Blocking')
           \/ blcksig' = blcksig + 1 /\ c \notin Blocking /\ c \in Blocking'
           \/ blcksig' = blcksig - 1 /\ c \in Blocking /\ c \notin Blocking'
    PROVE  blcksig' = Cardinality(Blocking')
<1>1. IsFiniteSet(Blocking)
  <2>1. Blocking \in SUBSET Actors
    BY DEF Blocking, Actors
  <2> QED
    BY <2>1, ActorAssumption, FS_Subset
<1>2. \A d : d # c => (d \in Blocking <=> d \in Blocking')
  BY DEF Blocking
<1>3. blcksig = Cardinality(Blocking)
  BY DEF BlocksCounted
<1>4. PICK S : S = Blocking
  BY SMTT(30)
<1>5. PICK T : T = Blocking'
  BY SMTT(30)
<1>6. /\ c \in S /\ c \in T => Cardinality(T) = Cardinality(S)
      /\ c \notin S /\ c \notin T => Cardinality(T) = Cardinality(S)
      /\ c \notin S /\ c \in T => Cardinality(T) = Cardinality(S) + 1
      /\ c \in S /\ c \notin T => Cardinality(T) = Cardinality(S) - 1
  BY <1>1, <1>2, <1>4, <1>5, OneMoves
<1> QED
  BY <1>3, <1>4, <1>5, <1>6

\* blcksig counts the blocking calls, and whoever has a result has a good one.
LEMMA BlocksHold ==
    ASSUME SharedType, ActorType, LocalType, StateInv, QueueInv, Lasting, rpc = "abort" => ~open,
           ~set.givesUp, TidyBlocks, Healthy, Healthy', BlocksCounted, [Next]_vars
    PROVE  BlocksCounted'
<1> USE DEF shared, queue, locals, writerVars, wire, readerVars
<1>h. err = None /\ open /\ err' = None /\ open'
  BY DEF Healthy
<1>e. ASSUME NEW e \in Errors, SetError(e) PROVE FALSE
  BY <1>e, <1>h, ActorAssumption DEF SetError
<1>c. ~Cut
  BY <1>h DEF Cut
<1>x. \A e : ~Exit(e)
  BY <1>c DEF Exit
<1>s. state \notin Stopping /\ rpc # "skip" /\ (\A c \in Callers : pc[c] # "fail") /\ \A k \in Closers : pc[k] = "idle"
  BY <1>h DEF StateInv, ErrInv
<1>f. \A c \in Callers : pc[c] \in Finished => resp[c] = "ok"
  BY DEF BlocksCounted
<1>g. ASSUME NEW a \in Actors, NEW l, Goto(a, l), UNCHANGED <<blcksig, call>>,
             a \in Callers => /\ l # "idle" /\ pc[a] # "idle"
                              /\ l \in Finished => resp'[a] = "ok" \/ (pc[a] \in Finished /\ resp'[a] = resp[a]),
             \A c \in Callers : c # a => resp'[c] = resp[c]
      PROVE  BlocksCounted'
  <2>1. Moved(a, l)
    BY <1>g, GotoIs
  <2>2. ASSUME NEW c \in Callers
        PROVE  /\ pc'[c] = "idle" <=> pc[c] = "idle"
               /\ pc'[c] \in Finished => resp'[c] = "ok" \/ (pc[c] \in Finished /\ resp'[c] = resp[c])
    <3>1. c \in Actors
      BY DEF Actors
    <3>2. CASE c = a
      BY <1>g, <2>1, <3>1, <3>2 DEF Moved
    <3>3. CASE c # a
      BY <1>g, <2>1, <3>1, <3>3 DEF Moved
    <3> QED
      BY <3>2, <3>3
  <2> QED
    BY <1>g, <2>2, BlockStays
<1>u. ASSUME UNCHANGED <<pc, call, blcksig, resp>> PROVE BlocksCounted'
  BY <1>u, BlockStays
<1>r. ASSUME NEW a \in Actors, NEW x, resp' = [resp EXCEPT ![a] = x]
      PROVE  resp'[a] = x /\ \A c \in Callers : c # a => resp'[c] = resp[c]
  BY <1>r DEF LocalType, Actors
<1>m. ASSUME NEW c \in Callers, NEW l \in {"incr", "idle"}, Goto(c, l), NEW x, call' = [call EXCEPT ![c] = x],
             pc[c] = "idle" => l = "incr" /\ blcksig' = (IF x.block THEN blcksig + 1 ELSE blcksig),
             pc[c] # "idle" => l = "idle" /\ blcksig' = (IF call[c].block THEN blcksig - 1 ELSE blcksig),
             \A d \in Callers : d # c => resp'[d] = resp[d]
      PROVE  BlocksCounted'
  <2>0. c \in Actors
    BY DEF Actors
  <2>1. Moved(c, l)
    BY <1>m, <2>0, GotoIs
  <2>2. \A d \in Callers : d # c => pc'[d] = pc[d] /\ call'[d] = call[d]
    BY <1>m, <2>1 DEF Moved, Actors, LocalType
  <2>3. pc'[c] = l /\ call'[c] = x
    BY <1>m, <2>0, <2>1 DEF Moved, LocalType
  <2>4. \A d \in Callers : d \in Blocking' <=> pc'[d] # "idle" /\ call'[d].block
    BY DEF Blocking
  <2>5. \A d \in Callers : d \in Blocking <=> pc[d] # "idle" /\ call[d].block
    BY DEF Blocking
  <2>6. \A d \in Callers : d # c => (d \in Blocking <=> d \in Blocking')
    BY <2>2, <2>4, <2>5
  <2>7. \/ blcksig' = blcksig /\ (c \in Blocking <=> c \in Blocking')
        \/ blcksig' = blcksig + 1 /\ c \notin Blocking /\ c \in Blocking'
        \/ blcksig' = blcksig - 1 /\ c \in Blocking /\ c \notin Blocking'
    <3>1. CASE pc[c] = "idle"
      BY <1>m, <2>3, <2>4, <2>5, <3>1
    <3>2. CASE pc[c] # "idle"
      BY <1>m, <2>3, <2>4, <2>5, <3>2
    <3> QED
      BY <3>1, <3>2
  <2>8. blcksig' = Cardinality(Blocking')
    BY <2>6, <2>7, BlockMoves DEF SharedType
  <2>9. ASSUME NEW d \in Callers, pc'[d] \in Finished PROVE resp'[d] = "ok"
    BY <1>f, <1>m, <2>2, <2>3, <2>9 DEF Finished
  <2> QED
    BY <2>8, <2>9 DEF BlocksCounted
<1>1. ASSUME NEW c \in Callers, CallerMoves(c)
      PROVE  BlocksCounted'
  <2>0. c \in Actors
    BY DEF Actors
  <2>1. ~PutGaveUp(c) /\ ~SyncFail(c) /\ ~FailSync(c)
    BY <1>c, <1>s DEF PutGaveUp, SyncFail, FailSync
  <2>2. CASE BackgroundThenPut(c) \/ IncrWaits(c) \/ Abort(c)
    BY <1>g, <2>0, <2>2 DEF BackgroundThenPut, IncrWaits, Abort, Finished
  <2>3. CASE BackgroundForOthers(c)
    BY <1>g, <2>0, <2>3 DEF BackgroundForOthers, Finished
  <2>4. CASE SyncDo(c)
    BY <1>g, <1>r, <2>0, <2>4 DEF SyncDo
  <2>5. CASE Call(c)
    BY <1>m, <2>5 DEF Call
  <2>6. CASE Return(c)
    <3>1. resp[c] = "ok"
      BY <1>f, <2>6 DEF Return, Finished
    <3> QED
      BY <1>m, <1>r, <2>0, <2>6, <3>1 DEF Return, Forget
  <2>7. CASE Late(c)
    <3>1. HasDone(c) /\ call[c] \in set.calls
      BY <2>7 DEF Late, Lasting, ActorType
    <3>2. call[c].block => call[c].n = 1
      BY <3>1 DEF TidyBlocks, HasDone
    <3> QED
      BY <1>m, <1>r, <2>0, <2>7, <3>2 DEF Late, Forget
  <2>8. CASE LoadState(c)
    <3>1. ~(state > 1)
      BY SMTT(30), <1>s DEF SharedType, Stopping
    <3>2. PICK l \in {"put", "bg", "sync"} : Goto(c, l) /\ UNCHANGED resp
      BY <2>8, <3>1 DEF LoadState, Rejected
    <3> QED
      BY <1>g, <2>0, <2>8, <3>2 DEF LoadState, Finished
  <2>9. CASE DecrWaits(c)
    <3>1. PICK l \in {"left", "return"} : Goto(c, l)
      BY <2>9 DEF DecrWaits
    <3> QED
      BY <1>g, <2>0, <2>9, <3>1 DEF DecrWaits, Finished
  <2> QED
    BY <1>1, <2>1, <2>2, <2>3, <2>4, <2>5, <2>6, <2>7, <2>8, <2>9 DEF CallerMoves
<1>2. ASSUME NEW k \in Closers, CloserMoves(k)
      PROVE  FALSE
  <2>1. ~CloseError(k)
    BY <1>e DEF CloseError, Errors
  <2> QED
    BY <1>2, <1>s, <2>1
       DEF CloserMoves, CloseBlock, CloseIncr, CloseSwap, CloseBackground, ClosePing, CloseEscape, CloseLeave, CloseConn
<1>3. ASSUME NEW a \in Actors, Put(a) \/ PingMoves(a)
      PROVE  BlocksCounted'
  <2>1. CASE PingMoves(a)
    <3>1. PICK l \in {"done", "leave"} : Goto(a, l)
      BY <2>1 DEF PingMoves, DecrPing
    <3> QED
      BY <1>g, <2>1, <3>1 DEF PingMoves, DecrPing
  <2>2. CASE Put(a)
    BY <1>g, <2>2 DEF Put, Finished
  <2> QED
    BY <1>3, <2>1, <2>2
<1>4. CASE Writer
  BY <1>4, <1>u, <1>x DEF Writer, WriteExit, NextWriteCmd, WaitForWrite, WriteCmd, CloseDone
<1>5. CASE Background
  <2>1. ~AbortHalf /\ ~Answer /\ ~ReadExit /\ ~SkipReadWrite /\ ~Select
    BY <1>h, <1>s, <1>x DEF AbortHalf, Answer, ReadExit, SkipReadWrite, Select, StateInv, WorkerInv
  <2>2. CASE Send
    <3>1. Deliver("ok") /\ UNCHANGED <<call, blcksig>>
      BY <2>2 DEF Send
    <3>2. PICK a \in Actors : a = ritem.by
      BY <2>2 DEF Send, QueueInv, Holding, Entries
    <3>3. PICK l \in {"decr", "late", "decrping"} : Goto(a, l)
      BY <3>1, <3>2, DeliverIs, ActorAssumption DEF Actors
    <3>4. resp' = [resp EXCEPT ![a] = "ok"] /\ pc[a] # "idle"
      BY <3>1, <3>2 DEF Deliver
    <3> QED
      BY <1>g, <1>r, <3>1, <3>3, <3>4
  <2>3. CASE Finish \/ ReadMore \/ ReadFail \/ ReadFirst \/ Drain
    BY <1>u, <2>3 DEF Finish, ReadMore, ReadFail, ReadFirst, Drain
  <2> QED
    BY <1>5, <2>1, <2>2, <2>3 DEF Background
<1>6. CASE Outside
  BY <1>6, <1>u, <1>c, <1>x DEF Outside, PeerBreak, TimerExit, vars
<1> QED
  BY <1>1, <1>2, <1>3, <1>4, <1>5, <1>6, StepIs

-----------------------------------------------------------------------------
(* The invariant and what it says. *)

\* A new connection.
LEMMA PipeStarts ==
    ASSUME Init
    PROVE  PipeInv
<1> USE DEF Init
<1>0. set \in AllSettings /\ set.pipelining \in BOOLEAN
  <2>1. set \in AllSettings
    BY SettingIs
  <2> QED
    BY SMTT(30), <2>1 DEF AllSettings
<1>a. \A a \in Actors : pc[a] = "idle" /\ resp[a] = None
  OBVIOUS
<1>c. /\ \A c \in Callers : pc[c] = "idle" /\ c \in Actors
      /\ \A k \in Closers : pc[k] = "idle" /\ resp[k] = None /\ pend[k] = {} /\ k \in Actors
      /\ pc[Bg] = "idle" /\ Bg \in Actors
  BY <1>a DEF Actors
<1>1. SharedType
  <2>1. waits \in Int /\ blcksig \in Int
    BY SMTT(30)
  <2> QED
    BY <1>0, <2>1 DEF SharedType
<1>2. ActorType
  BY <1>c DEF ActorType, CallerSteps, CloserSteps, PingSteps
<1>3. LocalType
  BY DEF LocalType, Results
<1>4. LoopType
  <2>1. q \in Seq(Entries) /\ taken \in 0..Len(q) /\ buf \in Nat /\ sent \in Nat /\ ff \in Nat
    BY SMTT(30)
  <2> QED
    BY <2>1 DEF LoopType, WriterSteps, ReaderSteps
<1>5. CountInv
  <2>1. Once = {} /\ Twice = {}
    BY <1>a, <1>c DEF Once, Twice, Counted
  <2>2. Cardinality(Once) = 0 /\ Cardinality(Twice) = 0
    BY <2>1, FS_EmptySet
  <2> QED
    BY SMTT(30), <2>2 DEF CountInv
<1>6. StateInv
  BY <1>0, <1>c, Values DEF StateInv, WorkerInv, ErrInv, ZeroInv, Stopping
<1>7. QueueInv
  <2>1. 1..Len(q) = {}
    BY SMTT(30)
  <2> QED
    BY <1>a, <2>1 DEF QueueInv, Holding, Awaits
<1>8. WireInv
  <2> DEFINE g == [i \in 0..0 |-> 0]
  <2>1. g \in [0..taken -> Int] /\ g[0] = 0 /\ (1..taken = {}) /\ g[taken] = 0
    BY SMTT(30)
  <2>2. Held = 0 /\ Owing = 0
    BY DEF Held, Owing
  <2>3. sent + buf + Held <= g[taken] + Owing
    BY SMTT(30), <2>1, <2>2
  <2> HIDE DEF g
  <2>4. Sums(g)
    BY <2>1, <2>3 DEF Sums
  <2> QED
    BY <2>1, <2>4 DEF WireInv
<1>9. DrainInv
  BY DEF DrainInv
<1>10. HolderInv
  <2>1. Holders = {} /\ ~Leaving
    BY <1>a, <1>c DEF Holders, Leaving, Alone
  <2> QED
    BY <1>c, <2>1 DEF HolderInv, OneHolds
<1>11. CloseInv
  BY <1>c, ActorAssumption DEF CloseInv, CloseOrder, Awaited, Acknowledged
<1>12. BlockInv
  <2>1. Blocking = {}
    BY <1>c DEF Blocking
  <2>2. blcksig = Cardinality(Blocking)
    BY <2>1, FS_EmptySet
  <2> QED
    BY <1>c, <2>2 DEF BlockInv, Lasting, BlocksCounted, Finished
<1> QED
  BY <1>1, <1>2, <1>3, <1>4, <1>5, <1>6, <1>7, <1>8, <1>9, <1>10, <1>11, <1>12 DEF PipeInv, PipeTypeOK

\* Every step keeps the invariant.
LEMMA PipeKeeps ==
    ASSUME PipeInv, [Next]_vars
    PROVE  PipeInv'
<1> USE DEF PipeInv, PipeTypeOK
<1>0. CountTells
  BY CountIsTold
<1>1. SharedType' /\ ActorType' /\ LocalType'
  BY SharedTypes, ActorTypes, LocalTypes
<1>2. LoopType'
  BY LoopTypes
<1>3. CountInv'
  BY Counts
<1>4. StateInv'
  BY WorkerRuns, ErrKnown, ZeroKnown DEF StateInv
<1>5. QueueInv'
  BY QueueHolds
<1>6. WireInv'
  BY <1>2, WireHolds
<1>7. DrainInv'
  BY <1>0, DrainEnds
<1>8. HolderInv'
  BY <1>0, <1>1, HolderHolds
<1>9. CloseInv'
  BY CloseHolds
<1>10. BlockInv'
  <2>1. Lasting' /\ (rpc' = "abort" => ~open') /\ (Healthy' => Healthy)
    BY LastingHolds, HealthStays DEF BlockInv
  <2>2. set' = set
    BY SettingStays
  <2>3. TidyBlocks' => TidyBlocks
    BY <2>2 DEF TidyBlocks
  <2>4. ~set.givesUp /\ TidyBlocks /\ Healthy' => BlocksCounted'
    BY <2>1, BlocksHold DEF BlockInv
  <2> QED
    BY <2>1, <2>2, <2>3, <2>4 DEF BlockInv
<1> QED
  BY <1>1, <1>2, <1>3, <1>4, <1>5, <1>6, <1>7, <1>8, <1>9, <1>10

\* The invariant holds throughout the life of the connection.
THEOREM PipeInvariant == Spec => []PipeInv
<1>1. Init => PipeInv
  BY SMTT(30), PipeStarts
<1>2. PipeInv /\ [Next]_vars => PipeInv'
  BY SMTT(30), PipeKeeps
<1> QED
  BY <1>1, <1>2, PTL DEF Spec

\* The queue is the ring, whose put waits for a place whatever becomes of the context.
NeverGivesUp == \A i \in DOMAIN Settings : ~Settings[i].givesUp

\* No call of DoMulti with a blocking command can be abandoned.
TidyCalls == \A i \in DOMAIN Settings : \A x \in Settings[i].calls : x.block /\ x.n # 1 => x.kind \notin {"deadline", "cancel"}

\* With the ring as queue at most one caller is in syncDo, and then neither loop of _background runs.
THEOREM OneAtATime == ASSUME NeverGivesUp PROVE Spec => []SyncIsAlone
<1>1. PipeInv => SyncIsAlone
  <2> SUFFICES ASSUME PipeInv, NEW c \in Callers, pc[c] = "sync"
               PROVE  wpc = "off" /\ rpc = "off" /\ \A d \in Callers \ {c} : pc[d] # "sync"
    BY DEF SyncIsAlone
  <2>1. OneHolds
    BY DEF PipeInv, PipeTypeOK, SharedType, HolderInv, NeverGivesUp, set
  <2>2. \A d \in Callers : pc[d] = "sync" => d \in Holders
    BY DEF Holders, Actors
  <2>3. ~bgState /\ \A d \in Callers : pc[d] = "sync" => d = c
    BY <2>1, <2>2 DEF OneHolds
  <2> QED
    BY <2>3 DEF PipeInv, StateInv, WorkerInv
<1> QED
  BY <1>1, PipeInvariant, PTL

\* When the drain loop of _background has ended, the queue is empty and nobody is on the way to it.
THEOREM NobodyLeftBehind == Spec => []NoCallLeftBehind
<1>1. PipeInv => NoCallLeftBehind
  <2> SUFFICES ASSUME PipeInv, rpc \in {"wait", "done"}
               PROVE  q = <<>> /\ \A a \in Actors : pc[a] \notin {"put", "recv", "abandoned"}
    BY DEF NoCallLeftBehind
  <2>1. \A a \in Actors : pc[a] \notin {"put", "recv", "abandoned"}
    BY DEF PipeInv, DrainInv
  <2>2. q \in Seq(Entries)
    BY DEF PipeInv, PipeTypeOK, LoopType
  <2>3. ASSUME NEW i \in 1..Len(q) PROVE FALSE
    <3>1. q[i].by \in Actors /\ pc[q[i].by] \in {"recv", "abandoned"}
      BY <2>2, OwnerIs DEF PipeInv, QueueInv, Awaits
    <3> QED
      BY <2>1, <3>1
  <2>4. q = <<>>
    BY SMTT(30), <2>2, <2>3
  <2> QED
    BY <2>1, <2>4
<1> QED
  BY <1>1, PipeInvariant, PTL

\* With the ring as queue, Close that got the answer to its PING cuts the connection only after every
\* call that it found under way has its result.
THEOREM CloseIsGraceful == ASSUME NeverGivesUp PROVE Spec => []CloseWaitsForCalls
<1>1. PipeInv => CloseWaitsForCalls
  BY DEF PipeInv, PipeTypeOK, SharedType, CloseInv, CloseOrder, Acknowledged, CloseWaitsForCalls, NeverGivesUp, set
<1> QED
  BY <1>1, PipeInvariant, PTL

\* With the ring as queue, and no blocking DoMulti that can be abandoned, blcksig is the number of
\* blocking calls while the connection is healthy.
THEOREM BlocksAreCounted == ASSUME NeverGivesUp, TidyCalls PROVE Spec => []BlockSignalExact
<1>1. PipeInv => BlockSignalExact
  <2> SUFFICES ASSUME PipeInv, err = None, open PROVE blcksig = Cardinality(Blocking)
    BY DEF BlockSignalExact, Blocking
  <2>1. setting \in DOMAIN Settings
    BY DEF PipeInv, PipeTypeOK, SharedType
  <2>2. ~set.givesUp /\ TidyBlocks
    BY <2>1 DEF NeverGivesUp, TidyCalls, TidyBlocks, set
  <2> QED
    BY <2>2 DEF PipeInv, BlockInv, Healthy, BlocksCounted
<1> QED
  BY <1>1, PipeInvariant, PTL

\* The reader that reads a reply finds the item it is for: _backgroundRead does not panic with protocolbug.
RepliesHaveItems == rpc = "read" /\ sent > 0 => taken > 0 /\ q # <<>>

\* Replies never outnumber the commands of the items that the writer has taken.
THEOREM NoStrayReply == Spec => []RepliesHaveItems
<1>1. PipeInv => RepliesHaveItems
  BY ReaderFinds DEF PipeInv, PipeTypeOK, RepliesHaveItems
<1> QED
  BY <1>1, PipeInvariant, PTL

-----------------------------------------------------------------------------
(* The timers: their invariant and its proof. *)

\* c has stopped t.
Passed(c, t) ==
    \/ closer[c] = "done"
    \/ closer[c] = "auth" /\ t # "auth"
    \/ closer[c] = "ping" /\ t = "life"

\* Somebody who has reset t is about to look at the error.
Rechecking(t) ==
    \/ t = "life" /\ \E u \in Users : user[u] = "checkLife"
    \/ t = "auth" /\ \E u \in Users : user[u] = "checkAuth"
    \/ \E i \in Callbacks : at[i] = "recheck" /\ of[i] = t

TimersTypeOK ==
    /\ failed \in BOOLEAN /\ armed \in SUBSET Timer
    /\ user \in [Users -> {"idle", "using", "life", "checkLife", "auth", "checkAuth"}]
    /\ closer \in [Stoppers -> {"idle", "done"} \cup Timer]
    /\ of \in [Callbacks -> Timer]
    /\ at \in [Callbacks -> {"idle", "lock", "stopLife", "reset", "recheck"}]

\* A closer sets the error first, and a timer that it stopped is running only as long as the one
\* who reset it has not looked again.
TimersInv ==
    /\ TimersTypeOK
    /\ \A c \in Stoppers : closer[c] # "idle" => failed
    /\ \A c \in Stoppers : \A t \in armed : Passed(c, t) => Rechecking(t)

\* The invariant holds for the timers that _newPipe has set.
LEMMA InitTimers == TimersInit => TimersInv
BY DEF TimersInit, TimersInv, TimersTypeOK, Passed, Timer

\* A user in StopTimer or ResetTimer keeps it: who resets is the one who looks again.
LEMMA UserKeeps ==
    ASSUME TimersInv, NEW u \in Users,
           StopTimer(u) \/ ResetTimer(u) \/ ResetLife(u) \/ RecheckLife(u) \/ ResetAuth(u) \/ RecheckAuth(u)
    PROVE  TimersInv'
<1> USE DEF TimersInv
<1>1. TimersTypeOK' /\ UNCHANGED <<failed, closer, of, at>>
  BY DEF TimersTypeOK, StopTimer, ResetTimer, ResetLife, RecheckLife, ResetAuth, RecheckAuth, User,
         StopIfFailed, Timer
<1>2. SUFFICES ASSUME NEW c \in Stoppers, NEW t \in armed', Passed(c, t)
               PROVE  Rechecking(t)'
  BY <1>1 DEF Passed
<1>3. failed
  BY <1>2 DEF Passed, TimersTypeOK
<1>4. CASE t \in armed /\ (user[u] = "checkLife" => t # "life") /\ (user[u] = "checkAuth" => t # "auth")
  <2>1. Rechecking(t)
    BY <1>2, <1>4
  <2> QED
    BY SMTT(30), <1>1, <1>4, <2>1 DEF Rechecking, TimersTypeOK, StopTimer, ResetTimer, ResetLife, RecheckLife,
                            ResetAuth, RecheckAuth, User
<1>5. CASE t \notin armed
  BY SMTT(30), <1>5 DEF Rechecking, TimersTypeOK, StopTimer, ResetTimer, ResetLife, RecheckLife, ResetAuth,
              RecheckAuth, User, StopIfFailed
<1>6. CASE (user[u] = "checkLife" /\ t = "life") \/ (user[u] = "checkAuth" /\ t = "auth")
  BY <1>3, <1>6 DEF TimersTypeOK, StopTimer, ResetTimer, ResetLife, RecheckLife, ResetAuth, RecheckAuth,
                    StopIfFailed
<1> QED
  BY <1>4, <1>5, <1>6

\* So does a callback.
LEMMA CallbackKeeps ==
    ASSUME TimersInv, NEW i \in Callbacks,
           Fire(i) \/ Run(i) \/ ExitStops(i) \/ CallbackResets(i) \/ CallbackRechecks(i)
    PROVE  TimersInv'
<1> USE DEF TimersInv
<1>1. TimersTypeOK' /\ UNCHANGED <<user, closer>> /\ (failed => failed')
  <2>1. CASE Fire(i)
    BY SMTT(30), <2>1 DEF TimersTypeOK, Fire, On, Timer
  <2>2. CASE Run(i)
    <3>1. failed' \in BOOLEAN /\ (failed => failed')
      <4>1. failed' = failed \/ failed' = TRUE
        BY <2>2 DEF Run
      <4> QED
        BY <4>1 DEF TimersTypeOK
    <3>2. at' \in [Callbacks -> {"idle", "lock", "stopLife", "reset", "recheck"}]
      BY <2>2 DEF TimersTypeOK, Run, On
    <3>3. UNCHANGED <<armed, user, closer, of>>
      BY <2>2 DEF Run
    <3> QED
      BY <3>1, <3>2, <3>3 DEF TimersTypeOK
  <2>3. CASE ExitStops(i)
    BY <2>3 DEF TimersTypeOK, ExitStops, On
  <2>4. CASE CallbackResets(i)
    BY <2>4 DEF TimersTypeOK, CallbackResets, On
  <2>5. CASE CallbackRechecks(i)
    BY <2>5 DEF TimersTypeOK, CallbackRechecks, On, StopIfFailed
  <2> QED
    BY <2>1, <2>2, <2>3, <2>4, <2>5
<1>2. SUFFICES ASSUME NEW c \in Stoppers, NEW t \in armed', Passed(c, t)
               PROVE  Rechecking(t)'
  BY <1>1 DEF Passed
<1>3. failed
  BY <1>2 DEF Passed, TimersTypeOK
<1>4. CASE t \in armed /\ ~(at[i] = "recheck" /\ of[i] = t)
  <2>1. Rechecking(t)
    BY <1>2, <1>4
  <2> QED
    BY SMTT(30), <1>1, <1>4, <2>1 DEF Rechecking, TimersTypeOK, Fire, Run, ExitStops, CallbackResets,
                            CallbackRechecks, On
<1>5. CASE t \notin armed
  BY SMTT(30), <1>5 DEF Rechecking, TimersTypeOK, Fire, Run, ExitStops, CallbackResets, CallbackRechecks, On,
              StopIfFailed
<1>6. CASE at[i] = "recheck" /\ of[i] = t
  BY <1>3, <1>6 DEF TimersTypeOK, Fire, Run, ExitStops, CallbackResets, CallbackRechecks, StopIfFailed
<1> QED
  BY <1>4, <1>5, <1>6

\* And a closer, who only stops timers.
LEMMA CloserKeeps ==
    ASSUME TimersInv, NEW c \in Stoppers, StopError(c) \/ Stop(c)
    PROVE  TimersInv'
<1> USE DEF TimersInv
<1>1. TimersTypeOK' /\ UNCHANGED <<user, of, at>> /\ armed' \subseteq armed
  BY DEF TimersTypeOK, StopError, Stop, StopTo, Timer
<1>2. \A d \in Stoppers : closer'[d] # "idle" => failed'
  BY DEF TimersTypeOK, StopError, Stop, StopTo, Timer
<1>3. ASSUME NEW d \in Stoppers, NEW t \in armed', Passed(d, t)'
      PROVE  Passed(d, t)
  <2>1. CASE StopError(c)
    BY <1>3, <2>1 DEF TimersTypeOK, Passed, StopError, StopTo
  <2>2. CASE Stop(c)
    BY SMTT(30), <1>1, <1>3, <2>2 DEF TimersTypeOK, Passed, Stop, StopTo, Timer
  <2> QED
    BY <2>1, <2>2
<1> QED
  BY <1>1, <1>2, <1>3 DEF Rechecking

\* The invariant holds in every state.
LEMMA TimersInvariance == TimersSpec => []TimersInv
<1>1. TimersInv /\ [TimersNext]_timerVars => TimersInv'
  <2> SUFFICES ASSUME TimersInv, [TimersNext]_timerVars
               PROVE  TimersInv'
    OBVIOUS
  <2>1. CASE UNCHANGED timerVars
    BY SMTT(30), <2>1 DEF TimersInv, TimersTypeOK, Passed, Rechecking, timerVars
  <2> QED
    BY <2>1, UserKeeps, CallbackKeeps, CloserKeeps DEF TimersNext
<1> QED
  BY <1>1, InitTimers, PTL DEF TimersSpec

\* No timer outlives its pipe, however many goroutines reset and stop them: ResetTimer,
\* scheduleAuthRefresh and the ping look at the error once more after the reset.
THEOREM TimersEnd == TimersSpec => []NoTimerOutlivesPipe
<1>1. TimersInv => NoTimerOutlivesPipe
  BY DEF TimersInv, TimersTypeOK, NoTimerOutlivesPipe, Passed, Rechecking
<1> QED
  BY <1>1, TimersInvariance, PTL
=============================================================================
