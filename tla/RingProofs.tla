----------------------------- MODULE RingProofs -----------------------------
(***************************************************************************)
(* For every number of callers, every ring size and every buffer size, the *)
(* replies read by _backgroundRead are filed under the commands they       *)
(* answer, and handed to the goroutines that put these commands.           *)
(*                                                                         *)
(* The inductive invariant has three parts. SlotInv and CallerInv tie the  *)
(* mark and the content of a slot to the goroutine waiting on its channel. *)
(* StreamInv says that the redis commands on the wire form a chain: each   *)
(* is followed by the next one of its slot, or by the first one of the     *)
(* next slot; the chain starts where the reader stands and ends where the  *)
(* writer stands.  WakeInv adds who is about to signal to whom, so that no *)
(* wakeup is lost.                                                         *)
(***************************************************************************)
EXTENDS Ring, TLAPS

-----------------------------------------------------------------------------
(* The inductive invariant. *)

NextSlot(s) == IF s = Size - 1 THEN 0 ELSE s + 1

\* The slot NextWriteCmd or WaitForWrite looks at next, and the one of NextResultCh.
WSlot == IF wpc \in {"wait", "c2", "woken"} THEN Idx(read1) ELSE Idx(Inc(read1))
RSlot == Idx(Inc(read2))

Waits(c) == pc[c] \in {"bcast", "recv"}
Holding == rpc \in {"more", "send"}

SlotOK(s) ==
    /\ mark[s] = 0 => one[s] = None /\ multi[s] = None
    /\ mark[s] # 0 => /\ CmdIn(s) \in Cmds
                      /\ Waits(CmdIn(s).by)
                      /\ at[CmdIn(s).by] = s

SlotInv == \A s \in Slots : SlotOK(s)

CallerOK(c) ==
    Waits(c) =>
        /\ call[c] \in Cmds
        /\ call[c].by = c
        /\ \/ mark[at[c]] # 0 /\ CmdIn(at[c]) = call[c]
           \/ mark[at[c]] = 0 /\ Holding /\ resc = at[c] /\ rcmd = call[c]

CallerInv == \A c \in Callers : CallerOK(c)

ReaderInv ==
    /\ Holding =>
          /\ rcmd \in Cmds
          /\ mark[resc] = 0
          /\ Waits(rcmd.by)
          /\ at[rcmd.by] = resc
          /\ Idx(read2) = resc
    /\ rpc = "more" => ff < rcmd.n

\* The redis commands of goroutine c may still be on their way to the reader.
Live(c) == Waits(c) /\ (mark[at[c]] = 2 \/ (rpc = "more" /\ rcmd.by = c))

WriterInv ==
    wpc = "write" =>
        /\ wcmd \in Cmds
        /\ Live(wcmd.by)
        /\ call[wcmd.by] = wcmd
        /\ windex \in 1..wcmd.n
        /\ at[wcmd.by] = Idx(read1)

Follows(p, q) == IF p[2] < call[p[1]].n
                    THEN q = <<p[1], p[2] + 1>>
                    ELSE q[2] = 1 /\ at[q[1]] = NextSlot(at[p[1]])

IsFirst(q) == IF rpc = "more" THEN q = <<rcmd.by, ff + 1>>
                              ELSE q[2] = 1 /\ at[q[1]] = RSlot

IsLast(p) == IF wpc = "write" THEN Follows(p, <<wcmd.by, windex>>)
                              ELSE p[2] = call[p[1]].n /\ NextSlot(at[p[1]]) = WSlot

StreamInv ==
    /\ \A k \in 1..Len(stream) :
          /\ Live(stream[k][1])
          /\ stream[k][2] \in 1..call[stream[k][1]].n
          /\ wpc = "write" /\ stream[k][1] = wcmd.by => stream[k][2] < windex
    /\ \A j, k \in 1..Len(stream) :
          j < k /\ stream[j][1] = stream[k][1] => stream[j][2] < stream[k][2]
    /\ \A k \in 1..(Len(stream) - 1) : Follows(stream[k], stream[k + 1])

EndsInv ==
    /\ stream # <<>> => IsFirst(stream[1]) /\ IsLast(stream[Len(stream)])
    /\ stream = <<>> => IF wpc = "write" THEN IsFirst(<<wcmd.by, windex>>)
                                        ELSE rpc # "more" /\ RSlot = WSlot

\* A slot marked 2 has its last redis command on the wire or still to be written.
MarkOK(s) ==
    mark[s] = 2 =>
        \/ wpc = "write" /\ wcmd.by = CmdIn(s).by
        \/ \E k \in 1..Len(stream) : stream[k] = <<CmdIn(s).by, CmdIn(s).n>>

MarkInv == \A s \in Slots : MarkOK(s)

IInv == TypeOK /\ SlotInv /\ CallerInv /\ ReaderInv /\ WriterInv /\ StreamInv
               /\ EndsInv /\ MarkInv

\* The reader is between NextResultCh of slot s and the Signal of its FinishResult.
AtSlot(s) == rpc \in {"more", "send", "unlock", "signal"} /\ resc = s

\* No lost wakeup, per sleeper; while the writer sleeps on c2 of a slot, the slot says so.
WakeInv ==
    /\ \A d \in Callers : pc[d] = "c1" /\ mark[at[d]] = 0 =>
          AtSlot(at[d]) \/ \E c \in Callers : pc[c] = "lock" /\ at[c] = at[d]
    /\ wpc = "c2" => slept[Idx(read1)]
    /\ wpc = "c2" /\ mark[Idx(read1)] = 1 => \E c \in Callers : pc[c] = "bcast" /\ at[c] = Idx(read1)

-----------------------------------------------------------------------------
(* Counters modulo 2^32 and slots modulo the ring size. *)

USE ZenonT(60)

\* Euclidean division, as the provers need it spelled out.
LEMMA DivMod ==
    ASSUME NEW x \in Nat, NEW N \in Nat \ {0}
    PROVE  /\ x = N * (x \div N) + (x % N)
           /\ x \div N \in Nat
           /\ x % N \in 0..(N - 1)
  BY Z3

\* An index in a range is its last one or below it.
LEMMA Below ==
    ASSUME NEW n \in Nat, NEW f \in 1..n
    PROVE  (f < n <=> f # n) /\ f <= n /\ f \in Nat
  BY SMTT(30)

\* What is below an index is below its bound.
LEMMA LessThan ==
    ASSUME NEW a \in Nat, NEW b \in Nat, NEW c \in Nat, a < b, b <= c
    PROVE  a < c
  BY SMTT(30)

\* The first and the last index when one element is dropped.
LEMMA Ends ==
    ASSUME NEW N \in Nat, N # 0
    PROVE  /\ 1 \in 1..N
           /\ N # 1 => 1 \in 1..(N - 1) /\ N - 1 \in 1..(N - 1) /\ (N - 1) + 1 = N
           /\ \A k \in 1..N : k # 1 => \E i \in 1..(N - 1) : i + 1 = k
  BY SMTT(30)

\* A slot that is freed is not marked, and the others keep their mark.
LEMMA SlotFreed ==
    ASSUME NEW m \in [Slots -> 0..2], NEW s \in Slots, NEW n, n = [m EXCEPT ![s] = 0]
    PROVE  n \in [Slots -> 0..2] /\ n[s] # 2 /\ \A u \in Slots : u # s => n[u] = m[u]
  BY SMTT(30)

\* The parts of a pair.
LEMMA PairIs ==
    ASSUME NEW p, NEW a, NEW b, p = <<a, b>>
    PROVE  p[1] = a /\ p[2] = b
  OBVIOUS

\* The marks of a slot differ.
LEMMA Marked == 0 # 1 /\ 1 # 2 /\ 2 # 0 /\ 0 + 1 = 1
  BY SMTT(30)

\* Index arithmetic for dropping the first element of a sequence of length N.
LEMMA Shift ==
    ASSUME NEW N \in Nat
    PROVE  /\ \A k \in 1..(N - 1) : k + 1 \in 1..N /\ k + 1 \in 2..N
           /\ \A k \in 1..(N - 1 - 1) : k \in 1..(N - 1) /\ k + 1 \in 1..(N - 1)
           /\ \A j, k \in 1..(N - 1) : j < k => j + 1 < k + 1
           /\ \A k \in 2..N : k \in 1..N /\ 1 < k
  BY SMTT(30)

\* Multiplication is monotone: a < b puts at least one N between N*a and N*b.
LEMMA MulMono ==
    ASSUME NEW N \in Nat \ {0}, NEW a \in Nat, NEW b \in Nat, a < b
    PROVE  N * a + N <= N * b
<1>1. PICK d \in Nat : b = a + 1 + d
  <2>1. b - a - 1 \in Nat
    BY SMTT(30)
  <2> QED
    BY SMTT(30), <2>1
<1>2. N * b = N * a + N + N * d
  BY <1>1, Z3
<1>3. N * d >= 0
  BY Z3
<1> QED
  BY <1>2, <1>3, Z3

\* The remainder of N*q + r is r.
LEMMA ModUnique ==
    ASSUME NEW N \in Nat \ {0}, NEW q \in Nat, NEW r \in 0..(N - 1)
    PROVE  (N * q + r) % N = r
<1> DEFINE x == N * q + r
<1>0. x \in Nat
  BY Z3
<1>1. /\ x = N * (x \div N) + (x % N)
      /\ x \div N \in Nat
      /\ x % N \in 0..(N - 1)
  BY <1>0, DivMod
<1>2. CASE x \div N < q
  BY <1>1, <1>2, MulMono, N * (x \div N) + N <= N * q, Z3
<1>3. CASE q < x \div N
  BY <1>1, <1>3, MulMono, Z3
<1>4. CASE q = x \div N
  BY <1>1, <1>4, Z3
<1> QED
  BY SMTT(30), <1>1, <1>2, <1>3, <1>4

\* counter & mask: advancing a counter by one, wrap-around included, advances the
\* slot it points to by one (store's size must be 2^N to work with the mask).
LEMMA SlotOfInc ==
    ASSUME NEW n \in 0..(Wrap - 1)
    PROVE  /\ Inc(n) \in 0..(Wrap - 1)
           /\ Idx(n) \in Slots
           /\ Idx(Inc(n)) = NextSlot(Idx(n))
           /\ Idx(Inc(n)) \in Slots
<1> USE SizeAssumption, WrapAssumption
<1>a. n \in Nat /\ Size \in Nat \ {0}
  BY SMTT(30)
<1>0. /\ n = Size * (n \div Size) + (n % Size)
      /\ n \div Size \in Nat
      /\ n % Size \in 0..(Size - 1)
  BY <1>a, DivMod
<1>1. PICK q \in Nat, r \in 0..(Size - 1) : n = Size * q + r /\ r = n % Size
  BY <1>0
<1>2. CASE n + 1 < Wrap
  <2>1. Inc(n) = n + 1
    <3>1. (Wrap * 0 + (n + 1)) % Wrap = n + 1
      BY SMTT(30), <1>2, ModUnique
    <3> QED
      BY SMTT(30), <3>1 DEF Inc
  <2>2. CASE r + 1 < Size
    <3>0. r + 1 \in 0..(Size - 1)
      BY SMTT(30), <2>2
    <3>1. (Size * q + (r + 1)) % Size = r + 1
      BY SMTT(30), <3>0, ModUnique
    <3>2. Size * q + (r + 1) = n + 1
      BY <1>1, Z3
    <3> QED
      BY SMTT(30), <1>1, <1>2, <2>1, <2>2, <3>1, <3>2 DEF Idx, NextSlot, Slots
  <2>3. CASE r + 1 = Size
    <3>1. (Size * (q + 1) + 0) % Size = 0
      BY SMTT(30), <1>1, ModUnique
    <3>2. Size * (q + 1) + 0 = Size * q + Size
      BY <1>1, Z3
    <3>3. Size * (q + 1) + 0 = n + 1
      BY <1>1, <2>3, <3>2, Z3
    <3>4. (n + 1) % Size = 0
      BY <3>1, <3>3
    <3> QED
      BY SMTT(30), <1>1, <1>2, <2>1, <2>3, <3>4 DEF Idx, NextSlot, Slots
  <2> QED
    BY SMTT(30), <1>1, <2>2, <2>3
<1>3. CASE n + 1 = Wrap
  <2>1. Inc(n) = 0 /\ Idx(Inc(n)) = 0
    <3>1. (Wrap * 1 + 0) % Wrap = 0 /\ (Size * 0 + 0) % Size = 0
      BY SMTT(30), ModUnique
    <3> QED
      BY SMTT(30), <1>3, <3>1 DEF Inc, Idx
  <2>2. Wrap = Size * (Wrap \div Size) /\ Wrap \div Size \in Nat
    BY SMTT(30), DivMod, Wrap = Size * (Wrap \div Size) + (Wrap % Size)
  <2>3. Wrap \div Size # 0
    BY <2>2, Z3
  <2>4. PICK k \in Nat : Wrap \div Size = k + 1
    BY SMTT(30), <2>2, <2>3, Wrap \div Size - 1 \in Nat
  <2>5. Size - 1 \in 0..(Size - 1)
    BY SMTT(30)
  <2>6. (Size * k + (Size - 1)) % Size = Size - 1
    BY SMTT(30), <2>4, <2>5, ModUnique
  <2>7. Size * k + (Size - 1) = n
    BY <1>3, <2>2, <2>4, Z3
  <2>8. Idx(n) = Size - 1
    BY <2>6, <2>7 DEF Idx
  <2> QED
    BY SMTT(30), <2>1, <2>8 DEF NextSlot, Slots
<1> QED
  BY SMTT(30), <1>2, <1>3

-----------------------------------------------------------------------------
(* Wakeups, step by step. *)

\* A goroutine's step: it sleeps only on a taken slot, and a slot it fills has its Broadcast to come
\* if the writer sleeps there.
LEMMA CallerWakes ==
    ASSUME TypeOK, WakeInv, NEW c \in Callers,
           \/ Claim(c) \/ SleepC1(c) \/ Broadcast(c) \/ Send(c)
           \/ \E cmd, m : Fill(c, cmd, m)
    PROVE  WakeInv'
<1>t. /\ pc \in [Callers -> {"idle", "lock", "c1", "bcast", "recv"}] /\ at \in [Callers -> Slots]
      /\ mark \in [Slots -> 0..2] /\ Idx(read1) \in Slots
  BY SlotOfInc DEF TypeOK
<1>1. CASE Claim(c)
  BY <1>1, <1>t DEF Claim, WakeInv, AtSlot, slotVars, writerVars, readerVars
<1>2. CASE SleepC1(c)
  BY SMTT(30), <1>2, <1>t DEF SleepC1, WakeInv, AtSlot, slotVars, writerVars, readerVars, counters
<1>3. CASE Broadcast(c)
  BY <1>3, <1>t DEF Broadcast, WakeInv, AtSlot, slotVars, readerVars, counters
<1>4. CASE Send(c)
  BY <1>4, <1>t DEF Send, WakeInv, AtSlot, slotVars, writerVars, counters
<1>5. ASSUME NEW cmd, NEW m, Fill(c, cmd, m)
      PROVE  WakeInv'
  <2>1. /\ UNCHANGED <<at, slept, wpc, read1, rpc, resc>> /\ mark' = [mark EXCEPT ![at[c]] = 1] /\ pc[c] = "lock"
        /\ pc' = [pc EXCEPT ![c] = IF slept[at[c]] THEN "bcast" ELSE "recv"]
    BY <1>5 DEF Fill, writerVars, readerVars, counters
  <2>2. PICK l : l = (IF slept[at[c]] THEN "bcast" ELSE "recv")
    OBVIOUS
  <2>3. pc'[c] = l /\ \A d \in Callers : d # c => pc'[d] = pc[d]
    BY <1>t, <2>1, <2>2
  <2>4. mark'[at[c]] = 1 /\ \A t \in Slots : t # at[c] => mark'[t] = mark[t]
    BY <1>t, <2>1
  <2>5. ASSUME NEW d \in Callers, pc'[d] = "c1", mark'[at'[d]] = 0
        PROVE  AtSlot(at[d])' \/ \E e \in Callers : pc'[e] = "lock" /\ at'[e] = at'[d]
    <3>1. pc[d] = "c1" /\ at[d] # at[c] /\ mark[at[d]] = 0
      BY SMTT(30), <1>t, <2>1, <2>2, <2>3, <2>4, <2>5
    <3>2. AtSlot(at[d]) \/ \E e \in Callers : pc[e] = "lock" /\ at[e] = at[d]
      BY <3>1 DEF WakeInv
    <3>3. CASE AtSlot(at[d])
      BY <2>1, <3>3 DEF AtSlot
    <3> QED
      BY <2>1, <2>3, <3>1, <3>2, <3>3
  <2>6. ASSUME wpc' = "c2", mark'[Idx(read1')] = 1
        PROVE  \E e \in Callers : pc'[e] = "bcast" /\ at'[e] = Idx(read1')
    <3>1. CASE at[c] = Idx(read1)
      BY <2>1, <2>2, <2>3, <2>6, <3>1 DEF WakeInv
    <3>2. CASE at[c] # Idx(read1)
      BY <1>t, <2>1, <2>3, <2>4, <2>6, <3>2 DEF WakeInv
    <3> QED
      BY <3>1, <3>2
  <2>7. wpc' = "c2" => slept'[Idx(read1')]
    BY <2>1 DEF WakeInv
  <2> QED
    BY <2>5, <2>6, <2>7 DEF WakeInv
<1> QED
  BY <1>1, <1>2, <1>3, <1>4, <1>5

\* The writer's step: it frees no slot, and says so when it goes to sleep.
LEMMA WriterWakes ==
    ASSUME TypeOK, WakeInv, Writer
    PROVE  WakeInv'
<1>t. /\ at \in [Callers -> Slots] /\ mark \in [Slots -> 0..2] /\ slept \in [Slots -> BOOLEAN]
      /\ Idx(read1) \in Slots
  BY SlotOfInc DEF TypeOK
<1>0. ASSUME NEW s, TakeCmd(s), UNCHANGED <<callerVars, readerVars>>
      PROVE  WakeInv'
  BY SMTT(30), <1>0, <1>t DEF TakeCmd, WakeInv, AtSlot, callerVars, readerVars
<1>1. CASE NextWriteCmd
  BY <1>0, <1>1, <1>t DEF NextWriteCmd, WakeInv, AtSlot, callerVars, readerVars
<1>2. CASE Flush
  BY <1>2, <1>t DEF Flush, WakeInv, AtSlot, slotVars, callerVars, readerVars
<1>3. CASE WaitForWrite
  BY <1>0, <1>3, <1>t DEF WaitForWrite, WakeInv, AtSlot, callerVars, readerVars, counters
<1>4. CASE WriteCmd
  BY <1>4, <1>t DEF WriteCmd, WakeInv, AtSlot, slotVars, callerVars, readerVars, counters
<1> QED
  BY <1>1, <1>2, <1>3, <1>4 DEF Writer

\* The reader's step: it is at a slot from the moment it frees it until it has signalled, and its
\* Signal sends one sleeper back to the lock.
LEMMA ReaderWakes ==
    ASSUME TypeOK, WakeInv, ReadFirst \/ ReadMore \/ Unlock \/ Signal \/ UnsubPush
    PROVE  WakeInv'
<1>t. /\ pc \in [Callers -> {"idle", "lock", "c1", "bcast", "recv"}] /\ at \in [Callers -> Slots]
      /\ mark \in [Slots -> 0..2] /\ Idx(read1) \in Slots
  BY SlotOfInc DEF TypeOK
<1>0. ASSUME NEW s, NextResultCh(s), rpc = "read", rpc' \in {"more", "send"},
             UNCHANGED <<read1, slept, callerVars, writerVars>>
      PROVE  WakeInv'
  BY <1>0, <1>t DEF NextResultCh, WakeInv, AtSlot, callerVars, writerVars
<1>1. CASE ReadFirst
  BY <1>0, <1>1 DEF ReadFirst
<1>2. CASE ReadMore
  BY <1>2, <1>t DEF ReadMore, WakeInv, AtSlot, slotVars, callerVars, writerVars, counters
<1>3. CASE Unlock
  BY <1>3, <1>t DEF Unlock, WakeInv, AtSlot, slotVars, callerVars, writerVars, counters
<1>4. CASE Signal
  <2>1. CASE Sleeping(resc) = {} /\ UNCHANGED pc
    BY <1>4, <2>1 DEF Signal, Sleeping, WakeInv, AtSlot, slotVars, writerVars, counters
  <2>2. ASSUME NEW c \in Sleeping(resc), pc' = [pc EXCEPT ![c] = "lock"]
        PROVE  WakeInv'
    <3>1. /\ UNCHANGED <<at, mark, slept, wpc, read1>> /\ c \in Callers /\ pc[c] = "c1" /\ at[c] = resc
          /\ rpc = "signal"
      BY <1>4, <2>2 DEF Signal, Sleeping, slotVars, writerVars, counters
    <3>2. pc'[c] = "lock" /\ \A d \in Callers : d # c => pc'[d] = pc[d]
      BY <1>t, <2>2, <3>1
    <3>3. ASSUME NEW d \in Callers, pc'[d] = "c1", mark[at[d]] = 0
          PROVE  \E e \in Callers : pc'[e] = "lock" /\ at[e] = at[d]
      <4>1. pc[d] = "c1" /\ (at[d] = resc \/ \E e \in Callers : pc[e] = "lock" /\ at[e] = at[d])
        BY <3>2, <3>3 DEF WakeInv, AtSlot
      <4> QED
        BY <3>1, <3>2, <4>1
    <3>4. \A e \in Callers : pc[e] = "bcast" => pc'[e] = "bcast"
      BY <3>1, <3>2
    <3>5. /\ wpc = "c2" => slept[Idx(read1)]
          /\ wpc = "c2" /\ mark[Idx(read1)] = 1 => \E e \in Callers : pc'[e] = "bcast" /\ at[e] = Idx(read1)
      BY <3>4 DEF WakeInv
    <3> QED
      BY <3>1, <3>3, <3>5 DEF WakeInv
  <2> QED
    BY <1>4, <2>1, <2>2 DEF Signal
<1>5. CASE UnsubPush
  <2>1. CASE \E s : NextResultCh(s) /\ rpc' = "more"
    BY <1>0, <1>5, <2>1 DEF UnsubPush
  <2>2. CASE rpc' = "unlock" /\ UNCHANGED <<mark, one, multi, read2, rcmd>>
    BY <1>5, <2>2, <1>t DEF UnsubPush, WakeInv, AtSlot, callerVars, writerVars
  <2> QED
    BY <1>5, <2>1, <2>2 DEF UnsubPush
<1> QED
  BY <1>1, <1>2, <1>3, <1>4, <1>5

-----------------------------------------------------------------------------
(* The invariant is inductive. *)

USE NoneAssumption

\* What a slot holds names its goroutine and at least one redis command.
LEMMA CmdType ==
    ASSUME NEW cmd \in Cmds
    PROVE  cmd.by \in Callers /\ cmd.n \in Nat /\ 1 \in 1..cmd.n
<1>1. cmd.by \in Callers /\ cmd.n \in MultiLens \cup {1}
  BY DEF Cmds
<1>2. CASE cmd.n \in MultiLens
  <2>1. cmd.n \in Nat \ {0}
    BY <1>2, LensAssumption
  <2> QED
    BY SMTT(30), <1>1, <2>1
<1>3. CASE cmd.n = 1
  BY SMTT(30), <1>1, <1>3
<1> QED
  BY <1>1, <1>2, <1>3

\* No two goroutines receive from the channel of one slot.
LEMMA OneWaiter ==
    ASSUME IInv, NEW c \in Callers, NEW d \in Callers, Waits(c), Waits(d), at[c] = at[d]
    PROVE  c = d
  BY SMTT(30) DEF IInv, CallerInv, CallerOK

\* newRing establishes the invariant.
LEMMA InitIInv == Init => IInv
<1> SUFFICES ASSUME Init PROVE IInv
  OBVIOUS
<1>1. 0 \in 0..(Wrap - 1) /\ 0 \in Slots
  BY SMTT(30), SizeAssumption, WrapAssumption DEF Slots
<1>2. TypeOK
  BY SMTT(30), <1>1 DEF Init, TypeOK
<1>3. SlotInv /\ CallerInv /\ ReaderInv /\ WriterInv /\ MarkInv
  BY SMTT(30), <1>1 DEF Init, SlotInv, SlotOK, CallerInv, CallerOK, ReaderInv, WriterInv, MarkInv, MarkOK, Waits, Holding
<1>4. StreamInv /\ EndsInv
  BY SMTT(30) DEF Init, StreamInv, EndsInv, RSlot, WSlot
<1> QED
  BY <1>2, <1>3, <1>4 DEF IInv

\* A redis command on the wire belongs to a goroutine that waits for its reply.
LEMMA StreamElem ==
    ASSUME IInv, NEW k \in 1..Len(stream)
    PROVE  /\ stream[k] = <<stream[k][1], stream[k][2]>>
           /\ stream[k][1] \in Callers /\ stream[k][2] \in Nat
           /\ Waits(stream[k][1])
<1>1. stream[k] \in Callers \X Nat
  BY SMTT(30) DEF IInv, TypeOK
<1> QED
  BY SMTT(30), <1>1 DEF IInv, StreamInv, Live

\* Claiming a slot (atomic.AddUint32 in PutOne and PutMulti) keeps the invariant.
LEMMA ClaimInv ==
    ASSUME IInv, NEW c \in Callers, Claim(c)
    PROVE  IInv'
<1> USE DEF Claim, slotVars, writerVars, wireVars, readerVars
<1>a. \A d \in Callers : Waits(d)' = Waits(d) /\ (Waits(d) => at'[d] = at[d])
  BY SMTT(30) DEF IInv, TypeOK, Waits
<1>b. \A k \in 1..Len(stream) : stream[k][1] \in Callers /\ Waits(stream[k][1])
  BY StreamElem
<1>c. write' \in 0..(Wrap - 1) /\ Idx(Inc(write)) \in Slots
  BY SlotOfInc DEF IInv, TypeOK
<1>1. TypeOK'
  BY SMTT(30), <1>c DEF IInv, TypeOK
<1>2. SlotInv'
  BY SMTT(30) DEF IInv, SlotInv, SlotOK, TypeOK, CmdIn, Waits
<1>3. CallerInv'
  BY DEF IInv, CallerInv, CallerOK, TypeOK, CmdIn, Waits, Holding
<1>4. ReaderInv'
  BY SMTT(30) DEF IInv, ReaderInv, TypeOK, Waits, Holding
<1>5. WriterInv'
  BY SMTT(30) DEF IInv, WriterInv, TypeOK, Live, Waits
<1>6. StreamInv'
  BY SMTT(30), <1>a, <1>b DEF IInv, StreamInv, Live, Follows
<1>7. EndsInv'
  BY SMTT(30), <1>a, <1>b DEF IInv, EndsInv, WriterInv, TypeOK, Live, IsFirst, IsLast, Follows, RSlot, WSlot
<1>8. MarkInv'
  BY DEF IInv, MarkInv, MarkOK, CmdIn
<1> QED
  BY <1>1, <1>2, <1>3, <1>4, <1>5, <1>6, <1>7, <1>8 DEF IInv

\* Filling a free slot (PutOne and PutMulti under the mutex) keeps the invariant.
LEMMA FillInv ==
    ASSUME IInv, NEW c \in Callers, NEW cmd \in Cmds, NEW b \in BOOLEAN, cmd.by = c,
           Fill(c, cmd, b)
    PROVE  IInv'
<1> USE DEF Fill, counters, writerVars, wireVars, readerVars, bounds
<1>s. PICK s \in Slots : s = at[c]
  BY DEF IInv, TypeOK
<1>a. /\ mark[s] = 0 /\ one[s] = None /\ multi[s] = None
      /\ ~(Holding /\ resc = s)
      /\ ~Waits(c) /\ Waits(c)'
      /\ at' = at /\ call'[c] = cmd
      /\ CmdIn(s)' = cmd /\ mark'[s] = 1
      /\ cmd # None
  BY <1>s DEF IInv, TypeOK, SlotInv, SlotOK, Locked, Holding, Waits, CmdIn
<1>b. \A t \in Slots : t # s => CmdIn(t)' = CmdIn(t) /\ mark'[t] = mark[t] /\ one'[t] = one[t] /\ multi'[t] = multi[t]
  BY <1>s DEF IInv, TypeOK, CmdIn
<1>c. \A d \in Callers : d # c => Waits(d)' = Waits(d) /\ call'[d] = call[d]
  BY DEF IInv, TypeOK, Waits
<1>d. \A d \in Callers : Waits(d) => d # c /\ at[d] \in Slots /\ at[d] # s
  BY <1>a DEF IInv, TypeOK, CallerInv, CallerOK
<1>e. \A k \in 1..Len(stream) : stream[k][1] \in Callers /\ Waits(stream[k][1])
  BY StreamElem
<1>1. TypeOK'
  BY SMTT(30), <1>s DEF IInv, TypeOK
<1>2. SlotInv'
  <2> SUFFICES ASSUME NEW t \in Slots
               PROVE  SlotOK(t)'
    BY DEF SlotInv
  <2>1. CASE t = s
    BY SMTT(30), <2>1, <1>s, <1>a DEF SlotOK
  <2>2. CASE t # s
    <3>1. mark[t] # 0 => CmdIn(t).by \in Callers
      BY DEF IInv, SlotInv, SlotOK, Cmds
    <3> QED
      BY SMTT(30), <2>2, <3>1, <1>a, <1>b, <1>c, <1>d DEF IInv, SlotInv, SlotOK
  <2> QED
    BY <2>1, <2>2
<1>3. CallerInv'
  <2> SUFFICES ASSUME NEW d \in Callers
               PROVE  CallerOK(d)'
    BY DEF CallerInv
  <2>1. CASE d = c
    BY SMTT(30), <2>1, <1>s, <1>a DEF CallerOK, CmdIn
  <2>2. CASE d # c
    BY SMTT(30), <2>2, <1>a, <1>b, <1>c, <1>d DEF IInv, CallerInv, CallerOK, Holding, CmdIn
  <2> QED
    BY <2>1, <2>2
<1>4. ReaderInv'
  BY <1>a, <1>b, <1>c DEF IInv, ReaderInv, TypeOK, Holding, Cmds
<1>5. WriterInv'
  BY SMTT(30), <1>a, <1>b, <1>c, <1>d DEF IInv, WriterInv, Live, Cmds
<1>6. StreamInv'
  BY SMTT(30), <1>a, <1>b, <1>c, <1>d, <1>e DEF IInv, StreamInv, Live, Follows
<1>7. EndsInv'
  BY SMTT(30), <1>a, <1>c, <1>d, <1>e DEF IInv, EndsInv, WriterInv, Live, Cmds, IsFirst, IsLast, Follows, RSlot, WSlot
<1>8. MarkInv'
  <2> SUFFICES ASSUME NEW t \in Slots
               PROVE  MarkOK(t)'
    BY DEF MarkInv
  <2>1. MarkOK(t)
    BY DEF IInv, MarkInv
  <2>2. CASE t = s
    BY SMTT(30), <2>2, <1>a DEF MarkOK
  <2>3. CASE t # s
    <3>1. CmdIn(t)' = CmdIn(t) /\ mark'[t] = mark[t]
      BY <2>3, <1>b
    <3> QED
      BY <2>1, <3>1 DEF MarkOK
  <2> QED
    BY <2>2, <2>3
<1> QED
  BY <1>1, <1>2, <1>3, <1>4, <1>5, <1>6, <1>7, <1>8 DEF IInv

\* Falling asleep on c1 keeps the invariant.
LEMMA SleepInv ==
    ASSUME IInv, NEW c \in Callers, SleepC1(c)
    PROVE  IInv'
<1> USE DEF SleepC1, counters, slotVars, writerVars, wireVars, readerVars, bounds
<1>a. \A d \in Callers : Waits(d)' = Waits(d)
  BY SMTT(30) DEF IInv, TypeOK, Waits
<1>b. \A k \in 1..Len(stream) : stream[k][1] \in Callers
  BY StreamElem
<1>1. TypeOK'
  BY DEF IInv, TypeOK
<1>2. SlotInv' /\ CallerInv' /\ ReaderInv'
  BY <1>a DEF IInv, SlotInv, SlotOK, CallerInv, CallerOK, ReaderInv, Holding, CmdIn, Cmds
<1>5. MarkInv'
  BY DEF IInv, MarkInv, MarkOK, CmdIn
<1>3. WriterInv' /\ StreamInv'
  BY <1>a, <1>b DEF IInv, WriterInv, StreamInv, Live, Follows, Cmds
<1>4. EndsInv'
  BY DEF IInv, EndsInv, IsFirst, IsLast, Follows, RSlot, WSlot
<1> QED
  BY <1>1, <1>2, <1>3, <1>4, <1>5 DEF IInv

\* resc.Signal of FinishResult keeps the invariant, whoever it wakes.
LEMMA SignalInv ==
    ASSUME IInv, Signal
    PROVE  IInv'
<1> USE DEF Signal, counters, slotVars, writerVars, wireVars, bounds
<1>a. /\ pc' \in [Callers -> {"idle", "lock", "c1", "bcast", "recv"}]
      /\ \A d \in Callers : Waits(d)' = Waits(d)
  <2>1. CASE UNCHANGED pc
    BY <2>1 DEF IInv, TypeOK, Waits
  <2>2. CASE \E c \in Sleeping(resc) : pc' = [pc EXCEPT ![c] = "lock"]
    BY SMTT(30), <2>2 DEF IInv, TypeOK, Waits, Sleeping
  <2> QED
    BY <2>1, <2>2
<1>b. \A k \in 1..Len(stream) : stream[k][1] \in Callers
  BY StreamElem
<1>1. TypeOK'
  BY <1>a DEF IInv, TypeOK
<1>2. SlotInv' /\ CallerInv' /\ ReaderInv'
  BY <1>a DEF IInv, SlotInv, SlotOK, CallerInv, CallerOK, ReaderInv, Holding, CmdIn, Cmds
<1>5. MarkInv'
  BY DEF IInv, MarkInv, MarkOK, CmdIn
<1>3. WriterInv' /\ StreamInv'
  BY <1>a, <1>b DEF IInv, WriterInv, StreamInv, Live, Follows, Cmds
<1>4. EndsInv'
  BY DEF IInv, EndsInv, IsFirst, IsLast, Follows, RSlot, WSlot
<1> QED
  BY <1>1, <1>2, <1>3, <1>4, <1>5 DEF IInv

\* resc.L.Unlock of FinishResult keeps the invariant.
LEMMA UnlockInv ==
    ASSUME IInv, Unlock
    PROVE  IInv'
<1> USE DEF Unlock, counters, slotVars, callerVars, writerVars, wireVars, bounds
<1>1. TypeOK'
  BY DEF IInv, TypeOK
<1>2. SlotInv' /\ CallerInv' /\ ReaderInv'
  BY DEF IInv, SlotInv, SlotOK, CallerInv, CallerOK, ReaderInv, Waits, Holding, CmdIn
<1>5. MarkInv'
  BY DEF IInv, MarkInv, MarkOK, CmdIn
<1>3. WriterInv' /\ StreamInv'
  BY DEF IInv, WriterInv, StreamInv, Waits, Live, Follows
<1>4. EndsInv'
  BY DEF IInv, EndsInv, IsFirst, IsLast, Follows, RSlot, WSlot
<1> QED
  BY <1>1, <1>2, <1>3, <1>4, <1>5 DEF IInv

\* The steps of the writer that neither take nor write a command.
LEMMA IdleWriterInv ==
    ASSUME IInv, wpc # "write", wpc' \in {"next", "flush", "wait", "c2", "woken"},
           WSlot' = WSlot, read1' \in 0..(Wrap - 1),
           slept' \in [Slots -> BOOLEAN], flushed' \in 0..Len(stream),
           pc' \in [Callers -> {"idle", "lock", "c1", "bcast", "recv"}],
           \A d \in Callers : Waits(d)' = Waits(d),
           UNCHANGED <<write, read2, mark, one, multi, at, call, wcmd, windex, stream,
                       readerVars, bounds>>
    PROVE  IInv'
<1> USE DEF readerVars, bounds
<1>b. \A k \in 1..Len(stream) : stream[k][1] \in Callers
  BY StreamElem
<1>1. TypeOK'
  BY DEF IInv, TypeOK
<1>2. SlotInv' /\ CallerInv' /\ ReaderInv'
  BY DEF IInv, SlotInv, SlotOK, CallerInv, CallerOK, ReaderInv, Holding, CmdIn, Cmds
<1>5. MarkInv'
  BY DEF IInv, MarkInv, MarkOK, CmdIn
<1>3. WriterInv' /\ StreamInv'
  BY <1>b DEF IInv, WriterInv, StreamInv, Live, Follows
<1>4. EndsInv'
  BY DEF IInv, EndsInv, IsFirst, IsLast, Follows, RSlot
<1> QED
  BY <1>1, <1>2, <1>3, <1>4, <1>5 DEF IInv

\* Handing the result over (ch <- resp) keeps the invariant.
LEMMA SendInv ==
    ASSUME IInv, NEW c \in Callers, Send(c)
    PROVE  IInv'
<1> USE DEF Send, counters, slotVars, writerVars, wireVars, bounds
<1>a. Waits(c) /\ ~Waits(c)' /\ rcmd.by = c /\ mark[at[c]] = 0
  BY OneWaiter DEF IInv, TypeOK, ReaderInv, Holding, Waits, Cmds
<1>b. \A d \in Callers : d # c => Waits(d)' = Waits(d)
  BY DEF IInv, TypeOK, Waits
<1>c. \A k \in 1..Len(stream) : stream[k][1] \in Callers /\ stream[k][1] # c
  BY SMTT(30), <1>a, StreamElem DEF IInv, StreamInv, Live
<1>d. \A d \in Callers : Waits(d) /\ d # c => at[d] # at[c]
  BY <1>a, OneWaiter
<1>1. TypeOK'
  BY DEF IInv, TypeOK
<1>2. SlotInv' /\ ReaderInv'
  BY <1>a, <1>b DEF IInv, SlotInv, SlotOK, ReaderInv, Holding, CmdIn, Cmds
<1>7. MarkInv'
  BY DEF IInv, MarkInv, MarkOK, CmdIn
<1>3. CallerInv'
  BY <1>a, <1>b, <1>d DEF IInv, CallerInv, CallerOK, Holding, CmdIn
<1>4. WriterInv'
  BY SMTT(30), <1>a, <1>b DEF IInv, WriterInv, Live, Cmds
<1>e. \A d \in Callers : Live(d) /\ d # c => Live(d)'
  BY <1>a, <1>b DEF Live, IInv, ReaderInv, Holding
<1>5. StreamInv'
  BY <1>c, <1>e DEF IInv, StreamInv, Follows
<1>6. EndsInv'
  BY DEF IInv, EndsInv, IsFirst, IsLast, Follows, RSlot, WSlot
<1> QED
  BY <1>1, <1>2, <1>3, <1>4, <1>5, <1>6, <1>7 DEF IInv

\* Taking the command of the writer's slot (mark 1 to 2) keeps the invariant.
LEMMA TakeInv ==
    ASSUME IInv, wpc # "write", NEW s \in Slots, s = WSlot, TakeCmd(s),
           Idx(read1') = s, read1' \in 0..(Wrap - 1), slept' \in [Slots -> BOOLEAN],
           UNCHANGED <<write, read2, one, multi, callerVars, wireVars, readerVars, bounds>>
    PROVE  IInv'
<1> USE DEF TakeCmd, callerVars, wireVars, readerVars, bounds
<1>m. mark[s] = 1 /\ mark'[s] = 2 /\ mark[s] # 0
  BY SMTT(30) DEF IInv, TypeOK
<1>n. PICK cmd \in Cmds : cmd = CmdIn(s) /\ Waits(cmd.by) /\ at[cmd.by] = s
  BY <1>m DEF IInv, SlotInv, SlotOK
<1>o. PICK c \in Callers : c = cmd.by
  BY CmdType
<1>a. Waits(c) /\ at[c] = s /\ call[c] = cmd /\ 1 \in 1..cmd.n
  BY <1>m, <1>n, <1>o, CmdType DEF IInv, CallerInv, CallerOK
<1>b. \A t \in Slots : CmdIn(t)' = CmdIn(t) /\ (t # s => mark'[t] = mark[t])
  BY DEF IInv, TypeOK, CmdIn
<1>c. \A d \in Callers : Live(d) => d # c
  BY SMTT(30), <1>m, <1>a DEF IInv, Live, ReaderInv, Holding
<1>d. \A k \in 1..Len(stream) : stream[k][1] \in Callers /\ stream[k][1] # c
  <2> SUFFICES ASSUME NEW k \in 1..Len(stream)
               PROVE  stream[k][1] \in Callers /\ stream[k][1] # c
    OBVIOUS
  <2>1. stream[k][1] \in Callers
    BY StreamElem
  <2>2. Live(stream[k][1])
    BY DEF IInv, StreamInv
  <2> QED
    BY <1>c, <2>1, <2>2
<1>1. TypeOK'
  <2>1. wcmd' \in Cmds /\ windex' \in Nat /\ mark' \in [Slots -> 0..2]
    BY SMTT(30), <1>n DEF IInv, TypeOK
  <2> QED
    BY <2>1 DEF IInv, TypeOK
<1>2. SlotInv'
  BY SMTT(30) DEF IInv, SlotInv, SlotOK, CmdIn, Waits
<1>3. CallerInv'
  BY SMTT(30) DEF IInv, CallerInv, CallerOK, CmdIn, Waits, Holding
<1>4. ReaderInv'
  BY SMTT(30) DEF IInv, ReaderInv, Waits, Holding
<1>5. WriterInv'
  BY <1>m, <1>n, <1>o, <1>a DEF IInv, TypeOK, WriterInv, Live, Waits
<1>6. StreamInv'
  BY SMTT(30), <1>n, <1>o, <1>c, <1>d DEF IInv, StreamInv, Live, Waits, Follows
<1>7. EndsInv'
  <2>1. CASE stream = <<>>
    BY <2>1, <1>n, <1>o, <1>a DEF IInv, EndsInv, IsFirst, RSlot
  <2>2. CASE stream # <<>>
    BY SMTT(30), <2>2, <1>n, <1>o, <1>a, <1>d DEF IInv, EndsInv, IsFirst, IsLast, Follows, RSlot, StreamInv
  <2> QED
    BY <2>1, <2>2
<1>8. MarkInv'
  <2> SUFFICES ASSUME NEW t \in Slots
               PROVE  MarkOK(t)'
    BY DEF MarkInv
  <2>1. CmdIn(t)' = CmdIn(t) /\ MarkOK(t)
    BY <1>b DEF IInv, MarkInv
  <2>2. CASE t = s
    BY <2>1, <2>2 DEF MarkOK
  <2>3. CASE t # s
    BY <2>1, <2>3, <1>b DEF MarkOK
  <2> QED
    BY <2>2, <2>3
<1> QED
  BY <1>1, <1>2, <1>3, <1>4, <1>5, <1>6, <1>7, <1>8 DEF IInv

\* Writing the next redis command of the taken slot keeps the invariant.
LEMMA WriteInv ==
    ASSUME IInv, WriteCmd
    PROVE  IInv'
<1> USE DEF WriteCmd, counters, slotVars, callerVars, readerVars, bounds
<1> DEFINE c == wcmd.by
           L == Len(stream)
<1>a. /\ wcmd \in Cmds /\ c \in Callers /\ wcmd.n \in Nat
      /\ Live(c) /\ call[c] = wcmd /\ windex \in 1..wcmd.n /\ at[c] = Idx(read1)
  BY CmdType DEF IInv, WriterInv
<1>b. /\ L \in Nat /\ Len(stream') = L + 1
      /\ stream'[L + 1] = <<c, windex>>
      /\ \A k \in 1..L : stream'[k] = stream[k]
      /\ stream' \in Seq(Callers \X Nat)
      /\ stream' # <<>>
  <2>1. stream \in Seq(Callers \X Nat) /\ stream' = Append(stream, <<c, windex>>)
    BY DEF IInv, TypeOK
  <2>2. <<c, windex>> \in Callers \X Nat
    BY SMTT(30), <1>a
  <2> HIDE DEF c, WriteCmd
  <2> QED
    BY SMTT(30), <2>1, <2>2
<1>c. \A d \in Callers : Live(d)' = Live(d) /\ Waits(d)' = Waits(d)
  BY DEF Live, Waits
<1>d. \A k \in 1..L : stream[k][1] \in Callers /\ stream[k][2] \in Nat
  BY StreamElem
<1>1. TypeOK'
  <2>1. flushed' \in 0..Len(stream') /\ windex' \in Nat
    BY SMTT(30), <1>a, <1>b DEF IInv, TypeOK
  <2>2. wpc' \in {"next", "flush", "wait", "c2", "woken", "write"}
    OBVIOUS
  <2> QED
    BY <1>a, <1>b, <2>1, <2>2 DEF IInv, TypeOK
<1>2. SlotInv' /\ CallerInv' /\ ReaderInv'
  BY <1>c DEF IInv, SlotInv, SlotOK, CallerInv, CallerOK, ReaderInv, Holding, CmdIn, Cmds
<1>3. WriterInv'
  BY SMTT(30), <1>a, <1>c DEF WriterInv
<1>4. StreamInv'
  <2>1. \A k \in 1..Len(stream') : stream'[k] = IF k = L + 1 THEN <<c, windex>> ELSE stream[k]
    BY SMTT(30), <1>b
  <2>2. (\A k \in 1..Len(stream) :
          /\ Live(stream[k][1])
          /\ stream[k][2] \in 1..call[stream[k][1]].n
          /\ wpc = "write" /\ stream[k][1] = wcmd.by => stream[k][2] < windex)'
    BY SMTT(30), <1>a, <1>b, <1>c, <1>d, <2>1 DEF IInv, StreamInv
  <2>3. (\A j, k \in 1..Len(stream) :
          j < k /\ stream[j][1] = stream[k][1] => stream[j][2] < stream[k][2])'
    BY SMTT(30), <1>a, <1>b, <1>d, <2>1 DEF IInv, StreamInv
  <2>4. (\A k \in 1..(Len(stream) - 1) : Follows(stream[k], stream[k + 1]))'
    <3> SUFFICES ASSUME NEW k \in 1..(Len(stream') - 1)
                 PROVE  Follows(stream[k], stream[k + 1])'
      OBVIOUS
    <3>1. CASE k = L
      BY SMTT(30), <3>1, <1>b DEF IInv, EndsInv, IsLast, Follows
    <3>2. CASE k # L
      BY SMTT(30), <3>2, <1>b DEF IInv, StreamInv, Follows
    <3> QED
      BY <3>1, <3>2
  <2> QED
    BY <2>2, <2>3, <2>4 DEF StreamInv
<1>5. EndsInv'
  <2>1. IsFirst(stream[1])'
    <3>1. CASE stream = <<>>
      BY SMTT(30), <3>1, <1>b DEF IInv, EndsInv, IsFirst, RSlot
    <3>2. CASE stream # <<>>
      BY SMTT(30), <3>2, <1>b DEF IInv, TypeOK, EndsInv, IsFirst, RSlot
    <3> QED
      BY <3>1, <3>2
  <2>2. IsLast(stream[Len(stream)])'
    <3>1. NextSlot(Idx(read1)) = Idx(Inc(read1))
      BY SlotOfInc DEF IInv, TypeOK
    <3> QED
      BY SMTT(30), <1>a, <1>b, <3>1 DEF IsLast, Follows, WSlot
  <2> QED
    BY <1>b, <2>1, <2>2 DEF EndsInv
<1>6. MarkInv'
  <2> SUFFICES ASSUME NEW t \in Slots, mark[t] = 2
               PROVE  MarkOK(t)'
    BY DEF MarkInv, MarkOK
  <2>1. CmdIn(t)' = CmdIn(t) /\ MarkOK(t) /\ CmdIn(t) \in Cmds
    BY SMTT(30) DEF CmdIn, IInv, MarkInv, SlotInv, SlotOK
  <2>2. CASE c = CmdIn(t).by
    <3>1. call[c] = CmdIn(t)
      BY SMTT(30), <1>a, <2>2 DEF IInv, SlotInv, SlotOK, CallerInv, CallerOK
    <3>2. CASE windex = wcmd.n
      <4>1. L + 1 \in 1..Len(stream') /\ stream'[L + 1] = <<CmdIn(t).by, CmdIn(t).n>>
        BY SMTT(30), <1>a, <1>b, <2>2, <3>1, <3>2
      <4> QED
        BY <2>1, <4>1 DEF MarkOK
    <3>3. CASE windex # wcmd.n
      BY <2>1, <2>2, <3>3 DEF MarkOK
    <3> QED
      BY <3>2, <3>3
  <2>3. CASE c # CmdIn(t).by
    <3>1. PICK k \in 1..L : stream[k] = <<CmdIn(t).by, CmdIn(t).n>>
      BY <2>1, <2>3 DEF MarkOK
    <3>2. k \in 1..Len(stream') /\ stream'[k] = <<CmdIn(t).by, CmdIn(t).n>>
      BY SMTT(30), <1>b, <3>1
    <3> QED
      BY <2>1, <3>2 DEF MarkOK
  <2> QED
    BY <2>2, <2>3
<1> QED
  BY <1>1, <1>2, <1>3, <1>4, <1>5, <1>6 DEF IInv

-----------------------------------------------------------------------------
(* The steps of the reader, and the theorems. *)

\* What NextResultCh finds: the reader's slot holds the command of the goroutine
\* that waits on it, and its first reply is the next one on the wire.
LEMMA FirstReply ==
    ASSUME IInv, rpc = "read", NEW s \in Slots, s = RSlot, mark[s] = 2
    PROVE  \E cmd \in Cmds, c \in Callers :
              /\ cmd = CmdIn(s) /\ c = cmd.by
              /\ Waits(c) /\ at[c] = s /\ call[c] = cmd
              /\ 1 \in 1..cmd.n /\ cmd.n \in Nat
              /\ stream # <<>> => stream[1] = <<c, 1>>
              /\ stream = <<>> => wpc = "write" /\ wcmd.by = c /\ windex = 1
<1>1. PICK cmd \in Cmds : cmd = CmdIn(s) /\ Waits(cmd.by) /\ at[cmd.by] = s
  BY SMTT(30) DEF IInv, SlotInv, SlotOK
<1>2. PICK c \in Callers : c = cmd.by
  BY CmdType
<1>3. call[c] = cmd /\ 1 \in 1..cmd.n /\ cmd.n \in Nat
  BY SMTT(30), <1>1, <1>2, CmdType DEF IInv, CallerInv, CallerOK
<1>4. ASSUME stream # <<>> PROVE stream[1] = <<c, 1>>
  <2>1. 1 \in 1..Len(stream)
    BY SMTT(30), <1>4 DEF IInv, TypeOK
  <2>2. stream[1][2] = 1 /\ at[stream[1][1]] = s
    BY <1>4 DEF IInv, EndsInv, IsFirst
  <2>3. stream[1][1] = c
    BY <1>1, <1>2, <2>1, <2>2, StreamElem, OneWaiter
  <2> QED
    BY <2>1, <2>2, <2>3, StreamElem
<1>5. ASSUME stream = <<>> PROVE wpc = "write" /\ wcmd.by = c /\ windex = 1
  <2>1. wpc = "write" /\ wcmd.by = c
    BY SMTT(30), <1>1, <1>2, <1>5 DEF IInv, MarkInv, MarkOK
  <2> QED
    BY <1>5, <2>1 DEF IInv, EndsInv, IsFirst
<1> QED
  BY <1>1, <1>2, <1>3, <1>4, <1>5

\* The part of the invariant that only depends on NextResultCh.
LEMMA HitInv ==
    ASSUME IInv, rpc = "read", NEW s \in Slots, s = RSlot, NextResultCh(s),
           rpc' \in {"more", "send"}, rpc' = "more" => ff' < CmdIn(s).n,
           UNCHANGED <<slept, callerVars>>
    PROVE  SlotInv' /\ CallerInv' /\ ReaderInv'
<1> USE DEF NextResultCh, callerVars
<1>1. PICK cmd \in Cmds, c \in Callers :
              /\ cmd = CmdIn(s) /\ c = cmd.by
              /\ Waits(c) /\ at[c] = s /\ call[c] = cmd
  BY SMTT(30), FirstReply
<1>2. \A d \in Callers : Waits(d) /\ d # c => at[d] # s
  BY <1>1, OneWaiter
<1>3. SlotInv'
  BY DEF IInv, TypeOK, SlotInv, SlotOK, CmdIn, Waits
<1>4. CallerInv'
  <2> SUFFICES ASSUME NEW d \in Callers
               PROVE  CallerOK(d)'
    BY DEF CallerInv
  <2>1. CASE d = c
    BY <1>1, <2>1 DEF IInv, TypeOK, CallerOK, Holding
  <2>2. CASE d # c
    BY <1>2, <2>2 DEF IInv, TypeOK, CallerInv, CallerOK, Holding, Waits, CmdIn
  <2> QED
    BY <2>1, <2>2
<1>5. ReaderInv'
  BY <1>1 DEF IInv, TypeOK, ReaderInv, Holding, Waits, RSlot
<1> QED
  BY <1>3, <1>4, <1>5

\* What readNextMessage leaves on the wire.
LEMMA ReceiveFacts ==
    ASSUME IInv, Receive
    PROVE  /\ Len(stream) \in Nat \ {0} /\ stream # <<>>
           /\ Len(stream') = Len(stream) - 1
           /\ \A k \in 1..(Len(stream) - 1) : stream'[k] = stream[k + 1]
           /\ stream' \in Seq(Callers \X Nat) /\ flushed' \in 0..Len(stream')
           /\ stream' = <<>> <=> Len(stream) = 1
<1>1. stream \in Seq(Callers \X Nat) /\ flushed \in 1..Len(stream) /\ Len(stream) \in Nat
  BY SMTT(30) DEF IInv, TypeOK, Receive
<1>2. stream # <<>>
  BY SMTT(30), <1>1
<1>3. /\ Len(stream') = Len(stream) - 1
      /\ \A k \in 1..(Len(stream) - 1) : stream'[k] = stream[k + 1]
      /\ stream' \in Seq(Callers \X Nat)
  BY SMTT(30), <1>1, <1>2 DEF Receive
<1>4. flushed' \in 0..Len(stream')
  BY SMTT(30), <1>1, <1>3 DEF Receive
<1>5. stream' = <<>> <=> Len(stream) = 1
  <2>1. stream' = <<>> <=> Len(stream') = 0
    BY SMTT(30), <1>3
  <2> QED
    BY SMTT(30), <1>1, <1>3, <2>1
<1> QED
  BY SMTT(30), <1>1, <1>2, <1>3, <1>4, <1>5

\* An unsolicited unsubscribe push keeps the invariant, whether NextResultCh hits or
\* misses: the replies that follow are still filed under the right command.
LEMMA UnsubPushInv ==
    ASSUME IInv, UnsubPush
    PROVE  IInv'
<1> USE DEF UnsubPush, callerVars, writerVars, wireVars
<1>s. PICK s \in Slots : s = RSlot
  BY SlotOfInc DEF IInv, TypeOK, RSlot
<1>1. CASE mark[s] # 2
  <2>1. TypeOK'
    BY SMTT(30), <1>s, <1>1 DEF IInv, TypeOK, RSlot, NextResultCh
  <2>2. SlotInv' /\ CallerInv' /\ ReaderInv'
    BY SMTT(30), <1>s, <1>1 DEF IInv, SlotInv, SlotOK, CallerInv, CallerOK, ReaderInv, Waits, Holding,
                      CmdIn, RSlot, NextResultCh
  <2>3. MarkInv'
    BY <1>s, <1>1 DEF IInv, MarkInv, MarkOK, CmdIn, RSlot, NextResultCh
  <2>4. WriterInv' /\ StreamInv'
    BY <1>s, <1>1 DEF IInv, WriterInv, StreamInv, Waits, Live, Follows, RSlot, NextResultCh
  <2>5. EndsInv'
    BY <1>s, <1>1 DEF IInv, EndsInv, IsFirst, IsLast, Follows, RSlot, WSlot, NextResultCh
  <2> QED
    BY <2>1, <2>2, <2>3, <2>4, <2>5 DEF IInv
<1>2. CASE mark[s] = 2
  <2>0. NextResultCh(s) /\ rpc' = "more" /\ ff' = 0 /\ rpc = "read"
    BY <1>s, <1>2 DEF RSlot
  <2>1. PICK cmd \in Cmds, c \in Callers :
              /\ cmd = CmdIn(s) /\ c = cmd.by
              /\ Waits(c) /\ at[c] = s /\ call[c] = cmd
              /\ 1 \in 1..cmd.n /\ cmd.n \in Nat
              /\ stream # <<>> => stream[1] = <<c, 1>>
              /\ stream = <<>> => wpc = "write" /\ wcmd.by = c /\ windex = 1
    BY <1>s, <1>2, <2>0, FirstReply
  <2>2. \A d \in Callers : Waits(d) /\ d # c => at[d] # s
    BY <2>1, OneWaiter
  <2>3. \A k \in 1..Len(stream) : stream[k][1] \in Callers
    BY StreamElem
  <2>4. \A d \in Callers : Live(d) => Live(d)'
    BY <2>0, <2>1, <2>2 DEF IInv, TypeOK, Live, Waits, NextResultCh
  <2>5. TypeOK'
    <3>1. read2' \in 0..(Wrap - 1)
      BY <2>0, SlotOfInc DEF IInv, TypeOK, NextResultCh
    <3> QED
      BY SMTT(30), <2>0, <2>1, <3>1 DEF IInv, TypeOK, NextResultCh
  <2>6. SlotInv' /\ CallerInv' /\ ReaderInv'
    <3>1. UNCHANGED <<slept, callerVars>>
      OBVIOUS
    <3> HIDE DEF UnsubPush, callerVars
    <3>2. ff' < CmdIn(s).n
      <4>1. \A n \in Nat : 1 \in 1..n => 0 < n
        BY SMTT(30)
      <4> QED
        BY <2>0, <2>1, <4>1
    <3> QED
      BY <1>s, <2>0, <3>1, <3>2, HitInv
  <2>7. WriterInv'
    BY <2>0, <2>4, CmdType DEF IInv, WriterInv, NextResultCh
  <2>8. StreamInv'
    BY <2>3, <2>4 DEF IInv, StreamInv, Follows
  <2>9. EndsInv'
    <3>1. rcmd'.by = c /\ ff' + 1 = 1 /\ rpc' = "more"
      BY <2>0, <2>1, Marked DEF NextResultCh
    <3>2. CASE stream # <<>>
      <4>1. IsFirst(stream[1])'
        BY <2>1, <3>1, <3>2 DEF IsFirst
      <4>2. IsLast(stream[Len(stream)])'
        BY <3>2 DEF IInv, EndsInv, IsLast, Follows, WSlot
      <4> QED
        BY <3>2, <4>1, <4>2 DEF EndsInv
    <3>3. CASE stream = <<>>
      <4>1. IsFirst(<<wcmd.by, windex>>)'
        BY <2>1, <3>1, <3>3 DEF IsFirst
      <4> QED
        BY <2>1, <3>3, <4>1 DEF EndsInv
    <3> QED
      BY <3>2, <3>3
  <2>10. MarkInv'
    <3> SUFFICES ASSUME NEW t \in Slots, mark'[t] = 2
                 PROVE  MarkOK(t)'
      BY DEF MarkInv, MarkOK
    <3>1. mark[t] = 2 /\ CmdIn(t)' = CmdIn(t)
      BY SMTT(30), <2>0 DEF IInv, TypeOK, NextResultCh, CmdIn
    <3>2. MarkOK(t)
      BY DEF IInv, MarkInv
    <3> QED
      BY <3>1, <3>2 DEF MarkOK
  <2> QED
    BY <2>5, <2>6, <2>7, <2>8, <2>9, <2>10 DEF IInv
<1> QED
  BY <1>1, <1>2

\* The reader takes reply f of the command cmd of goroutine c in slot s off the wire.
Consumes(cmd, c, f, s) ==
    /\ Receive
    /\ c = cmd.by /\ cmd.n \in Nat /\ f \in 1..cmd.n
    /\ Waits(c) /\ at[c] = s /\ call[c] = cmd
    /\ stream[1] = <<c, f>>
    /\ rpc \in {"read", "more"} /\ (rpc = "more" => rcmd = cmd)
    /\ rcmd' = cmd /\ ff' = f /\ rpc' = (IF f = cmd.n THEN "send" ELSE "more")
    /\ mark' = [mark EXCEPT ![s] = 0]
    /\ RSlot' = NextSlot(s)
    /\ \A t \in Slots : t # s => CmdIn(t)' = CmdIn(t)
    /\ UNCHANGED <<callerVars, writerVars, read1>>

\* What is true of the reply that is consumed, and of the marks.
LEMMA ConsumesFacts ==
    ASSUME IInv, NEW cmd \in Cmds, NEW c \in Callers, NEW f \in Nat, NEW s \in Slots, Consumes(cmd, c, f, s)
    PROVE  /\ stream[1][1] = c /\ stream[1][2] = f /\ (f < cmd.n <=> f # cmd.n)
           /\ mark'[s] # 2 /\ \A u \in Slots : u # s => mark'[u] = mark[u]
<1>1. stream[1] = <<c, f>> /\ cmd.n \in Nat /\ f \in 1..cmd.n /\ mark' = [mark EXCEPT ![s] = 0]
  BY DEF Consumes
<1>2. mark \in [Slots -> 0..2]
  BY DEF IInv, TypeOK
<1>3. stream[1][1] = c /\ stream[1][2] = f
  BY <1>1, PairIs
<1>4. f < cmd.n <=> f # cmd.n
  BY <1>1, Below
<1>5. mark'[s] # 2 /\ \A u \in Slots : u # s => mark'[u] = mark[u]
  BY SMTT(30), <1>1, <1>2
<1> QED
  BY <1>3, <1>4, <1>5

\* Consuming one reply of the command at the head of the wire keeps the chain.
LEMMA AdvanceInv ==
    ASSUME IInv, NEW cmd \in Cmds, NEW c \in Callers, NEW f \in Nat, NEW s \in Slots,
           Consumes(cmd, c, f, s)
    PROVE  WriterInv' /\ StreamInv' /\ EndsInv' /\ MarkInv'
<1>g. /\ stream[1][1] = c /\ stream[1][2] = f /\ (f < cmd.n <=> f # cmd.n)
      /\ mark'[s] # 2 /\ \A u \in Slots : u # s => mark'[u] = mark[u]
  BY SMTT(30), ConsumesFacts
<1>i. \A k, x, y : stream[k] = <<x, y>> => stream[k][1] = x
  BY PairIs
<1> USE DEF Consumes
<1> USE DEF callerVars, writerVars
<1> DEFINE L == Len(stream)
<1>a. /\ L \in Nat /\ L # 0 /\ stream # <<>> /\ 1 \in 1..L
      /\ Len(stream') = L - 1
      /\ \A k \in 1..(L - 1) : stream'[k] = stream[k + 1] /\ k + 1 \in 1..L
      /\ stream' = <<>> <=> L = 1
  <2>1. /\ L \in Nat \ {0} /\ stream # <<>>
        /\ Len(stream') = L - 1
        /\ \A k \in 1..(L - 1) : stream'[k] = stream[k + 1]
        /\ stream' = <<>> <=> L = 1
    BY ReceiveFacts
  <2>2. L \in Nat /\ L # 0 /\ 1 \in 1..L
    BY <2>1, Ends
  <2> QED
    BY <2>1, <2>2, Shift
<1>b. \A k \in 1..L : stream[k] = <<stream[k][1], stream[k][2]>>
                        /\ stream[k][1] \in Callers /\ stream[k][2] \in Nat
  BY StreamElem
<1>c. \A d \in Callers : Waits(d) /\ d # c => at[d] # s
  BY OneWaiter
<1>d. \A d \in Callers : Live(d) /\ (d = c => f < cmd.n) => Live(d)'
  <2> SUFFICES ASSUME NEW d \in Callers, Live(d), d = c => f < cmd.n
               PROVE  Live(d)'
    OBVIOUS
  <2>1. CASE d = c
    BY <1>g, <2>1 DEF Live, Waits
  <2>2. CASE d # c
    <3>1. at[d] \in Slots /\ at[d] # s /\ mark[at[d]] = 2
      BY <1>c, <2>2 DEF IInv, TypeOK, Live
    <3> QED
      BY <1>g, <3>1 DEF Live, Waits
  <2> QED
    BY <2>1, <2>2
<1>e. \A k \in 2..L : stream[k][1] = c => f < stream[k][2] /\ stream[k][2] <= cmd.n
  <2> SUFFICES ASSUME NEW k \in 2..L, stream[k][1] = c
               PROVE  f < stream[k][2] /\ stream[k][2] <= cmd.n
    OBVIOUS
  <2>1. k \in 1..L /\ 1 < k
    BY <1>a, Shift
  <2>2. /\ stream[1][1] = stream[k][1] => stream[1][2] < stream[k][2]
        /\ stream[k][2] \in 1..call[stream[k][1]].n
    BY <1>a, <2>1 DEF IInv, StreamInv
  <2> QED
    BY <1>g, <2>2, Below
<1>f. \A k \in 2..L : stream[k][1] = c => f < cmd.n
  BY <1>a, <1>b, <1>e, Shift, LessThan
<1>h. \A q : Follows(stream[1], q) => IsFirst(q)'
  <2> SUFFICES ASSUME NEW q, Follows(stream[1], q)
               PROVE  IsFirst(q)'
    OBVIOUS
  <2>1. CASE f = cmd.n
    <3>1. rpc' = "send" /\ q[2] = 1 /\ at[q[1]] = NextSlot(s)
      BY <1>g, <2>1 DEF Follows
    <3> QED
      BY <3>1 DEF IsFirst
  <2>2. CASE f # cmd.n
    <3>1. rpc' = "more" /\ q = <<c, f + 1>>
      BY <1>g, <2>2 DEF Follows
    <3> QED
      BY <3>1 DEF IsFirst
  <2> QED
    BY <2>1, <2>2
<1>1. WriterInv'
  <2> SUFFICES ASSUME wpc = "write"
               PROVE  WriterInv'
    BY DEF WriterInv
  <2>1. wcmd \in Cmds /\ wcmd.by \in Callers /\ Live(wcmd.by) /\ call[wcmd.by] = wcmd
        /\ windex \in 1..wcmd.n /\ at[wcmd.by] = Idx(read1) /\ wcmd.n \in Nat
    BY CmdType DEF IInv, WriterInv
  <2>2. ASSUME wcmd.by = c
        PROVE  f < cmd.n
    <3>0. stream[1][1] = wcmd.by /\ stream[1][2] = f
      BY <1>g, <2>2
    <3>1. stream[1][2] < windex
      BY <1>a, <3>0 DEF IInv, StreamInv
    <3>2. f < windex /\ windex \in 1..cmd.n
      BY <2>1, <2>2, <3>0, <3>1
    <3> QED
      BY <3>2, Below, LessThan
  <2> QED
    BY <1>d, <2>1, <2>2 DEF WriterInv
<1>2. StreamInv'
  <2>1. (\A k \in 1..Len(stream) :
          /\ Live(stream[k][1])
          /\ stream[k][2] \in 1..call[stream[k][1]].n
          /\ wpc = "write" /\ stream[k][1] = wcmd.by => stream[k][2] < windex)'
    <3> SUFFICES ASSUME NEW k \in 1..(L - 1)
                 PROVE  /\ (Live(stream[k][1]))'
                        /\ stream'[k][2] \in 1..call[stream'[k][1]].n
                        /\ wpc = "write" /\ stream'[k][1] = wcmd.by => stream'[k][2] < windex
      BY <1>a
    <3>1. k + 1 \in 2..L /\ k + 1 \in 1..L /\ stream'[k] = stream[k + 1]
      BY <1>a, Shift
    <3>2. PICK d \in Callers : d = stream[k + 1][1]
      BY <1>b, <3>1
    <3>3. Live(d)'
      BY <1>d, <1>f, <3>1, <3>2 DEF IInv, StreamInv
    <3>4. (Live(stream[k][1]))'
      BY <3>1, <3>2, <3>3 DEF Live, Waits
    <3> QED
      BY <3>1, <3>4 DEF IInv, StreamInv
  <2>2. (\A j, k \in 1..Len(stream) :
          j < k /\ stream[j][1] = stream[k][1] => stream[j][2] < stream[k][2])'
    <3> SUFFICES ASSUME NEW j \in 1..(L - 1), NEW k \in 1..(L - 1), j < k,
                        stream'[j][1] = stream'[k][1]
                 PROVE  stream'[j][2] < stream'[k][2]
      BY <1>a
    <3>1. /\ j + 1 \in 1..L /\ k + 1 \in 1..L /\ j + 1 < k + 1
          /\ stream'[j] = stream[j + 1] /\ stream'[k] = stream[k + 1]
      BY <1>a, Shift
    <3> QED
      BY <3>1 DEF IInv, StreamInv
  <2>3. (\A k \in 1..(Len(stream) - 1) : Follows(stream[k], stream[k + 1]))'
    <3> SUFFICES ASSUME NEW k \in 1..(Len(stream') - 1)
                 PROVE  Follows(stream[k], stream[k + 1])'
      OBVIOUS
    <3>1. /\ k + 1 \in 1..(L - 1) /\ stream'[k] = stream[k + 1]
          /\ stream'[k + 1] = stream[k + 1 + 1]
      BY <1>a, Shift
    <3>2. Follows(stream[k + 1], stream[k + 1 + 1])
      BY <3>1 DEF IInv, StreamInv
    <3> QED
      BY <3>1, <3>2 DEF Follows
  <2> QED
    BY <2>1, <2>2, <2>3 DEF StreamInv
<1>3. EndsInv'
  <2>1. CASE L = 1
    <3>1. stream' = <<>> /\ IsLast(stream[1])
      BY <1>a, <2>1 DEF IInv, EndsInv
    <3>2. CASE wpc = "write"
      <4>1. IsFirst(<<wcmd.by, windex>>)'
        BY <1>h, <3>1, <3>2 DEF IsLast
      <4> QED
        BY <3>1, <3>2, <4>1 DEF EndsInv
    <3>3. CASE wpc # "write"
      BY <1>g, <3>1, <3>3 DEF EndsInv, IsLast, WSlot
    <3> QED
      BY <3>2, <3>3
  <2>2. CASE L # 1
    <3>1. /\ 1 \in 1..(L - 1) /\ L - 1 \in 1..(L - 1) /\ (L - 1) + 1 = L /\ stream' # <<>>
      BY <1>a, <2>2, Ends
    <3>2. stream'[1] = stream[1 + 1] /\ stream'[Len(stream')] = stream[L]
      BY <1>a, <3>1
    <3>3. Follows(stream[1], stream[1 + 1]) /\ IsLast(stream[L])
      BY <1>a, <3>1 DEF IInv, StreamInv, EndsInv
    <3>4. IsFirst(stream[1])'
      BY <1>h, <3>2, <3>3 DEF IsFirst
    <3>5. IsLast(stream[Len(stream)])'
      BY <3>2, <3>3 DEF IsLast, Follows, WSlot
    <3> QED
      BY <3>1, <3>4, <3>5 DEF EndsInv
  <2> QED
    BY <2>1, <2>2
<1>4. MarkInv'
  <2> SUFFICES ASSUME NEW t \in Slots, mark'[t] = 2
               PROVE  MarkOK(t)'
    BY DEF MarkInv, MarkOK
  <2>1. t # s /\ mark[t] = 2 /\ CmdIn(t)' = CmdIn(t) /\ MarkOK(t)
    BY <1>g DEF IInv, MarkInv
  <2>2. CmdIn(t).by # c
    BY <2>1, Marked DEF IInv, SlotInv, SlotOK
  <2>3. CASE wpc = "write" /\ wcmd.by = CmdIn(t).by
    BY <2>1, <2>3 DEF MarkOK
  <2>4. CASE ~(wpc = "write" /\ wcmd.by = CmdIn(t).by)
    <3>1. PICK k \in 1..L : stream[k] = <<CmdIn(t).by, CmdIn(t).n>>
      BY <2>1, <2>4 DEF MarkOK
    <3>2. k # 1
      <4> HIDE DEF Consumes, callerVars, writerVars
      <4>1. stream[k][1] = CmdIn(t).by
        BY <1>i, <3>1
      <4> QED
        BY <1>g, <2>2, <4>1
    <3>3. PICK i \in 1..(L - 1) : i + 1 = k
      BY <1>a, <3>2, Ends
    <3>4. i \in 1..Len(stream') /\ stream'[i] = <<CmdIn(t).by, CmdIn(t).n>>
      BY <1>a, <3>1, <3>3
    <3> QED
      BY <2>1, <3>4 DEF MarkOK
  <2> QED
    BY <2>3, <2>4
<1> QED
  BY <1>1, <1>2, <1>3, <1>4

\* The first reply of a command keeps the invariant.
LEMMA ReadFirstInv ==
    ASSUME IInv, ReadFirst
    PROVE  IInv'
<1> USE DEF ReadFirst, callerVars, writerVars, bounds
<1>s. PICK s \in Slots : s = RSlot
  BY SlotOfInc DEF IInv, TypeOK, RSlot
<1>0. NextResultCh(s) /\ mark[s] = 2
  BY <1>s DEF RSlot, NextResultCh
<1>1. PICK cmd \in Cmds, c \in Callers :
            /\ cmd = CmdIn(s) /\ c = cmd.by
            /\ Waits(c) /\ at[c] = s /\ call[c] = cmd
            /\ 1 \in 1..cmd.n /\ cmd.n \in Nat
            /\ stream # <<>> => stream[1] = <<c, 1>>
  BY <1>s, <1>0, FirstReply
<1>2. stream[1] = <<c, 1>>
  BY <1>1, ReceiveFacts
<1>3. rpc' = (IF cmd.n = 1 THEN "send" ELSE "more") /\ ff' = 1 /\ rcmd' = cmd
  BY <1>s, <1>0, <1>1 DEF RSlot, NextResultCh
<1>4. TypeOK'
  <2>1. read2' \in 0..(Wrap - 1)
    BY SMTT(30), <1>0, SlotOfInc DEF IInv, TypeOK, NextResultCh
  <2>2. stream' \in Seq(Callers \X Nat) /\ flushed' \in 0..Len(stream')
    BY ReceiveFacts
  <2>3. /\ rpc' \in {"read", "more", "send", "unlock", "signal"} /\ resc' \in Slots
        /\ rcmd' \in Cmds /\ ff' \in Nat
    BY SMTT(30), <1>0, <1>3 DEF NextResultCh
  <2>4. mark' \in [Slots -> 0..2]
    BY <1>0, SlotFreed DEF IInv, TypeOK, NextResultCh
  <2>5. one' \in [Slots -> Cmds \cup {None}] /\ multi' \in [Slots -> Cmds \cup {None}]
    BY <1>0 DEF IInv, TypeOK, NextResultCh
  <2> QED
    BY <1>0, <2>1, <2>2, <2>3, <2>4, <2>5 DEF IInv, TypeOK, NextResultCh
<1>5. SlotInv' /\ CallerInv' /\ ReaderInv'
  <2>1. UNCHANGED <<slept, callerVars>> /\ rpc = "read"
    OBVIOUS
  <2> HIDE DEF ReadFirst, callerVars, writerVars, bounds
  <2>2. rpc' = "more" => ff' < CmdIn(s).n
    <3>1. \A n \in Nat : 1 \in 1..n /\ n # 1 => 1 < n
      BY SMTT(30)
    <3> QED
      BY <1>1, <1>3, <3>1
  <2>3. rpc' \in {"more", "send"}
    BY <1>3
  <2> QED
    BY <1>s, <1>0, <2>1, <2>2, <2>3, HitInv
<1>6. WriterInv' /\ StreamInv' /\ EndsInv' /\ MarkInv'
  <2>1. RSlot' = NextSlot(s)
    BY <1>s, <1>0, SlotOfInc DEF IInv, TypeOK, RSlot, NextResultCh
  <2>2. \A t \in Slots : t # s => CmdIn(t)' = CmdIn(t)
    BY <1>0 DEF IInv, TypeOK, NextResultCh, CmdIn
  <2>3. mark' = [mark EXCEPT ![s] = 0]
    BY <1>0 DEF NextResultCh
  <2>4. rpc' = (IF 1 = cmd.n THEN "send" ELSE "more") /\ rpc \in {"read", "more"}
        /\ (rpc = "more" => rcmd = cmd)
    BY <1>1, <1>3
  <2>5. Receive /\ rpc = "read" /\ UNCHANGED <<callerVars, writerVars, read1>>
    OBVIOUS
  <2> HIDE DEF ReadFirst, callerVars, writerVars
  <2>6. Consumes(cmd, c, 1, s)
    BY <1>1, <1>2, <1>3, <2>1, <2>2, <2>3, <2>4, <2>5 DEF Consumes
  <2>7. 1 \in Nat
    OBVIOUS
  <2> QED
    BY <2>6, <2>7, AdvanceInv
<1> QED
  BY <1>4, <1>5, <1>6 DEF IInv

\* A further reply of the command being fulfilled keeps the invariant.
LEMMA ReadMoreInv ==
    ASSUME IInv, ReadMore
    PROVE  IInv'
<1> USE DEF ReadMore, counters, slotVars, callerVars, writerVars, bounds
<1>1. PICK cmd \in Cmds, c \in Callers :
            cmd = rcmd /\ c = cmd.by /\ Waits(c) /\ at[c] = resc /\ mark[resc] = 0
  BY CmdType DEF IInv, ReaderInv, Holding
<1>s. PICK s \in Slots : s = resc /\ Idx(read2) = s
  BY DEF IInv, TypeOK, ReaderInv, Holding
<1>2. call[c] = cmd /\ cmd.n \in Nat /\ ff + 1 \in 1..cmd.n
  BY SMTT(30), <1>1, CmdType DEF IInv, TypeOK, CallerInv, CallerOK, ReaderInv
<1>3. stream[1] = <<c, ff + 1>>
  BY <1>1, ReceiveFacts DEF IInv, EndsInv, IsFirst
<1>4. TypeOK'
  <2>1. stream' \in Seq(Callers \X Nat) /\ flushed' \in 0..Len(stream')
    BY ReceiveFacts
  <2> QED
    BY SMTT(30), <2>1 DEF IInv, TypeOK
<1>5. SlotInv' /\ CallerInv'
  BY DEF IInv, SlotInv, SlotOK, CallerInv, CallerOK, CmdIn, Waits, Holding
<1>6. ReaderInv'
  BY SMTT(30), <1>1, <1>2 DEF IInv, TypeOK, ReaderInv, Waits, Holding
<1>7. WriterInv' /\ StreamInv' /\ EndsInv' /\ MarkInv'
  <2>1. RSlot' = NextSlot(s)
    BY <1>s, SlotOfInc DEF IInv, TypeOK, RSlot
  <2>2. \A t \in Slots : t # s => CmdIn(t)' = CmdIn(t)
    BY DEF CmdIn
  <2>3. mark' = [mark EXCEPT ![s] = 0]
    BY <1>1, <1>s DEF IInv, TypeOK
  <2>4. /\ Receive /\ rpc = "more" /\ UNCHANGED <<callerVars, writerVars, read1>>
        /\ rcmd' = cmd /\ rcmd = cmd /\ ff' = ff + 1 /\ at[c] = s
        /\ rpc' = (IF ff + 1 = cmd.n THEN "send" ELSE "more")
        /\ rpc \in {"read", "more"} /\ (rpc = "more" => rcmd = cmd)
    BY <1>1, <1>s
  <2> HIDE DEF ReadMore, callerVars, writerVars
  <2>5. Consumes(cmd, c, ff + 1, s)
    BY <1>1, <1>2, <1>3, <2>1, <2>2, <2>3, <2>4 DEF Consumes
  <2>6. ff + 1 \in Nat
    BY SMTT(30), <1>2
  <2> QED
    BY <2>5, <2>6, AdvanceInv
<1> QED
  BY <1>4, <1>5, <1>6, <1>7 DEF IInv

\* c2.Broadcast of PutOne and PutMulti keeps the invariant.
LEMMA BroadcastInv ==
    ASSUME IInv, NEW c \in Callers, Broadcast(c)
    PROVE  IInv'
<1> USE DEF Broadcast, counters, slotVars, wireVars, readerVars, bounds
<1>1. TypeOK'
  BY DEF IInv, TypeOK
<1>2. SlotInv' /\ CallerInv' /\ ReaderInv'
  BY SMTT(30) DEF IInv, TypeOK, SlotInv, SlotOK, CallerInv, CallerOK, ReaderInv, CmdIn, Waits, Holding
<1>3. \A d \in Callers : Live(d) => Live(d)'
  BY DEF IInv, TypeOK, Live, Waits
<1>4. WriterInv'
  BY <1>3, CmdType DEF IInv, WriterInv
<1>5. StreamInv'
  BY <1>3, StreamElem DEF IInv, StreamInv, Follows
<1>6. EndsInv'
  BY DEF IInv, EndsInv, IsFirst, IsLast, Follows, RSlot, WSlot
<1>7. MarkInv'
  BY DEF IInv, MarkInv, MarkOK, CmdIn
<1> QED
  BY <1>1, <1>2, <1>4, <1>5, <1>6, <1>7 DEF IInv

\* The writer's steps on the ring: NextWriteCmd, Flush and WaitForWrite either
\* take the command of the slot they stand on or leave the invariant's state alone.
LEMMA WriterStepInv ==
    ASSUME IInv, NextWriteCmd \/ Flush \/ WaitForWrite
    PROVE  IInv'
<1>s. PICK s \in Slots : s = WSlot
  BY SlotOfInc DEF IInv, TypeOK, WSlot
<1>w. wpc # "write"
  BY DEF NextWriteCmd, Flush, WaitForWrite
<1>t. /\ wpc # "write" /\ read1 \in 0..(Wrap - 1) /\ Inc(read1) \in 0..(Wrap - 1)
      /\ slept \in [Slots -> BOOLEAN] /\ flushed \in 0..Len(stream)
      /\ Len(stream) \in 0..Len(stream)
      /\ pc \in [Callers -> {"idle", "lock", "c1", "bcast", "recv"}]
  <2>1. stream \in Seq(Callers \X Nat)
    BY DEF IInv, TypeOK
  <2>2. Len(stream) \in 0..Len(stream)
    BY SMTT(30), <2>1
  <2> QED
    BY <1>w, <2>2, SlotOfInc DEF IInv, TypeOK
<1>1. CASE NextWriteCmd
  <2>0. s = Idx(Inc(read1))
    BY <1>s, <1>1 DEF NextWriteCmd, WSlot
  <2>1. CASE TakeCmd(s) /\ read1' = Inc(read1)
    <3>1. /\ Idx(read1') = s /\ read1' \in 0..(Wrap - 1) /\ slept' \in [Slots -> BOOLEAN]
          /\ UNCHANGED <<write, read2, one, multi, callerVars, wireVars, readerVars, bounds>>
      BY <1>t, <1>1, <2>0, <2>1 DEF NextWriteCmd
    <3> QED
      BY <1>s, <1>t, <2>1, <3>1, TakeInv
  <2>2. CASE wpc' = "flush" /\ UNCHANGED <<mark, wcmd, windex, read1>>
    BY <1>t, <1>1, <2>2, IdleWriterInv
       DEF NextWriteCmd, WSlot, Waits, callerVars, wireVars, bounds
  <2> QED
    BY <1>1, <2>0, <2>1, <2>2 DEF NextWriteCmd
<1>2. CASE Flush
  BY <1>t, <1>2, IdleWriterInv
     DEF Flush, WSlot, Waits, callerVars, slotVars, bounds
<1>3. CASE WaitForWrite
  <2>0. s = Idx(read1)
    BY <1>s, <1>3, <1>t DEF WaitForWrite, WSlot, IInv, TypeOK
  <2>1. CASE TakeCmd(s) /\ slept' = [slept EXCEPT ![s] = FALSE]
    <3>1. /\ Idx(read1') = s /\ read1' \in 0..(Wrap - 1) /\ slept' \in [Slots -> BOOLEAN]
          /\ UNCHANGED <<write, read2, one, multi, callerVars, wireVars, readerVars, bounds>>
      BY <1>t, <1>3, <2>0, <2>1 DEF WaitForWrite, counters
    <3> QED
      BY <1>s, <1>t, <2>1, <3>1, TakeInv
  <2>2. CASE /\ wpc' = "c2" /\ slept' = [slept EXCEPT ![s] = TRUE]
             /\ UNCHANGED <<mark, wcmd, windex>>
    BY <1>t, <1>3, <2>2, IdleWriterInv
       DEF WaitForWrite, WSlot, Waits, counters, callerVars, wireVars, bounds
  <2> QED
    BY <1>3, <2>0, <2>1, <2>2 DEF WaitForWrite
<1> QED
  BY <1>1, <1>2, <1>3

\* Every step of a goroutine, of the writer or of the reader keeps the invariant.
LEMMA NextInv ==
    ASSUME IInv, [Next]_vars
    PROVE  IInv'
<1>1. ASSUME NEW c \in Callers, Claim(c) \/ SleepC1(c) \/ Broadcast(c) \/ Send(c)
      PROVE  IInv'
  BY <1>1, ClaimInv, SleepInv, BroadcastInv, SendInv
<1>2. ASSUME NEW c \in Callers, PutOne(c)
      PROVE  IInv'
  <2>1. [by |-> c, n |-> 1] \in Cmds
    BY DEF Cmds
  <2> QED
    BY <1>2, <2>1, FillInv DEF PutOne
<1>3. ASSUME NEW c \in Callers, PutMulti(c)
      PROVE  IInv'
  <2>1. PICK n \in MultiLens : Fill(c, [by |-> c, n |-> n], TRUE)
    BY <1>3 DEF PutMulti
  <2>2. [by |-> c, n |-> n] \in Cmds
    BY DEF Cmds
  <2> QED
    BY <2>1, <2>2, FillInv
<1>4. ASSUME Writer
      PROVE  IInv'
  BY <1>4, WriterStepInv, WriteInv DEF Writer
<1>5. ASSUME ReadFirst \/ ReadMore \/ Unlock \/ Signal \/ UnsubPush
      PROVE  IInv'
  BY <1>5, ReadFirstInv, ReadMoreInv, UnlockInv, SignalInv, UnsubPushInv
<1>6. ASSUME UNCHANGED vars
      PROVE  IInv'
  <2> USE <1>6 DEF vars, counters, slotVars, callerVars, writerVars, wireVars, readerVars, bounds
  <2>1. TypeOK'
    BY DEF IInv, TypeOK
  <2>2. SlotInv' /\ CallerInv' /\ ReaderInv'
    BY DEF IInv, SlotInv, SlotOK, CallerInv, CallerOK, ReaderInv, CmdIn, Waits, Holding
  <2>3. WriterInv' /\ StreamInv'
    BY DEF IInv, WriterInv, StreamInv, Live, Waits, Follows
  <2>4. EndsInv'
    BY DEF IInv, EndsInv, IsFirst, IsLast, Follows, RSlot, WSlot
  <2>5. MarkInv'
    BY DEF IInv, MarkInv, MarkOK, CmdIn
  <2> QED
    BY <2>1, <2>2, <2>3, <2>4, <2>5 DEF IInv
<1> QED
  BY <1>1, <1>2, <1>3, <1>4, <1>5, <1>6 DEF Next, Put, Reader, Quiet

\* The invariant holds in every reachable state of the ring.
THEOREM Invariance == Spec => []IInv
<1>1. IInv /\ [Next]_vars => IInv'
  BY NextInv
<1> QED
  BY <1>1, InitIInv, PTL DEF Spec

\* Counters stay below the wrap, marks stay 0, 1 or 2, and the write buffer never
\* reports more flushed commands than it was given.
THEOREM TypeCorrect == Spec => []TypeOK
<1>1. IInv => TypeOK
  BY DEF IInv
<1> QED
  BY <1>1, Invariance, PTL

\* _backgroundRead files every reply under the command it answers, and NextResultCh
\* never misses when a reply is on the wire: panic(protocolbug) is unreachable.
THEOREM RepliesAreFiledRight == Spec => []RepliesMatchCommands
<1>1. ASSUME IInv
      PROVE  RepliesMatchCommands
  <2> SUFFICES ASSUME flushed > 0
               PROVE  RepliesMatchCommands
    BY DEF RepliesMatchCommands
  <2>s. PICK s \in Slots : s = RSlot
    BY <1>1, SlotOfInc DEF IInv, TypeOK, RSlot
  <2>1. stream # <<>> /\ Head(stream) = stream[1] /\ 1 \in 1..Len(stream)
    BY SMTT(30), <1>1 DEF IInv, TypeOK
  <2>2. rpc = "more" => Head(stream) = <<rcmd.by, ff + 1>>
    BY <1>1, <2>1 DEF IInv, EndsInv, IsFirst
  <2>3. ASSUME rpc = "read"
        PROVE  mark[s] = 2 /\ Head(stream) = <<CmdIn(s).by, 1>>
    <3>1. at[stream[1][1]] = s /\ Live(stream[1][1])
      BY <1>1, <2>s, <2>1, <2>3 DEF IInv, EndsInv, StreamInv, IsFirst
    <3>2. mark[s] = 2
      BY <2>3, <3>1 DEF Live
    <3> QED
      BY SMTT(30), <1>1, <2>s, <2>1, <2>3, <3>2, FirstReply
  <2> QED
    BY <2>s, <2>2, <2>3 DEF RepliesMatchCommands, RSlot
<1> QED
  BY <1>1, Invariance, PTL

\* ch <- resp reaches the goroutine that put the command: it is the only one that
\* can receive from the channel of the slot.
THEOREM ResultsReachTheirCallers == Spec => []ResultGoesToItsCaller
<1>1. ASSUME IInv
      PROVE  ResultGoesToItsCaller
  <2> SUFFICES ASSUME Holding
               PROVE  \E c \in Callers : Filled(resc) = {c} /\ call[c] = rcmd
    BY DEF ResultGoesToItsCaller, Holding
  <2>1. PICK c \in Callers : c = rcmd.by /\ Waits(c) /\ at[c] = resc /\ mark[resc] = 0
    BY <1>1, CmdType DEF IInv, ReaderInv
  <2>2. call[c] = rcmd
    BY <1>1, <2>1 DEF IInv, CallerInv, CallerOK
  <2>3. Filled(resc) = {c}
    BY <1>1, <2>1, OneWaiter DEF Filled, Waits
  <2> QED
    BY <2>2, <2>3
<1> QED
  BY <1>1, Invariance, PTL

\* Whatever the interleaving, PutOne and PutMulti, WaitForWrite and FinishResult lose no wakeup.
THEOREM WakeupsArrive == Spec => []NoLostWakeup
<1>1. Init => WakeInv
  <2>1. Init => \A d \in Callers : pc[d] # "c1"
    BY DEF Init
  <2> QED
    BY <2>1 DEF Init, WakeInv
<1>2. ASSUME IInv, WakeInv, [Next]_vars
      PROVE  WakeInv'
  <2>1. TypeOK
    BY <1>2 DEF IInv
  <2>2. ASSUME UNCHANGED vars
        PROVE  WakeInv'
    BY <1>2, <2>2 DEF vars, WakeInv, AtSlot, slotVars, callerVars, writerVars, readerVars, counters
  <2> QED
    BY <1>2, <2>1, <2>2, CallerWakes, WriterWakes, ReaderWakes
       DEF Next, Put, PutOne, PutMulti, Reader, Quiet
<1>3. WakeInv => NoLostWakeup
  <2> SUFFICES ASSUME WakeInv
               PROVE  NoLostWakeup
    OBVIOUS
  <2>1. ASSUME NEW s \in Slots, mark[s] = 0, ~Locked(s), NEW d \in Sleeping(s)
        PROVE  (rpc = "signal" /\ resc = s) \/ \E c \in Callers : pc[c] = "lock" /\ at[c] = s
    BY <2>1 DEF WakeInv, AtSlot, Locked, Sleeping
  <2> QED
    BY <2>1 DEF NoLostWakeup, WakeInv
<1> QED
  BY <1>1, <1>2, <1>3, Invariance, PTL DEF Spec
=============================================================================
