-------------------------------- MODULE Ring --------------------------------
(***************************************************************************)
(* ring.go, the default command queue of a pipelined connection, together  *)
(* with the two loops of pipe.go that drive it: _backgroundWrite takes     *)
(* commands, writes them through a buffered writer and flushes when there  *)
(* is nothing more to take; _backgroundRead reads one reply at a time and  *)
(* hands the replies of a command to the goroutine that put it.            *)
(*                                                                         *)
(* A slot has one mutex.  Callers and the writer hold it only inside one   *)
(* action; the reader holds it from NextResultCh to FinishResult, which is *)
(* what Locked says.  c1 and c2 are sync.Conds on that mutex: Wait joins   *)
(* the waiters before it unlocks, so falling asleep is one action.         *)
(***************************************************************************)
EXTENDS Integers, Sequences, FiniteSets

CONSTANTS Callers,    \* goroutines that call Do or DoMulti on the connection
          Size,       \* len(store), a power of two, at least 2
          Wrap,       \* 2^32: the modulus of the uint32 counters
          MultiLens,  \* lengths of the command slices passed to DoMulti
          BufCap,     \* number of commands the bufio.Writer holds
          MaxCalls,   \* bound: number of calls made in a behaviour
          MaxPushes,  \* bound: number of unsolicited unsubscribe pushes
          None        \* nil

ASSUME SizeAssumption == Size \in Nat /\ Size >= 2
ASSUME WrapAssumption == Wrap \in Nat \ {0} /\ Wrap % Size = 0
ASSUME LensAssumption == MultiLens \subseteq Nat \ {0}
ASSUME BoundAssumption == BufCap \in Nat \ {0} /\ MaxCalls \in Nat /\ MaxPushes \in Nat

Slots == 0..(Size - 1)

\* What is put in a slot: whose it is and how many redis commands it consists of.
Cmds == [by : Callers, n : MultiLens \cup {1}]

ASSUME NoneAssumption == None \notin Cmds

VARIABLES write, read1, read2,      \* the three counters of the ring
          mark, one, multi, slept,  \* the fields of each slot
          resc,                     \* slot of the last NextResultCh
          pc, at, call,             \* per caller: step, its slot, its command
          wpc, wcmd, windex,        \* writer: step, its command, next to write
          stream,                   \* redis commands <<caller, index>> written
                                    \* and not yet answered, oldest first
          flushed,                  \* how many of them have left the buffer
          rpc, rcmd, ff,            \* reader: step, its command, fulfilled count
          calls, pushes             \* calls and pushes so far

counters == <<write, read1, read2>>
slotVars == <<mark, one, multi, slept>>
callerVars == <<pc, at, call>>
writerVars == <<wpc, wcmd, windex>>
wireVars == <<stream, flushed>>
readerVars == <<rpc, resc, rcmd, ff>>
bounds == <<calls, pushes>>
vars == <<counters, slotVars, callerVars, writerVars, wireVars, readerVars, bounds>>

Inc(n) == (n + 1) % Wrap
Idx(n) == n % Size

LockedNever(s) == FALSE

\* The reader is between NextResultCh and FinishResult of slot s.
Locked(s) == rpc \in {"more", "send", "unlock"} /\ resc = s

\* Both loops use multi when it is set and one otherwise.
CmdIn(s) == IF multi[s] # None THEN multi[s] ELSE one[s]

Init ==
    /\ write = 0 /\ read1 = 0 /\ read2 = 0
    /\ mark = [s \in Slots |-> 0]
    /\ one = [s \in Slots |-> None]
    /\ multi = [s \in Slots |-> None]
    /\ slept = [s \in Slots |-> FALSE]
    /\ pc = [c \in Callers |-> "idle"]
    /\ at = [c \in Callers |-> 0]
    /\ call = [c \in Callers |-> None]
    /\ wpc = "next" /\ wcmd = None /\ windex = 0
    /\ stream = <<>> /\ flushed = 0
    /\ rpc = "read" /\ resc = 0 /\ rcmd = None /\ ff = 0
    /\ calls = 0 /\ pushes = 0

-----------------------------------------------------------------------------
(* PutOne and PutMulti *)

\* atomic.AddUint32(&r.write, 1) & r.mask
Claim(c) ==
    /\ pc[c] = "idle"
    /\ calls < MaxCalls
    /\ calls' = calls + 1
    /\ write' = Inc(write)
    /\ at' = [at EXCEPT ![c] = Idx(Inc(write))]
    /\ pc' = [pc EXCEPT ![c] = "lock"]
    /\ UNCHANGED <<read1, read2, slotVars, call, writerVars, wireVars, readerVars,
                   pushes>>

\* With the mutex: the slot is taken, sleep on c1.
SleepC1(c) ==
    /\ pc[c] = "lock"
    /\ ~Locked(at[c])
    /\ mark[at[c]] # 0
    /\ pc' = [pc EXCEPT ![c] = "c1"]
    /\ UNCHANGED <<counters, slotVars, at, call, writerVars, wireVars, readerVars,
                   bounds>>

FillSilently(c, cmd, isMulti) ==
    LET s == at[c] IN
    /\ pc[c] = "lock"
    /\ ~Locked(s)
    /\ mark[s] = 0
    /\ multi' = IF isMulti THEN [multi EXCEPT ![s] = cmd] ELSE multi
    /\ one' = IF isMulti THEN one ELSE [one EXCEPT ![s] = cmd]
    /\ mark' = [mark EXCEPT ![s] = 1]
    /\ call' = [call EXCEPT ![c] = cmd]
    /\ pc' = [pc EXCEPT ![c] = "recv"]
    /\ UNCHANGED <<counters, slept, at, writerVars, wireVars, readerVars, bounds>>

\* With the mutex: the slot is free, fill it.  slept is read before unlocking
\* and decides whether a Broadcast follows.
Fill(c, cmd, isMulti) ==
    LET s == at[c] IN
    /\ pc[c] = "lock"
    /\ ~Locked(s)
    /\ mark[s] = 0
    /\ multi' = IF isMulti THEN [multi EXCEPT ![s] = cmd] ELSE multi
    /\ one' = IF isMulti THEN one ELSE [one EXCEPT ![s] = cmd]
    /\ mark' = [mark EXCEPT ![s] = 1]
    /\ call' = [call EXCEPT ![c] = cmd]
    /\ pc' = [pc EXCEPT ![c] = IF slept[s] THEN "bcast" ELSE "recv"]
    /\ UNCHANGED <<counters, slept, at, writerVars, wireVars, readerVars, bounds>>

PutOne(c) == Fill(c, [by |-> c, n |-> 1], FALSE)
PutMulti(c) == \E n \in MultiLens : Fill(c, [by |-> c, n |-> n], TRUE)

\* n.c2.Broadcast(), after the unlock: wakes the writer if it sleeps here.
Broadcast(c) ==
    /\ pc[c] = "bcast"
    /\ pc' = [pc EXCEPT ![c] = "recv"]
    /\ wpc' = IF wpc = "c2" /\ Idx(read1) = at[c] THEN "woken" ELSE wpc
    /\ UNCHANGED <<counters, slotVars, at, call, wcmd, windex, wireVars, readerVars,
                   bounds>>

-----------------------------------------------------------------------------
(* _backgroundWrite *)

\* The part of NextWriteCmd and WaitForWrite after the mark was found 1.
TakeCmd(s) ==
    /\ mark[s] = 1
    /\ mark' = [mark EXCEPT ![s] = 2]
    /\ wcmd' = CmdIn(s)
    /\ windex' = 1
    /\ wpc' = "write"

NextWriteCmdNoUndo ==
    LET s == Idx(Inc(read1)) IN
    /\ wpc = "next"
    /\ ~Locked(s)
    /\ read1' = Inc(read1)
    /\ \/ TakeCmd(s)
       \/ mark[s] # 1 /\ wpc' = "flush" /\ UNCHANGED <<mark, wcmd, windex>>
    /\ UNCHANGED <<write, read2, one, multi, slept, callerVars, wireVars, readerVars,
                   bounds>>

\* NextWriteCmd; a miss decrements read1 again and the buffer is flushed next.
NextWriteCmd ==
    LET s == Idx(Inc(read1)) IN
    /\ wpc = "next"
    /\ ~Locked(s)
    /\ \/ TakeCmd(s) /\ read1' = Inc(read1)
       \/ mark[s] # 1 /\ wpc' = "flush" /\ UNCHANGED <<mark, wcmd, windex, read1>>
    /\ UNCHANGED <<write, read2, one, multi, slept, callerVars, wireVars, readerVars,
                   bounds>>

\* if p.w.Buffered() != 0 { p.w.Flush() }, then WaitForWrite moves read1.
Flush ==
    /\ wpc = "flush"
    /\ flushed' = Len(stream)
    /\ read1' = Inc(read1)
    /\ wpc' = "wait"
    /\ UNCHANGED <<write, read2, slotVars, callerVars, wcmd, windex, stream,
                   readerVars, bounds>>

\* WaitForWrite's loop, entered at "wait" and again when c2.Wait returns.
WaitForWrite ==
    LET s == Idx(read1) IN
    /\ wpc \in {"wait", "woken"}
    /\ ~Locked(s)
    /\ \/ TakeCmd(s) /\ slept' = [slept EXCEPT ![s] = FALSE]
       \/ /\ mark[s] # 1
          /\ wpc' = "c2"
          /\ slept' = [slept EXCEPT ![s] = TRUE]
          /\ UNCHANGED <<mark, wcmd, windex>>
    /\ UNCHANGED <<counters, one, multi, callerVars, wireVars, readerVars, bounds>>

\* writeCmd of the next redis command: a full buffer is flushed first.
WriteCmd ==
    /\ wpc = "write"
    /\ stream' = Append(stream, <<wcmd.by, windex>>)
    /\ flushed' = IF Len(stream) - flushed < BufCap THEN flushed ELSE Len(stream)
    /\ windex' = windex + 1
    /\ wpc' = IF windex = wcmd.n THEN "next" ELSE "write"
    /\ UNCHANGED <<counters, slotVars, callerVars, wcmd, readerVars, bounds>>

-----------------------------------------------------------------------------
(* _backgroundRead *)

NextResultChKeepsMulti(s) ==
    /\ mark[s] = 2
    /\ mark' = [mark EXCEPT ![s] = 0]
    /\ one' = [one EXCEPT ![s] = None]
    /\ UNCHANGED multi
    /\ read2' = Inc(read2)
    /\ resc' = s
    /\ rcmd' = CmdIn(s)

\* NextResultCh on a slot marked 2: locks it, empties it and leaves it locked.
NextResultCh(s) ==
    /\ mark[s] = 2
    /\ mark' = [mark EXCEPT ![s] = 0]
    /\ one' = [one EXCEPT ![s] = None]
    /\ multi' = [multi EXCEPT ![s] = None]
    /\ read2' = Inc(read2)
    /\ resc' = s
    /\ rcmd' = CmdIn(s)

\* readNextMessage: the server answers what has been flushed, in order.
Receive ==
    /\ flushed > 0
    /\ stream' = Tail(stream)
    /\ flushed' = flushed - 1

\* A reply arrives while no command is being fulfilled (ff == len(multi)).  A miss
\* of NextResultCh here is panic(protocolbug), see RepliesMatchCommands.
ReadFirst ==
    LET s == Idx(Inc(read2)) IN
    /\ rpc = "read"
    /\ Receive
    /\ NextResultCh(s)
    /\ ff' = 1
    /\ rpc' = IF CmdIn(s).n = 1 THEN "send" ELSE "more"
    /\ UNCHANGED <<write, read1, slept, callerVars, writerVars, bounds>>

\* The next reply of the command being fulfilled.
ReadMore ==
    /\ rpc = "more"
    /\ Receive
    /\ ff' = ff + 1
    /\ rpc' = IF ff + 1 = rcmd.n THEN "send" ELSE "more"
    /\ UNCHANGED <<counters, slotVars, callerVars, writerVars, resc, rcmd, bounds>>

\* An unsolicited unsubscribe push between two commands still goes through
\* NextResultCh before it is ignored: a hit keeps the slot for the replies
\* that follow, a miss is finished at once.
UnsubPush ==
    LET s == Idx(Inc(read2)) IN
    /\ rpc = "read"
    /\ pushes < MaxPushes
    /\ pushes' = pushes + 1
    /\ ff' = 0
    /\ \/ NextResultCh(s) /\ rpc' = "more"
       \/ mark[s] # 2 /\ resc' = s /\ rpc' = "unlock"
                      /\ UNCHANGED <<mark, one, multi, read2, rcmd>>
    /\ UNCHANGED <<write, read1, slept, callerVars, writerVars, wireVars, calls>>

\* ch <- resp, a rendezvous: the channel of the slot is unbuffered.
Send(c) ==
    /\ rpc = "send"
    /\ pc[c] = "recv"
    /\ at[c] = resc
    /\ pc' = [pc EXCEPT ![c] = "idle"]
    /\ rpc' = "unlock"
    /\ UNCHANGED <<counters, slotVars, at, call, writerVars, wireVars, resc, rcmd, ff,
                   bounds>>

UnlockNoSignal ==
    /\ rpc = "unlock"
    /\ rpc' = "read"
    /\ UNCHANGED <<counters, slotVars, callerVars, writerVars, wireVars, resc, rcmd,
                   ff, bounds>>

\* FinishResult: r.resc.L.Unlock(), and then r.resc.Signal().
Unlock ==
    /\ rpc = "unlock"
    /\ rpc' = "signal"
    /\ UNCHANGED <<counters, slotVars, callerVars, writerVars, wireVars, resc, rcmd,
                   ff, bounds>>

Sleeping(s) == {c \in Callers : pc[c] = "c1" /\ at[c] = s}

Signal ==
    /\ rpc = "signal"
    /\ rpc' = "read"
    /\ \/ Sleeping(resc) = {} /\ UNCHANGED pc
       \/ \E c \in Sleeping(resc) : pc' = [pc EXCEPT ![c] = "lock"]
    /\ UNCHANGED <<counters, slotVars, at, call, writerVars, wireVars, resc, rcmd, ff,
                   bounds>>

-----------------------------------------------------------------------------
Put(c) == SleepC1(c) \/ PutOne(c) \/ PutMulti(c) \/ Broadcast(c)
Writer == NextWriteCmd \/ Flush \/ WaitForWrite \/ WriteCmd
Reader == ReadFirst \/ ReadMore \/ (\E c \in Callers : Send(c)) \/ Unlock \/ Signal

\* Every call has been answered and no further call is made.
Quiet == calls = MaxCalls /\ (\A c \in Callers : pc[c] = "idle") /\ UNCHANGED vars

Next ==
    \/ \E c \in Callers : Claim(c) \/ Put(c)
    \/ Writer \/ Reader \/ UnsubPush
    \/ Quiet

Steps == (\E c \in Callers : Put(c)) \/ Writer \/ Reader

Spec == Init /\ [][Next]_vars

\* The scheduler runs some goroutine as long as one can take a step, and the server answers
\* what it was sent.  Nobody is obliged to make a call.
Fairness == WF_vars(Steps)

FairSpec == Spec /\ Fairness

-----------------------------------------------------------------------------
TypeOK ==
    /\ write \in 0..(Wrap - 1) /\ read1 \in 0..(Wrap - 1) /\ read2 \in 0..(Wrap - 1)
    /\ mark \in [Slots -> 0..2]
    /\ one \in [Slots -> Cmds \cup {None}]
    /\ multi \in [Slots -> Cmds \cup {None}]
    /\ slept \in [Slots -> BOOLEAN]
    /\ pc \in [Callers -> {"idle", "lock", "c1", "bcast", "recv"}]
    /\ at \in [Callers -> Slots]
    /\ call \in [Callers -> Cmds \cup {None}]
    /\ wpc \in {"next", "flush", "wait", "c2", "woken", "write"}
    /\ wcmd \in Cmds \cup {None}
    /\ windex \in Nat
    /\ stream \in Seq(Callers \X Nat)
    /\ flushed \in 0..Len(stream)
    /\ rpc \in {"read", "more", "send", "unlock", "signal"}
    /\ resc \in Slots
    /\ rcmd \in Cmds \cup {None}
    /\ ff \in Nat
    /\ calls \in Nat /\ pushes \in Nat

\* The goroutines whose command is in slot s, or was and has no result yet.
Filled(s) == {c \in Callers : pc[c] \in {"bcast", "recv"} /\ at[c] = s}

\* Every reply is filed under the redis command it answers.  Between two commands,
\* the slot the reader turns to is marked 2 (NextResultCh never misses, so no
\* panic(protocolbug)) and holds the command whose first reply is next on the wire;
\* within a command, the next reply on the wire is the one at resps[ff].
RepliesMatchCommands ==
    flushed > 0 =>
        LET s == Idx(Inc(read2)) IN
        /\ rpc = "read" => mark[s] = 2 /\ Head(stream) = <<CmdIn(s).by, 1>>
        /\ rpc = "more" => Head(stream) = <<rcmd.by, ff + 1>>

\* While the reader fulfils a command, exactly one goroutine can receive from the
\* slot's channel, and it is the one that put this very command, although all
\* goroutines that are ever assigned the slot share the channel.
ResultGoesToItsCaller ==
    rpc \in {"more", "send"} => \E c \in Callers : Filled(resc) = {c} /\ call[c] = rcmd

\* No wakeup is lost.  If a goroutine sleeps on c1 of a slot that is free, a Signal
\* is still to come or another goroutine is on its way into the slot (whose own
\* FinishResult will signal).  If the writer sleeps on c2 of a filled slot, the
\* goroutine that filled it is about to Broadcast.
NoLostWakeup ==
    /\ \A s \in Slots :
          mark[s] = 0 /\ ~Locked(s) /\ Sleeping(s) # {} =>
              \/ rpc = "signal" /\ resc = s
              \/ \E c \in Callers : pc[c] = "lock" /\ at[c] = s
    /\ wpc = "c2" /\ mark[Idx(read1)] = 1 =>
          \E c \in Callers : pc[c] = "bcast" /\ at[c] = Idx(read1)

Busy == \E c \in Callers : pc[c] # "idle"

\* Every goroutine that entered PutOne or PutMulti gets its result, as long as no
\* unsolicited push makes the reader lock the slot of a command that is not flushed.
EveryCallAnswered == (pushes = 0 /\ Busy) ~> (pushes > 0 \/ ~Busy)

\* The ring as a FIFO of calls: the one the reader holds, then the slots marked 2.
InRing == Cardinality({s \in Slots : mark[s] = 2})
WrittenOrder == [i \in 1..InRing |-> CmdIn(Idx(read2 + i)).by]
HeldCall == IF rpc \in {"more", "send"} THEN <<rcmd.by>> ELSE <<>>

Abstract == INSTANCE CallQueue
    WITH Capacity <- Size,
         queued <- {c \in Callers : /\ pc[c] \in {"bcast", "recv"}
                                    /\ mark[at[c]] = 1},
         order <- HeldCall \o WrittenOrder

\* The ring with its two loops implements the queue's contract: every step is an
\* acceptance, a take or the completion of the oldest call, or invisible.
ImplementsCallQueue == Abstract!Spec
=============================================================================
