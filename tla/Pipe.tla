-------------------------------- MODULE Pipe --------------------------------
(***************************************************************************)
(* The life of one connection, pipe.go: a call runs synchronously on the   *)
(* caller's goroutine while it is alone, or is queued for the background   *)
(* goroutines; a failure or Close stops the loops, and the goroutine that  *)
(* ran the read loop then answers with an error whatever is still queued.  *)
(*                                                                         *)
(* The queue is the bounded FIFO of CallQueue, which Ring and FlowBuffer   *)
(* implement.  Each atomic operation on wrCounter, state, blcksig and      *)
(* error that another goroutine can fall between is a step of its own.     *)
(***************************************************************************)
EXTENDS Integers, Sequences, FiniteSets

CONSTANTS Callers,          \* goroutines in Do or DoMulti
          Closers,          \* goroutines in Close (the client's, or expired)
          Bg,               \* the goroutine _background starts to put a PING
          Cap,              \* capacity of the queue
          MaxCalls,         \* bound: number of calls in a behaviour
          Settings,         \* sequence of AllSettings, one of which holds in a behaviour
          None

Actors == Callers \cup Closers \cup {Bg}

\* A call by what decides its way: its number of redis commands (1 is Do, more DoMulti),
\* whether one is a blocking command, and its kind.  "plain" has a context that is never
\* done, "deadline" one with a deadline, "cancel" one that is done without a deadline
\* (or a deadline and a blocking command with UnblockOnCancel), "sub" is a command
\* without a reply of its own (or a DoMulti led by an opt-in).
AllCalls == [kind : {"plain", "deadline", "cancel", "sub"}, block : BOOLEAN, n : Nat \ {0}]

\* The errors of a failed sync call, of either loop and of a timer are not told apart.
Errors == {"closing", "broken"}

\* pipelining: _newPipe starts the background goroutines (AlwaysPipelining); givesUp: PutOne
\* fails when the context is done (flowbuffer.go); answers: the server answers what it
\* receives; breaks: the connection may break by itself; closes: Close may be called;
\* calls: the calls that may be made.
AllSettings == [pipelining : BOOLEAN, givesUp : BOOLEAN, answers : BOOLEAN,
                breaks : BOOLEAN, closes : BOOLEAN, calls : SUBSET AllCalls]

ASSUME BoundAssumption == Cap \in Nat \ {0} /\ MaxCalls \in Nat
ASSUME SettingAssumption == Settings \in Seq(AllSettings)
ASSUME ActorAssumption ==
    /\ IsFiniteSet(Actors)
    /\ Callers \cap Closers = {} /\ Bg \notin Callers \cup Closers
    /\ None \notin Errors \cup {"ok"}

VARIABLES state,      \* 0 sync, 1 background, 2 stopping, 4 closed
          bgState,    \* the background goroutine was started
          err,        \* p.error
          open,       \* the connection can be read and written
          waits,      \* lower half of wrCounter
          blcksig,
          q, taken,   \* queued calls, oldest first; how many the writer has taken
          pc, resp,   \* per actor: its step and the result it received
          call,       \* per caller: its call
          alone,      \* per caller or closer: incrWaits returned 1
          noBlock,    \* per closer: adding to blcksig returned 1
          pend,       \* per closer: calls it found under way and not answered since
          wpc, witem, \* writer: step, its item
          buf, sent,  \* commands in the write buffer; sent and not answered
          rpc, ritem, ff, \* reader: step, its item, fulfilled count
          done,       \* p.close is closed
          setting,    \* which of Settings holds in this behaviour
          calls       \* number of calls so far

shared == <<state, bgState, err, open, waits, blcksig>>
queue == <<q, taken>>
locals == <<call, alone, noBlock, pend>>
writerVars == <<wpc, witem>>
wire == <<buf, sent>>
readerVars == <<rpc, ritem, ff>>
vars == <<shared, queue, pc, resp, locals, writerVars, wire, readerVars, done, calls, setting>>

set == Settings[setting]

Init ==
    /\ setting \in DOMAIN Settings
    /\ bgState = set.pipelining
    /\ state = (IF bgState THEN 1 ELSE 0)
    /\ err = None /\ open = TRUE /\ waits = 0 /\ blcksig = 0
    /\ q = <<>> /\ taken = 0
    /\ pc = [a \in Actors |-> "idle"]
    /\ resp = [a \in Actors |-> None]
    /\ call = [c \in Callers |-> None]
    /\ alone = [a \in Callers \cup Closers |-> FALSE]
    /\ noBlock = [k \in Closers |-> FALSE]
    /\ pend = [k \in Closers |-> {}]
    /\ wpc = (IF bgState THEN "next" ELSE "off") /\ witem = None
    /\ rpc = (IF bgState THEN "read" ELSE "off") /\ ritem = None /\ ff = 0
    /\ buf = 0 /\ sent = 0
    /\ done = FALSE /\ calls = 0

Goto(a, l) == pc' = [pc EXCEPT ![a] = l]

\* p.error.CompareAndSwap(nil, e)
SetError(e) == err' = IF err = None THEN e ELSE err

\* startBackground.  The second swap is on a field only this function touches, so both
\* are one step.
StartBackground(skip) ==
    /\ state' = IF state = 0 THEN 1 ELSE state
    /\ bgState' = TRUE
    /\ IF bgState
       THEN UNCHANGED <<wpc, rpc>>
       ELSE /\ wpc' = IF skip THEN "off" ELSE "next"
            /\ rpc' = IF skip THEN "skip" ELSE "read"

\* conn.Close, or a broken connection: replies under way are lost.
Cut == open' = FALSE /\ sent' = 0

\* _exit: stop accepting calls and force both loops to fail.  One step: the error is read only
\* by those who found the state 2 or who drain, and a read before conn.Close is one before _exit.
Exit(e) == SetError(e) /\ Cut /\ state' = IF state = 1 THEN 2 ELSE state

-----------------------------------------------------------------------------
(* Do and DoMulti *)

\* The first atomic operation is on blcksig.
Call(c) ==
    /\ pc[c] = "idle"
    /\ calls < MaxCalls
    /\ calls' = calls + 1
    /\ \E x \in set.calls : /\ call' = [call EXCEPT ![c] = x]
                             /\ blcksig' = IF x.block THEN blcksig + 1 ELSE blcksig
    /\ Goto(c, "incr")
    /\ UNCHANGED <<state, bgState, err, open, waits, queue, resp, alone, noBlock, pend,
                   writerVars, wire, readerVars, done, setting>>

IncrWaits(c) ==
    /\ pc[c] = "incr"
    /\ waits' = waits + 1
    /\ alone' = [alone EXCEPT ![c] = waits = 0]
    /\ Goto(c, "load")
    /\ UNCHANGED <<state, bgState, err, open, blcksig, queue, resp, call, noBlock, pend,
                   writerVars, wire, readerVars, done, calls, setting>>

Rejected(c) ==
    /\ state > 1
    /\ resp' = [resp EXCEPT ![c] = err]
    /\ Goto(c, "decr")

LoadStateAlwaysSync(c) ==
    /\ pc[c] = "load"
    /\ alone' = [alone EXCEPT ![c] = FALSE]
    /\ \/ state = 1 /\ Goto(c, "put") /\ UNCHANGED resp
       \/ state = 0 /\ Goto(c, "sync") /\ UNCHANGED resp
       \/ Rejected(c)
    /\ UNCHANGED <<shared, queue, call, noBlock, pend, writerVars, wire, readerVars, done, calls, setting>>

\* The state decides: queue, start the background first, do it here, or refuse with
\* p.Error().
LoadState(c) ==
    LET toQueue == call[c].kind \in {"cancel", "sub"} IN
    /\ pc[c] = "load"
    /\ alone' = [alone EXCEPT ![c] = FALSE]
    /\ \/ state = 1 /\ Goto(c, "put") /\ UNCHANGED resp
       \/ state = 0 /\ ~alone[c] /\ Goto(c, "put") /\ UNCHANGED resp
       \/ state = 0 /\ alone[c] /\ toQueue /\ Goto(c, "bg") /\ UNCHANGED resp
       \/ state = 0 /\ alone[c] /\ ~toQueue /\ Goto(c, "sync") /\ UNCHANGED resp
       \/ Rejected(c)
    /\ UNCHANGED <<shared, queue, call, noBlock, pend, writerVars, wire, readerVars, done, calls, setting>>

\* p.background() before the call is queued
BackgroundThenPut(c) ==
    /\ pc[c] = "bg"
    /\ StartBackground(FALSE)
    /\ Goto(c, "put")
    /\ UNCHANGED <<err, open, waits, blcksig, queue, resp, locals, witem, wire, ritem, ff,
                   done, calls, setting>>

\* A call that was under way when a Close began has its result.
Answered(c) == pend' = [k \in Closers |-> pend[k] \ {c}]

\* syncDo, syncDoMulti: the caller itself writes, flushes and reads.
SyncDo(c) ==
    /\ pc[c] = "sync"
    /\ open /\ set.answers
    /\ resp' = [resp EXCEPT ![c] = "ok"]
    /\ Goto(c, "syncdecr")
    /\ Answered(c)
    /\ UNCHANGED <<shared, queue, call, alone, noBlock, writerVars, wire, readerVars, done,
                   calls, setting>>

\* ... or fails, if only because of its deadline: failSync marks and closes ...
SyncFail(c) ==
    /\ pc[c] = "sync"
    /\ ~open \/ set.breaks \/ ~set.answers
    /\ SetError("broken")
    /\ Cut
    /\ resp' = [resp EXCEPT ![c] = "broken"]
    /\ Goto(c, "fail")
    /\ Answered(c)
    /\ UNCHANGED <<state, bgState, waits, blcksig, queue, call, alone, noBlock, writerVars,
                   buf, readerVars, done, calls, setting>>

\* ... and starts the background goroutine for the cleanup only.
FailSync(c) ==
    /\ pc[c] = "fail"
    /\ StartBackground(TRUE)
    /\ Goto(c, "syncdecr")
    /\ UNCHANGED <<err, open, waits, blcksig, queue, resp, locals, witem, wire, ritem, ff,
                   done, calls, setting>>

DecrWaitsOnly(c) ==
    /\ pc[c] \in {"decr", "syncdecr"}
    /\ waits' = waits - 1
    /\ Goto(c, "return")
    /\ UNCHANGED <<state, bgState, err, open, blcksig, queue, resp, locals, writerVars, wire,
                   readerVars, done, calls, setting>>

\* decrWaitsAndIncrRecvs: after a synchronous call, whoever came meanwhile was queued.
DecrWaits(c) ==
    /\ pc[c] \in {"decr", "syncdecr"}
    /\ waits' = waits - 1
    /\ Goto(c, IF pc[c] = "syncdecr" /\ waits # 1 THEN "left" ELSE "return")
    /\ UNCHANGED <<state, bgState, err, open, blcksig, queue, resp, locals, writerVars, wire,
                   readerVars, done, calls, setting>>

BackgroundForOthers(c) ==
    /\ pc[c] = "left"
    /\ StartBackground(FALSE)
    /\ Goto(c, "return")
    /\ UNCHANGED <<err, open, waits, blcksig, queue, resp, locals, witem, wire, ritem, ff,
                   done, calls, setting>>

\* The call and its result are forgotten.
Forget(c) == call' = [call EXCEPT ![c] = None] /\ resp' = [resp EXCEPT ![c] = None]

\* The deferred function: blcksig is not taken back after an error.
Return(c) ==
    /\ pc[c] = "return"
    /\ blcksig' = IF call[c].block /\ resp[c] = "ok" THEN blcksig - 1 ELSE blcksig
    /\ Goto(c, "idle")
    /\ Forget(c)
    /\ UNCHANGED <<state, bgState, err, open, waits, queue, alone, noBlock, pend, writerVars, wire,
                   readerVars, done, calls, setting>>

HasDone(c) == call[c].kind \in {"deadline", "cancel"}

\* PutOne and PutMulti, for a caller, for the PING of Close and for that of _background.
Put(a) ==
    /\ pc[a] = "put"
    /\ Len(q) + (IF ritem = None THEN 0 ELSE 1) < Cap
    /\ q' = Append(q, [by |-> a, n |-> IF a \in Callers THEN call[a].n ELSE 1])
    /\ Goto(a, "recv")
    /\ UNCHANGED <<shared, taken, resp, locals, writerVars, wire, readerVars, done, calls, setting>>

\* PutOne of flowbuffer.go returned the context's error: decrWaits and return.
PutGaveUp(c) ==
    /\ pc[c] = "put"
    /\ set.givesUp /\ HasDone(c)
    /\ waits' = waits - 1
    /\ resp' = [resp EXCEPT ![c] = "ctx"]
    /\ Goto(c, "return")
    /\ UNCHANGED <<state, bgState, err, open, blcksig, queue, locals, writerVars, wire,
                   readerVars, done, calls, setting>>

\* case <-ctx.Done(): the call returns, a new goroutine keeps waiting for the result.
Abort(c) ==
    /\ pc[c] = "recv"
    /\ HasDone(c)
    /\ Goto(c, "abandoned")
    /\ Answered(c)
    /\ UNCHANGED <<shared, queue, resp, call, alone, noBlock, writerVars, wire, readerVars,
                   done, calls, setting>>

LateForgetBlock(c) ==
    /\ pc[c] = "late"
    /\ waits' = waits - 1
    /\ Goto(c, "idle")
    /\ Forget(c)
    /\ UNCHANGED <<state, bgState, err, open, blcksig, queue, alone, noBlock, pend, writerVars, wire,
                   readerVars, done, calls, setting>>

\* That goroutine received it.  Only the one of Do takes blcksig back.
Late(c) ==
    /\ pc[c] = "late"
    /\ blcksig' = IF call[c].block /\ call[c].n = 1 THEN blcksig - 1 ELSE blcksig
    /\ waits' = waits - 1
    /\ Goto(c, "idle")
    /\ Forget(c)
    /\ UNCHANGED <<state, bgState, err, open, queue, alone, noBlock, pend, writerVars, wire,
                   readerVars, done, calls, setting>>

-----------------------------------------------------------------------------
(* _backgroundWrite *)

\* NextWriteCmd; when it finds nothing, what was written is flushed.
NextWriteCmd ==
    /\ wpc = "next"
    /\ \/ /\ taken < Len(q)
          /\ taken' = taken + 1
          /\ witem' = q[taken + 1]
          /\ wpc' = "write"
          /\ UNCHANGED wire
       \/ /\ taken = Len(q)
          /\ open \/ buf = 0
          /\ sent' = sent + buf /\ buf' = 0
          /\ wpc' = "wait"
          /\ UNCHANGED <<taken, witem>>
       \/ /\ taken = Len(q)
          /\ ~open /\ buf # 0
          /\ wpc' = "exit"
          /\ UNCHANGED <<taken, witem, wire>>
    /\ UNCHANGED <<shared, q, pc, resp, locals, readerVars, done, calls, setting>>

WaitForWrite ==
    /\ wpc = "wait"
    /\ taken < Len(q)
    /\ taken' = taken + 1
    /\ witem' = q[taken + 1]
    /\ wpc' = "write"
    /\ UNCHANGED <<shared, q, pc, resp, locals, wire, readerVars, done, calls, setting>>

\* writeCmd stays in the buffer or passes through it, which fails on a closed connection.
WriteCmd ==
    /\ wpc = "write"
    /\ \/ buf' = buf + witem.n /\ wpc' = "next" /\ UNCHANGED sent
       \/ open /\ sent' = sent + buf + witem.n /\ buf' = 0 /\ wpc' = "next"
       \/ ~open /\ wpc' = "exit" /\ UNCHANGED wire
    /\ witem' = None
    /\ UNCHANGED <<shared, queue, pc, resp, locals, readerVars, done, calls, setting>>

WriteExit ==
    /\ wpc = "exit"
    /\ Exit("broken")
    /\ wpc' = "close"
    /\ UNCHANGED <<bgState, waits, blcksig, queue, pc, resp, locals, witem, buf, readerVars,
                   done, calls, setting>>

\* close(p.close)
CloseDone ==
    /\ wpc = "close"
    /\ done' = TRUE
    /\ wpc' = "off"
    /\ UNCHANGED <<shared, queue, pc, resp, locals, witem, wire, readerVars, calls, setting>>

-----------------------------------------------------------------------------
(* _backgroundRead *)

\* NextResultCh
TakeResult ==
    /\ q' = Tail(q)
    /\ ritem' = Head(q)

\* ch <- resp, received by the goroutine that waits on the channel; FinishResult.
Deliver(r) ==
    LET a == ritem.by IN
    /\ pc[a] \in {"recv", "abandoned"}
    /\ resp' = [resp EXCEPT ![a] = r]
    /\ Goto(a, CASE pc[a] = "abandoned" -> "late"
                 [] a \in Callers /\ pc[a] = "recv" -> "decr"
                 [] a \notin Callers -> "decrping")
    /\ Answered(a)
    /\ ritem' = None

ReadFirst ==
    /\ rpc = "read"
    /\ open /\ set.answers /\ sent > 0
    /\ sent' = sent - 1
    /\ TakeResult /\ taken' = taken - 1
    /\ ff' = 1
    /\ rpc' = IF Head(q).n = 1 THEN "send" ELSE "more"
    /\ UNCHANGED <<shared, pc, resp, locals, writerVars, buf, done, calls, setting>>

ReadMore ==
    /\ rpc = "more"
    /\ open /\ set.answers /\ sent > 0
    /\ sent' = sent - 1
    /\ ff' = ff + 1
    /\ rpc' = IF ff + 1 = ritem.n THEN "send" ELSE "more"
    /\ UNCHANGED <<shared, queue, pc, resp, locals, writerVars, buf, ritem, done, calls, setting>>

Send ==
    /\ rpc = "send"
    /\ Deliver("ok")
    /\ rpc' = "read"
    /\ ff' = 0
    /\ UNCHANGED <<shared, queue, call, alone, noBlock, writerVars, wire, done, calls, setting>>

\* readNextMessage failed; the deferred function still answers a half fulfilled call.
ReadFail ==
    /\ rpc \in {"read", "more"}
    /\ ~open
    /\ rpc' = IF rpc = "more" THEN "abort" ELSE "exit"
    /\ UNCHANGED <<shared, queue, pc, resp, locals, writerVars, wire, ritem, ff, done, calls, setting>>

AbortHalf ==
    /\ rpc = "abort"
    /\ Deliver("broken")
    /\ rpc' = "exit"
    /\ ff' = 0
    /\ UNCHANGED <<shared, queue, call, alone, noBlock, writerVars, wire, done, calls, setting>>

ReadExit ==
    /\ rpc = "exit"
    /\ Exit("broken")
    /\ rpc' = "select"
    /\ UNCHANGED <<bgState, waits, blcksig, queue, pc, resp, locals, writerVars, buf, ritem,
                   ff, done, calls, setting>>

-----------------------------------------------------------------------------
(* _background, after the read loop *)

\* skipReadWrite: only the exit hook and close(p.close).
SkipReadWrite ==
    /\ rpc = "skip"
    /\ Exit(err)
    /\ done' = TRUE
    /\ rpc' = "drain"
    /\ UNCHANGED <<bgState, waits, blcksig, queue, pc, resp, locals, writerVars, buf, ritem,
                   ff, calls, setting>>

SelectNoPing ==
    /\ rpc = "select"
    /\ rpc' = "drain"
    /\ UNCHANGED <<shared, queue, pc, resp, locals, writerVars, wire, ritem, ff, done, calls, setting>>

\* Unless the writer has finished, a PING is put so that it does not stay in WaitForWrite.
Select ==
    /\ rpc = "select"
    /\ rpc' = "drain"
    /\ IF done THEN UNCHANGED <<waits, pc>> ELSE waits' = waits + 1 /\ Goto(Bg, "put")
    /\ UNCHANGED <<state, bgState, err, open, blcksig, queue, resp, locals, writerVars, wire,
                   ritem, ff, done, calls, setting>>

DrainWhileQueued ==
    /\ rpc = "drain"
    /\ IF q = <<>>
       THEN rpc' = "wait" /\ UNCHANGED <<queue, ritem>>
       ELSE /\ done \/ taken > 0
            /\ TakeResult
            /\ taken' = IF done /\ taken < Len(q) THEN taken ELSE taken - 1
            /\ rpc' = "answer"
    /\ UNCHANGED <<shared, pc, resp, locals, writerVars, wire, ff, done, calls, setting>>

\* for p.loadWaits() != 0: a round that finds nothing to answer changes nothing.  Once
\* the writer has finished, NextWriteCmd is called here.
Drain ==
    /\ rpc = "drain"
    /\ IF waits = 0
       THEN rpc' = "wait" /\ UNCHANGED <<queue, ritem>>
       ELSE /\ q # <<>> /\ (done \/ taken > 0)
            /\ TakeResult
            /\ taken' = IF done /\ taken < Len(q) THEN taken ELSE taken - 1
            /\ rpc' = "answer"
    /\ UNCHANGED <<shared, pc, resp, locals, writerVars, wire, ff, done, calls, setting>>

Answer ==
    /\ rpc = "answer"
    /\ Deliver(err)
    /\ rpc' = "drain"
    /\ UNCHANGED <<shared, queue, call, alone, noBlock, writerVars, wire, ff, done, calls, setting>>

\* <-p.close, then the state is final.
Finish ==
    /\ rpc = "wait"
    /\ done
    /\ state' = 4
    /\ rpc' = "done"
    /\ UNCHANGED <<bgState, err, open, waits, blcksig, queue, pc, resp, locals, writerVars,
                   wire, ritem, ff, done, calls, setting>>

\* The PING of _background or of Close was answered: decrWaits.
DecrPing(a) ==
    /\ pc[a] = "decrping"
    /\ waits' = waits - 1
    /\ Goto(a, IF a = Bg THEN "done" ELSE "leave")
    /\ UNCHANGED <<state, bgState, err, open, blcksig, queue, resp, locals, writerVars, wire,
                   readerVars, done, calls, setting>>

-----------------------------------------------------------------------------
(* Close, also reached through expired *)

\* p.error.CompareAndSwap(nil, errClosing)
CloseError(k) ==
    /\ set.closes /\ pc[k] = "idle"
    /\ SetError("closing")
    /\ Goto(k, "blk")
    /\ UNCHANGED <<state, bgState, open, waits, blcksig, queue, resp, locals, writerVars, wire,
                   readerVars, done, calls, setting>>

CloseBlock(k) ==
    /\ pc[k] = "blk"
    /\ blcksig' = blcksig + 1
    /\ noBlock' = [noBlock EXCEPT ![k] = blcksig = 0]
    /\ Goto(k, "incr")
    /\ UNCHANGED <<state, bgState, err, open, waits, queue, resp, call, alone, pend,
                   writerVars, wire, readerVars, done, calls, setting>>

CloseIncr(k) ==
    /\ pc[k] = "incr"
    /\ waits' = waits + 1
    /\ alone' = [alone EXCEPT ![k] = waits = 0]
    /\ Goto(k, "cas")
    /\ UNCHANGED <<state, bgState, err, open, blcksig, queue, resp, call, noBlock, pend,
                   writerVars, wire, readerVars, done, calls, setting>>

CloseSwapAnyway(k) ==
    /\ pc[k] = "cas"
    /\ alone' = [alone EXCEPT ![k] = FALSE]
    /\ state' = IF state \in {0, 1} THEN 2 ELSE state
    /\ pend' = [pend EXCEPT ![k] = {c \in Callers : pc[c] \in {"sync", "recv"}}]
    /\ Goto(k, CASE state = 0 -> "bg"
                 [] state = 1 -> "ping"
                 [] state > 1 -> "leave")
    /\ UNCHANGED <<bgState, err, open, waits, blcksig, queue, resp, call, noBlock,
                   writerVars, wire, readerVars, done, calls, setting>>

\* stopping1 and stopping2: a failed first swap and the second are one step, since the
\* state never returns to 0.
CloseSwap(k) ==
    /\ pc[k] = "cas"
    /\ alone' = [alone EXCEPT ![k] = FALSE]
    /\ state' = IF state \in {0, 1} THEN 2 ELSE state
    /\ pend' = [pend EXCEPT ![k] = {c \in Callers : pc[c] \in {"sync", "recv"}}]
    /\ Goto(k, CASE state = 0 /\ alone[k] -> "bg"
                 [] state = 1 \/ (state = 0 /\ ~alone[k]) -> "ping"
                 [] state > 1 -> "leave")
    /\ UNCHANGED <<bgState, err, open, waits, blcksig, queue, resp, call, noBlock,
                   writerVars, wire, readerVars, done, calls, setting>>

\* There is no sync read: p.background()
CloseBackground(k) ==
    /\ pc[k] = "bg"
    /\ StartBackground(FALSE)
    /\ Goto(k, "ping")
    /\ UNCHANGED <<err, open, waits, blcksig, queue, resp, locals, witem, wire, ritem, ff,
                   done, calls, setting>>

\* Without a blocking command a PING is queued, to wait for all that was queued before it.
ClosePing(k) ==
    /\ pc[k] = "ping"
    /\ IF noBlock[k]
       THEN waits' = waits + 1 /\ Goto(k, "put")
       ELSE UNCHANGED waits /\ Goto(k, "leave")
    /\ UNCHANGED <<state, bgState, err, open, blcksig, queue, resp, locals, writerVars, wire,
                   readerVars, done, calls, setting>>

CloseEscapeNever(k) == pc[k] = "never" /\ UNCHANGED vars

\* The timer of one second that closes the connection while the PING waits.
CloseEscape(k) ==
    /\ pc[k] \in {"put", "recv"}
    /\ open
    /\ Cut
    /\ UNCHANGED <<state, bgState, err, waits, blcksig, queue, pc, resp, locals, writerVars,
                   buf, readerVars, done, calls, setting>>

CloseLeave(k) ==
    /\ pc[k] = "leave"
    /\ waits' = waits - 1
    /\ blcksig' = blcksig - 1
    /\ Goto(k, "conn")
    /\ UNCHANGED <<state, bgState, err, open, queue, resp, locals, writerVars, wire,
                   readerVars, done, calls, setting>>

CloseConn(k) ==
    /\ pc[k] = "conn"
    /\ Cut
    /\ Goto(k, "done")
    /\ UNCHANGED <<state, bgState, err, waits, blcksig, queue, resp, locals, writerVars, buf,
                   readerVars, done, calls, setting>>

-----------------------------------------------------------------------------
(* Environment *)

\* The peer or the network breaks the connection.
PeerBreak ==
    /\ set.breaks /\ open
    /\ Cut
    /\ UNCHANGED <<state, bgState, err, waits, blcksig, queue, pc, resp, locals, writerVars,
                   buf, readerVars, done, calls, setting>>

\* A ping that timed out or a failed refreshAuth calls _exit, at any time.
TimerExit ==
    /\ set.breaks /\ err = None
    /\ Exit("broken")
    /\ UNCHANGED <<bgState, waits, blcksig, queue, pc, resp, locals, writerVars, buf,
                   readerVars, done, calls, setting>>

-----------------------------------------------------------------------------
Do(c) ==
    \/ IncrWaits(c) \/ LoadState(c) \/ BackgroundThenPut(c) \/ SyncDo(c) \/ SyncFail(c)
    \/ FailSync(c) \/ DecrWaits(c) \/ BackgroundForOthers(c) \/ Return(c) \/ Put(c) \/ Late(c)

Close(k) ==
    \/ CloseBlock(k) \/ CloseIncr(k) \/ CloseSwap(k) \/ CloseBackground(k) \/ ClosePing(k)
    \/ Put(k) \/ DecrPing(k) \/ CloseEscape(k) \/ CloseLeave(k) \/ CloseConn(k)

Writer == NextWriteCmd \/ WaitForWrite \/ WriteCmd \/ WriteExit \/ CloseDone

Background ==
    \/ ReadFirst \/ ReadMore \/ Send \/ ReadFail \/ AbortHalf \/ ReadExit
    \/ SkipReadWrite \/ Select \/ Drain \/ Answer \/ Finish

PingOfBackground == Put(Bg) \/ DecrPing(Bg)

\* Nothing is under way and nothing more will be started.
Quiet ==
    /\ calls = MaxCalls
    /\ \A a \in Actors : pc[a] \in {"idle", "done"}
    /\ UNCHANGED vars

Next ==
    \/ \E c \in Callers : Call(c) \/ Do(c) \/ PutGaveUp(c) \/ Abort(c)
    \/ \E k \in Closers : CloseError(k) \/ Close(k)
    \/ Writer \/ Background \/ PingOfBackground
    \/ PeerBreak \/ TimerExit
    \/ Quiet

Spec == Init /\ [][Next]_vars

\* As long as a goroutine can run some goroutine does, or the timer of Close fires; a call or
\* a Close need not begin, the connection need not break.  The reader is one of them: a peer
\* that answers at all answers everything.
Fairness ==
    WF_vars(\/ \E c \in Callers : Do(c)
            \/ \E k \in Closers : Close(k)
            \/ Writer \/ Background \/ PingOfBackground)

FairSpec == Spec /\ Fairness

-----------------------------------------------------------------------------
\* One goroutine at a time owns the connection: at most one caller is in syncDo, and
\* then neither loop runs, so no two goroutines read each other's replies.
SyncIsAlone ==
    \A c \in Callers : pc[c] = "sync" =>
        /\ wpc = "off" /\ rpc = "off"
        /\ \A d \in Callers \ {c} : pc[d] # "sync"

\* The drain loop ends (and nobody will read the queue again) only when no goroutine is
\* in the queue or on its way to it, although callers check the state before they put.
NoCallLeftBehind ==
    rpc \in {"wait", "done"} =>
        q = <<>> /\ \A a \in Actors : pc[a] \notin {"put", "recv", "abandoned"}

\* Close that got the answer to its PING cuts the connection only after every call it
\* found under way, synchronous or queued, has its result.
CloseWaitsForCalls ==
    \A k \in Closers : pc[k] \in {"leave", "conn"} /\ resp[k] = "ok" => pend[k] = {}

\* While the pipe is healthy blcksig counts exactly the blocking calls whose reply is
\* outstanding: it is what keeps the ping timer quiet, and Close from waiting.
BlockSignalExact ==
    err = None /\ open =>
        blcksig = Cardinality({c \in Callers : pc[c] # "idle" /\ call[c].block})

\* When Close waits for its PING, a worker that will answer it runs, or the synchronous
\* call that will start one is still under way.
CloseHasWorker ==
    \A k \in Closers : pc[k] = "recv" =>
        bgState \/ \E c \in Callers : pc[c] \in {"sync", "fail", "syncdecr", "left"}

\* Every call returns when the peer answers, also if the connection is closed meanwhile
\* or breaks; for a connection in synchronous mode, if it is not closed meanwhile.
EveryCallReturns ==
    set.answers /\ (set.pipelining \/ ~set.closes) =>
        (\E c \in Callers : pc[c] = "incr") ~> (\A c \in Callers : pc[c] = "idle")

\* The worker's goroutines end once the read loop has failed: the writer does not stay in
\* WaitForWrite and the drain loop sees the count of waiting calls reach zero.
WorkerStops == rpc = "exit" ~> rpc = "done"

\* Close of a pipelining connection returns, whether or not the peer answers.
CloseReturns == set.pipelining => \A k \in Closers : pc[k] = "blk" ~> pc[k] = "done"
=============================================================================
