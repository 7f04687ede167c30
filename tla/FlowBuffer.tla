----------------------------- MODULE FlowBuffer -----------------------------
(***************************************************************************)
(* flowbuffer.go, the command queue selected by RUEIDIS_QUEUE_TYPE, whose  *)
(* Put gives up when its context is done, with the two loops of pipe.go    *)
(* that drive it.  A fixed number of result channels circulates through 3  *)
(* buffered Go channels: free (f), to be written (w) and to be answered    *)
(* (r).  Receiving from one and sending to the next are separate steps.    *)
(***************************************************************************)
EXTENDS Integers, Sequences, FiniteSets

CONSTANTS Callers,    \* goroutines that call Do or DoMulti on the connection
          Size,       \* capacity of f, w and r
          MultiLens,  \* lengths of the command slices passed to DoMulti
          BufCap,     \* number of commands the bufio.Writer holds
          MaxCalls,   \* bound: number of calls made in a behaviour
          MaxPushes,  \* bound: number of unsolicited unsubscribe pushes
          None        \* nil

VARIABLES f, w, r,            \* the three Go channels, oldest element first
          pc, item,           \* per caller: step, the queuedCmd it put
          wpc, witem, windex, \* writer: step, its item, next command to write
          stream, flushed,    \* redis commands <<caller, index>> written and not
                              \* answered, and how many of them left the buffer
          rpc, ritem, ff,     \* reader: step, its item, fulfilled count
          calls, pushes       \* calls and pushes so far

queues == <<f, w, r>>
callerVars == <<pc, item>>
writerVars == <<wpc, witem, windex>>
wireVars == <<stream, flushed>>
readerVars == <<rpc, ritem, ff>>
bounds == <<calls, pushes>>
vars == <<queues, callerVars, writerVars, wireVars, readerVars, bounds>>

Init ==
    /\ f = [i \in 1..Size |-> i] /\ w = <<>> /\ r = <<>>
    /\ pc = [c \in Callers |-> "idle"]
    /\ item = [c \in Callers |-> None]
    /\ wpc = "next" /\ witem = None /\ windex = 0
    /\ stream = <<>> /\ flushed = 0
    /\ rpc = "read" /\ ritem = None /\ ff = 0
    /\ calls = 0 /\ pushes = 0

-----------------------------------------------------------------------------
(* PutOne and PutMulti *)

Call(c) ==
    /\ pc[c] = "idle"
    /\ calls < MaxCalls
    /\ calls' = calls + 1
    /\ pc' = [pc EXCEPT ![c] = "select"]
    /\ UNCHANGED <<queues, item, writerVars, wireVars, readerVars, pushes>>

\* case cmd := <-b.f
TakeFree(c, n) ==
    /\ pc[c] = "select"
    /\ f # <<>>
    /\ f' = Tail(f)
    /\ item' = [item EXCEPT ![c] = [ch |-> Head(f), by |-> c, n |-> n]]
    /\ pc' = [pc EXCEPT ![c] = "put"]
    /\ UNCHANGED <<w, r, writerVars, wireVars, readerVars, bounds>>

PutOne(c) == TakeFree(c, 1)
PutMulti(c) == \E n \in MultiLens : TakeFree(c, n)

\* case <-ctx.Done()
CtxDone(c) ==
    /\ pc[c] = "select"
    /\ pc' = [pc EXCEPT ![c] = "idle"]
    /\ UNCHANGED <<queues, item, writerVars, wireVars, readerVars, bounds>>

\* b.w <- cmd
SendW(c) ==
    /\ pc[c] = "put"
    /\ Len(w) < Size
    /\ w' = Append(w, item[c])
    /\ pc' = [pc EXCEPT ![c] = "recv"]
    /\ UNCHANGED <<f, r, item, writerVars, wireVars, readerVars, bounds>>

-----------------------------------------------------------------------------
(* _backgroundWrite *)

\* cmd := <-b.w
TakeW ==
    /\ w # <<>>
    /\ w' = Tail(w)
    /\ witem' = Head(w)
    /\ windex' = 1
    /\ wpc' = "forward"

NextWriteCmd ==
    /\ wpc = "next"
    /\ \/ TakeW
       \/ w = <<>> /\ wpc' = "flush" /\ UNCHANGED <<w, witem, windex>>
    /\ UNCHANGED <<f, r, callerVars, wireVars, readerVars, bounds>>

\* if p.w.Buffered() != 0 { p.w.Flush() }
Flush ==
    /\ wpc = "flush"
    /\ flushed' = Len(stream)
    /\ wpc' = "wait"
    /\ UNCHANGED <<queues, callerVars, witem, windex, stream, readerVars, bounds>>

WaitForWrite ==
    /\ wpc = "wait"
    /\ TakeW
    /\ UNCHANGED <<f, r, callerVars, wireVars, readerVars, bounds>>

\* b.r <- cmd, the end of NextWriteCmd and WaitForWrite
Forward ==
    /\ wpc = "forward"
    /\ Len(r) < Size
    /\ r' = Append(r, witem)
    /\ wpc' = "write"
    /\ UNCHANGED <<f, w, callerVars, witem, windex, wireVars, readerVars, bounds>>

\* writeCmd of the next redis command: a full buffer is flushed first.
WriteCmd ==
    /\ wpc = "write"
    /\ stream' = Append(stream, <<witem.by, windex>>)
    /\ flushed' = IF Len(stream) - flushed < BufCap THEN flushed ELSE Len(stream)
    /\ windex' = windex + 1
    /\ wpc' = IF windex = witem.n THEN "next" ELSE "write"
    /\ UNCHANGED <<queues, callerVars, witem, readerVars, bounds>>

-----------------------------------------------------------------------------
(* _backgroundRead *)

\* case cmd := <-b.r
NextResultCh ==
    /\ r # <<>>
    /\ r' = Tail(r)
    /\ ritem' = Head(r)

\* readNextMessage: the server answers what has been flushed, in order.
Receive ==
    /\ flushed > 0
    /\ stream' = Tail(stream)
    /\ flushed' = flushed - 1

\* The first reply of a command (ff == len(multi)); a miss of NextResultCh would be
\* panic(protocolbug), see RepliesMatchCommands.
ReadFirst ==
    /\ rpc = "read"
    /\ Receive
    /\ NextResultCh
    /\ ff' = 1
    /\ rpc' = IF Head(r).n = 1 THEN "send" ELSE "more"
    /\ UNCHANGED <<f, w, callerVars, writerVars, bounds>>

ReadMore ==
    /\ rpc = "more"
    /\ Receive
    /\ ff' = ff + 1
    /\ rpc' = IF ff + 1 = ritem.n THEN "send" ELSE "more"
    /\ UNCHANGED <<queues, callerVars, writerVars, ritem, bounds>>

\* An unsolicited unsubscribe push between two commands: a hit of NextResultCh keeps
\* the item for the replies that follow, a miss leaves b.c nil and finishes nothing.
UnsubPush ==
    /\ rpc = "read"
    /\ pushes < MaxPushes
    /\ pushes' = pushes + 1
    /\ ff' = 0
    /\ \/ NextResultCh /\ rpc' = "more"
       \/ r = <<>> /\ UNCHANGED <<r, ritem, rpc>>
    /\ UNCHANGED <<f, w, callerVars, writerVars, wireVars, calls>>

\* ch <- resp, a rendezvous with the goroutine that receives from this channel.
Send(c) ==
    /\ rpc = "send"
    /\ pc[c] = "recv"
    /\ item[c].ch = ritem.ch
    /\ pc' = [pc EXCEPT ![c] = "idle"]
    /\ rpc' = "finish"
    /\ UNCHANGED <<queues, item, writerVars, wireVars, ritem, ff, bounds>>

FinishResultTwice ==
    /\ rpc = "finish"
    /\ Len(f) < Size
    /\ f' = Append(f, ritem.ch)
    /\ rpc' \in {"read", "finish"}
    /\ UNCHANGED <<w, r, callerVars, writerVars, wireVars, ritem, ff, bounds>>

\* FinishResult: b.f <- queuedCmd{ch: *b.c}
FinishResult ==
    /\ rpc = "finish"
    /\ Len(f) < Size
    /\ f' = Append(f, ritem.ch)
    /\ rpc' = "read"
    /\ UNCHANGED <<w, r, callerVars, writerVars, wireVars, ritem, ff, bounds>>

-----------------------------------------------------------------------------
Put(c) == PutOne(c) \/ PutMulti(c) \/ SendW(c)
Writer == NextWriteCmd \/ Flush \/ WaitForWrite \/ Forward \/ WriteCmd
Reader == ReadFirst \/ ReadMore \/ (\E c \in Callers : Send(c)) \/ FinishResult

\* Every call has been answered and no further call is made.
Quiet == calls = MaxCalls /\ (\A c \in Callers : pc[c] = "idle") /\ UNCHANGED vars

Next ==
    \/ \E c \in Callers : Call(c) \/ CtxDone(c) \/ Put(c)
    \/ Writer \/ Reader \/ UnsubPush
    \/ Quiet

Steps == (\E c \in Callers : Put(c)) \/ Writer \/ Reader

Spec == Init /\ [][Next]_vars

\* The scheduler runs some goroutine as long as one can take a step, and the server answers
\* what it was sent.  Nobody is obliged to make a call, and no context need be done.
Fairness == WF_vars(Steps)

FairSpec == Spec /\ Fairness

-----------------------------------------------------------------------------
\* The three Go channels are never sent to when full: a goroutine that took a channel
\* from f finds room in w without waiting on anybody (its context is no longer looked
\* at), and neither the writer nor the reader ever blocks on the other's queue.
SendsNeverBlock ==
    /\ \A c \in Callers : pc[c] = "put" => Len(w) < Size
    /\ wpc = "forward" => Len(r) < Size
    /\ rpc = "finish" => Len(f) < Size

Busy == \E c \in Callers : pc[c] # "idle"

\* Every goroutine that entered PutOne or PutMulti returns to its caller.
EveryCallAnswered == Busy ~> ~Busy

HeldCall == IF rpc \in {"more", "send"} THEN <<ritem.by>> ELSE <<>>
Forwarding == IF wpc = "forward" THEN {witem.by} ELSE {}

Abstract == INSTANCE CallQueue
    WITH Capacity <- Size,
         queued <- {c \in Callers : pc[c] = "put"} \cup {w[i].by : i \in DOMAIN w}
                       \cup Forwarding,
         order <- HeldCall \o [i \in DOMAIN r |-> r[i].by]

\* The flow buffer with its two loops implements the queue's contract.
ImplementsCallQueue == Abstract!Spec
=============================================================================
