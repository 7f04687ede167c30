------------------------------ MODULE MCQueues ------------------------------
(* Small instances of Ring and FlowBuffer for one run of TLC: a behaviour is *)
(* one of one of them, and the other stays in its initial state.             *)
EXTENDS Ring

VARIABLES component, f, w, r, fpc, item, fwpc, witem, fwindex, fstream, fflushed, frpc, ritem, fff, fcalls, fpushes

flowVars == <<f, w, r, fpc, item, fwpc, witem, fwindex, fstream, fflushed, frpc, ritem, fff, fcalls, fpushes>>

\* A multi of 3 commands is larger than the write buffer.
F == INSTANCE FlowBuffer
    WITH MultiLens <- {3}, BufCap <- 2, MaxCalls <- 4, pc <- fpc, wpc <- fwpc, windex <- fwindex,
         stream <- fstream, flushed <- fflushed, rpc <- frpc, ff <- fff, calls <- fcalls, pushes <- fpushes

QueuesInit == component \in {"ring", "flowbuffer"} /\ Init /\ F!Init

QueuesNext ==
    /\ UNCHANGED component
    /\ \/ component = "ring" /\ Next /\ UNCHANGED flowVars
       \/ component = "flowbuffer" /\ F!Next /\ UNCHANGED vars

\* What is fair is disabled in an initial state, but for the writer's first look at the ring.
QueuesFair == WF_vars(component = "ring" /\ Steps) /\ WF_flowVars(component = "flowbuffer" /\ F!Steps)

QueuesSpec == QueuesInit /\ [][QueuesNext]_<<component, vars, flowVars>> /\ QueuesFair

-----------------------------------------------------------------------------
\* FlowBuffer: no send on its three Go channels ever blocks.
SendsNeverBlock == F!SendsNeverBlock

\* Both: every goroutine that entered PutOne or PutMulti returns; for the ring, as long as
\* there is no unsolicited push.
EveryCallReturns == EveryCallAnswered /\ F!EveryCallAnswered

\* Both implement the contract of a command queue.
QueuesImplementCallQueue == ImplementsCallQueue /\ F!ImplementsCallQueue
=============================================================================
