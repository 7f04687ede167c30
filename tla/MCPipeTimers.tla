---------------------------- MODULE MCPipeTimers -----------------------------
(* A small instance of Pipe, and one of Timers, for one run of TLC: a       *)
(* behaviour is one of one of them, and the other stays in its initial      *)
(* state.                                                                   *)
EXTENDS MCPipe, Timers

VARIABLE component

PipeTimersInit == component \in {"pipe", "timers"} /\ Init /\ TimersInit

PipeTimersNext ==
    /\ UNCHANGED component
    /\ \/ component = "pipe" /\ Next /\ UNCHANGED timerVars
       \/ component = "timers" /\ TimersNext /\ UNCHANGED vars

PipeTimersSpec == PipeTimersInit /\ [][PipeTimersNext]_<<component, vars, timerVars>>
=============================================================================
