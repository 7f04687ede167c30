------------------------------- MODULE MCPipe -------------------------------
(* Small instances of Pipe for TLC. *)
EXTENDS Pipe, TLC

CallerSymmetry == Permutations(Callers) \cup Permutations(Closers)

Of(k, b, n) == [kind |-> k, block |-> b, n |-> n]

\* A connection that begins in synchronous mode, breaks and is closed at any time; the
\* calls are a pair of commands, or a blocking one whose context is done.
SyncStart ==
    <<[pipelining |-> FALSE, givesUp |-> FALSE, answers |-> TRUE, breaks |-> TRUE,
       closes |-> TRUE, calls |-> {Of("plain", FALSE, 2), Of("cancel", TRUE, 1)}]>>

\* A connection that breaks but is not closed, with what syncDo does not take and what
\* sets a deadline for its read; one that is closed while its peer answers; and one that
\* is closed while its peer is silent, with calls and a queue that give up; and one that is
\* closed before it is ever used.
Fates ==
    <<[pipelining |-> FALSE, givesUp |-> FALSE, answers |-> TRUE, breaks |-> TRUE,
       closes |-> FALSE, calls |-> {Of("deadline", FALSE, 2), Of("sub", FALSE, 1)}],
      [pipelining |-> TRUE, givesUp |-> FALSE, answers |-> TRUE, breaks |-> FALSE,
       closes |-> TRUE, calls |-> {Of("plain", FALSE, 1)}],
      [pipelining |-> TRUE, givesUp |-> TRUE, answers |-> FALSE, breaks |-> FALSE,
       closes |-> TRUE, calls |-> {Of("cancel", FALSE, 1)}],
      [pipelining |-> FALSE, givesUp |-> FALSE, answers |-> TRUE, breaks |-> FALSE,
       closes |-> TRUE, calls |-> {}]>>

OnlyClosed ==
    <<[pipelining |-> FALSE, givesUp |-> FALSE, answers |-> TRUE, breaks |-> FALSE,
       closes |-> TRUE, calls |-> {Of("deadline", FALSE, 1)}]>>
=============================================================================
