-------------------------------- MODULE Mux ---------------------------------
(* mux.go: one slot of muxwires, the shared connection of many callers.  It *)
(* is dialled by the first caller that needs it (singleconnect), dropped    *)
(* when it is broken, and swapped for the dead pipe by Close.  The slots of *)
(* a mux do not interact.                                                   *)
EXTENDS Naturals, FiniteSets

CONSTANTS Callers,
          Wires,     \* identities of connections, each dialled once
          MaxCalls,  \* bound: calls in a behaviour
          None

ASSUME MuxAssumption == MaxCalls \in Nat /\ None \notin Callers \cup Wires /\ Wires # {}

Shared == {"init", "dead"}   \* m.init and m.dead
ASSUME SharedAssumption == Wires \cap Shared = {}

VARIABLES wire,      \* muxwires[i].wire
          sc,        \* the caller whose singleconnect is muxwires[i].sc
          pc, w,     \* per caller: step and the wire it has
          res,       \* per caller: the error of its command
          leader,    \* per caller: the caller whose singleconnect it waits for
          dialled, alive, \* wires dialled so far; those without an error
          werr,      \* per wire: its error
          deadErr,   \* the error of m.dead
          hooked,    \* wires whose close hook is set
          due,       \* wires whose _exit has not called the close hook yet
          closer, prev,   \* mux.Close: its step and the wire it swapped out
          after,     \* callers whose call began after Close returned
          calls

callerVars == <<pc, w, res, leader>>
wireVars == <<dialled, alive, werr, hooked, due>>
closeVars == <<closer, prev, after>>
vars == <<wire, sc, callerVars, wireVars, deadErr, closeVars, calls>>

\* newMux, or Override with a connection of the mux this one replaces.
Init ==
    /\ wire \in {"init", CHOOSE x \in Wires : TRUE}
    /\ dialled = {wire} \cap Wires /\ alive = dialled /\ hooked = dialled
    /\ sc = None
    /\ pc = [c \in Callers |-> "idle"] /\ w = [c \in Callers |-> None]
    /\ res = [c \in Callers |-> None] /\ leader = [c \in Callers |-> None]
    /\ werr = [x \in Wires |-> None] /\ deadErr = "closing" /\ due = {}
    /\ closer = "idle" /\ prev = None /\ after = {}
    /\ calls = 0

Goto(c, l) == pc' = [pc EXCEPT ![c] = l]
Take(c, x, l) == w' = [w EXCEPT ![c] = x] /\ Goto(c, l)

\* muxwires[i].wire.CompareAndSwap(x, m.init)
Drop(x) == wire' = IF wire = x THEN "init" ELSE wire

-----------------------------------------------------------------------------
(* _pipe *)

\* Which of the idle callers calls makes no difference.
Call(c) ==
    /\ pc[c] = "idle" /\ calls < MaxCalls
    /\ c = CHOOSE d \in Callers : pc[d] = "idle"
    /\ calls' = calls + 1
    /\ after' = IF closer = "done" THEN after \cup {c} ELSE after
    /\ Goto(c, "load")
    /\ UNCHANGED <<wire, sc, w, res, leader, wireVars, deadErr, closer, prev>>

Load(c) ==
    /\ pc[c] = "load"
    /\ IF wire = "init" THEN Goto(c, "lock") /\ UNCHANGED w ELSE Take(c, wire, "do")
    /\ UNCHANGED <<wire, sc, res, leader, wireVars, deadErr, closeVars, calls>>

\* Under the mutex: join the singleconnect that is under way, or lead a new one.
Join(c) ==
    /\ pc[c] = "lock"
    /\ IF sc = None
       THEN sc' = c /\ Goto(c, "reload") /\ UNCHANGED leader
       ELSE leader' = [leader EXCEPT ![c] = sc] /\ Goto(c, "wait") /\ UNCHANGED sc
    /\ UNCHANGED <<wire, w, res, wireVars, deadErr, closeVars, calls>>

ReloadSkip(c) ==
    /\ pc[c] = "reload"
    /\ Goto(c, "dial")
    /\ UNCHANGED <<wire, sc, w, res, leader, wireVars, deadErr, closeVars, calls>>

\* The connection may have been made since the first load.
Reload(c) ==
    /\ pc[c] = "reload"
    /\ IF wire = "init" THEN Goto(c, "dial") /\ UNCHANGED w ELSE Take(c, wire, "clear")
    /\ UNCHANGED <<wire, sc, res, leader, wireVars, deadErr, closeVars, calls>>

\* m.wireFn: a new connection, or the dead pipe with the error of the dial.
Dial(c) ==
    /\ pc[c] = "dial"
    /\ \/ LET x == CHOOSE y \in Wires \ dialled : TRUE IN
              /\ Wires # dialled
              /\ dialled' = dialled \cup {x} /\ alive' = alive \cup {x}
              /\ Take(c, x, "hook")
              /\ UNCHANGED deadErr
       \/ /\ deadErr' = "dial"
          /\ Take(c, "dead", "clear")
          /\ UNCHANGED <<dialled, alive>>
    /\ UNCHANGED <<wire, sc, res, leader, werr, hooked, due, closeVars, calls>>

SetCloseHookOnWire(c) ==
    /\ pc[c] = "hook"
    /\ hooked' = hooked \cup {w[c]}
    /\ Goto(c, "store")
    /\ UNCHANGED <<wire, sc, w, res, leader, dialled, alive, werr, due, deadErr, closeVars, calls>>

\* muxwires[i].wire.Store(w), whatever the slot holds by now.
StoreWire(c) ==
    /\ pc[c] = "store"
    /\ wire' = w[c]
    /\ Goto(c, "clear")
    /\ UNCHANGED <<sc, w, res, leader, wireVars, deadErr, closeVars, calls>>

ClearForgotten(c) ==
    /\ pc[c] = "clear"
    /\ Goto(c, "publish")
    /\ UNCHANGED <<wire, sc, w, res, leader, wireVars, deadErr, closeVars, calls>>

\* Under the mutex: muxwires[i].sc = nil.
Clear(c) ==
    /\ pc[c] = "clear"
    /\ sc' = None
    /\ Goto(c, "publish")
    /\ UNCHANGED <<wire, w, res, leader, wireVars, deadErr, closeVars, calls>>

Followers(c) == {d \in Callers : leader[d] = c}

\* sc.w = w; sc.g.Done(): those who wait for this singleconnect have its wire.
Publish(c) ==
    /\ pc[c] = "publish"
    /\ pc' = [d \in Callers |-> IF d \in Followers(c) \cup {c} THEN "do" ELSE pc[d]]
    /\ w' = [d \in Callers |-> IF d \in Followers(c) THEN w[c] ELSE w[d]]
    /\ leader' = [d \in Callers |-> IF d \in Followers(c) THEN None ELSE leader[d]]
    /\ UNCHANGED <<wire, sc, res, wireVars, deadErr, closeVars, calls>>

-----------------------------------------------------------------------------
(* pipeline, pipelineMulti, DoCache, doMultiCache and Receive *)

ErrorOf(x) == IF x = "dead" THEN deadErr ELSE IF x \in alive THEN None ELSE werr[x]

\* The command is served, its context is done, or the wire has an error.
Do(c) ==
    /\ pc[c] = "do"
    /\ \E e \in {ErrorOf(w[c]), "ctx"} : res' = [res EXCEPT ![c] = e]
    /\ Goto(c, "drop")
    /\ UNCHANGED <<wire, sc, w, leader, wireVars, deadErr, closeVars, calls>>

IsBroken(e, x) == e \notin {None, "closing"} /\ ErrorOf(x) # None

Return(c) ==
    /\ pc[c] = "drop"
    /\ IF IsBroken(res[c], w[c]) THEN Drop(w[c]) ELSE UNCHANGED wire
    /\ w' = [w EXCEPT ![c] = None] /\ res' = [res EXCEPT ![c] = None]
    /\ after' = after \ {c}
    /\ Goto(c, "idle")
    /\ UNCHANGED <<sc, leader, wireVars, deadErr, closer, prev, calls>>

-----------------------------------------------------------------------------
(* The connection breaks; Close *)

SetError(x, e) ==
    /\ alive' = alive \ {x} /\ due' = due \cup {x}
    /\ werr' = [werr EXCEPT ![x] = IF @ = None THEN e ELSE @]

\* pipe._exit sets the error and calls the close hook in a later step.
Break(x) ==
    /\ x \in alive
    /\ SetError(x, "broken")
    /\ UNCHANGED <<wire, sc, callerVars, dialled, hooked, deadErr, closeVars, calls>>

CloseHookBlind(x) ==
    /\ x \in due
    /\ IF x \in hooked THEN wire' = "init" ELSE UNCHANGED wire
    /\ due' = due \ {x}
    /\ UNCHANGED <<sc, callerVars, dialled, alive, werr, hooked, deadErr, closeVars, calls>>

\* Of a connection that was closed the hook is given ErrClosing or what its read returned.
CloseHook(x) ==
    /\ x \in due
    /\ \E err \in {werr[x], "broken"} :
          IF x \in hooked /\ err # "closing" THEN Drop(x) ELSE UNCHANGED wire
    /\ due' = due \ {x}
    /\ UNCHANGED <<sc, callerVars, dialled, alive, werr, hooked, deadErr, closeVars, calls>>

Close ==
    /\ closer = "idle"
    /\ wire' = "dead" /\ prev' = wire
    /\ closer' = IF wire \in Shared THEN "done" ELSE "close"
    /\ UNCHANGED <<sc, callerVars, wireVars, deadErr, after, calls>>

ClosePrev ==
    /\ closer = "close"
    /\ SetError(prev, "closing")
    /\ closer' = "done"
    /\ UNCHANGED <<wire, sc, callerVars, dialled, hooked, deadErr, prev, after, calls>>

-----------------------------------------------------------------------------
Caller(c) ==
    \/ Load(c) \/ Join(c) \/ Reload(c) \/ Dial(c) \/ SetCloseHookOnWire(c) \/ StoreWire(c)
    \/ Clear(c) \/ Publish(c) \/ Do(c) \/ Return(c)

Done ==
    /\ calls = MaxCalls /\ \A c \in Callers : pc[c] = "idle"
    /\ UNCHANGED vars

Next ==
    \/ \E c \in Callers : Call(c) \/ Caller(c)
    \/ \E x \in Wires : Break(x) \/ CloseHook(x)
    \/ Close \/ ClosePrev
    \/ Done

Spec == Init /\ [][Next]_vars

\* As long as a goroutine can run some goroutine does; a dial ends, with or without a connection.
Steps == \E c \in Callers : Caller(c)

-----------------------------------------------------------------------------
\* Callers share one connection, although they load, join and dial concurrently and the
\* slot is emptied by callers and by the close hook.
SingleConnection == closer = "idle" => Cardinality(alive) <= 1

\* No connection is lost while it is open: it is in the slot, or on its way into it, or
\* Close is about to close it.
NoOrphan ==
    alive \subseteq {wire, prev} \cup {w[c] : c \in {d \in Callers : pc[d] \in {"hook", "store"}}}

\* A call made after Close returned is rejected, not served.
RejectedAfterClose == \A c \in after : pc[c] = "drop" => res[c] # None

Busy == \E c \in Callers : pc[c] # "idle"
=============================================================================
