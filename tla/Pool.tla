-------------------------------- MODULE Pool --------------------------------
(* pool.go: the bounded pool of connections that serves blocking commands,  *)
(* streams and dedicated clients, with its users as mux.go and pipe.go have *)
(* them.  A critical section of p.cond.L is one step, except where it waits *)
(* or retries: there the lock is held over several.                         *)
EXTENDS Integers, Sequences, FiniteSets

CONSTANTS Users,     \* goroutines that use the pool
          PoolWires, \* identities of connections; one that is closed and unused is used again
          Cap,       \* p.cap
          MinSize,   \* p.minSize
          Uses,      \* what users do: op "blocking" (mux.blocking, blockingMulti) or "stream" (DoStream,
                     \* DoMultiStream), which differ in who stores the wire; ctx: the context may be done
          MaxUses,   \* bound: uses in a behaviour
          MaxFaults, \* bound: broken connections, expired lifetimes and failed dials
          NoWire

\* What the constants are: hold tells a wire from nil and from the origins of a dead pipe.
ASSUME PoolAssumption ==
    /\ MinSize \in Nat /\ Cap \in Nat \ {0}
    /\ PoolWires \cap {NoWire, "ctx", "down", "dial"} = {} /\ NoWire \notin {"ctx", "down", "dial"}

VARIABLES size, list, down, timerOn,
          cleaning,  \* the cleanup timer has fired, removeIdleConns has not run
          lock,      \* the user that holds p.cond.L between two steps
          waiters,   \* users in p.cond.Wait
          open,      \* wires that are open and without an error
          timer,     \* per wire: its lifetime timer
          upc, use, hold, ctxDone,  \* per user: step, use, wire it acquired (or the origin of a dead pipe), context
          leaked,    \* wires dropped without Store
          watch,     \* per user: the goroutine that waits for its context
          stopper,   \* pool.Close: its step
          uses, faults

stateVars == <<size, list, down, timerOn, cleaning>>
poolWireVars == <<open, timer>>
userVars == <<upc, use, hold, ctxDone>>
poolVars == <<stateVars, lock, waiters, poolWireVars, userVars, watch, leaked, stopper, uses, faults>>

PoolInit ==
    /\ size = 0 /\ list = <<>> /\ down = FALSE /\ timerOn = FALSE /\ cleaning = FALSE
    /\ lock = NoWire /\ waiters = {}
    /\ open = {} /\ timer = [w \in PoolWires |-> "off"]
    /\ upc = [u \in Users |-> "idle"] /\ use = [u \in Users |-> NoWire]
    /\ hold = [u \in Users |-> NoWire] /\ ctxDone = [u \in Users |-> FALSE]
    /\ watch = [u \in Users |-> "none"] /\ leaked = {} /\ stopper = "idle" /\ uses = 0 /\ faults = 0

UserAt(u, l) == upc' = [upc EXCEPT ![u] = l]

\* Acquire returns v; the deferred cancel ends a watch whose context is not done.
Got(u, v) ==
    /\ hold' = [hold EXCEPT ![u] = v] /\ UserAt(u, "got")
    /\ watch' = IF watch[u] = "set" THEN [watch EXCEPT ![u] = "none"] ELSE watch

ToSet(s) == {s[i] : i \in DOMAIN s}
Unused == PoolWires \ (open \cup leaked \cup ToSet(list) \cup {hold[u] : u \in Users})

\* wire.Close on a set of wires; a closed wire's timer is stopped.
CloseWires(S) ==
    /\ open' = open \ S
    /\ timer' = [w \in PoolWires |-> IF w \in S THEN "off" ELSE timer[w]]

\* A user's lock is free, or its own from the previous step.
CanLock(u) == lock \in {NoWire, u}

-----------------------------------------------------------------------------
(* Acquire *)

Free(u) == upc[u] = "idle" /\ watch[u] = "none"

\* Which of the users that are free does makes no difference.
Acquire(u) ==
    /\ Free(u) /\ uses < MaxUses
    /\ u = CHOOSE v \in Users : Free(v)
    /\ \E x \in Uses : use' = [use EXCEPT ![u] = x]
    /\ uses' = uses + 1
    /\ UserAt(u, "retry")
    /\ UNCHANGED <<stateVars, lock, waiters, poolWireVars, hold, ctxDone, watch, leaked, stopper, faults>>

MustWait(u) == list = <<>> /\ size = Cap /\ ~down /\ ~ctxDone[u]

\* The loop condition holds; p.cond.Wait has not registered the waiter yet.  The first
\* time, a goroutine begins to watch the context.  Those that return to retry hold the lock
\* and have just made room (Discard), so no wait begins there.
CheckFull(u) ==
    /\ upc[u] = "retry" /\ CanLock(u) /\ MustWait(u)
    /\ lock' = u /\ UserAt(u, "park")
    /\ watch' = IF use[u].ctx THEN [watch EXCEPT ![u] = "set"] ELSE watch
    /\ UNCHANGED <<stateVars, waiters, poolWireVars, use, hold, ctxDone, leaked, stopper, uses, faults>>

Park(u) ==
    /\ upc[u] = "park"
    /\ waiters' = waiters \cup {u} /\ lock' = NoWire /\ UserAt(u, "waiting")
    /\ UNCHANGED <<stateVars, poolWireVars, use, hold, ctxDone, watch, leaked, stopper, uses, faults>>

\* The context is checked first, then whether the pool is down.
AcquireDead(u) ==
    /\ upc[u] = "retry" /\ CanLock(u) /\ ~MustWait(u)
    /\ ctxDone[u] \/ down
    /\ Got(u, IF ctxDone[u] THEN "ctx" ELSE "down")
    /\ lock' = NoWire
    /\ UNCHANGED <<stateVars, waiters, poolWireVars, use, ctxDone, leaked, stopper, uses, faults>>

AcquireUncounted(u) ==
    /\ upc[u] = "retry" /\ CanLock(u) /\ ~MustWait(u)
    /\ ~ctxDone[u] /\ ~down /\ list = <<>>
    /\ lock' = NoWire /\ UserAt(u, "make")
    /\ UNCHANGED <<stateVars, waiters, poolWireVars, use, hold, ctxDone, watch, leaked, stopper, uses,
                   faults>>

AcquireNew(u) ==
    /\ upc[u] = "retry" /\ CanLock(u) /\ ~MustWait(u)
    /\ ~ctxDone[u] /\ ~down /\ list = <<>>
    /\ size' = size + 1
    /\ lock' = NoWire /\ UserAt(u, "make")
    /\ UNCHANGED <<list, down, timerOn, cleaning, waiters, poolWireVars, use, hold, ctxDone, watch, leaked,
                   stopper, uses, faults>>

\* p.make returns a connection with its lifetime timer running, or the dead pipe.  Which
\* identity a new connection has makes no difference.
Make(u) ==
    /\ upc[u] = "make"
    /\ \/ LET w == CHOOSE w \in Unused : TRUE IN
              /\ Unused # {}
              /\ hold' = [hold EXCEPT ![u] = w] /\ UserAt(u, "made")
              /\ open' = open \cup {w} /\ timer' = [timer EXCEPT ![w] = "armed"]
              /\ UNCHANGED <<watch, faults>>
       \/ /\ faults < MaxFaults /\ faults' = faults + 1
          /\ Got(u, "dial")
          /\ UNCHANGED poolWireVars
    /\ UNCHANGED <<stateVars, lock, waiters, use, ctxDone, leaked, stopper, uses>>

\* StopTimer reports whether it stopped the timer; without a lifetime it is always true.
StopTimer(w) == IF w \in open THEN {timer[w] = "armed"} ELSE BOOLEAN

\* A new wire: StopTimer is asked outside the lock.
Check(u) ==
    /\ upc[u] = "made"
    /\ \/ /\ TRUE \in StopTimer(hold[u])
          /\ timer' = [timer EXCEPT ![hold[u]] = "off"]
          /\ Got(u, hold[u])
       \/ /\ FALSE \in StopTimer(hold[u])
          /\ UserAt(u, "stale")
          /\ UNCHANGED <<timer, hold, watch>>
    /\ UNCHANGED <<stateVars, lock, waiters, open, use, ctxDone, leaked, stopper, uses, faults>>

Discard(u) ==
    /\ upc[u] = "stale" /\ CanLock(u)
    /\ size' = size - 1 /\ CloseWires({hold[u]})
    /\ hold' = [hold EXCEPT ![u] = NoWire]
    /\ lock' = u /\ UserAt(u, "retry")
    /\ UNCHANGED <<list, down, timerOn, cleaning, waiters, use, ctxDone, watch, leaked, stopper, uses, faults>>

AcquireIdleKeeps(u) ==
    /\ upc[u] = "retry" /\ CanLock(u)
    /\ ~ctxDone[u] /\ ~down /\ list # <<>>
    /\ Got(u, list[Len(list)]) /\ lock' = NoWire
    /\ UNCHANGED <<stateVars, waiters, poolWireVars, use, ctxDone, leaked, stopper, uses, faults>>

\* The wire that was stored last, if it is still good; otherwise it is closed and the
\* loop begins again, all without giving up the lock.
AcquireIdle(u) ==
    /\ upc[u] = "retry" /\ CanLock(u)
    /\ ~ctxDone[u] /\ ~down /\ list # <<>>
    /\ list' = SubSeq(list, 1, Len(list) - 1)
    /\ LET w == list[Len(list)] IN
           \/ /\ TRUE \in StopTimer(w) /\ w \in open
              /\ timer' = [timer EXCEPT ![w] = "off"]
              /\ Got(u, w) /\ lock' = NoWire
              /\ UNCHANGED <<size, open>>
           \/ /\ FALSE \in StopTimer(w) \/ w \notin open
              /\ size' = size - 1 /\ CloseWires({w})
              /\ lock' = u
              /\ UNCHANGED <<upc, hold, watch>>
    /\ UNCHANGED <<down, timerOn, cleaning, waiters, use, ctxDone, leaked, stopper, uses, faults>>

-----------------------------------------------------------------------------
(* What users do with the wire, and Store *)

\* The command was served, or failed and the user closed the wire (mux.blocking).
Work(u) ==
    /\ upc[u] = "got"
    /\ use[u].op = "stream" => ~ctxDone[u]
    /\ \E failed \in BOOLEAN : CloseWires(IF failed THEN {hold[u]} ELSE {})
    /\ UserAt(u, "store")
    /\ UNCHANGED <<stateVars, lock, waiters, use, hold, ctxDone, watch, leaked, stopper, uses, faults>>

Leave(u) ==
    /\ UserAt(u, "idle")
    /\ use' = [use EXCEPT ![u] = NoWire] /\ hold' = [hold EXCEPT ![u] = NoWire]
    /\ ctxDone' = [ctxDone EXCEPT ![u] = FALSE]

\* pipe.DoStream returns when the context is done, and does not store the wire.
DropStream(u) ==
    /\ upc[u] = "got" /\ use[u].op = "stream" /\ ctxDone[u]
    /\ leaked' = leaked \cup ({hold[u]} \cap PoolWires)
    /\ Leave(u)
    /\ UNCHANGED <<stateVars, lock, waiters, poolWireVars, watch, stopper, uses, faults>>

StartTimerIfNeeded == timerOn' = (timerOn \/ Len(list') > MinSize)

IsGoodOnly(u) == hold[u] \in open

\* The wire goes back to the list.
IsKept(u) == ~down /\ hold[u] \in open

Store(u) ==
    /\ upc[u] = "store" /\ lock = NoWire
    /\ IF IsKept(u)
       THEN /\ list' = Append(list, hold[u])
            /\ timer' = [timer EXCEPT ![hold[u]] = "armed"]
            /\ StartTimerIfNeeded
            /\ UNCHANGED <<size, open>>
       ELSE /\ size' = size - 1 /\ CloseWires({hold[u]})
            /\ UNCHANGED <<list, timerOn>>
    /\ hold' = [hold EXCEPT ![u] = NoWire] /\ UserAt(u, "signal")
    /\ UNCHANGED <<down, cleaning, lock, waiters, use, ctxDone, watch, leaked, stopper, uses, faults>>

\* p.cond.Signal, after the lock was given up.
Signal(u) ==
    /\ upc[u] = "signal"
    /\ IF waiters = {}
       THEN Leave(u) /\ UNCHANGED waiters
       ELSE \E v \in waiters :
                /\ waiters' = waiters \ {v}
                /\ upc' = [upc EXCEPT ![v] = "retry", ![u] = "idle"]
                /\ use' = [use EXCEPT ![u] = NoWire] /\ ctxDone' = [ctxDone EXCEPT ![u] = FALSE]
                /\ UNCHANGED hold
    /\ UNCHANGED <<stateVars, lock, poolWireVars, watch, leaked, stopper, uses, faults>>

-----------------------------------------------------------------------------
(* Close, cleanup, contexts and faults *)

WakeAll ==
    /\ waiters' = {}
    /\ upc' = [u \in Users |-> IF u \in waiters THEN "retry" ELSE upc[u]]

\* Idle wires are closed and stay in the list.
ClosePool ==
    /\ stopper = "idle" /\ lock = NoWire
    /\ down' = TRUE /\ timerOn' = FALSE
    /\ CloseWires(ToSet(list))
    /\ stopper' = "broadcast"
    /\ UNCHANGED <<size, list, cleaning, lock, waiters, userVars, watch, leaked, uses, faults>>

CloseBroadcast ==
    /\ stopper = "broadcast"
    /\ WakeAll
    /\ stopper' = "done"
    /\ UNCHANGED <<stateVars, lock, poolWireVars, use, hold, ctxDone, watch, leaked, uses, faults>>

\* The cleanup timer fires: from now on stopTimer comes too late.
CleanupFires ==
    /\ timerOn /\ ~cleaning
    /\ cleaning' = TRUE
    /\ UNCHANGED <<size, list, down, timerOn, lock, waiters, poolWireVars, userVars, watch, leaked,
                   stopper, uses, faults>>

RemoveIdleConns ==
    /\ cleaning /\ lock = NoWire
    /\ LET newLen == IF MinSize < Len(list) THEN MinSize ELSE Len(list) IN
           /\ CloseWires({list[i] : i \in newLen + 1 .. Len(list)})
           /\ size' = size - (Len(list) - newLen)
           /\ list' = SubSeq(list, 1, newLen)
    /\ timerOn' = FALSE /\ cleaning' = FALSE
    /\ UNCHANGED <<down, lock, waiters, userVars, watch, leaked, stopper, uses, faults>>

\* The context of a use is done; the context derived from it follows.
CtxDone(u) ==
    /\ upc[u] # "idle" /\ use[u].ctx /\ ~ctxDone[u]
    /\ ctxDone' = [ctxDone EXCEPT ![u] = TRUE]
    /\ UNCHANGED <<stateVars, lock, waiters, poolWireVars, upc, use, hold, watch, leaked, stopper, uses, faults>>

WatchFires(u) ==
    /\ watch[u] = "set" /\ ctxDone[u]
    /\ watch' = [watch EXCEPT ![u] = "fired"]
    /\ UNCHANGED <<stateVars, lock, waiters, poolWireVars, userVars, leaked, stopper, uses, faults>>

\* The goroutine broadcasts without the lock.
WatchBroadcast(u) ==
    /\ watch[u] = "fired"
    /\ WakeAll
    /\ watch' = [watch EXCEPT ![u] = "none"]
    /\ UNCHANGED <<stateVars, lock, poolWireVars, use, hold, ctxDone, leaked, stopper, uses, faults>>

\* The connection fails: pipe._exit sets its error.
WireBreaks(w) ==
    /\ w \in open /\ faults < MaxFaults
    /\ CloseWires({w})
    /\ faults' = faults + 1
    /\ UNCHANGED <<stateVars, lock, waiters, userVars, watch, leaked, stopper, uses>>

\* The lifetime timer fires, and then its function closes the wire.
LifetimeFires(w) ==
    /\ timer[w] = "armed" /\ faults < MaxFaults
    /\ timer' = [timer EXCEPT ![w] = "fired"]
    /\ faults' = faults + 1
    /\ UNCHANGED <<stateVars, lock, waiters, open, userVars, watch, leaked, stopper, uses>>

Expired(w) ==
    /\ timer[w] = "fired"
    /\ CloseWires({w})
    /\ UNCHANGED <<stateVars, lock, waiters, userVars, watch, leaked, stopper, uses, faults>>

-----------------------------------------------------------------------------
User(u) ==
    \/ CheckFull(u) \/ Park(u) \/ AcquireDead(u) \/ AcquireNew(u) \/ Make(u) \/ Check(u)
    \/ Discard(u) \/ AcquireIdle(u) \/ Work(u) \/ DropStream(u) \/ Store(u) \/ Signal(u)

PoolDone ==
    /\ uses = MaxUses /\ \A u \in Users : upc[u] = "idle"
    /\ UNCHANGED poolVars

PoolNext ==
    \/ \E u \in Users : Acquire(u) \/ User(u) \/ CtxDone(u) \/ WatchFires(u) \/ WatchBroadcast(u)
    \/ ClosePool \/ CloseBroadcast \/ CleanupFires \/ RemoveIdleConns
    \/ \E w \in PoolWires : WireBreaks(w) \/ LifetimeFires(w) \/ Expired(w)
    \/ PoolDone

PoolSpec == PoolInit /\ [][PoolNext]_poolVars

\* As long as a goroutine can run some goroutine does, and users give back what they acquired.
PoolSteps == (\E u \in Users : User(u) \/ WatchFires(u) \/ WatchBroadcast(u)) \/ CloseBroadcast \/ RemoveIdleConns

-----------------------------------------------------------------------------
\* The pool never has more connections open than its capacity (BlockingPoolSize),
\* although they are made outside the lock and counted before.
WithinCap == Cardinality(open) <= Cap

\* A connection belongs to one user at a time: it is idle once, or held by one user.
WireHasOneOwner ==
    /\ \A i, j \in DOMAIN list : list[i] = list[j] => i = j
    /\ \A u \in Users : hold[u] \in PoolWires =>
           /\ hold[u] \notin ToSet(list)
           /\ \A v \in Users \ {u} : hold[v] # hold[u]

\* After Close, when all users are done, no connection is left open, also not one that
\* was being made while the pool was closed.  (What DoStream dropped stays open.)
CloseLeavesNothingOpen ==
    stopper = "done" /\ (\A u \in Users : upc[u] = "idle") => open \subseteq leaked

PoolBusy == \E u \in Users : upc[u] # "idle"
=============================================================================
