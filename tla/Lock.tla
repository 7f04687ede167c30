-------------------------------- MODULE Lock --------------------------------
(* rueidislock/lock.go: one lock name.  An attempt sets a majority of its   *)
(* keys; a goroutine per key extends it and ends when the key is lost, the  *)
(* context is done or the locker is closed.  Callers of one process share a *)
(* gate, through which server invalidations wake waiters and monitors.      *)
EXTENDS Integers, FiniteSets

CONSTANTS Callers, Lockers,
          Options,   \* the lockers' options and the bounds, one record per instance
          Nil

\* What the constants are: a majority is of one key at least, and Nil is no caller
\* and no gate.
ASSUME LockAssumption ==
    /\ IsFiniteSet(Callers) /\ IsFiniteSet(Lockers) /\ Nil \notin Callers \cup Nat
    /\ \A o \in Options : o.majority \in Nat \ {0} /\ \A c \in DOMAIN o.home : o.home[c] \in Lockers

VARIABLES opt,
          holder,            \* server: key -> the caller whose value it has
          tracked, pushes,   \* server: keys read by a locker; invalidations on their way
          gates, shut,       \* per locker: its gate for the name; the closed lockers
          gate,              \* gate identity -> [w, ch, csc, closed]
          at,                \* per caller: its attempt
          calls, faults, losses,   \* counters for the bounds
          stolen, twice            \* history: a guarded key was lost or taken over; an attempt
                                   \* left its gate a second time

lockServer == <<holder, tracked, pushes>>
lockGates == <<gates, shut, gate>>
lockBounds == <<calls, faults, losses, stolen, twice>>
lockVars == <<opt, lockServer, lockGates, at, lockBounds>>

Majority == opt.majority
Keys == 0..(2 * opt.majority - 2)
GateIds == 1..(Cardinality(Callers) + Cardinality(Lockers) + 1)
Home(c) == opt.home[c]
NewGate == [w |-> 1, ch |-> FALSE, csc |-> {}, closed |-> FALSE]

\* failed and left are history: a monitor gave its key up under a live context; a monitor has
\* taken the attempt off its gate.
NoAttempt == [pc |-> "idle", op |-> Nil, g |-> Nil, next |-> 0, err |-> "ok", acquired |-> 0,
         failures |-> 0, fired |-> FALSE, ctx |-> FALSE, src |-> FALSE,
         failed |-> FALSE, left |-> FALSE, mon |-> [k \in Keys |-> "none"]]

LockInit ==
    /\ opt \in Options
    /\ holder = [k \in Keys |-> Nil] /\ tracked = {} /\ pushes = {}
    /\ gates = [l \in Lockers |-> Nil] /\ shut = {} /\ gate = [g \in GateIds |-> NewGate]
    /\ at = [c \in Callers |-> NoAttempt]
    /\ calls = 0 /\ faults = 0 /\ losses = 0 /\ stolen = FALSE /\ twice = FALSE

-----------------------------------------------------------------------------
(* The server: a change of a key notifies the lockers that read it; with     *)
(* NOLOOP not the one that changed it.  The scripts end with a GET.          *)

Reads(l, k) == IF opt.nocsc \/ l \in shut THEN {} ELSE {<<l, k>>}

Changed(l, k) ==
    pushes' = pushes \cup {p \in tracked : p[2] = k /\ ~(opt.noloop /\ p[1] = l)}

Untracked(k) == {p \in tracked : p[2] # k}

\* SET ... PXAT, followed by GET.
Set(c, k) ==
    /\ holder' = [holder EXCEPT ![k] = c]
    /\ Changed(Home(c), k)
    /\ tracked' = Untracked(k) \cup Reads(Home(c), k)

Look(c, k) == tracked' = tracked \cup Reads(Home(c), k) /\ UNCHANGED <<holder, pushes>>

Forget(l, k) ==
    /\ holder' = [holder EXCEPT ![k] = Nil]
    /\ Changed(l, k)
    /\ tracked' = Untracked(k)

\* The extend script: PEXPIREAT if the key has the caller's value.
PExpireAt(c, k) ==
    /\ Changed(Home(c), k)
    /\ tracked' = Untracked(k) \cup Reads(Home(c), k)
    /\ UNCHANGED holder

\* A script fails or a timer fires early, with opt.faults as the bound; a key or a connection
\* is lost, with opt.losses as the bound.
Fault == faults < opt.faults /\ faults' = faults + 1 /\ UNCHANGED <<losses, stolen, twice>>
Loss == losses < opt.losses /\ losses' = losses + 1 /\ UNCHANGED <<faults, twice>>
NoFault == UNCHANGED <<faults, losses, stolen, twice>>

-----------------------------------------------------------------------------
(* Gates *)

Using(g) == {c \in Callers : at[c].g = g}
FreeGate == CHOOSE g \in GateIds : Using(g) = {} /\ \A l \in Lockers : gates[l] # g

GateOf(l) == IF gates[l] = Nil THEN FreeGate ELSE gates[l]

GetGateUncounted(c, o, src) ==
    LET l == Home(c) IN
    IF l \in shut
    THEN at' = [at EXCEPT ![c] = NoAttempt] /\ UNCHANGED lockGates
    ELSE /\ gates' = [gates EXCEPT ![l] = GateOf(l)]
         /\ gate' = IF gates[l] = Nil THEN [gate EXCEPT ![GateOf(l)] = NewGate] ELSE gate
         /\ at' = [at EXCEPT ![c] = [NoAttempt EXCEPT !.pc = "acquire", !.op = o, !.g = GateOf(l),
                                                 !.ctx = src, !.src = src]]
         /\ UNCHANGED shut

GateJoined(l) == IF gates[l] = Nil THEN NewGate ELSE [gate[gates[l]] EXCEPT !.w = @ + 1]

\* getgate, and the first steps of try; nothing when the locker is closed.
GetGate(c, o, src) ==
    LET l == Home(c) IN
    IF l \in shut
    THEN at' = [at EXCEPT ![c] = NoAttempt] /\ UNCHANGED lockGates
    ELSE /\ gates' = [gates EXCEPT ![l] = GateOf(l)]
         /\ gate' = [gate EXCEPT ![GateOf(l)] = GateJoined(l)]
         /\ at' = [at EXCEPT ![c] = [NoAttempt EXCEPT !.pc = "acquire", !.op = o, !.g = GateOf(l),
                                                 !.ctx = src, !.src = src]]
         /\ UNCHANGED shut

Signal(g, S) == gate' = [gate EXCEPT ![g].ch = TRUE, ![g].csc = @ \cup S]

\* The last user takes the gate out of the map; others are signalled if wake holds.  The
\* count of a closed gate is not read again, and a gate without users is garbage.
Leaving(c, wake) ==
    LET g == at[c].g
        l == Home(c)
        last == gate[g].w = 1
        after == IF last /\ Using(g) = {c} THEN NewGate
                 ELSE IF gate[g].closed THEN gate[g]
                 ELSE [gate[g] EXCEPT !.w = @ - 1, !.ch = @ \/ (wake /\ ~last /\ l \notin shut)]
    IN
    /\ gate' = [gate EXCEPT ![g] = after]
    /\ gates' = IF last /\ gates[l] = g THEN [gates EXCEPT ![l] = Nil] ELSE gates
    /\ UNCHANGED shut

RemoveGate(c) == Leaving(c, FALSE)

-----------------------------------------------------------------------------
(* WithContext, TryWithContext, ForceWithContext and try *)

Call(c, o) ==
    /\ at[c].pc = "idle" /\ c \in DOMAIN opt.home /\ calls < opt.calls
    /\ calls' = calls + 1
    /\ GetGate(c, o, TRUE)
    /\ NoFault /\ UNCHANGED <<opt, lockServer>>

\* The source context of the call is done, and with it the attempt's.
SourceDone(c) ==
    /\ opt.cancels /\ at[c].src
    /\ at' = [at EXCEPT ![c].src = FALSE, ![c].ctx = FALSE]
    /\ UNCHANGED <<opt, lockServer, lockGates, lockBounds>>

\* canceltm fires before the majority is complete: KeyValidity or the deadline is over.
CancelTimer(c) ==
    /\ at[c].pc \in {"acquire", "count"} /\ ~at[c].fired
    /\ at' = [at EXCEPT ![c].fired = TRUE, ![c].ctx = FALSE]
    /\ Fault
    /\ UNCHANGED <<opt, lockServer, lockGates, calls>>

\* What m.acquire does at the server and returns for key k.  A script whose reply is lost
\* ran or not; it is sent again after a lost connection, and then finds the key set.
AcquireKey(c, k, e) ==
    \/ at[c].err = "notlocked" /\ e = "notlocked" /\ UNCHANGED lockServer /\ NoFault
    \/ /\ at[c].err # "notlocked" /\ (~at[c].ctx \/ Home(c) \in shut)
       /\ e = "other" /\ UNCHANGED lockServer /\ NoFault
    \/ /\ at[c].err # "notlocked" /\ at[c].ctx
       /\ \/ /\ holder[k] = Nil \/ at[c].op = "force"
             /\ e = "ok" /\ Set(c, k)
             /\ stolen' = (stolen \/ holder[k] # Nil) /\ UNCHANGED <<faults, losses, twice>>
          \/ holder[k] # Nil /\ at[c].op # "force" /\ e = "notlocked" /\ Look(c, k) /\ NoFault
          \/ e = "other" /\ UNCHANGED lockServer /\ Fault
          \/ holder[k] = Nil /\ e \in {"other", "notlocked"} /\ Set(c, k) /\ Fault

\* acquire: drain the key's channel, set the key, start the key's monitor.
Acquire(c, e) ==
    LET k == at[c].next
        g == at[c].g IN
    /\ AcquireKey(c, k, e)
    /\ gate' = [gate EXCEPT ![g].csc =
                   IF at[c].op = "force" /\ e = "ok" /\ ~gate[g].closed
                   THEN @ \cup {k} ELSE @ \ {k}]
    /\ UNCHANGED <<opt, gates, shut, calls>>

Monitored(r, e) ==
    [r EXCEPT !.err = e, !.next = @ + 1,
              !.mon[r.next] = CASE e = "ok" -> "loop" [] e = "notlocked" -> "release"
                                [] e = "other" -> "delete"]

Counted(r) ==
    IF r.err = "ok" THEN [r EXCEPT !.acquired = @ + 1] ELSE [r EXCEPT !.failures = @ + 1]

Deciding(c) == at[c].acquired < Majority /\ at[c].failures < Majority

\* The loop of try.  The result is counted after the monitor was started, which may get
\* ahead of the count.
AcquireNext(c) ==
    /\ at[c].pc = "acquire" /\ Deciding(c)
    /\ \E e \in {"ok", "notlocked", "other"} :
          /\ Acquire(c, e)
          /\ at' = [at EXCEPT ![c] = [Monitored(@, e) EXCEPT !.pc = "count"]]

Count(c) ==
    /\ at[c].pc = "count"
    /\ at' = [at EXCEPT ![c] = [Counted(@) EXCEPT !.pc = "acquire"]]
    /\ UNCHANGED <<opt, lockServer, lockGates, lockBounds>>

\* The goroutine that acquires the remaining keys.
AcquireRest(c) ==
    /\ at[c].pc \in {"held", "unlock", "drain"} /\ at[c].next \in Keys
    /\ \E e \in {"ok", "notlocked", "other"} :
          Acquire(c, e) /\ at' = [at EXCEPT ![c] = Monitored(@, e)]

DecideEarly(c) ==
    /\ at[c].pc = "acquire" /\ ~Deciding(c)
    /\ at' = [at EXCEPT ![c].pc = IF ~at[c].fired THEN "held" ELSE "drain"]
    /\ UNCHANGED <<opt, lockServer, lockGates, lockBounds>>

\* The majority decides and the timer is stopped in time, or try waits for its monitors.
Decide(c) ==
    /\ at[c].pc = "acquire" /\ ~Deciding(c)
    /\ at' = [at EXCEPT ![c].pc =
                 IF ~at[c].fired /\ at[c].failures < Majority THEN "held" ELSE "drain"]
    /\ UNCHANGED <<opt, lockServer, lockGates, lockBounds>>

DoneClosed(c) == \A k \in Keys : at[c].mon[k] = "end"

\* The failed try: WithContext waits at the gate, the other two return.  It leaves the gate a
\* second time if its last monitor did, which read failures too early or after the timer.
TryFailed(c) ==
    /\ at[c].pc = "drain" /\ DoneClosed(c)
    /\ twice' = (twice \/ at[c].left)
    /\ IF at[c].op = "with"
       THEN /\ at' = [at EXCEPT ![c] = [NoAttempt EXCEPT !.pc = "waiting", !.g = at[c].g, !.src = at[c].src,
                                                     !.err = at[c].err]]
            /\ UNCHANGED lockGates
       ELSE at' = [at EXCEPT ![c] = NoAttempt] /\ RemoveGate(c)
    /\ UNCHANGED <<opt, lockServer, calls, faults, losses, stolen>>

\* WithContext is woken by g.ch, by Close, or without client side caching by a timer.
WakeUp(c) ==
    LET g == at[c].g IN
    /\ at[c].pc = "waiting"
    /\ \/ gate[g].ch /\ gate' = [gate EXCEPT ![g].ch = FALSE, ![g].w = @ - 1]
       \/ opt.nocsc /\ ~gate[g].closed /\ gate' = [gate EXCEPT ![g].w = @ - 1]
       \/ gate[g].closed /\ UNCHANGED gate
    /\ at' = [at EXCEPT ![c].pc = "retry", ![c].g = Nil]
    /\ UNCHANGED <<opt, lockServer, gates, shut, lockBounds>>

Retry(c) ==
    /\ at[c].pc = "retry"
    /\ GetGate(c, "with", at[c].src)
    /\ UNCHANGED <<opt, lockServer, lockBounds>>

GiveUp(c) ==
    /\ at[c].pc = "waiting" /\ ~at[c].src
    /\ RemoveGate(c)
    /\ at' = [at EXCEPT ![c] = NoAttempt]
    /\ UNCHANGED <<opt, lockServer, lockBounds>>

\* The returned cancel function: cancel(), then <-done.
Unlock(c) ==
    /\ at[c].pc = "held"
    /\ at' = [at EXCEPT ![c].ctx = FALSE, ![c].pc = "unlock"]
    /\ UNCHANGED <<opt, lockServer, lockGates, lockBounds>>

Unlocked(c) ==
    /\ at[c].pc = "unlock" /\ DoneClosed(c)
    /\ at' = [at EXCEPT ![c] = NoAttempt]
    /\ UNCHANGED <<opt, lockServer, lockGates, lockBounds>>

-----------------------------------------------------------------------------
(* monitoring *)

MonitorAt(c, k, s) == at' = [at EXCEPT ![c].mon[k] = s]

\* The monitor ends with an error other than ErrNotLocked: it will delete its key first and
\* cancel the context afterwards.
GiveUpKey(c, k) == at' = [at EXCEPT ![c].mon[k] = "delete", ![c].failed = @ \/ at[c].ctx]

\* The extension timer, or a signal on the key's channel: extend the key.
Extend(c, k) ==
    LET g == at[c].g IN
    /\ at[c].mon[k] = "loop" /\ at[c].ctx
    /\ gate' \in {gate, [gate EXCEPT ![g].csc = @ \ {k}]}
    /\ \/ holder[k] = c /\ PExpireAt(c, k) /\ UNCHANGED at /\ NoFault
       \/ holder[k] # c /\ Look(c, k) /\ MonitorAt(c, k, "release") /\ NoFault
       \/ GiveUpKey(c, k) /\ UNCHANGED lockServer /\ Fault
    /\ UNCHANGED <<opt, gates, shut, calls>>

\* The context is done, the channel is closed, or the script fails on the closed client.
Leave(c, k) ==
    /\ at[c].mon[k] = "loop"
    /\ ~at[c].ctx \/ gate[at[c].g].closed \/ Home(c) \in shut
    /\ GiveUpKey(c, k)
    /\ UNCHANGED <<opt, lockServer, lockGates, lockBounds>>

\* The delkey script; with the client closed, or on a fault, the key is left to expire.
DelKey(c, k) ==
    /\ at[c].mon[k] = "delete"
    /\ MonitorAt(c, k, "release")
    /\ \/ Home(c) \in shut /\ UNCHANGED lockServer /\ NoFault
       \/ UNCHANGED lockServer /\ Fault
       \/ NoFault /\ IF holder[k] = c THEN Forget(Home(c), k) ELSE Look(c, k)
    /\ UNCHANGED <<opt, lockGates, calls>>

Released(c) == Cardinality({k \in Keys : at[c].mon[k] = "end"}) + 1

\* The last monitor takes the attempt off its gate unless it reads that the attempt failed.
Relieves(c) == Released(c) = Cardinality(Keys) /\ at[c].failures < Majority

\* It reads too early.  With opt.overtakes as a bound this happens until an attempt has left
\* its gate twice, and not again: the counts would sink for ever.
Overtakes(c) == Relieves(c) /\ at[c].pc = "count"

LeaveGateQuietly(c) == Leaving(c, FALSE)

\* The last monitor of a successful attempt leaves the gate and wakes the next waiter.
LeaveGate(c) == Leaving(c, TRUE)

ReleaseQuietly(c, k) ==
    /\ at[c].mon[k] = "release" /\ (Overtakes(c) => opt.overtakes /\ ~twice)
    /\ at' = [at EXCEPT ![c].mon[k] = "end", ![c].left = Relieves(c)]
    /\ IF Relieves(c) THEN LeaveGate(c) ELSE UNCHANGED lockGates
    /\ UNCHANGED <<opt, lockServer, lockBounds>>

Release(c, k) ==
    /\ at[c].mon[k] = "release" /\ (Overtakes(c) => opt.overtakes /\ ~twice)
    /\ at' = [at EXCEPT ![c].mon[k] = "end", ![c].ctx = @ /\ Released(c) < Majority,
                        ![c].left = Relieves(c)]
    /\ IF Relieves(c) THEN LeaveGate(c) ELSE UNCHANGED lockGates
    /\ UNCHANGED <<opt, lockServer, lockBounds>>

-----------------------------------------------------------------------------
(* onInvalidations, Close, and what the server does by itself *)

OnInvalidation(l, k) ==
    /\ <<l, k>> \in pushes
    /\ pushes' = pushes \ {<<l, k>>}
    /\ IF gates[l] = Nil THEN UNCHANGED gate ELSE Signal(gates[l], {k})
    /\ UNCHANGED <<opt, holder, tracked, gates, shut, at, lockBounds>>

\* The connection breaks: onInvalidations(nil) signals everyone.
Disconnect(l) ==
    /\ ~opt.nocsc /\ l \notin shut /\ gates[l] # Nil /\ Loss /\ UNCHANGED stolen
    /\ pushes' = {p \in pushes : p[1] # l} /\ tracked' = {p \in tracked : p[1] # l}
    /\ Signal(gates[l], Keys)
    /\ UNCHANGED <<opt, holder, gates, shut, at, calls>>

CloseLocker(l) ==
    /\ opt.closes /\ l \notin shut /\ \E c \in DOMAIN opt.home : Home(c) = l
    /\ shut' = shut \cup {l}
    /\ gates' = [gates EXCEPT ![l] = Nil]
    /\ gate' = IF gates[l] = Nil THEN gate ELSE [gate EXCEPT ![gates[l]] = [NewGate EXCEPT !.closed = TRUE]]
    /\ pushes' = {p \in pushes : p[1] # l} /\ tracked' = {p \in tracked : p[1] # l}
    /\ UNCHANGED <<opt, holder, at, lockBounds>>

Guarded(k) == \E c \in Callers : holder[k] = c /\ at[c].mon[k] \in {"loop", "delete"}

\* A key that nobody extends expires.
Expire(k) ==
    /\ holder[k] # Nil /\ ~Guarded(k)
    /\ Forget(Nil, k)
    /\ UNCHANGED <<opt, lockGates, at, lockBounds>>

\* A key is lost although its caller extends it: late extensions, FLUSHALL, a deletion.
Lose(k) ==
    /\ holder[k] # Nil /\ Guarded(k) /\ Loss /\ stolen' = TRUE
    /\ Forget(Nil, k)
    /\ UNCHANGED <<opt, lockGates, at, calls>>

-----------------------------------------------------------------------------
Caller(c) ==
    \/ AcquireNext(c) \/ Count(c) \/ Decide(c) \/ TryFailed(c) \/ WakeUp(c) \/ Retry(c)
    \/ GiveUp(c) \/ Unlocked(c)

Monitor(c, k) == Leave(c, k) \/ DelKey(c, k) \/ Release(c, k)

LockNext ==
    \/ \E c \in Callers :
          \/ \E o \in opt.ops : Call(c, o)
          \/ SourceDone(c) \/ CancelTimer(c) \/ Caller(c) \/ Unlock(c) \/ AcquireRest(c)
          \/ \E k \in Keys : Extend(c, k) \/ Monitor(c, k)
    \/ \E l \in Lockers : Disconnect(l) \/ CloseLocker(l) \/ \E k \in Keys : OnInvalidation(l, k)
    \/ \E k \in Keys : Expire(k) \/ Lose(k)

\* Goroutines that can run do run, a holder whose context is done unlocks, the monitor of a
\* key that was lost tries to extend it, pushes arrive and keys that nobody extends expire.
LockFair ==
    /\ \A c \in Callers :
          WF_lockVars(Caller(c) \/ AcquireRest(c) \/ (~at[c].ctx /\ Unlock(c)) \/ \E k \in Keys : Monitor(c, k))
    /\ WF_lockVars(\E c \in Callers, k \in Keys : holder[k] # c /\ Extend(c, k))
    /\ WF_lockVars(\E k \in Keys : Expire(k))
    /\ WF_lockVars(\E l \in Lockers, k \in Keys : OnInvalidation(l, k))

LockSpec == LockInit /\ [][LockNext]_lockVars /\ LockFair

-----------------------------------------------------------------------------
Live(c) == at[c].pc = "held" /\ at[c].ctx

\* As long as no key is lost under its monitor or taken over, two callers have live contexts
\* only when one of them has a monitor that gave up: its extension failed, or its locker was
\* closed.  That monitor deletes its key before it cancels the context, and the next caller
\* may have the lock in between.  Failed acquisitions and deletions, early timers, lost
\* connections and monitors that overtake the count never let two callers have it.
MutualExclusion ==
    ~stolen => \A c, d \in Callers :
        c # d /\ Live(c) /\ Live(d) => at[c].failed \/ at[d].failed

\* Whoever may sleep on a gate has the one that invalidations and Close reach: the count of
\* users does not drop to zero under anyone, unless an attempt was taken off its gate by its
\* last monitor, which had overtaken the count of the last failure or the timer, and left
\* the gate once more.
GateExact ==
    ~twice => \A c \in Callers : at[c].pc = "waiting" \/ at[c].ctx =>
        /\ gate[at[c].g].closed \/ gates[Home(c)] = at[c].g
        /\ gate[at[c].g].w > 0

Lost(c) == Cardinality({k \in Keys : holder[k] # c}) >= Majority

\* A holder that lost the majority learns of it: its context is cancelled.
LostLockIsCancelled ==
    (\E c \in Callers : Live(c) /\ at[c].next \notin Keys /\ Lost(c)) ~> (\A c \in Callers : ~Live(c) \/ ~Lost(c))

Free == \A c \in Callers : ~Live(c)

NoCalls == \A c \in Callers : at[c].pc = "idle"

\* WithContext waits for a notification although no key was held by another: its script
\* failed, or its timer fired.
Dozes(c) == at[c].pc = "waiting" /\ at[c].err # "notlocked"

\* Nobody waits for a free lock for ever: as long as no one has it, some caller gets it, or
\* every call returns, with an error or because the locker was closed.  With client side
\* caching there are two exceptions, in which nothing is left that would wake a sleeper: one
\* sleeps after an attempt that failed without finding a key held, or an attempt left its
\* gate twice.
FreeLockIsTaken ==
    Free /\ ~NoCalls ~>
        ~Free \/ NoCalls \/ (~opt.nocsc /\ (twice \/ \E c \in Callers : Dozes(c)))
=============================================================================
