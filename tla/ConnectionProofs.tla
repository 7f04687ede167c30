-------------------------- MODULE ConnectionProofs --------------------------
(* The connections of a mux, for any number of callers, users and wires: the *)
(* shared one that all callers pipeline into, and the pool of those that a   *)
(* blocking command has to itself.                                           *)
EXTENDS Mux, Pool, FiniteSetTheorems, TLAPS

USE SMTT(30), ZenonT(60)

-----------------------------------------------------------------------------
(* pool.go: WireHasOneOwner, CloseLeavesNothingOpen and WithinCap *)

USE PoolAssumption

Marks == {NoWire, "ctx", "down", "dial"}   \* no wire, or the origin of a dead pipe
UserSteps == {"idle", "retry", "park", "waiting", "make", "made", "stale", "got", "store", "signal"}
Holding == {"made", "stale", "got", "store"}

PoolTypeOK ==
    /\ list \in Seq(PoolWires) /\ open \subseteq PoolWires /\ down \in BOOLEAN
    /\ upc \in [Users -> UserSteps] /\ hold \in [Users -> PoolWires \cup Marks]

\* A wire is idle once or has one holder, only the steps between Acquire and Store have one, and an
\* open wire is idle, held or leaked; once the pool is down no idle wire is open.
PoolInv ==
    /\ PoolTypeOK
    /\ WireHasOneOwner
    /\ \A u \in Users : upc[u] \notin Holding => hold[u] = NoWire
    /\ \A u \in waiters : u \in Users /\ upc[u] = "waiting"
    /\ \A con \in open : con \in ToSet(list) \/ con \in leaked \/ \E u \in Users : hold[u] = con
    /\ stopper # "idle" => down
    /\ down => \A con \in open : con \notin ToSet(list)

Distinct(s) == \A i, j \in DOMAIN s : s[i] = s[j] => i = j

\* A list has at least as many entries as wires.
LEMMA ListCount ==
    ASSUME NEW W, NEW s \in Seq(W)
    PROVE  IsFiniteSet(ToSet(s)) /\ Cardinality(ToSet(s)) <= Len(s)
<1> DEFINE f == [i \in 1..Len(s) |-> s[i]]
<1>1. Len(s) \in Nat /\ ToSet(s) = {s[i] : i \in 1..Len(s)}
  BY DEF ToSet
<1>2. f \in Surjection(1..Len(s), ToSet(s))
  BY Zenon, <1>1 DEF Surjection
<1>3. IsFiniteSet(1..Len(s)) /\ Cardinality(1..Len(s)) = Len(s)
  BY <1>1, FS_Interval
<1>4. IsFiniteSet(ToSet(s)) /\ Cardinality(ToSet(s)) <= Cardinality(1..Len(s))
  BY Zenon, <1>2, <1>3, FS_Surjection
<1> QED
  BY Zenon, <1>3, <1>4

\* A union has at most as many elements as its parts together.
LEMMA UnionCount ==
    ASSUME NEW S, NEW T, IsFiniteSet(S), IsFiniteSet(T)
    PROVE  /\ IsFiniteSet(S \cup T) /\ Cardinality(S \cup T) \in Nat
           /\ Cardinality(S \cup T) <= Cardinality(S) + Cardinality(T)
<1>1. IsFiniteSet(S \cup T) /\ Cardinality(S \cup T) = Cardinality(S) + Cardinality(T) - Cardinality(S \cap T)
  BY Zenon, FS_Union
<1>2. Cardinality(S) \in Nat /\ Cardinality(T) \in Nat /\ Cardinality(S \cap T) \in Nat /\ Cardinality(S \cup T) \in Nat
  BY Zenon, <1>1, FS_Intersection, FS_CardinalityType
<1> QED
  BY <1>1, <1>2

\* Store: what Append does to a list of distinct wires.
LEMMA AppendIs ==
    ASSUME NEW W, NEW s \in Seq(W), NEW x \in W, Distinct(s), x \notin ToSet(s)
    PROVE  Append(s, x) \in Seq(W) /\ Distinct(Append(s, x)) /\ ToSet(Append(s, x)) = ToSet(s) \cup {x}
<1>1. Append(s, x) \in Seq(W) /\ Len(Append(s, x)) = Len(s) + 1 /\ Len(s) \in Nat
  OBVIOUS
<1>2. DOMAIN s = 1..Len(s) /\ DOMAIN Append(s, x) = 1..(Len(s) + 1)
  OBVIOUS
<1>3. \A i \in 1..Len(s) : Append(s, x)[i] = s[i]
  OBVIOUS
<1>4. Append(s, x)[Len(s) + 1] = x
  OBVIOUS
<1>5. Distinct(Append(s, x))
  BY <1>1, <1>2, <1>3, <1>4 DEF Distinct, ToSet
<1>6. ToSet(Append(s, x)) = ToSet(s) \cup {x}
  BY <1>1, <1>2, <1>3, <1>4 DEF ToSet
<1> QED
  BY Zenon, <1>1, <1>5, <1>6

\* What is behind the first n.
After(s, n) == {s[i] : i \in n + 1 .. Len(s)}

\* AcquireIdle and removeIdleConns: what is left of a list of distinct wires, and what is not.
LEMMA PrefixIs ==
    ASSUME NEW W, NEW s \in Seq(W), NEW n \in 0..Len(s), Distinct(s), NEW t, t = SubSeq(s, 1, n)
    PROVE  /\ t \in Seq(W) /\ Distinct(t)
           /\ ToSet(s) = ToSet(t) \cup After(s, n) /\ ToSet(t) \cap After(s, n) = {}
<1>1. Len(s) \in Nat /\ DOMAIN s = 1..Len(s)
  OBVIOUS
<1>2. t \in Seq(W) /\ Len(t) = n /\ DOMAIN t = 1..n /\ \A i \in 1..n : t[i] = s[i]
  OBVIOUS
<1>3. Distinct(t)
  BY <1>1, <1>2 DEF Distinct
<1>4. ToSet(s) = ToSet(t) \cup {s[i] : i \in n + 1 .. Len(s)}
  <2>1. ToSet(t) = {s[i] : i \in 1..n} /\ ToSet(s) = {s[i] : i \in 1..Len(s)}
    BY Zenon, <1>1, <1>2 DEF ToSet
  <2>2. 1..Len(s) = (1..n) \cup (n + 1 .. Len(s))
    BY <1>1
  <2> QED
    BY Zenon, <2>1, <2>2
<1>5. \A i \in n + 1 .. Len(s) : s[i] \notin ToSet(t)
  BY <1>1, <1>2 DEF ToSet, Distinct
<1> QED
  BY Zenon, <1>2, <1>3, <1>4, <1>5 DEF After

\* A new pool has no wires.
LEMMA InitPool ==
    ASSUME PoolInit
    PROVE  PoolInv
<1>1. list \in Seq(PoolWires) /\ ToSet(list) = {} /\ DOMAIN list = {}
  BY DEF PoolInit, ToSet
<1>2. PoolTypeOK
  BY Zenon, <1>1 DEF PoolInit, PoolTypeOK, UserSteps, Marks
<1>3. WireHasOneOwner
  BY Zenon, <1>1 DEF PoolInit, WireHasOneOwner
<1> QED
  BY Zenon, <1>2, <1>3 DEF PoolInit, PoolInv

-----------------------------------------------------------------------------
\* Steps of Acquire that only move a user on, and the dead pipes.
LEMMA WaitKeeps ==
    ASSUME PoolInv, NEW u \in Users,
           Acquire(u) \/ CheckFull(u) \/ Park(u) \/ AcquireDead(u) \/ AcquireNew(u)
    PROVE  PoolInv'
<1>1. CASE Acquire(u)
  BY Zenon, <1>1 DEF Acquire, Free, UserAt, PoolInv, PoolTypeOK, UserSteps, Holding, WireHasOneOwner, stateVars, poolWireVars
<1>2. CASE CheckFull(u)
  BY Zenon, <1>2 DEF CheckFull, UserAt, PoolInv, PoolTypeOK, UserSteps, Holding, WireHasOneOwner, stateVars, poolWireVars
<1>3. CASE Park(u)
  BY <1>3 DEF Park, UserAt, PoolInv, PoolTypeOK, UserSteps, Holding, WireHasOneOwner, stateVars, poolWireVars
<1>4. CASE AcquireDead(u)
  BY <1>4 DEF AcquireDead, Got, UserAt, PoolInv, PoolTypeOK, UserSteps, Holding, Marks, WireHasOneOwner, stateVars,
              poolWireVars
<1>5. CASE AcquireNew(u)
  BY Zenon, <1>5 DEF AcquireNew, UserAt, PoolInv, PoolTypeOK, UserSteps, Holding, WireHasOneOwner, poolWireVars
<1> QED
  BY Zenon, <1>1, <1>2, <1>3, <1>4, <1>5

\* A user goes on, and wires may be closed.
LEMMA MovesOn ==
    ASSUME PoolInv, NEW u \in Users, NEW l \in UserSteps, upc[u] # "waiting", l \in Holding \/ hold[u] = NoWire,
           upc' = [upc EXCEPT ![u] = l], hold' = hold, open' \subseteq open,
           list' = list, down' = down, waiters' = waiters, leaked' = leaked, stopper' = stopper
    PROVE  PoolInv'
<1>1. upc'[u] = l /\ \A v \in Users \ {u} : upc'[v] = upc[v]
  BY Zenon DEF PoolInv, PoolTypeOK
<1>2. PoolTypeOK' /\ WireHasOneOwner'
  BY Zenon DEF PoolInv, PoolTypeOK, WireHasOneOwner
<1>3. (\A v \in Users : upc[v] \notin Holding => hold[v] = NoWire)'
  BY Zenon, <1>1 DEF PoolInv
<1>4. (\A v \in waiters : v \in Users /\ upc[v] = "waiting")'
  BY Zenon, <1>1 DEF PoolInv
<1> QED
  BY Zenon, <1>2, <1>3, <1>4 DEF PoolInv

\* A user closes the wire it has, or the dead pipe, and is without it.
LEMMA LetGoKeeps ==
    ASSUME PoolInv, NEW u \in Users, NEW l \in UserSteps \ Holding, upc[u] # "waiting",
           open' = open \ {hold[u]}, hold' = [hold EXCEPT ![u] = NoWire], upc' = [upc EXCEPT ![u] = l],
           list' = list, down' = down, waiters' = waiters, leaked' = leaked, stopper' = stopper
    PROVE  PoolInv'
<1>1. hold'[u] = NoWire /\ upc'[u] = l /\ \A v \in Users \ {u} : hold'[v] = hold[v] /\ upc'[v] = upc[v]
  BY Zenon DEF PoolInv, PoolTypeOK
<1>2. PoolTypeOK'
  BY Zenon DEF PoolInv, PoolTypeOK, Marks
<1>3. WireHasOneOwner'
  BY <1>1 DEF PoolInv, WireHasOneOwner
<1>4. (\A v \in Users : upc[v] \notin Holding => hold[v] = NoWire)'
  BY Zenon, <1>1 DEF PoolInv
<1>5. (\A v \in waiters : v \in Users /\ upc[v] = "waiting")'
  BY Zenon, <1>1 DEF PoolInv
<1>6. (\A con \in open : con \in ToSet(list) \/ con \in leaked \/ \E v \in Users : hold[v] = con)'
  BY <1>1 DEF PoolInv
<1> QED
  BY Zenon, <1>2, <1>3, <1>4, <1>5, <1>6 DEF PoolInv

\* A wire is made for its user, checked, and discarded when its lifetime is over.
LEMMA MakeKeeps ==
    ASSUME PoolInv, NEW u \in Users, Make(u) \/ Check(u) \/ Discard(u)
    PROVE  PoolInv'
<1>1. CASE Make(u)
  <2>1. ASSUME NEW con \in Unused, hold' = [hold EXCEPT ![u] = con], UserAt(u, "made"), open' = open \cup {con}
        PROVE  PoolInv'
    BY <1>1, <2>1 DEF Make, Unused, UserAt, PoolInv, PoolTypeOK, UserSteps, Holding, WireHasOneOwner, stateVars, Marks
  <2>2. CASE Got(u, "dial") /\ UNCHANGED poolWireVars
    BY <1>1, <2>2 DEF Make, Got, UserAt, PoolInv, PoolTypeOK, UserSteps, Holding, WireHasOneOwner, stateVars,
                      poolWireVars, Marks
  <2> QED
    BY Zenon, <1>1, <2>1, <2>2 DEF Make
<1>2. CASE Check(u)
  <2>1. hold' = hold /\ (upc' = [upc EXCEPT ![u] = "got"] \/ upc' = [upc EXCEPT ![u] = "stale"])
    BY Zenon, <1>2 DEF Check, Got, UserAt, PoolInv, PoolTypeOK
  <2> QED
    BY Zenon, <1>2, <2>1, MovesOn DEF Check, stateVars, UserSteps, Holding
<1>3. CASE Discard(u)
  <2>1. /\ open' = open \ {hold[u]} /\ hold' = [hold EXCEPT ![u] = NoWire] /\ upc' = [upc EXCEPT ![u] = "retry"]
        /\ list' = list /\ down' = down /\ waiters' = waiters /\ leaked' = leaked /\ stopper' = stopper
        /\ upc[u] = "stale"
    BY Zenon, <1>3 DEF Discard, CloseWires, UserAt
  <2> QED
    BY Zenon, <2>1, LetGoKeeps DEF UserSteps, Holding
<1> QED
  BY Zenon, <1>1, <1>2, <1>3

\* The wire that was stored last leaves the list, to its user or closed.
LEMMA TakeIdleKeeps ==
    ASSUME PoolInv, NEW u \in Users, AcquireIdle(u)
    PROVE  PoolInv'
<1> DEFINE n == Len(list) - 1
           con == list[Len(list)]
<1>1. list \in Seq(PoolWires) /\ Len(list) \in Nat /\ Len(list) # 0 /\ DOMAIN list = 1..Len(list) /\ Distinct(list)
  BY DEF AcquireIdle, PoolInv, PoolTypeOK, WireHasOneOwner, Distinct
<1>2. n \in 0..Len(list) /\ n + 1 .. Len(list) = {Len(list)} /\ con \in PoolWires /\ con \in ToSet(list)
  BY <1>1 DEF ToSet
<1>3. list' \in Seq(PoolWires) /\ Distinct(list') /\ ToSet(list) = ToSet(list') \cup {con} /\ con \notin ToSet(list')
  <2>1. list' = SubSeq(list, 1, n)
    BY Zenon DEF AcquireIdle
  <2>2. After(list, n) = {con}
    BY Zenon, <1>2 DEF After
  <2> HIDE DEF n, con
  <2>3. list \in Seq(PoolWires) /\ n \in 0..Len(list) /\ Distinct(list)
    BY Zenon, <1>1, <1>2
  <2>4. /\ list' \in Seq(PoolWires) /\ Distinct(list')
        /\ ToSet(list) = ToSet(list') \cup After(list, n) /\ ToSet(list') \cap After(list, n) = {}
    BY <2>1, <2>3, PrefixIs, Zenon
  <2> QED
    BY Zenon, <2>2, <2>4
<1>4. /\ down' = down /\ ~down /\ waiters' = waiters /\ leaked' = leaked /\ stopper' = stopper /\ upc[u] = "retry"
      /\ hold[u] = NoWire
  BY Zenon DEF AcquireIdle, PoolInv, Holding
<1> HIDE DEF con, n
<1>6. CASE Got(u, con) /\ UNCHANGED open
  <2>1. /\ hold' = [hold EXCEPT ![u] = con] /\ upc' = [upc EXCEPT ![u] = "got"]
        /\ hold'[u] = con /\ upc'[u] = "got" /\ \A v \in Users \ {u} : hold'[v] = hold[v] /\ upc'[v] = upc[v]
    BY Zenon, <1>6 DEF Got, UserAt, PoolInv, PoolTypeOK
  <2>2. PoolTypeOK'
    BY Zenon, <1>2, <1>3, <1>4, <1>6, <2>1 DEF PoolInv, PoolTypeOK, UserSteps
  <2>3. WireHasOneOwner'
    BY <1>2, <1>3, <2>1 DEF PoolInv, WireHasOneOwner, Distinct
  <2>4. /\ (\A v \in Users : upc[v] \notin Holding => hold[v] = NoWire)'
        /\ (\A v \in waiters : v \in Users /\ upc[v] = "waiting")'
    BY Zenon, <1>4, <2>1 DEF PoolInv, Holding
  <2>5. (\A x \in open : x \in ToSet(list) \/ x \in leaked \/ \E v \in Users : hold[v] = x)'
    BY <1>2, <1>3, <1>4, <1>6, <2>1 DEF PoolInv, PoolTypeOK
  <2> QED
    BY Zenon, <1>4, <2>2, <2>3, <2>4, <2>5 DEF PoolInv
<1>5. CASE open' = open \ {con} /\ UNCHANGED <<upc, hold>>
  <2>1. PoolTypeOK' /\ WireHasOneOwner'
    BY Zenon, <1>3, <1>4, <1>5 DEF PoolInv, PoolTypeOK, WireHasOneOwner, Distinct
  <2> QED
    BY Zenon, <1>3, <1>4, <1>5, <2>1 DEF PoolInv
<1> QED
  BY Zenon, <1>5, <1>6 DEF AcquireIdle, CloseWires, con

-----------------------------------------------------------------------------
\* The command is served or fails; a stream whose context is done drops its wire.
LEMMA UseKeeps ==
    ASSUME PoolInv, NEW u \in Users, Work(u) \/ DropStream(u)
    PROVE  PoolInv'
<1>1. CASE Work(u)
  <2>1. upc' = [upc EXCEPT ![u] = "store"] /\ open' \subseteq open /\ upc[u] = "got"
    BY Zenon, <1>1 DEF Work, UserAt, CloseWires
  <2> QED
    BY Zenon, <1>1, <2>1, MovesOn DEF Work, stateVars, UserSteps, Holding
<1>2. CASE DropStream(u)
  <2>1. /\ hold' = [hold EXCEPT ![u] = NoWire] /\ upc' = [upc EXCEPT ![u] = "idle"] /\ upc[u] = "got"
        /\ leaked' = leaked \cup ({hold[u]} \cap PoolWires) /\ open' = open
        /\ list' = list /\ down' = down /\ waiters' = waiters /\ stopper' = stopper
    BY Zenon, <1>2 DEF DropStream, Leave, UserAt, stateVars, poolWireVars
  <2>2. hold'[u] = NoWire /\ upc'[u] = "idle" /\ \A v \in Users \ {u} : hold'[v] = hold[v] /\ upc'[v] = upc[v]
    BY Zenon, <2>1 DEF PoolInv, PoolTypeOK
  <2>3. PoolTypeOK'
    BY Zenon, <2>1 DEF PoolInv, PoolTypeOK, UserSteps, Marks
  <2>4. WireHasOneOwner'
    BY <2>1, <2>2 DEF PoolInv, WireHasOneOwner
  <2>5. /\ (\A v \in Users : upc[v] \notin Holding => hold[v] = NoWire)'
        /\ (\A v \in waiters : v \in Users /\ upc[v] = "waiting")'
    BY Zenon, <2>1, <2>2 DEF PoolInv
  <2>6. (\A x \in open : x \in ToSet(list) \/ x \in leaked \/ \E v \in Users : hold[v] = x)'
    BY Zenon, <2>1, <2>2 DEF PoolInv, PoolTypeOK
  <2> QED
    BY Zenon, <2>1, <2>3, <2>4, <2>5, <2>6 DEF PoolInv
<1> QED
  BY Zenon, <1>1, <1>2

\* The wire goes back to the list while the pool is up and the wire is good, or is closed.
LEMMA StoreKeeps ==
    ASSUME PoolInv, NEW u \in Users, Store(u)
    PROVE  PoolInv'
<1>1. /\ hold' = [hold EXCEPT ![u] = NoWire] /\ upc' = [upc EXCEPT ![u] = "signal"] /\ upc[u] = "store"
      /\ down' = down /\ waiters' = waiters /\ leaked' = leaked /\ stopper' = stopper
  BY Zenon DEF Store, UserAt
<1>2. CASE ~IsKept(u)
  <2>1. open' = open \ {hold[u]} /\ list' = list
    BY Zenon, <1>2 DEF Store, CloseWires
  <2> QED
    BY Zenon, <1>1, <2>1, LetGoKeeps DEF UserSteps, Holding
<1>3. CASE IsKept(u)
  <2>1. hold[u] \in PoolWires /\ ~down /\ open' = open /\ list' = Append(list, hold[u])
    BY Zenon, <1>3 DEF Store, IsKept, PoolInv, PoolTypeOK
  <2>2. list \in Seq(PoolWires) /\ Distinct(list) /\ hold[u] \notin ToSet(list)
    BY Zenon, <2>1 DEF PoolInv, PoolTypeOK, WireHasOneOwner, Distinct
  <2>3. list' \in Seq(PoolWires) /\ Distinct(list') /\ ToSet(list') = ToSet(list) \cup {hold[u]}
    BY Zenon, <2>1, <2>2, AppendIs
  <2>4. hold'[u] = NoWire /\ upc'[u] = "signal" /\ \A v \in Users \ {u} : hold'[v] = hold[v] /\ upc'[v] = upc[v]
    BY Zenon, <1>1 DEF PoolInv, PoolTypeOK
  <2>5. PoolTypeOK'
    BY Zenon, <1>1, <2>1, <2>3 DEF PoolInv, PoolTypeOK, UserSteps, Marks
  <2>6. WireHasOneOwner'
    BY <2>1, <2>3, <2>4 DEF PoolInv, WireHasOneOwner, Distinct
  <2>7. /\ (\A v \in Users : upc[v] \notin Holding => hold[v] = NoWire)'
        /\ (\A v \in waiters : v \in Users /\ upc[v] = "waiting")'
    BY Zenon, <1>1, <2>4 DEF PoolInv
  <2>8. (\A x \in open : x \in ToSet(list) \/ x \in leaked \/ \E v \in Users : hold[v] = x)'
    BY <1>1, <2>1, <2>3, <2>4 DEF PoolInv
  <2> QED
    BY Zenon, <1>1, <2>1, <2>5, <2>6, <2>7, <2>8 DEF PoolInv
<1> QED
  BY Zenon, <1>2, <1>3

\* Waiters that are woken begin again, without a wire.
LEMMA WakeKeeps ==
    ASSUME PoolInv, (\E u \in Users : Signal(u) \/ WatchBroadcast(u)) \/ CloseBroadcast
    PROVE  PoolInv'
<1>1. ASSUME NEW u \in Users, Signal(u), waiters = {}
      PROVE  PoolInv'
  <2>1. /\ hold' = [hold EXCEPT ![u] = NoWire] /\ upc' = [upc EXCEPT ![u] = "idle"] /\ waiters' = waiters
        /\ upc[u] = "signal" /\ hold[u] = NoWire
    BY Zenon, <1>1 DEF Signal, Leave, UserAt, PoolInv, Holding
  <2>2. hold' = hold
    BY Zenon, <2>1 DEF PoolInv, PoolTypeOK
  <2> QED
    BY Zenon, <1>1, <2>1, <2>2, MovesOn DEF Signal, stateVars, poolWireVars, UserSteps
<1>2. ASSUME NEW u \in Users, Signal(u), waiters # {}
      PROVE  PoolInv'
  <2>1. PICK v \in waiters : waiters' = waiters \ {v} /\ upc' = [upc EXCEPT ![v] = "retry", ![u] = "idle"] /\ hold' = hold
    BY Zenon, <1>2 DEF Signal
  <2>2. /\ v \in Users /\ upc[v] = "waiting" /\ upc[u] = "signal" /\ hold[u] = NoWire /\ hold[v] = NoWire
        /\ \A x \in waiters : x \in Users /\ upc[x] = "waiting"
    BY Zenon, <1>2 DEF Signal, PoolInv, Holding
  <2>3. upc' \in [Users -> UserSteps] /\ \A x \in Users : upc'[x] = IF x = u THEN "idle" ELSE IF x = v THEN "retry" ELSE upc[x]
    BY Zenon, <2>1, <2>2 DEF PoolInv, PoolTypeOK, UserSteps
  <2>4. list' = list /\ down' = down /\ leaked' = leaked /\ stopper' = stopper /\ open' = open
    BY Zenon, <1>2 DEF Signal, stateVars, poolWireVars
  <2>5. PoolTypeOK' /\ WireHasOneOwner'
    BY Zenon, <2>1, <2>3, <2>4 DEF PoolInv, PoolTypeOK, WireHasOneOwner
  <2>6. /\ (\A x \in Users : upc[x] \notin Holding => hold[x] = NoWire)'
        /\ (\A x \in waiters : x \in Users /\ upc[x] = "waiting")'
    BY Zenon, <2>1, <2>2, <2>3 DEF PoolInv
  <2> QED
    BY Zenon, <2>1, <2>4, <2>5, <2>6 DEF PoolInv
<1>3. ASSUME WakeAll, UNCHANGED <<list, down, hold, leaked, open>>, stopper' # "idle" => down
      PROVE  PoolInv'
  <2>1. upc' \in [Users -> UserSteps] /\ \A x \in Users : upc'[x] = upc[x] \/ (upc'[x] = "retry" /\ hold[x] = NoWire)
    BY Zenon, <1>3 DEF WakeAll, PoolInv, PoolTypeOK, UserSteps, Holding
  <2>2. PoolTypeOK' /\ WireHasOneOwner'
    BY Zenon, <1>3, <2>1 DEF PoolInv, PoolTypeOK, WireHasOneOwner
  <2> QED
    BY Zenon, <1>3, <2>1, <2>2 DEF WakeAll, PoolInv
<1>4. CASE CloseBroadcast
  BY Zenon, <1>3, <1>4 DEF CloseBroadcast, PoolInv, stateVars, poolWireVars
<1>5. ASSUME NEW u \in Users, WatchBroadcast(u)
      PROVE  PoolInv'
  BY Zenon, <1>3, <1>5 DEF WatchBroadcast, PoolInv, stateVars, poolWireVars
<1> QED
  BY Zenon, <1>1, <1>2, <1>4, <1>5

\* Close, the cleanup of idle wires, and what closes a wire under its user.
LEMMA ClosingKeeps ==
    ASSUME PoolInv,
           ClosePool \/ RemoveIdleConns \/ \E con \in PoolWires : WireBreaks(con) \/ LifetimeFires(con) \/ Expired(con)
    PROVE  PoolInv'
<1>1. CASE ClosePool
  <2>1. /\ down' = TRUE /\ open' = open \ ToSet(list) /\ list' = list
        /\ waiters' = waiters /\ upc' = upc /\ hold' = hold /\ leaked' = leaked
    BY Zenon, <1>1 DEF ClosePool, CloseWires, userVars
  <2>2. PoolTypeOK' /\ WireHasOneOwner'
    BY Zenon, <2>1 DEF PoolInv, PoolTypeOK, WireHasOneOwner
  <2> QED
    BY Zenon, <2>1, <2>2 DEF PoolInv
<1>2. CASE RemoveIdleConns
  <2>1. list \in Seq(PoolWires) /\ Len(list) \in Nat /\ Distinct(list) /\ MinSize \in Nat
    BY DEF PoolInv, PoolTypeOK, WireHasOneOwner, Distinct
  <2>2. PICK n : n = IF MinSize < Len(list) THEN MinSize ELSE Len(list)
    BY Zenon
  <2>3. n \in 0..Len(list)
    BY <2>1, <2>2
  <2>4. /\ list' = SubSeq(list, 1, n) /\ open' = open \ After(list, n)
        /\ down' = down /\ waiters' = waiters /\ upc' = upc /\ hold' = hold /\ leaked' = leaked /\ stopper' = stopper
    BY Zenon, <1>2, <2>2 DEF RemoveIdleConns, CloseWires, userVars, After
  <2>5. list' \in Seq(PoolWires) /\ Distinct(list') /\ ToSet(list) = ToSet(list') \cup After(list, n)
    BY <2>1, <2>3, <2>4, PrefixIs, Zenon
  <2>6. PoolTypeOK' /\ WireHasOneOwner'
    BY Zenon, <2>4, <2>5 DEF PoolInv, PoolTypeOK, WireHasOneOwner, Distinct
  <2> QED
    BY Zenon, <2>4, <2>5, <2>6 DEF PoolInv
<1>3. ASSUME NEW con \in PoolWires, WireBreaks(con) \/ LifetimeFires(con) \/ Expired(con)
      PROVE  PoolInv'
  <2>1. /\ open' \subseteq open /\ list' = list /\ down' = down
        /\ waiters' = waiters /\ upc' = upc /\ hold' = hold /\ leaked' = leaked /\ stopper' = stopper
    BY Zenon, <1>3 DEF WireBreaks, LifetimeFires, Expired, CloseWires, stateVars, userVars
  <2>2. PoolTypeOK' /\ WireHasOneOwner'
    BY Zenon, <2>1 DEF PoolInv, PoolTypeOK, WireHasOneOwner
  <2> QED
    BY Zenon, <2>1, <2>2 DEF PoolInv
<1> QED
  BY Zenon, <1>1, <1>2, <1>3

\* One step of the pool, of a user or of a timer.
LEMMA StepKeepsPool ==
    ASSUME PoolInv, [PoolNext]_poolVars
    PROVE  PoolInv'
<1>1. CASE UNCHANGED <<list, down, waiters, open, upc, hold, leaked, stopper>>
  <2>1. PoolTypeOK' /\ WireHasOneOwner'
    BY Zenon, <1>1 DEF PoolInv, PoolTypeOK, WireHasOneOwner
  <2> QED
    BY Zenon, <1>1, <2>1 DEF PoolInv
<1>2. CASE UNCHANGED poolVars
  BY Zenon, <1>1, <1>2 DEF poolVars, stateVars, poolWireVars, userVars
<1>3. ASSUME NEW u \in Users, CtxDone(u) \/ WatchFires(u)
      PROVE  PoolInv'
  BY Zenon, <1>1, <1>3 DEF CtxDone, WatchFires, stateVars, poolWireVars, userVars
<1>4. CASE CleanupFires
  BY Zenon, <1>1, <1>4 DEF CleanupFires, poolWireVars, userVars
<1>5. ASSUME NEW u \in Users, Acquire(u) \/ User(u) \/ WatchBroadcast(u)
      PROVE  PoolInv'
  BY <1>5, WaitKeeps, MakeKeeps, TakeIdleKeeps, UseKeeps, StoreKeeps, WakeKeeps, Zenon DEF User
<1>6. CASE ClosePool \/ CloseBroadcast \/ RemoveIdleConns \/ \E con \in PoolWires : WireBreaks(con) \/ LifetimeFires(con) \/ Expired(con)
  BY <1>6, ClosingKeeps, WakeKeeps, Zenon
<1> QED
  BY <1>2, <1>3, <1>4, <1>5, <1>6, Zenon DEF PoolNext, PoolDone

\* What the invariant says after Close, when the users are done: what is open was leaked.
LEMMA NothingOpen ==
    ASSUME PoolInv
    PROVE  CloseLeavesNothingOpen
<1> SUFFICES ASSUME stopper = "done", \A u \in Users : upc[u] = "idle", NEW con \in open
             PROVE  con \in leaked
  BY Zenon DEF CloseLeavesNothingOpen
<1>1. \A u \in Users : hold[u] = NoWire
  BY Zenon DEF PoolInv, Holding
<1>2. con \in PoolWires /\ con # NoWire /\ con \notin ToSet(list)
  BY Zenon DEF PoolInv, PoolTypeOK
<1> QED
  BY Zenon, <1>1, <1>2 DEF PoolInv

\* The invariant holds in every state of the pool.
LEMMA PoolHolds == PoolSpec => []PoolInv
  BY InitPool, StepKeepsPool, PTL DEF PoolSpec

\* However users acquire and store, and whenever wires break, expire or are cleaned up and the pool
\* is closed: no wire has two owners.
THEOREM WiresOwned == PoolSpec => []WireHasOneOwner
<1>1. PoolInv => WireHasOneOwner
  BY Zenon DEF PoolInv
<1> QED
  BY <1>1, PoolHolds, PTL

\* In the same circumstances: after Close, when the users are done, no wire is open but those that
\* streams dropped, also not one that was being made while the pool was closed.
THEOREM ClosedIsEmpty == PoolSpec => []CloseLeavesNothingOpen
<1>1. PoolInv => CloseLeavesNothingOpen
  BY Zenon, NothingOpen
<1> QED
  BY <1>1, PoolHolds, PTL

-----------------------------------------------------------------------------
(* The capacity.  A blocking command whose context is done stores a dead      *)
(* pipe that was not counted; without such commands size counts what is open. *)

BlockingUndone == \A x \in Uses : x.ctx => x.op = "stream"

\* The users whose connection is in size: it is being made, or was made or failed to be.
Counted == {u \in Users : upc[u] = "make" \/ hold[u] \in PoolWires \cup {"dial"}}

\* What users know: a dead pipe for a done context goes to streams only, which do not store it, and
\* a dead pipe for a closed pool says that it is closed.
UseIs(u) ==
    /\ upc[u] = "idle" => ~ctxDone[u]
    /\ upc[u] # "idle" => use[u] \in Uses
    /\ ctxDone[u] => use[u].ctx
    /\ hold[u] = "ctx" => upc[u] = "got" /\ ctxDone[u] /\ use[u].op = "stream"
    /\ hold[u] = "down" => down
    /\ upc[u] \in Holding => hold[u] # NoWire

UsesInv ==
    /\ DOMAIN use = Users /\ DOMAIN ctxDone = Users
    /\ \A u \in Users : UseIs(u)

\* While the pool is up, size counts at least the idle connections, those of users and the dropped
\* ones; when it is down nobody is added.
CountInv ==
    /\ size \in Int /\ IsFiniteSet(Counted) /\ IsFiniteSet(leaked)
    /\ ~down => Cardinality(Counted) + Cardinality(leaked) + Len(list) <= size /\ size <= Cap
    /\ down => Cardinality(Counted) + Cardinality(leaked) <= Cap

\* Users and contexts: one user's step.
LEMMA OneUserKeeps ==
    ASSUME UsesInv, NEW u \in Users, DOMAIN use' = Users, DOMAIN ctxDone' = Users, UseIs(u)', down => down',
           \A v \in Users \ {u} : upc'[v] = upc[v] /\ use'[v] = use[v] /\ ctxDone'[v] = ctxDone[v] /\ hold'[v] = hold[v]
    PROVE  UsesInv'
<1>1. \A v \in Users \ {u} : UseIs(v)'
  BY Zenon DEF UsesInv, UseIs
<1> QED
  BY Zenon, <1>1 DEF UsesInv

\* Users and contexts: Acquire.
LEMMA AcquireKeepsUses ==
    ASSUME BlockingUndone, PoolInv, UsesInv, NEW u \in Users,
           Acquire(u) \/ CheckFull(u) \/ Park(u) \/ AcquireDead(u) \/ AcquireNew(u) \/ AcquireIdle(u)
    PROVE  UsesInv'
<1>1. /\ DOMAIN upc = Users /\ DOMAIN hold = Users /\ DOMAIN use = Users /\ DOMAIN ctxDone = Users
      /\ UseIs(u)
      /\ upc[u] \notin Holding => hold[u] = NoWire
  BY Zenon DEF PoolInv, PoolTypeOK, UsesInv
<1> SUFFICES /\ DOMAIN use' = Users /\ DOMAIN ctxDone' = Users /\ UseIs(u)' /\ down' = down
             /\ \A v \in Users \ {u} : /\ upc'[v] = upc[v] /\ use'[v] = use[v]
                                        /\ ctxDone'[v] = ctxDone[v] /\ hold'[v] = hold[v]
  BY Zenon, OneUserKeeps
<1>2. CASE Acquire(u)
  BY Zenon, <1>1, <1>2 DEF Acquire, Free, UserAt, UseIs, Holding, stateVars
<1>3. CASE CheckFull(u)
  BY Zenon, <1>1, <1>3 DEF CheckFull, UserAt, UseIs, Holding, stateVars
<1>4. CASE Park(u)
  BY Zenon, <1>1, <1>4 DEF Park, UserAt, UseIs, Holding, stateVars
<1>5. CASE AcquireDead(u)
  <2>1. PICK d : d = IF ctxDone[u] THEN "ctx" ELSE "down"
    BY Zenon
  <2>2. /\ hold' = [hold EXCEPT ![u] = d] /\ upc' = [upc EXCEPT ![u] = "got"] /\ upc[u] = "retry"
        /\ use' = use /\ ctxDone' = ctxDone /\ down' = down
    BY Zenon, <1>5, <2>1 DEF AcquireDead, Got, UserAt, stateVars
  <2>3. (d = "ctx" /\ ctxDone[u] /\ use[u].op = "stream") \/ (d = "down" /\ down)
    <3>1. CASE ctxDone[u]
      BY Zenon, <1>1, <2>1, <2>2, <3>1 DEF UseIs, BlockingUndone
    <3>2. CASE ~ctxDone[u]
      BY Zenon, <1>5, <2>1, <3>2 DEF AcquireDead
    <3> QED
      BY Zenon, <3>1, <3>2
  <2> QED
    BY Zenon, <1>1, <2>2, <2>3 DEF UseIs, Holding
<1>6. CASE AcquireNew(u)
  BY Zenon, <1>1, <1>6 DEF AcquireNew, UserAt, UseIs, Holding
<1>7. CASE AcquireIdle(u)
  <2>1. list[Len(list)] \in PoolWires
    BY <1>7 DEF AcquireIdle, PoolInv, PoolTypeOK
  <2> QED
    BY Zenon, <1>1, <1>7, <2>1 DEF AcquireIdle, Got, UserAt, UseIs, Holding
<1> QED
  BY Zenon, <1>2, <1>3, <1>4, <1>5, <1>6, <1>7

\* Users and contexts: from the connection to Store, and the context of a use.
LEMMA UserKeepsUses ==
    ASSUME PoolInv, UsesInv, NEW u \in Users,
           Make(u) \/ Check(u) \/ Discard(u) \/ Work(u) \/ DropStream(u) \/ Store(u) \/ CtxDone(u)
    PROVE  UsesInv'
<1>1. /\ DOMAIN upc = Users /\ hold \in [Users -> PoolWires \cup Marks] /\ DOMAIN use = Users /\ DOMAIN ctxDone = Users
      /\ UseIs(u)
      /\ upc[u] \notin Holding => hold[u] = NoWire
  BY Zenon DEF PoolInv, PoolTypeOK, UsesInv
<1> SUFFICES /\ DOMAIN use' = Users /\ DOMAIN ctxDone' = Users /\ UseIs(u)' /\ down' = down
             /\ \A v \in Users \ {u} : /\ upc'[v] = upc[v] /\ use'[v] = use[v]
                                        /\ ctxDone'[v] = ctxDone[v] /\ hold'[v] = hold[v]
  BY Zenon, OneUserKeeps
<1>2. CASE Make(u)
  <2>1. PICK d \in PoolWires \cup {"dial"}, l \in {"made", "got"} :
            /\ hold' = [hold EXCEPT ![u] = d] /\ upc' = [upc EXCEPT ![u] = l]
            /\ use' = use /\ ctxDone' = ctxDone /\ down' = down /\ upc[u] = "make"
    BY Zenon, <1>2 DEF Make, Got, UserAt, Unused, stateVars
  <2> QED
    BY Zenon, <1>1, <2>1 DEF UseIs, Holding
<1>3. CASE Check(u)
  <2>1. PICK l \in {"stale", "got"} :
            /\ hold' = hold /\ upc' = [upc EXCEPT ![u] = l]
            /\ use' = use /\ ctxDone' = ctxDone /\ down' = down /\ upc[u] = "made"
    BY Zenon, <1>1, <1>3 DEF Check, Got, UserAt, stateVars
  <2> QED
    BY Zenon, <1>1, <2>1 DEF UseIs, Holding
<1>4. CASE Discard(u)
  BY Zenon, <1>1, <1>4 DEF Discard, UserAt, UseIs, Holding
<1>5. CASE Work(u)
  BY Zenon, <1>1, <1>5 DEF Work, UserAt, UseIs, Holding, stateVars
<1>6. CASE DropStream(u)
  BY Zenon, <1>1, <1>6 DEF DropStream, Leave, UserAt, UseIs, Holding, stateVars
<1>7. CASE Store(u)
  BY Zenon, <1>1, <1>7 DEF Store, UserAt, UseIs, Holding
<1>8. CASE CtxDone(u)
  BY Zenon, <1>1, <1>8 DEF CtxDone, UseIs, Holding, stateVars
<1> QED
  BY Zenon, <1>2, <1>3, <1>4, <1>5, <1>6, <1>7, <1>8

\* Waiters that are woken: neither their uses nor the count of connections change.
LEMMA WokenKeepUses ==
    ASSUME PoolInv, UsesInv, (\E u \in Users : Signal(u) \/ WatchBroadcast(u)) \/ CloseBroadcast
    PROVE  UsesInv' /\ Counted' = Counted
<1>1. /\ DOMAIN upc = Users /\ hold \in [Users -> PoolWires \cup Marks] /\ DOMAIN use = Users /\ DOMAIN ctxDone = Users
      /\ \A v \in Users : UseIs(v) /\ (upc[v] \notin Holding => hold[v] = NoWire)
      /\ \A v \in waiters : v \in Users /\ upc[v] = "waiting"
  BY Zenon DEF PoolInv, PoolTypeOK, UsesInv
<1>2. ASSUME WakeAll, UNCHANGED <<use, hold, ctxDone, down>>
      PROVE  UsesInv' /\ Counted' = Counted
  <2>1. \A v \in Users : upc'[v] = upc[v] \/ (upc[v] = "waiting" /\ upc'[v] = "retry")
    BY Zenon, <1>1, <1>2 DEF WakeAll
  <2>2. \A v \in Users : UseIs(v)'
    BY Zenon, <1>1, <1>2, <2>1 DEF UseIs, Holding
  <2> QED
    BY Zenon, <1>1, <1>2, <2>1, <2>2 DEF UsesInv, Counted
<1>3. ASSUME NEW u \in Users, Signal(u), waiters = {}
      PROVE  UsesInv' /\ Counted' = Counted
  <2>1. /\ upc[u] = "signal" /\ hold[u] = NoWire /\ hold' = hold /\ down' = down
        /\ upc' = [upc EXCEPT ![u] = "idle"] /\ use' = [use EXCEPT ![u] = NoWire]
        /\ ctxDone' = [ctxDone EXCEPT ![u] = FALSE]
    BY Zenon, <1>1, <1>3 DEF Signal, Leave, UserAt, stateVars, Holding
  <2>2. UseIs(u)'
    BY Zenon, <1>1, <2>1 DEF UseIs, Holding
  <2> QED
    BY Zenon, <1>1, <2>1, <2>2, OneUserKeeps DEF Counted
<1>4. ASSUME NEW u \in Users, Signal(u), waiters # {}
      PROVE  UsesInv' /\ Counted' = Counted
  <2>1. PICK z \in waiters : upc' = [upc EXCEPT ![z] = "retry", ![u] = "idle"]
    BY Zenon, <1>4 DEF Signal
  <2>2. /\ upc[u] = "signal" /\ hold[u] = NoWire /\ hold' = hold /\ down' = down
        /\ use' = [use EXCEPT ![u] = NoWire] /\ ctxDone' = [ctxDone EXCEPT ![u] = FALSE]
        /\ upc[z] = "waiting" /\ z \in Users
    BY Zenon, <1>1, <1>4 DEF Signal, stateVars, Holding
  <2>3. \A v \in Users : upc'[v] = IF v = u THEN "idle" ELSE IF v = z THEN "retry" ELSE upc[v]
    BY Zenon, <1>1, <2>1, <2>2
  <2>4. \A v \in Users : UseIs(v)'
    BY Zenon, <1>1, <2>2, <2>3 DEF UseIs, Holding
  <2> QED
    BY Zenon, <1>1, <2>2, <2>3, <2>4 DEF UsesInv, Counted
<1>5. CASE CloseBroadcast
  BY Zenon, <1>2, <1>5 DEF CloseBroadcast, stateVars
<1>6. ASSUME NEW u \in Users, WatchBroadcast(u)
      PROVE  UsesInv' /\ Counted' = Counted
  BY Zenon, <1>2, <1>6 DEF WatchBroadcast, stateVars
<1> QED
  BY Zenon, <1>3, <1>4, <1>5, <1>6

\* The count of users: only u's step changes it, by one.
LEMMA CountIs ==
    ASSUME IsFiniteSet(Counted), NEW u \in Users,
           \A v \in Users \ {u} : upc'[v] = upc[v] /\ hold'[v] = hold[v]
    PROVE  /\ IsFiniteSet(Counted') /\ Cardinality(Counted) \in Nat
           /\ (u \in Counted' <=> u \in Counted) => Cardinality(Counted') = Cardinality(Counted)
           /\ u \in Counted' /\ u \notin Counted => Cardinality(Counted') = Cardinality(Counted) + 1
           /\ u \notin Counted' /\ u \in Counted => Cardinality(Counted') = Cardinality(Counted) - 1
<1>1. \A v \in Users \ {u} : v \in Counted' <=> v \in Counted
  BY Zenon DEF Counted
<1>2. Counted \subseteq Users /\ Counted' \subseteq Users
  BY Zenon DEF Counted
<1>3. /\ (u \in Counted' <=> u \in Counted) => Counted' = Counted
      /\ u \in Counted' /\ u \notin Counted => Counted' = Counted \cup {u}
      /\ u \notin Counted' /\ u \in Counted => Counted' = Counted \ {u}
  BY <1>1, <1>2
<1> QED
  BY <1>3, FS_AddElement, FS_RemoveElement, FS_CardinalityType

\* The capacity: a step that leaves the counted users, the list and the dropped wires.
LEMMA QuietKeepsCount ==
    ASSUME CountInv, UNCHANGED <<size, list, leaked>>, down => down', Counted' = Counted, Len(list) \in Nat
    PROVE  CountInv'
<1>1. Cardinality(Counted) \in Nat /\ Cardinality(leaked) \in Nat
  BY Zenon, FS_CardinalityType DEF CountInv
<1> QED
  BY <1>1 DEF CountInv

\* The capacity: Acquire.
LEMMA AcquireKeepsCount ==
    ASSUME PoolInv, UsesInv, CountInv, NEW u \in Users,
           Acquire(u) \/ CheckFull(u) \/ Park(u) \/ AcquireDead(u) \/ AcquireNew(u) \/ AcquireIdle(u)
    PROVE  CountInv'
<1>1. /\ DOMAIN upc = Users /\ DOMAIN hold = Users /\ list \in Seq(PoolWires) /\ Len(list) \in Nat
      /\ upc[u] \notin Holding => hold[u] = NoWire
  BY DEF PoolInv, PoolTypeOK
<1>2. Cardinality(Counted) \in Nat /\ Cardinality(leaked) \in Nat /\ size \in Int /\ Cap \in Nat
  BY Zenon, FS_CardinalityType DEF CountInv
<1>3. CASE Acquire(u) \/ CheckFull(u) \/ Park(u)
  <2>1. PICK l \in {"retry", "park", "waiting"} : upc' = [upc EXCEPT ![u] = l] /\ hold' = hold /\ upc[u] # "make"
    BY Zenon, <1>3 DEF Acquire, Free, CheckFull, Park, UserAt
  <2>2. Counted' = Counted
    BY Zenon, <1>1, <2>1 DEF Counted
  <2> QED
    BY <1>1, <1>3, <2>2, QuietKeepsCount DEF Acquire, CheckFull, Park, stateVars
<1>4. CASE AcquireDead(u)
  <2>1. PICK d \in {"ctx", "down"} : /\ hold' = [hold EXCEPT ![u] = d]
                                    /\ upc' = [upc EXCEPT ![u] = "got"] /\ upc[u] = "retry"
    BY Zenon, <1>4 DEF AcquireDead, Got, UserAt
  <2>2. Counted' = Counted
    BY Zenon, <1>1, <2>1 DEF Counted, Holding
  <2> QED
    BY Zenon, <1>1, <1>4, <2>2, QuietKeepsCount DEF AcquireDead, stateVars
<1>5. CASE AcquireNew(u)
  <2>1. /\ upc' = [upc EXCEPT ![u] = "make"] /\ hold' = hold /\ upc[u] = "retry" /\ hold[u] = NoWire
        /\ size' = size + 1 /\ list' = list /\ down' = down /\ leaked' = leaked /\ ~down /\ size # Cap
    BY Zenon, <1>1, <1>5 DEF AcquireNew, UserAt, MustWait, Holding
  <2>2. u \in Counted' /\ u \notin Counted
    BY Zenon, <1>1, <2>1 DEF Counted
  <2>3. IsFiniteSet(Counted') /\ Cardinality(Counted') = Cardinality(Counted) + 1
    BY Zenon, <1>1, <2>1, <2>2, CountIs DEF CountInv
  <2> QED
    BY <1>1, <1>2, <2>1, <2>3 DEF CountInv
<1>6. CASE AcquireIdle(u)
  <2>1. /\ Len(list) # 0 /\ Len(list') = Len(list) - 1 /\ list[Len(list)] \in PoolWires
        /\ down' = down /\ leaked' = leaked /\ ~down /\ upc[u] = "retry" /\ hold[u] = NoWire
    <3>1. /\ list' = SubSeq(list, 1, Len(list) - 1) /\ list # <<>>
          /\ down' = down /\ leaked' = leaked /\ ~down /\ upc[u] = "retry"
      BY Zenon, <1>6 DEF AcquireIdle
    <3>2. Len(list) # 0 /\ Len(list) \in DOMAIN list
      BY <1>1, <3>1
    <3>3. list[Len(list)] \in PoolWires
      BY <1>1, <3>2
    <3>4. PICK n : n = Len(list) - 1
      BY Zenon
    <3>5. list' = SubSeq(list, 1, n) /\ n \in Nat /\ n <= Len(list)
      BY <1>1, <3>1, <3>2, <3>4
    <3>6. Len(list') = n
      BY <1>1, <3>5
    <3> QED
      BY Zenon, <1>1, <3>1, <3>2, <3>3, <3>4, <3>6 DEF Holding
  <2>2. CASE Got(u, list[Len(list)]) /\ size' = size
    <3>1. hold' = [hold EXCEPT ![u] = list[Len(list)]] /\ upc' = [upc EXCEPT ![u] = "got"]
      BY Zenon, <2>2 DEF Got, UserAt
    <3>2. u \in Counted' /\ u \notin Counted
      BY Zenon, <1>1, <2>1, <3>1 DEF Counted
    <3>3. IsFiniteSet(Counted') /\ Cardinality(Counted') = Cardinality(Counted) + 1
      BY Zenon, <1>1, <3>1, <3>2, CountIs DEF CountInv
    <3> QED
      BY <1>1, <1>2, <2>1, <2>2, <3>3 DEF CountInv
  <2>3. CASE size' = size - 1 /\ UNCHANGED <<upc, hold>>
    <3>1. Counted' = Counted
      BY Zenon, <2>3 DEF Counted
    <3> QED
      BY <1>1, <1>2, <2>1, <2>3, <3>1 DEF CountInv
  <2> QED
    BY Zenon, <1>6, <2>2, <2>3 DEF AcquireIdle
<1> QED
  BY Zenon, <1>3, <1>4, <1>5, <1>6

\* The capacity: what becomes of a connection that was counted.
LEMMA UserKeepsCount ==
    ASSUME PoolInv, UsesInv, CountInv, NEW u \in Users,
           Make(u) \/ Check(u) \/ Discard(u) \/ Work(u) \/ DropStream(u) \/ Store(u)
    PROVE  CountInv'
<1>1. /\ DOMAIN upc = Users /\ hold \in [Users -> PoolWires \cup Marks]
      /\ list \in Seq(PoolWires) /\ Len(list) \in Nat /\ UseIs(u)
      /\ upc[u] \notin Holding => hold[u] = NoWire
  BY DEF PoolInv, PoolTypeOK, UsesInv
<1>2. Cardinality(Counted) \in Nat /\ Cardinality(leaked) \in Nat /\ size \in Int /\ Cap \in Nat
  BY Zenon, FS_CardinalityType DEF CountInv
<1>3. upc[u] \in Holding \ {"got"} => u \in Counted \/ down
  BY Zenon, <1>1 DEF UseIs, Counted, Marks
<1>4. CASE Make(u)
  <2>1. PICK d \in PoolWires \cup {"dial"}, l \in {"made", "got"} :
            hold' = [hold EXCEPT ![u] = d] /\ upc' = [upc EXCEPT ![u] = l] /\ upc[u] = "make"
    BY Zenon, <1>4 DEF Make, Got, UserAt, Unused
  <2>2. Counted' = Counted
    BY Zenon, <1>1, <2>1 DEF Counted
  <2> QED
    BY Zenon, <1>1, <1>4, <2>2, QuietKeepsCount DEF Make, stateVars
<1>5. CASE Check(u) \/ Work(u)
  <2>1. PICK l \in {"stale", "got", "store"} : hold' = hold /\ upc' = [upc EXCEPT ![u] = l] /\ upc[u] # "make"
    BY Zenon, <1>1, <1>5 DEF Check, Work, Got, UserAt
  <2>2. Counted' = Counted
    BY Zenon, <1>1, <2>1 DEF Counted
  <2>3. UNCHANGED <<size, list, leaked, down>>
    BY Zenon, <1>5 DEF Check, Work, stateVars
  <2> QED
    BY Zenon, <1>1, <2>2, <2>3, QuietKeepsCount
<1>6. ASSUME hold' = [hold EXCEPT ![u] = NoWire], NEW l \in {"idle", "retry", "signal"}, upc' = [upc EXCEPT ![u] = l]
      PROVE  /\ IsFiniteSet(Counted') /\ Cardinality(Counted') \in Nat
             /\ u \in Counted => Cardinality(Counted') = Cardinality(Counted) - 1
             /\ u \notin Counted => Cardinality(Counted') = Cardinality(Counted)
  <2>1. u \notin Counted'
    BY Zenon, <1>1, <1>6 DEF Counted
  <2> QED
    BY Zenon, <1>1, <1>6, <2>1, CountIs, FS_CardinalityType DEF CountInv
<1>7. CASE Discard(u)
  <2>1. /\ hold' = [hold EXCEPT ![u] = NoWire] /\ upc' = [upc EXCEPT ![u] = "retry"] /\ upc[u] = "stale"
        /\ size' = size - 1 /\ list' = list /\ down' = down /\ leaked' = leaked
    BY Zenon, <1>7 DEF Discard, UserAt
  <2> QED
    BY <1>1, <1>2, <1>3, <1>6, <2>1 DEF CountInv, Holding
<1>8. CASE Store(u)
  <2>1. /\ hold' = [hold EXCEPT ![u] = NoWire] /\ upc' = [upc EXCEPT ![u] = "signal"] /\ upc[u] = "store"
        /\ down' = down /\ leaked' = leaked
    BY Zenon, <1>8 DEF Store, UserAt
  <2>2. \/ size' = size - 1 /\ list' = list
        \/ size' = size /\ Len(list') = Len(list) + 1 /\ ~down
    BY <1>1, <1>8 DEF Store, IsKept
  <2> QED
    BY <1>1, <1>2, <1>3, <1>6, <2>1, <2>2 DEF CountInv, Holding
<1>9. CASE DropStream(u)
  <2>1. /\ hold' = [hold EXCEPT ![u] = NoWire] /\ upc' = [upc EXCEPT ![u] = "idle"]
        /\ size' = size /\ list' = list /\ down' = down
        /\ leaked' = IF hold[u] \in PoolWires THEN leaked \cup {hold[u]} ELSE leaked
    BY Zenon, <1>9 DEF DropStream, Leave, UserAt, stateVars
  <2>2. hold[u] \in PoolWires => u \in Counted
    BY Zenon DEF Counted
  <2>3. IsFiniteSet(leaked') /\ Cardinality(leaked') \in Nat
    BY Zenon, <2>1, FS_AddElement, FS_CardinalityType DEF CountInv
  <2>4. \/ hold[u] \in PoolWires /\ Cardinality(leaked') <= Cardinality(leaked) + 1
        \/ leaked' = leaked
    <3>1. CASE hold[u] \in PoolWires
      <4>1. Cardinality(leaked \cup {hold[u]}) = IF hold[u] \in leaked THEN Cardinality(leaked) ELSE Cardinality(leaked) + 1
        BY Zenon, FS_AddElement DEF CountInv
      <4> QED
        BY <1>2, <2>1, <3>1, <4>1
    <3>2. CASE hold[u] \notin PoolWires
      BY Zenon, <2>1, <3>2
    <3> QED
      BY Zenon, <3>1, <3>2
  <2>5. /\ IsFiniteSet(Counted') /\ Cardinality(Counted') \in Nat
        /\ Cardinality(Counted') + Cardinality(leaked') <= Cardinality(Counted) + Cardinality(leaked)
    <3>1. /\ IsFiniteSet(Counted') /\ Cardinality(Counted') \in Nat
          /\ u \in Counted => Cardinality(Counted') = Cardinality(Counted) - 1
          /\ u \notin Counted => Cardinality(Counted') = Cardinality(Counted)
      BY Zenon, <1>6, <2>1
    <3>2. CASE hold[u] \in PoolWires /\ Cardinality(leaked') <= Cardinality(leaked) + 1
      BY <1>2, <2>2, <2>3, <3>1, <3>2
    <3>3. CASE leaked' = leaked
      BY <1>2, <3>1, <3>3
    <3> QED
      BY Zenon, <2>4, <3>2, <3>3
  <2> QED
    BY <1>1, <1>2, <2>1, <2>3, <2>5 DEF CountInv
<1> QED
  BY Zenon, <1>4, <1>5, <1>7, <1>8, <1>9

\* The capacity: Close ends the count, and idle connections are taken off it.
LEMMA ClosingKeepsCount ==
    ASSUME PoolInv, CountInv, ClosePool \/ RemoveIdleConns
    PROVE  CountInv'
<1>1. /\ list \in Seq(PoolWires) /\ Len(list) \in Nat /\ Cardinality(Counted) \in Nat /\ Cardinality(leaked) \in Nat
      /\ size \in Int /\ Cap \in Nat
  BY FS_CardinalityType DEF PoolInv, PoolTypeOK, CountInv
<1>2. Counted' = Counted /\ leaked' = leaked
  BY Zenon DEF ClosePool, RemoveIdleConns, userVars, Counted
<1>3. CASE ClosePool
  BY <1>1, <1>2, <1>3 DEF ClosePool, CountInv
<1>4. CASE RemoveIdleConns
  <2>1. PICK n : n = IF MinSize < Len(list) THEN MinSize ELSE Len(list)
    BY Zenon
  <2>2. n \in Nat /\ n <= Len(list)
    BY <1>1, <2>1
  <2>3. list' = SubSeq(list, 1, n) /\ size' = size - (Len(list) - n) /\ down' = down
    BY Zenon, <1>4, <2>1 DEF RemoveIdleConns
  <2>4. Len(list') = n
    BY <1>1, <2>2, <2>3
  <2> QED
    BY <1>1, <1>2, <2>2, <2>3, <2>4 DEF CountInv
<1> QED
  BY Zenon, <1>3, <1>4

CapInv == PoolInv /\ UsesInv /\ CountInv

\* The capacity: one step.
LEMMA StepKeepsCap ==
    ASSUME BlockingUndone, CapInv, [PoolNext]_poolVars
    PROVE  CapInv'
<1> USE DEF CapInv
<1>1. PoolInv' /\ Len(list) \in Nat
  BY StepKeepsPool DEF PoolInv, PoolTypeOK
<1>2. ASSUME UNCHANGED <<upc, hold, use, ctxDone, size, list, leaked>>, down => down'
      PROVE  UsesInv' /\ CountInv'
  <2>1. Counted' = Counted
    BY Zenon, <1>2 DEF Counted
  <2>2. \A u \in Users : UseIs(u)'
    BY Zenon, <1>2 DEF UsesInv, UseIs
  <2> QED
    BY Zenon, <1>1, <1>2, <2>1, <2>2, QuietKeepsCount DEF UsesInv
<1>3. ASSUME NEW u \in Users, Acquire(u) \/ User(u)
      PROVE  UsesInv' /\ CountInv'
  <2>1. ASSUME Signal(u)
        PROVE  UsesInv' /\ CountInv'
    <3>1. UNCHANGED <<size, list, leaked, down>>
      BY Zenon, <2>1 DEF Signal, stateVars
    <3> QED
      BY Zenon, <1>1, <2>1, <3>1, WokenKeepUses, QuietKeepsCount
  <2> QED
    BY <1>3, <2>1, AcquireKeepsUses, UserKeepsUses, AcquireKeepsCount, UserKeepsCount, Zenon DEF User
<1>4. ASSUME NEW u \in Users, CtxDone(u)
      PROVE  UsesInv' /\ CountInv'
  <2>1. UNCHANGED <<size, list, leaked, down>> /\ Counted' = Counted
    BY Zenon, <1>4 DEF CtxDone, stateVars, Counted
  <2> QED
    BY Zenon, <1>1, <1>4, <2>1, UserKeepsUses, QuietKeepsCount
<1>5. CASE CloseBroadcast \/ \E u \in Users : WatchBroadcast(u)
  <2>1. UNCHANGED <<size, list, leaked, down>>
    BY Zenon, <1>5 DEF CloseBroadcast, WatchBroadcast, stateVars
  <2> QED
    BY Zenon, <1>1, <1>5, <2>1, WokenKeepUses, QuietKeepsCount
<1>6. CASE ClosePool \/ RemoveIdleConns
  <2>1. UNCHANGED userVars /\ (down => down')
    BY <1>6 DEF ClosePool, RemoveIdleConns
  <2>2. UsesInv'
    BY Zenon, <2>1 DEF UsesInv, UseIs, userVars
  <2> QED
    BY Zenon, <1>1, <1>6, <2>2, ClosingKeepsCount
<1>7. CASE UNCHANGED poolVars \/ CleanupFires \/ \E u \in Users : WatchFires(u)
  BY <1>1, <1>2, <1>7 DEF poolVars, CleanupFires, WatchFires, stateVars, userVars
<1>8. CASE \E con \in PoolWires : WireBreaks(con) \/ LifetimeFires(con) \/ Expired(con)
  BY <1>1, <1>2, <1>8 DEF WireBreaks, LifetimeFires, Expired, stateVars, userVars
<1> QED
  BY <1>1, <1>3, <1>4, <1>5, <1>6, <1>7, <1>8, Zenon DEF PoolNext, PoolDone

\* There are at most as many held wires as counted users.
LEMMA HeldCount ==
    ASSUME IsFiniteSet(Counted), NEW H, H = {x \in PoolWires : \E u \in Users : hold[u] = x}
    PROVE  IsFiniteSet(H) /\ Cardinality(H) <= Cardinality(Counted)
<1> DEFINE C == {u \in Counted : hold[u] \in PoolWires}
           f == [u \in C |-> hold[u]]
<1>1. IsFiniteSet(C) /\ Cardinality(C) <= Cardinality(Counted)
  BY Zenon, FS_Subset
<1>2. f \in Surjection(C, H)
  BY Zenon DEF Surjection, Counted
<1>3. IsFiniteSet(H) /\ Cardinality(H) <= Cardinality(C)
  BY Zenon, <1>1, <1>2, FS_Surjection
<1> QED
  BY <1>1, <1>3, FS_CardinalityType

\* What the count says of the open connections.
LEMMA OpenCount ==
    ASSUME CapInv
    PROVE  WithinCap
<1> DEFINE H == {x \in PoolWires : \E u \in Users : hold[u] = x}
           L == IF down THEN {} ELSE ToSet(list)
<1>1. /\ IsFiniteSet(Counted) /\ IsFiniteSet(leaked) /\ list \in Seq(PoolWires) /\ Len(list) \in Nat
      /\ Cardinality(Counted) \in Nat /\ Cardinality(leaked) \in Nat /\ size \in Int /\ Cap \in Nat
  BY FS_CardinalityType DEF CapInv, CountInv, PoolInv, PoolTypeOK
<1>2. IsFiniteSet(H) /\ Cardinality(H) <= Cardinality(Counted) /\ Cardinality(H) \in Nat
  BY Zenon, <1>1, HeldCount, FS_CardinalityType
<1>3. /\ IsFiniteSet(L) /\ Cardinality(L) \in Nat
      /\ Cardinality(L) + Cardinality(leaked) + Cardinality(Counted) <= Cap
  <2>1. CASE down
    BY <1>1, <2>1, FS_EmptySet DEF CapInv, CountInv
  <2>2. CASE ~down
    BY <1>1, <2>2, ListCount, FS_CardinalityType DEF CapInv, CountInv
  <2> QED
    BY Zenon, <2>1, <2>2
<1>4. open \subseteq (L \cup leaked) \cup H
  BY Zenon DEF CapInv, PoolInv, PoolTypeOK
<1> HIDE DEF H, L
<1>5. /\ IsFiniteSet(L \cup leaked) /\ Cardinality(L \cup leaked) \in Nat
      /\ Cardinality(L \cup leaked) <= Cardinality(L) + Cardinality(leaked)
  BY Zenon, <1>1, <1>3, UnionCount
<1>6. /\ IsFiniteSet((L \cup leaked) \cup H) /\ Cardinality((L \cup leaked) \cup H) \in Nat
      /\ Cardinality((L \cup leaked) \cup H) <= Cardinality(L \cup leaked) + Cardinality(H)
  BY Zenon, <1>2, <1>5, UnionCount
<1>7. IsFiniteSet(open) /\ Cardinality(open) \in Nat /\ Cardinality(open) <= Cardinality((L \cup leaked) \cup H)
  BY Zenon, <1>4, <1>6, FS_Subset, FS_CardinalityType
<1> QED
  BY <1>1, <1>2, <1>3, <1>5, <1>6, <1>7 DEF WithinCap

\* However many users make, check, drop and store connections at once, and whatever fails: as long
\* as the context of no blocking command is done, no more connections are open than the capacity.
THEOREM CapKept ==
    ASSUME BlockingUndone
    PROVE  PoolSpec => []WithinCap
<1>1. PoolInit => CapInv
  <2> SUFFICES ASSUME PoolInit
               PROVE  UsesInv /\ CountInv
    BY Zenon, InitPool DEF CapInv
  <2>1. Counted = {} /\ leaked = {} /\ Len(list) = 0
    BY Zenon DEF PoolInit, Counted
  <2> QED
    BY <2>1, FS_EmptySet DEF PoolInit, UsesInv, UseIs, CountInv, Holding
<1>2. CapInv /\ [PoolNext]_poolVars => CapInv'
  BY Zenon, StepKeepsCap
<1>3. CapInv => WithinCap
  BY Zenon, OpenCount
<1> QED
  BY <1>1, <1>2, <1>3, PTL DEF PoolSpec
-----------------------------------------------------------------------------
(* mux.go: SingleConnection and NoOrphan *)

CallerSteps == {"idle", "load", "lock", "wait", "reload", "dial", "hook", "store", "clear", "publish", "do", "drop"}
Slot == Wires \cup Shared \cup {None}

\* The caller's singleconnect is the slot's, and its connection is not in the slot yet.
Leads(c) == pc[c] \in {"reload", "dial", "hook", "store", "clear"}
Connects(c) == pc[c] \in {"dial", "hook", "store"}
Carries(c) == pc[c] \in {"hook", "store"}

MuxTypeOK ==
    /\ pc \in [Callers -> CallerSteps] /\ w \in [Callers -> Slot] /\ leader \in [Callers -> Callers \cup {None}]
    /\ sc \in Callers \cup {None}
    /\ wire \in dialled \cup Shared
    /\ dialled \subseteq Wires /\ alive \subseteq dialled /\ due \subseteq dialled \ alive

\* One caller at a time connects, and while it does the slot is empty (or dead), because it looked
\* at the slot as the leader and only a leader fills it; what is open is in the slot, on its way
\* there, or swapped out by Close.
MuxInv ==
    /\ MuxTypeOK
    /\ \A c \in Callers : Leads(c) => sc = c
    /\ \A c \in Callers : Connects(c) => wire \in Shared
    /\ \A c \in Callers : leader[c] # None => pc[c] = "wait"
    /\ \A c \in Callers : Carries(c) => w[c] \in dialled
    /\ closer = "idle" => prev = None
    /\ closer = "close" => prev \in dialled
    /\ \A x \in alive : x \in {wire, prev} \/ \E c \in Callers : Carries(c) /\ w[c] = x

USE MuxAssumption, SharedAssumption

\* The invariant holds for a new mux and for one that took over a connection.
LEMMA InitMux == Init => MuxInv
<1> SUFFICES ASSUME Init
             PROVE  MuxInv
  BY Zenon
<1>1. wire \in dialled \cup Shared
  BY Zenon DEF Init, Shared
<1>2. MuxTypeOK
  BY Zenon, <1>1 DEF Init, MuxTypeOK, Slot, CallerSteps
<1> QED
  BY Zenon, <1>2 DEF Init, MuxInv, Leads, Connects, Carries

-----------------------------------------------------------------------------
\* The steps of _pipe before the dial: load, join, look again.
LEMMA JoinKeeps ==
    ASSUME MuxInv, NEW c \in Callers, Call(c) \/ Load(c) \/ Join(c) \/ Reload(c)
    PROVE  MuxInv'
<1>1. CASE Call(c)
  BY <1>1 DEF Call, Goto, MuxInv, MuxTypeOK, CallerSteps, Leads, Connects, Carries, wireVars
<1>2. CASE Load(c)
  BY <1>2 DEF Load, Take, Goto, MuxInv, MuxTypeOK, CallerSteps, Slot, Leads, Connects, Carries, wireVars,
              closeVars, Shared
<1>3. CASE Join(c)
  BY <1>3 DEF Join, Goto, MuxInv, MuxTypeOK, CallerSteps, Leads, Connects, Carries, wireVars, closeVars
<1>4. CASE Reload(c)
  BY <1>4 DEF Reload, Take, Goto, MuxInv, MuxTypeOK, CallerSteps, Slot, Leads, Connects, Carries, wireVars,
              closeVars, Shared
<1> QED
  BY Zenon, <1>1, <1>2, <1>3, <1>4

\* The leader dials, sets the close hook and stores its connection over an empty or dead slot.
LEMMA ConnectKeeps ==
    ASSUME MuxInv, NEW c \in Callers, Dial(c) \/ SetCloseHookOnWire(c) \/ StoreWire(c)
    PROVE  MuxInv'
<1>1. CASE Dial(c)
  <2>1. ASSUME NEW x \in Wires \ dialled, dialled' = dialled \cup {x}, alive' = alive \cup {x}, Take(c, x, "hook")
        PROVE  MuxInv'
    BY <1>1, <2>1 DEF Dial, Take, Goto, MuxInv, MuxTypeOK, CallerSteps, Slot, Leads, Connects, Carries,
                      closeVars
  <2>2. CASE Take(c, "dead", "clear") /\ UNCHANGED <<dialled, alive>>
    BY <1>1, <2>2 DEF Dial, Take, Goto, MuxInv, MuxTypeOK, CallerSteps, Slot, Leads, Connects, Carries,
                      closeVars, Shared
  <2>3. Wires # dialled => (CHOOSE y \in Wires \ dialled : TRUE) \in Wires \ dialled
    BY Zenon DEF MuxInv, MuxTypeOK
  <2> QED
    BY Zenon, <1>1, <2>1, <2>2, <2>3 DEF Dial
<1>2. CASE SetCloseHookOnWire(c)
  BY <1>2 DEF SetCloseHookOnWire, Goto, MuxInv, MuxTypeOK, CallerSteps, Leads, Connects, Carries, closeVars
<1>3. CASE StoreWire(c)
  BY <1>3 DEF StoreWire, Goto, MuxInv, MuxTypeOK, CallerSteps, Leads, Connects, Carries, wireVars, closeVars
<1> QED
  BY Zenon, <1>1, <1>2, <1>3

\* The leader leaves, its followers have its wire, and a caller drops a wire only once it is broken.
LEMMA DoKeeps ==
    ASSUME MuxInv, NEW c \in Callers, Clear(c) \/ Publish(c) \/ Do(c) \/ Return(c)
    PROVE  MuxInv'
<1>1. CASE Clear(c)
  BY <1>1 DEF Clear, Goto, MuxInv, MuxTypeOK, CallerSteps, Leads, Connects, Carries, wireVars, closeVars
<1>2. CASE Publish(c)
  BY <1>2 DEF Publish, Followers, MuxInv, MuxTypeOK, CallerSteps, Leads, Connects, Carries, wireVars, closeVars
<1>3. CASE Do(c)
  BY <1>3 DEF Do, Goto, MuxInv, MuxTypeOK, CallerSteps, Leads, Connects, Carries, wireVars, closeVars
<1>4. CASE Return(c)
  BY <1>4 DEF Return, IsBroken, ErrorOf, Drop, Goto, MuxInv, MuxTypeOK, CallerSteps, Slot, Leads, Connects,
              Carries, wireVars, Shared
<1> QED
  BY Zenon, <1>1, <1>2, <1>3, <1>4

\* The connection breaks, its close hook empties the slot only if the slot still holds it, and
\* Close swaps the slot before it closes what was there.
LEMMA CloseKeeps ==
    ASSUME MuxInv, (\E x \in Wires : Break(x) \/ CloseHook(x)) \/ Close \/ ClosePrev
    PROVE  MuxInv'
<1>1. ASSUME NEW x \in Wires, Break(x)
      PROVE  MuxInv'
  BY <1>1 DEF Break, SetError, MuxInv, MuxTypeOK, Leads, Connects, Carries, callerVars, closeVars
<1>2. ASSUME NEW x \in Wires, CloseHook(x)
      PROVE  MuxInv'
  BY <1>2 DEF CloseHook, Drop, MuxInv, MuxTypeOK, Slot, Leads, Connects, Carries, callerVars, closeVars, Shared
<1>3. CASE Close
  BY <1>3 DEF Close, MuxInv, MuxTypeOK, Slot, Leads, Connects, Carries, callerVars, wireVars, Shared
<1>4. CASE ClosePrev
  BY Zenon, <1>4 DEF ClosePrev, SetError, MuxInv, MuxTypeOK, Leads, Connects, Carries, callerVars
<1> QED
  BY Zenon, <1>1, <1>2, <1>3, <1>4

\* One step of a caller, a connection or Close.
LEMMA StepKeepsMux == MuxInv /\ [Next]_vars => MuxInv'
<1> SUFFICES ASSUME MuxInv, [Next]_vars
             PROVE  MuxInv'
  BY Zenon
<1>1. CASE UNCHANGED vars
  BY Zenon, <1>1 DEF vars, callerVars, wireVars, closeVars, MuxInv, MuxTypeOK, Leads, Connects, Carries
<1>2. CASE Next
  BY <1>1, <1>2, JoinKeeps, ConnectKeeps, DoKeeps, CloseKeeps, Zenon DEF Next, Caller, Done
<1> QED
  BY Zenon, <1>1, <1>2

\* What the invariant says of the open connections: none is orphaned, and there is at most one
\* as long as nobody closes the mux.
LEMMA OpenConnections == MuxInv => NoOrphan /\ SingleConnection
<1> SUFFICES ASSUME MuxInv
             PROVE  NoOrphan /\ SingleConnection
  BY Zenon
<1>1. NoOrphan
  BY DEF MuxInv, NoOrphan, Carries
<1>2. ASSUME closer = "idle", NEW x \in alive, NEW y \in alive
      PROVE  x = y
  BY <1>2 DEF MuxInv, MuxTypeOK, Leads, Connects, Carries
<1>3. ASSUME closer = "idle"
      PROVE  Cardinality(alive) <= 1
  <2>1. CASE alive = {}
    BY <2>1, FS_EmptySet
  <2>2. CASE alive # {}
    <3>1. PICK x : x \in alive
      BY Zenon, <2>2
    <3>2. alive = {x}
      BY Zenon, <1>2, <1>3, <3>1
    <3> QED
      BY <3>2, FS_Singleton
  <2> QED
    BY Zenon, <2>1, <2>2
<1> QED
  BY Zenon, <1>1, <1>3 DEF SingleConnection

\* The invariant holds in every state of the mux.
LEMMA MuxHolds == Spec => []MuxInv
  BY InitMux, StepKeepsMux, PTL DEF Spec

\* However many callers load, join, dial and drop at once, and whenever the connection breaks: until
\* the mux is closed, the callers share one connection.
THEOREM SharedConnection == Spec => []SingleConnection
  BY MuxHolds, OpenConnections, PTL

\* Whenever the connection breaks or the mux is closed, also while a dial is under way: no open
\* connection is lost.
THEOREM NoneOrphaned == Spec => []NoOrphan
  BY MuxHolds, OpenConnections, PTL

=============================================================================
