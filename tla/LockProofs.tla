----------------------------- MODULE LockProofs -----------------------------
(* MutualExclusion and GateExact of Lock for any number of callers, lockers  *)
(* and keys: the inductive invariant, the proof that getting the keys and    *)
(* deciding preserve it, then the gates, the monitors and the server.        *)
EXTENDS Lock, FiniteSetTheorems, TLAPS

MonitorSteps == {"none", "loop", "delete", "release", "end"}
Attempts ==
    [pc : {"idle", "acquire", "count", "held", "unlock", "drain", "waiting", "retry"}, op : opt.ops \cup {"with", Nil},
     g : GateIds \cup {Nil}, next : Nat, err : {"ok", "notlocked", "other"}, acquired : Nat, failures : Nat,
     fired : BOOLEAN, ctx : BOOLEAN, src : BOOLEAN, failed : BOOLEAN, left : BOOLEAN, mon : [Keys -> MonitorSteps]]

\* The keys that an attempt extends, and those it has given up.
Loops(r) == {k \in Keys : r.mon[k] = "loop"}
Ends(r) == {k \in Keys : r.mon[k] = "end"}

\* Keys are acquired in order and counted once each; the lock is held with a majority.  An attempt
\* that has not begun has no keys, and one that has given up all of them is cancelled and, unless it
\* counted too many failures, has left its gate.
AttemptOK(r) ==
    /\ r \in Attempts
    /\ r.pc \in {"idle", "retry"} <=> r.g = Nil
    /\ r.pc \in {"idle", "retry", "waiting"} => ~r.ctx /\ \A k \in Keys : r.mon[k] = "none"
    /\ \A k \in Keys : r.next <= k => r.mon[k] = "none"
    /\ r.pc = "acquire" => r.next = r.acquired + r.failures
    /\ r.pc = "count" => r.next = r.acquired + r.failures + 1
    /\ r.pc \in {"held", "unlock"} => Majority <= r.acquired /\ r.failures < Majority
    /\ (\A k \in Keys : r.mon[k] = "end") => ~r.ctx /\ (r.left \/ ~(r.failures < Majority))
    /\ r.left => \A k \in Keys : r.mon[k] = "end"

\* As long as its context is not done and no monitor gave up, an attempt extends every key that it
\* counts.
Extending(r) ==
    r.ctx /\ ~r.failed /\ r.pc \in {"acquire", "count", "held"} =>
        /\ r.acquired <= Cardinality(Loops(r))
        /\ r.pc = "count" /\ r.err = "ok" => r.acquired + 1 <= Cardinality(Loops(r))

Gates == [w : Int, ch : BOOLEAN, csc : SUBSET Keys, closed : BOOLEAN]

LockTypes ==
    /\ opt \in Options /\ holder \in [Keys -> Callers \cup {Nil}] /\ stolen \in BOOLEAN
    /\ gates \in [Lockers -> GateIds \cup {Nil}]
    /\ gate \in [GateIds -> Gates]
    /\ DOMAIN at = Callers /\ \A c \in Callers : AttemptOK(at[c]) /\ (at[c].pc # "idle" => c \in DOMAIN opt.home)

\* While no guarded key is lost or taken over, an extended key is the caller's.
Undisturbed ==
    ~stolen => \A c \in Callers : Extending(at[c]) /\ \A k \in Keys : at[c].mon[k] = "loop" => holder[k] = c

\* The callers that the count of a gate stands for.
Members(g) == {c \in Callers : at[c].g = g /\ ~at[c].left}

\* A gate in the map is one locker's and counts its members; their gate is that one or closed.
GatesCount ==
    ~twice =>
        /\ \A l, m \in Lockers : gates[l] # Nil /\ gates[l] = gates[m] => l = m
        /\ \A l \in Lockers : gates[l] # Nil => ~gate[gates[l]].closed /\ gate[gates[l]].w = Cardinality(Members(gates[l]))
        /\ \A c \in Callers : at[c].g # Nil /\ ~at[c].left => gate[at[c].g].closed \/ gates[Home(c)] = at[c].g
        /\ \A g \in GateIds : gate[g].closed => gate[g].w = 1 /\ ~gate[g].ch

LockInv == LockTypes /\ Undisturbed /\ GatesCount


USE LockAssumption

USE ZenonT(60)

\* The invariant and its parts; the proofs open the parts they need.
LEMMA LockInvIs ==
    /\ LockInv <=> LockTypes /\ Undisturbed /\ GatesCount
    /\ LockInv' <=> LockTypes' /\ Undisturbed' /\ GatesCount'
  BY DEF LockInv

-----------------------------------------------------------------------------
(* Attempts: what each step does to the record of its caller *)

\* Keys are the 2 * Majority - 1 first naturals.
LEMMA KeysAre ==
    ASSUME opt \in Options
    PROVE  /\ Majority \in Nat \ {0} /\ Keys \subseteq Nat /\ 0 \in Keys /\ \A n \in Nat : n < 2 * Majority - 1 => n \in Keys
           /\ \A k \in Keys : k < 2 * Majority - 1
           /\ IsFiniteSet(Keys) /\ Cardinality(Keys) = 2 * Majority - 1
<1>1. Majority \in Nat \ {0} /\ Keys = 0..(2 * Majority - 2)
  BY DEF Majority, Keys
<1>2. IsFiniteSet(Keys) /\ Cardinality(Keys) = 2 * Majority - 1
  BY SMTT(30), <1>1, FS_Interval
<1> QED
  BY SMTT(30), <1>1, <1>2

\* The keys an attempt extends can be counted, one by one.
LEMMA LoopsAre ==
    ASSUME opt \in Options
    PROVE  \A r : /\ IsFiniteSet(Loops(r)) /\ Cardinality(Loops(r)) \in Nat /\ Loops(r) \subseteq Keys
                  /\ \A q : \A k \in Keys \ Loops(r) : Loops(q) = Loops(r) \cup {k} =>
                         Cardinality(Loops(q)) = Cardinality(Loops(r)) + 1
<1> TAKE r
<1>1. Loops(r) \in SUBSET Keys
  BY DEF Loops
<1>2. IsFiniteSet(Loops(r)) /\ Cardinality(Loops(r)) \in Nat
  BY <1>1, KeysAre, FS_Subset, FS_CardinalityType
<1> QED
  BY <1>1, <1>2, FS_AddElement

\* The fields of a new attempt.
LEMMA NewAttempt ==
    ASSUME opt \in Options
    PROVE  /\ NoAttempt \in Attempts /\ NoAttempt.pc = "idle" /\ NoAttempt.g = Nil /\ NoAttempt.next = 0
           /\ NoAttempt.acquired = 0 /\ NoAttempt.failures = 0 /\ ~NoAttempt.left /\ ~NoAttempt.ctx
           /\ \A k \in Keys : NoAttempt.mon[k] = "none"
  BY DEF NoAttempt, Attempts, MonitorSteps

\* An attempt that begins, waits at the gate, or is over.
LEMMA BeginOK ==
    ASSUME opt \in Options, NEW r \in Attempts,
           \/ r.pc = "acquire" /\ r.g \in GateIds
           \/ r.pc \in {"idle", "retry"} /\ r.g = Nil /\ ~r.ctx
           \/ r.pc = "waiting" /\ r.g \in GateIds /\ ~r.ctx,
           r.next = 0, r.acquired = 0, r.failures = 0, ~r.left, \A k \in Keys : r.mon[k] = "none"
    PROVE  AttemptOK(r) /\ Extending(r) /\ \A k \in Keys : r.mon[k] # "loop"
<1>1. 0 \in Keys /\ r.mon[0] # "end" /\ Nil \notin GateIds
  BY SMTT(30), KeysAre DEF GateIds
<1>2. 0 <= Cardinality(Loops(r))
  BY SMTT(30), LoopsAre
<1> QED
  BY SMTT(30), <1>1, <1>2 DEF AttemptOK, Extending

\* acquire starts the monitor of the next key, in the loop if the key was set.
LEMMA MonitoredIs ==
    ASSUME opt \in Options, NEW r, AttemptOK(r), r.next \in Keys, NEW e \in {"ok", "notlocked", "other"}
    PROVE  \A q : q = Monitored(r, e) =>
               /\ q \in Attempts /\ q.pc = r.pc /\ q.g = r.g /\ q.acquired = r.acquired /\ q.failures = r.failures
               /\ q.failed = r.failed /\ q.left = r.left /\ q.ctx = r.ctx /\ q.err = e /\ q.next = r.next + 1 /\ r.mon[r.next] = "none"
               /\ q.mon[r.next] = IF e = "ok" THEN "loop" ELSE IF e = "notlocked" THEN "release" ELSE "delete"
               /\ \A k \in Keys : k = r.next \/ q.mon[k] = r.mon[k]
               /\ Cardinality(Loops(q)) = Cardinality(Loops(r)) + (IF e = "ok" THEN 1 ELSE 0)
<1> TAKE q
<1> HAVE q = Monitored(r, e)
<1>1. r \in Attempts /\ r.mon[r.next] = "none" /\ Keys \subseteq Nat
  BY SMTT(30), KeysAre DEF AttemptOK
<1> PICK s : s = IF e = "ok" THEN "loop" ELSE IF e = "notlocked" THEN "release" ELSE "delete"
  OBVIOUS
<1>2. q = [r EXCEPT !.err = e, !.next = r.next + 1, !.mon = [r.mon EXCEPT ![r.next] = s]] /\ s \in MonitorSteps
  <2>1. s = CASE e = "ok" -> "loop" [] e = "notlocked" -> "release" [] e = "other" -> "delete"
    OBVIOUS
  <2> QED
    BY <1>1, <2>1 DEF Monitored, Attempts, MonitorSteps
<1> PICK mon : mon = [r.mon EXCEPT ![r.next] = s]
  OBVIOUS
<1>3. r.mon \in [Keys -> MonitorSteps] /\ r.next \in Nat
  BY <1>1 DEF Attempts
<1>4. mon \in [Keys -> MonitorSteps] /\ mon[r.next] = s /\ \A k \in Keys : k = r.next \/ mon[k] = r.mon[k]
  BY <1>2, <1>3
<1>5. /\ q \in Attempts /\ q.pc = r.pc /\ q.g = r.g /\ q.acquired = r.acquired /\ q.failures = r.failures
      /\ q.failed = r.failed /\ q.left = r.left /\ q.ctx = r.ctx /\ q.err = e /\ q.next = r.next + 1 /\ q.mon = mon
  <2>1. q = [r EXCEPT !.err = e, !.next = r.next + 1, !.mon = mon] /\ r.next + 1 \in Nat
    BY SMTT(30), <1>2, <1>3
  <2>2. /\ q.pc = r.pc /\ q.g = r.g /\ q.acquired = r.acquired /\ q.failures = r.failures
        /\ q.failed = r.failed /\ q.left = r.left /\ q.ctx = r.ctx /\ q.err = e /\ q.next = r.next + 1 /\ q.mon = mon
    BY <1>1, <2>1 DEF Attempts
  <2>3. q \in Attempts
    BY <1>1, <1>4, <2>1 DEF Attempts
  <2> QED
    BY <2>2, <2>3
<1>6. Cardinality(Loops(q)) = Cardinality(Loops(r)) + (IF e = "ok" THEN 1 ELSE 0)
  <2>1. r.next \in Keys \ Loops(r) /\ Cardinality(Loops(r)) \in Nat
    BY <1>1, LoopsAre DEF Loops
  <2>2. CASE e = "ok"
    <3>1. Loops(q) = Loops(r) \cup {r.next}
      BY SMTT(30), <1>4, <1>5, <2>2 DEF Loops
    <3> QED
      BY <2>1, <2>2, <3>1, LoopsAre
  <2>3. CASE e # "ok"
    <3>1. Loops(q) = Loops(r)
      BY SMTT(30), <1>1, <1>4, <1>5, <2>3 DEF Loops
    <3> QED
      BY SMTT(30), <2>1, <2>3, <3>1
  <2> QED
    BY <2>2, <2>3
<1> QED
  BY <1>1, <1>4, <1>5, <1>6

\* The next key is started: in the loop of try, to be counted, or by the goroutine for the rest.
LEMMA MonitoredOK ==
    ASSUME opt \in Options, NEW r, AttemptOK(r), r.next \in Keys, NEW e \in {"ok", "notlocked", "other"},
           r.pc \in {"acquire", "held", "unlock", "drain"}, NEW q,
           \/ r.pc # "acquire" /\ q = Monitored(r, e)
           \/ r.pc = "acquire" /\ q = [Monitored(r, e) EXCEPT !.pc = "count"]
    PROVE  /\ AttemptOK(q) /\ (Extending(r) => Extending(q)) /\ q.g = r.g
           /\ \A k \in Keys : q.mon[k] = "loop" => r.mon[k] = "loop" \/ (k = r.next /\ e = "ok")
           /\ q.left = r.left
<1> PICK m : m = Monitored(r, e)
  OBVIOUS
<1>1. /\ m \in Attempts /\ m.pc = r.pc /\ m.g = r.g /\ m.acquired = r.acquired /\ m.failures = r.failures
      /\ m.failed = r.failed /\ m.left = r.left /\ m.ctx = r.ctx /\ m.err = e /\ m.next = r.next + 1 /\ r.mon[r.next] = "none"
      /\ m.mon[r.next] = IF e = "ok" THEN "loop" ELSE IF e = "notlocked" THEN "release" ELSE "delete"
      /\ \A k \in Keys : k = r.next \/ m.mon[k] = r.mon[k]
      /\ Cardinality(Loops(m)) = Cardinality(Loops(r)) + (IF e = "ok" THEN 1 ELSE 0)
  BY SMTT(30), MonitoredIs
<1>2. r \in Attempts /\ r.acquired \in Nat /\ r.failures \in Nat /\ r.next \in Nat /\ r.g \in GateIds
  BY DEF AttemptOK, Attempts
<1>3. /\ q \in Attempts /\ q.g = r.g /\ q.failed = r.failed /\ q.left = r.left /\ q.ctx = r.ctx /\ q.err = e
      /\ q.next = r.next + 1 /\ q.mon = m.mon
      /\ \/ r.pc # "acquire" /\ q.pc = r.pc /\ q.acquired = r.acquired /\ q.failures = r.failures
         \/ q.pc = "count" /\ r.pc = "acquire" /\ q.acquired = r.acquired /\ q.failures = r.failures
  BY SMTT(30), <1>1, <1>2 DEF Attempts
<1>4. Loops(q) = Loops(m) /\ Cardinality(Loops(r)) \in Nat
  BY <1>3, LoopsAre DEF Loops
<1>5. \A k \in Keys : q.mon[k] = "loop" => r.mon[k] = "loop" \/ (k = r.next /\ e = "ok")
  BY <1>1, <1>3
<1>6. q.mon[r.next] # "end" /\ r.mon[r.next] # "end"
  BY <1>1, <1>3
<1>7. Extending(r) => Extending(q)
  BY SMTT(30), <1>1, <1>2, <1>3, <1>4 DEF Extending
<1>8. \A k \in Keys : q.next <= k => q.mon[k] = "none"
  BY SMTT(30), <1>1, <1>2, <1>3, KeysAre DEF AttemptOK
<1>9. AttemptOK(q)
  BY SMTT(30), <1>2, <1>3, <1>6, <1>8 DEF AttemptOK
<1> QED
  BY <1>3, <1>5, <1>6, <1>7, <1>9

\* Count: the result of the last key is counted.
LEMMA CountedOK ==
    ASSUME opt \in Options, NEW r, AttemptOK(r), r.pc = "count", NEW q, q = [Counted(r) EXCEPT !.pc = "acquire"]
    PROVE  AttemptOK(q) /\ (Extending(r) => Extending(q)) /\ q.g = r.g /\ q.mon = r.mon /\ q.left = r.left
<1>1. r \in Attempts /\ r.acquired \in Nat /\ r.failures \in Nat /\ r.next \in Nat /\ r.g \in GateIds
  BY DEF AttemptOK, Attempts
<1>2. /\ q \in Attempts /\ q.g = r.g /\ q.failed = r.failed /\ q.left = r.left /\ q.ctx = r.ctx /\ q.err = r.err /\ q.next = r.next
      /\ q.mon = r.mon /\ q.pc = "acquire"
      /\ q.acquired = r.acquired + (IF r.err = "ok" THEN 1 ELSE 0)
      /\ q.failures = r.failures + (IF r.err = "ok" THEN 0 ELSE 1)
  BY SMTT(30), <1>1 DEF Counted, Attempts
<1>3. Loops(q) = Loops(r) /\ Cardinality(Loops(r)) \in Nat
  BY <1>2, LoopsAre DEF Loops
<1>4. AttemptOK(q)
  <2>1. Majority \in Nat /\ (r.failures < Majority \/ ~(q.failures < Majority))
    BY SMTT(30), <1>1, <1>2, KeysAre
  <2>2. q.next = q.acquired + q.failures
    BY SMTT(30), <1>1, <1>2 DEF AttemptOK
  <2> QED
    BY <1>1, <1>2, <2>1, <2>2 DEF AttemptOK
<1> QED
  BY SMTT(30), <1>1, <1>2, <1>3, <1>4 DEF Extending

\* The context is done: by its source, by the timer, or because the caller unlocks.
LEMMA StopOK ==
    ASSUME opt \in Options, NEW r, AttemptOK(r), NEW q,
           \/ q = [r EXCEPT !.src = FALSE, !.ctx = FALSE]
           \/ q = [r EXCEPT !.fired = TRUE, !.ctx = FALSE]
           \/ r.pc = "held" /\ q = [r EXCEPT !.ctx = FALSE, !.pc = "unlock"]
    PROVE  AttemptOK(q) /\ Extending(q) /\ q.g = r.g /\ q.mon = r.mon /\ q.left = r.left
<1>1. r \in Attempts
  BY DEF AttemptOK
<1>2. /\ q \in Attempts /\ q.g = r.g /\ q.acquired = r.acquired /\ q.failures = r.failures /\ q.next = r.next
      /\ q.mon = r.mon /\ ~q.ctx /\ q.left = r.left /\ (q.pc = r.pc \/ (r.pc = "held" /\ q.pc = "unlock"))
  <2>1. CASE q = [r EXCEPT !.src = FALSE, !.ctx = FALSE]
    BY <1>1, <2>1 DEF Attempts
  <2>2. CASE q = [r EXCEPT !.fired = TRUE, !.ctx = FALSE]
    BY <1>1, <2>2 DEF Attempts
  <2>3. CASE r.pc = "held" /\ q = [r EXCEPT !.ctx = FALSE, !.pc = "unlock"]
    BY <1>1, <2>3 DEF Attempts
  <2> QED
    BY <2>1, <2>2, <2>3
<1> QED
  BY <1>2 DEF AttemptOK, Extending

\* The attempt is decided.
LEMMA DecideOK ==
    ASSUME opt \in Options, NEW r, AttemptOK(r), r.pc = "acquire", ~(r.acquired < Majority /\ r.failures < Majority), NEW q,
           q = [r EXCEPT !.pc = IF ~r.fired /\ r.failures < Majority THEN "held" ELSE "drain"]
    PROVE  AttemptOK(q) /\ (Extending(r) => Extending(q)) /\ q.g = r.g /\ q.mon = r.mon /\ q.left = r.left
<1>1. r \in Attempts /\ r.acquired \in Nat /\ r.failures \in Nat /\ Majority \in Nat
  BY KeysAre DEF AttemptOK, Attempts
<1>2. /\ q \in Attempts /\ q.g = r.g /\ q.acquired = r.acquired /\ q.failures = r.failures /\ q.next = r.next
      /\ q.mon = r.mon /\ q.ctx = r.ctx /\ q.failed = r.failed /\ q.left = r.left
      /\ q.pc = IF ~r.fired /\ r.failures < Majority THEN "held" ELSE "drain"
  BY <1>1 DEF Attempts
<1>3. AttemptOK(q)
  BY SMTT(30), <1>1, <1>2 DEF AttemptOK
<1>4. Loops(q) = Loops(r)
  BY <1>2 DEF Loops
<1> QED
  BY SMTT(30), <1>2, <1>3, <1>4 DEF Extending

Moved(r, k, s) == [r EXCEPT !.mon[k] = s]
GivenUp(r, k) == [r EXCEPT !.mon[k] = "delete", !.failed = r.failed \/ r.ctx]
Ended(r, k, x, l) == [r EXCEPT !.mon[k] = "end", !.ctx = x, !.left = l]

\* What the monitor of key k makes of the attempt r, and its next step s.
Monitoring(r, k, s, q) ==
    \/ s \in {"delete", "release"} /\ q = Moved(r, k, s)
    \/ s = "delete" /\ q = GivenUp(r, k)
    \/ /\ s = "end"
       /\ \E x, l \in BOOLEAN :
              /\ q = Ended(r, k, x, l) /\ (x => r.ctx /\ Cardinality(Ends(r)) + 1 < Majority)
              /\ l <=> r.failures < Majority /\ \A j \in Keys : j = k \/ r.mon[j] = "end"

\* A monitor leaves its loop, deletes its key, or ends; the context is done before the first key of the
\* majority is given up, and the last monitor leaves the gate unless too many failures were counted.
LEMMA MonitorOK ==
    ASSUME opt \in Options, NEW r, AttemptOK(r), NEW k \in Keys, r.mon[k] \notin {"none", "end"}, NEW s, NEW q,
           Monitoring(r, k, s, q)
    PROVE  /\ AttemptOK(q) /\ q.g = r.g /\ q.pc = r.pc /\ (s # "end" => ~q.left)
           /\ (q.ctx => r.ctx) /\ (r.failed => q.failed) /\ (q = GivenUp(r, k) /\ r.ctx => q.failed)
           /\ ((q.ctx /\ ~q.failed => r.mon[k] # "loop") /\ Extending(r) => Extending(q))
           /\ q.mon[k] = s /\ \A j \in Keys : j = k \/ q.mon[j] = r.mon[j]
<1>1. r \in Attempts /\ r.mon \in [Keys -> MonitorSteps] /\ Keys \subseteq Nat /\ r.next \in Nat /\ ~r.left
      /\ r.failed \in BOOLEAN /\ r.ctx \in BOOLEAN
  BY KeysAre DEF AttemptOK, Attempts
<1> PICK mon : mon = [r.mon EXCEPT ![k] = s]
  OBVIOUS
<1>2. mon \in [Keys -> MonitorSteps] /\ mon[k] = s /\ s # "loop" /\ \A j \in Keys : j = k \/ mon[j] = r.mon[j]
  BY <1>1 DEF MonitorSteps, Monitoring
<1>3. PICK x, f, l \in BOOLEAN :
          /\ (x => r.ctx) /\ (r.failed => f) /\ (q = GivenUp(r, k) /\ r.ctx => f)
          /\ (s = "end" /\ x => Cardinality(Ends(r)) + 1 < Majority)
          /\ l <=> s = "end" /\ r.failures < Majority /\ \A j \in Keys : j = k \/ r.mon[j] = "end"
          /\ q \in Attempts /\ q.g = r.g /\ q.acquired = r.acquired /\ q.failures = r.failures /\ q.next = r.next
          /\ q.pc = r.pc /\ q.err = r.err /\ q.mon = mon /\ q.ctx = x /\ q.failed = f /\ q.left = l
  <2>1. CASE s \in {"delete", "release"} /\ q = Moved(r, k, s)
    <3>1. q = [r EXCEPT !.mon = mon]
      BY <2>1 DEF Moved
    <3>2. /\ q \in Attempts /\ q.g = r.g /\ q.acquired = r.acquired /\ q.failures = r.failures /\ q.next = r.next
          /\ q.pc = r.pc /\ q.err = r.err /\ q.mon = mon /\ q.ctx = r.ctx /\ q.failed = r.failed /\ q.left = FALSE
      BY <1>1, <1>2, <3>1 DEF Attempts
    <3>3. q = GivenUp(r, k) /\ r.ctx => r.failed
      <4>1. q = GivenUp(r, k) => q.failed = (r.failed \/ r.ctx)
        BY <1>1 DEF GivenUp, Attempts
      <4> QED
        BY <3>2, <4>1
    <3> QED
      BY <1>1, <2>1, <3>2, <3>3
  <2>2. CASE s = "delete" /\ q = GivenUp(r, k)
    <3> PICK f \in BOOLEAN : f = (r.failed \/ r.ctx)
      OBVIOUS
    <3>1. q = [r EXCEPT !.mon = mon, !.failed = f]
      BY <2>2 DEF GivenUp
    <3>2. /\ q \in Attempts /\ q.g = r.g /\ q.acquired = r.acquired /\ q.failures = r.failures /\ q.next = r.next
          /\ q.pc = r.pc /\ q.err = r.err /\ q.mon = mon /\ q.ctx = r.ctx /\ q.failed = f /\ q.left = FALSE
      BY <1>1, <1>2, <3>1 DEF Attempts
    <3> QED
      BY <1>1, <2>2, <3>2
  <2>3. CASE /\ s = "end"
             /\ \E x, l \in BOOLEAN :
                    /\ q = Ended(r, k, x, l) /\ (x => r.ctx /\ Cardinality(Ends(r)) + 1 < Majority)
                    /\ l <=> r.failures < Majority /\ \A j \in Keys : j = k \/ r.mon[j] = "end"
    <3>1. PICK x, l \in BOOLEAN :
              /\ q = Ended(r, k, x, l) /\ (x => r.ctx /\ Cardinality(Ends(r)) + 1 < Majority)
              /\ l <=> r.failures < Majority /\ \A j \in Keys : j = k \/ r.mon[j] = "end"
      BY <2>3
    <3>2. q = [r EXCEPT !.mon = mon, !.ctx = x, !.left = l]
      BY <2>3, <3>1 DEF Ended
    <3>3. /\ q \in Attempts /\ q.g = r.g /\ q.acquired = r.acquired /\ q.failures = r.failures /\ q.next = r.next
          /\ q.pc = r.pc /\ q.err = r.err /\ q.mon = mon /\ q.ctx = x /\ q.failed = r.failed /\ q.left = l
      BY <1>1, <1>2, <3>2 DEF Attempts
    <3>4. q # GivenUp(r, k)
      <4>1. q = GivenUp(r, k) => q.mon = [r.mon EXCEPT ![k] = "delete"]
        BY <1>1 DEF GivenUp, Attempts
      <4> QED
        BY <1>1, <1>2, <2>3, <3>3, <4>1
    <3> QED
      BY <1>1, <2>3, <3>1, <3>3, <3>4
  <2> QED
    BY <2>1, <2>2, <2>3 DEF Monitoring
<1>4. (\A j \in Keys : q.mon[j] = "end") => ~q.ctx
  <2> SUFFICES ASSUME \A j \in Keys : q.mon[j] = "end", q.ctx PROVE FALSE
    OBVIOUS
  <2> PICK E : E = Ends(r)
    OBVIOUS
  <2>1. E = Keys \ {k} /\ s = "end"
    BY SMTT(30), <1>2, <1>3 DEF Ends
  <2>2. IsFiniteSet(Keys) /\ Cardinality(Keys) = 2 * Majority - 1 /\ Majority \in Nat \ {0}
    BY KeysAre
  <2>3. Cardinality(E) = Cardinality(Keys) - 1
    BY <2>1, <2>2, FS_RemoveElement
  <2>4. Cardinality(E) + 1 < Majority
    BY <1>3, <2>1
  <2> QED
    BY SMTT(30), <2>2, <2>3, <2>4
<1>5. /\ (\A j \in Keys : q.mon[j] = "end") => q.left \/ ~(q.failures < Majority)
      /\ q.left => \A j \in Keys : q.mon[j] = "end"
  <2>1. ASSUME \A j \in Keys : q.mon[j] = "end" PROVE q.left \/ ~(q.failures < Majority)
    <3>1. \A j \in Keys : mon[j] = "end"
      BY <1>3, <2>1
    <3>2. s = "end" /\ \A j \in Keys : j = k \/ r.mon[j] = "end"
      BY <1>2, <3>1
    <3> QED
      BY <1>3, <3>2
  <2>2. ASSUME q.left, NEW j \in Keys PROVE q.mon[j] = "end"
    <3>1. s = "end" /\ (j = k \/ r.mon[j] = "end")
      BY <1>3, <2>2
    <3> QED
      BY <1>2, <1>3, <3>1
  <2> QED
    BY <2>1, <2>2
<1>6. \A j \in Keys : q.next <= j => q.mon[j] = "none"
  BY SMTT(30), <1>1, <1>2, <1>3 DEF AttemptOK
<1>7. r.pc \in {"idle", "retry", "waiting"} => FALSE
  BY DEF AttemptOK
<1>8. AttemptOK(q)
  BY <1>3, <1>4, <1>5, <1>6, <1>7 DEF AttemptOK
<1>9. r.mon[k] # "loop" => Loops(q) = Loops(r)
  BY SMTT(30), <1>2, <1>3 DEF Loops
<1>10. (q.ctx /\ ~q.failed => r.mon[k] # "loop") /\ Extending(r) => Extending(q)
  BY <1>3, <1>9 DEF Extending
<1> QED
  BY <1>2, <1>3, <1>8, <1>10

-----------------------------------------------------------------------------
(* Steps that change one attempt *)

\* The types, and what holds undisturbed, from the new record alone.
LEMMA OneAttempt ==
    ASSUME LockInv, UNCHANGED opt, NEW c \in Callers, NEW r, AttemptOK(r), r.pc # "idle" => c \in DOMAIN opt.home,
           at' = [at EXCEPT ![c] = r], holder' \in [Keys -> Callers \cup {Nil}], stolen' \in BOOLEAN,
           gates' \in [Lockers -> GateIds \cup {Nil}], gate' \in [GateIds -> Gates],
           ~stolen' =>
               /\ ~stolen /\ Extending(r) /\ \A k \in Keys : r.mon[k] = "loop" => holder'[k] = c
               /\ \A d \in Callers \ {c} : \A k \in Keys : at[d].mon[k] = "loop" => holder'[k] = d
    PROVE  LockTypes' /\ Undisturbed'
<1>1. /\ opt' \in Options /\ Keys' = Keys /\ GateIds' = GateIds /\ Gates' = Gates /\ Attempts' = Attempts /\ Majority' = Majority
      /\ DOMAIN at = Callers /\ DOMAIN at' = Callers /\ at'[c] = r /\ \A d \in Callers : d = c \/ at'[d] = at[d]
  BY LockInvIs DEF LockTypes, Keys, GateIds, Gates, Attempts, Majority
<1>2. \A d \in Callers : AttemptOK(at[d])' /\ (at'[d].pc # "idle" => d \in DOMAIN opt.home)
  <2> SUFFICES ASSUME NEW d \in Callers PROVE AttemptOK(at[d])' /\ (at'[d].pc # "idle" => d \in DOMAIN opt.home)
    OBVIOUS
  <2>1. AttemptOK(at[d]) /\ (at[d].pc # "idle" => d \in DOMAIN opt.home)
    BY LockInvIs DEF LockTypes
  <2>2. CASE d = c
    BY <1>1, <2>2 DEF AttemptOK
  <2>3. CASE d # c
    BY <1>1, <2>1, <2>3 DEF AttemptOK
  <2> QED
    BY <2>2, <2>3
<1>3. LockTypes'
  BY <1>1, <1>2 DEF LockTypes
<1>4. Undisturbed'
  <2> SUFFICES ASSUME ~stolen', NEW d \in Callers
               PROVE  Extending(at[d])' /\ \A k \in Keys : at'[d].mon[k] = "loop" => holder'[k] = d
    BY <1>1 DEF Undisturbed
  <2>1. Extending(at[d]) /\ \A k \in Keys : at[d].mon[k] = "loop" => holder[k] = d
    BY LockInvIs DEF Undisturbed
  <2>2. CASE d = c
    <3>1. at'[d] = r /\ Loops(at[d])' = Loops(r)
      BY <1>1, <2>2 DEF Loops
    <3> QED
      BY <2>2, <3>1 DEF Extending
  <2>3. CASE d # c
    <3>1. at'[d] = at[d] /\ Loops(at[d])' = Loops(at[d])
      BY <1>1, <2>3 DEF Loops
    <3> QED
      BY <2>1, <2>3, <3>1 DEF Extending
  <2> QED
    BY <2>2, <2>3
<1> QED
  BY <1>3, <1>4

\* The members of the gate a locker has next.
LEMMA MembersAre == \A m \in Lockers : \A g : gates'[m] = g => Members(gates[m])' = Members(g)'
  BY DEF Members

\* Nobody joins or leaves a gate: who has given up the gate may forget it.
LEMMA SameMembers ==
    ASSUME LockInv, UNCHANGED <<opt, gates>>, twice => twice', NEW c \in Callers, NEW r, at' = [at EXCEPT ![c] = r],
           \/ r.g = at[c].g /\ (~twice' => (r.left <=> at[c].left))
           \/ r.g = Nil /\ (~twice' => at[c].left),
           \A g \in GateIds : gate'[g].closed = gate[g].closed /\ gate'[g].w = gate[g].w /\ (~twice /\ gate[g].closed => ~gate'[g].ch)
    PROVE  GatesCount'
<1> SUFFICES ASSUME ~twice' PROVE GatesCount'
  BY DEF GatesCount
<1>1. /\ Keys' = Keys /\ GateIds' = GateIds /\ Majority' = Majority /\ DOMAIN at = Callers /\ Nil \notin GateIds
      /\ gates \in [Lockers -> GateIds \cup {Nil}] /\ \A d \in Callers : at[d].g \in GateIds \cup {Nil}
  BY SMTT(30), LockInvIs DEF LockTypes, Keys, GateIds, Majority, AttemptOK, Attempts
<1>2. /\ \A d \in Callers : d # c => at'[d].g = at[d].g /\ (at'[d].left <=> at[d].left)
      /\ at'[c].g = r.g /\ (at'[c].left <=> r.left)
  BY <1>1
<1>3. \A g \in GateIds : Members(g)' = Members(g)
  BY SMTT(30), <1>1, <1>2 DEF Members
<1>4. /\ \A l, m \in Lockers : gates[l] # Nil /\ gates[l] = gates[m] => l = m
      /\ \A l \in Lockers : gates[l] # Nil => ~gate[gates[l]].closed /\ gate[gates[l]].w = Cardinality(Members(gates[l]))
      /\ \A d \in Callers : at[d].g # Nil /\ ~at[d].left => gate[at[d].g].closed \/ gates[Home(d)] = at[d].g
      /\ \A g \in GateIds : gate[g].closed => gate[g].w = 1 /\ ~gate[g].ch
  BY LockInvIs DEF GatesCount
<1>5. \A d \in Callers : at'[d].g # Nil /\ ~at'[d].left => at'[d].g = at[d].g /\ ~at[d].left /\ at[d].g \in GateIds
  BY <1>1, <1>2
<1>6. \A d \in Callers : at'[d].g # Nil /\ ~at'[d].left => gate'[at'[d].g].closed \/ gates'[Home(d)] = at'[d].g
  BY <1>4, <1>5
<1>7. \A l \in Lockers : gates'[l] # Nil => ~gate'[gates'[l]].closed /\ gate'[gates'[l]].w = Cardinality(Members(gates[l])')
  <2> SUFFICES ASSUME NEW l \in Lockers, NEW g \in GateIds, gates[l] = g, gates'[l] = g
               PROVE  ~gate'[g].closed /\ gate'[g].w = Cardinality(Members(g)')
    BY <1>1, MembersAre
  <2> QED
    BY SMTT(30), <1>1, <1>3, <1>4
<1> QED
  BY SMTT(30), <1>1, <1>4, <1>6, <1>7 DEF GatesCount, Home

\* There is always a gate that nobody uses.
LEMMA FreeGateIs ==
    ASSUME LockTypes
    PROVE  FreeGate \in GateIds /\ Using(FreeGate) = {} /\ \A l \in Lockers : gates[l] # FreeGate
<1> PICK A : A = {at[c].g : c \in Callers}
  OBVIOUS
<1> PICK B : B = {gates[l] : l \in Lockers}
  OBVIOUS
<1>1. IsFiniteSet(A) /\ Cardinality(A) <= Cardinality(Callers)
  <2>1. [c \in Callers |-> at[c].g] \in Surjection(Callers, A)
    BY DEF Surjection
  <2> QED
    BY <2>1, FS_Surjection
<1>2. IsFiniteSet(B) /\ Cardinality(B) <= Cardinality(Lockers)
  <2>1. [l \in Lockers |-> gates[l]] \in Surjection(Lockers, B)
    BY DEF Surjection
  <2> QED
    BY <2>1, FS_Surjection
<1>3. /\ Cardinality(Callers) \in Nat /\ Cardinality(Lockers) \in Nat /\ Cardinality(A) \in Nat /\ Cardinality(B) \in Nat
      /\ Cardinality(A \cap B) \in Nat
  BY <1>1, <1>2, FS_CardinalityType, FS_Intersection
<1>4. IsFiniteSet(A \cup B) /\ Cardinality(A \cup B) <= Cardinality(Callers) + Cardinality(Lockers)
  <2>1. IsFiniteSet(A \cup B) /\ Cardinality(A \cup B) = Cardinality(A) + Cardinality(B) - Cardinality(A \cap B)
    BY <1>1, <1>2, FS_Union
  <2> QED
    BY SMTT(30), <1>1, <1>2, <1>3, <2>1
<1>5. Cardinality(GateIds) = Cardinality(Callers) + Cardinality(Lockers) + 1
  BY SMTT(30), <1>3, FS_Interval DEF GateIds
<1>6. PICK g \in GateIds : g \notin A \cup B
  <2> SUFFICES ASSUME GateIds \subseteq A \cup B PROVE FALSE
    OBVIOUS
  <2>1. Cardinality(GateIds) <= Cardinality(A \cup B)
    BY <1>4, FS_Subset
  <2>2. Cardinality(A \cup B) \in Nat
    BY <1>4, FS_CardinalityType
  <2> QED
    BY SMTT(30), <1>3, <1>4, <1>5, <2>1, <2>2
<1>7. Using(g) = {} /\ \A l \in Lockers : gates[l] # g
  BY <1>6 DEF Using
<1> QED
  BY <1>7 DEF FreeGate

\* A caller joins the gate of its locker, or brings a new one.
LEMMA JoinKeeps ==
    ASSUME LockInv, UNCHANGED opt, twice => twice', NEW c \in Callers, at[c].g = Nil, NEW r, at' = [at EXCEPT ![c] = r], ~r.left,
           Home(c) \in Lockers, r.g = GateOf(Home(c)), gates' = [gates EXCEPT ![Home(c)] = r.g],
           gate' = [gate EXCEPT ![r.g] = GateJoined(Home(c))]
    PROVE  GatesCount' /\ r.g \in GateIds /\ gates' \in [Lockers -> GateIds \cup {Nil}] /\ gate' \in [GateIds -> Gates]
           /\ \A g \in GateIds : gate'[g].closed => gate[g].closed
<1> PICK l \in Lockers : l = Home(c)
  OBVIOUS
<1>1. /\ Keys' = Keys /\ GateIds' = GateIds /\ Majority' = Majority /\ DOMAIN at = Callers
      /\ gates \in [Lockers -> GateIds \cup {Nil}] /\ gate \in [GateIds -> Gates]
      /\ \A d \in Callers : at[d].g \in GateIds \cup {Nil}
      /\ Nil \notin GateIds
  BY SMTT(30), LockInvIs DEF LockTypes, Keys, GateIds, Majority, AttemptOK, Attempts
<1>2. r.g \in GateIds /\ (gates[l] # Nil => r.g = gates[l])
      /\ (gates[l] = Nil => Using(r.g) = {} /\ \A m \in Lockers : gates[m] # r.g)
  BY <1>1, FreeGateIs, LockInvIs DEF GateOf
<1>3. NewGate \in Gates /\ NewGate.w = 1 /\ ~NewGate.closed
  BY SMTT(30) DEF NewGate, Gates
<1>4. /\ gate' \in [GateIds -> Gates] /\ \A g \in GateIds : g = r.g \/ gate'[g] = gate[g]
      /\ gates[l] = Nil => gate'[r.g] = NewGate
      /\ gates[l] # Nil => /\ gate'[r.g].w = gate[r.g].w + 1 /\ gate'[r.g].closed = gate[r.g].closed
                           /\ gate'[r.g].ch = gate[r.g].ch
  <2> PICK n : n = GateJoined(l)
    OBVIOUS
  <2>1. gate' = [gate EXCEPT ![r.g] = n]
    OBVIOUS
  <2>2. gate[r.g] \in Gates
    BY <1>1, <1>2
  <2>3. /\ n \in Gates /\ (gates[l] = Nil => n = NewGate)
        /\ gates[l] # Nil => n.w = gate[r.g].w + 1 /\ n.closed = gate[r.g].closed /\ n.ch = gate[r.g].ch
    BY SMTT(30), <1>2, <1>3, <2>2 DEF Gates, GateJoined
  <2>4. gate' \in [GateIds -> Gates] /\ gate'[r.g] = n /\ \A g \in GateIds : g = r.g \/ gate'[g] = gate[g]
    BY SMTT(30), <1>1, <1>2, <2>1, <2>3
  <2> QED
    BY <2>3, <2>4
<1>5. gates' \in [Lockers -> GateIds \cup {Nil}] /\ gates'[l] = r.g /\ \A m \in Lockers : m = l \/ gates'[m] = gates[m]
  BY <1>1, <1>2
<1>6. ASSUME ~twice' PROVE GatesCount'
  <2>1. /\ \A i, m \in Lockers : gates[i] # Nil /\ gates[i] = gates[m] => i = m
        /\ \A i \in Lockers : gates[i] # Nil => ~gate[gates[i]].closed /\ gate[gates[i]].w = Cardinality(Members(gates[i]))
        /\ \A d \in Callers : at[d].g # Nil /\ ~at[d].left => gate[at[d].g].closed \/ gates[Home(d)] = at[d].g
        /\ \A g \in GateIds : gate[g].closed => gate[g].w = 1 /\ ~gate[g].ch
    BY <1>6, LockInvIs DEF GatesCount
  <2>2. at'[c] = r /\ ~at'[c].left /\ \A d \in Callers : d = c \/ (at'[d] = at[d] /\ (at'[d].left <=> at[d].left))
    BY <1>1
  <2>3. \A g \in GateIds : g # r.g => Members(g)' = Members(g)
    BY <1>1, <2>2 DEF Members
  <2>4. \A m \in Lockers : gates'[m] # Nil /\ m # l => gates'[m] = gates[m] /\ gates[m] # r.g /\ gates[m] \in GateIds
    BY SMTT(30), <1>1, <1>2, <1>5, <2>1
  <2>5. gate'[r.g].w = Cardinality(Members(r.g)')
    <3>1. CASE gates[l] = Nil
      <4>1. Members(r.g)' = {c}
        BY SMTT(30), <1>2, <2>2, <3>1 DEF Members, Using
      <4>2. Cardinality({c}) = 1
        BY FS_Singleton
      <4> QED
        BY <1>3, <1>4, <3>1, <4>1, <4>2
    <3>2. CASE gates[l] # Nil
      <4>1. Members(r.g)' = Members(r.g) \cup {c} /\ c \notin Members(r.g)
        BY <1>1, <1>2, <2>2 DEF Members
      <4>2. IsFiniteSet(Members(r.g))
        BY FS_Subset DEF Members
      <4>3. Cardinality(Members(r.g)') = Cardinality(Members(r.g)) + 1
        BY <4>1, <4>2, FS_AddElement
      <4>4. gate[r.g].w = Cardinality(Members(r.g)) /\ gate'[r.g].w = gate[r.g].w + 1
        BY <1>2, <1>4, <2>1, <3>2
      <4> QED
        BY <4>3, <4>4
    <3> QED
      BY <3>1, <3>2
  <2>6. ~gate'[r.g].closed
    BY <1>2, <1>3, <1>4, <2>1
  <2>7. \A m \in Lockers : gates'[m] # Nil =>
            ~gate'[gates'[m]].closed /\ gate'[gates'[m]].w = Cardinality(Members(gates[m])')
    <3> SUFFICES ASSUME NEW m \in Lockers, NEW g \in GateIds, gates'[m] = g
                 PROVE  ~gate'[g].closed /\ gate'[g].w = Cardinality(Members(g)')
      BY SMTT(30), <1>5, MembersAre
    <3>1. CASE m = l
      BY <1>5, <2>5, <2>6, <3>1
    <3>2. CASE m # l
      BY SMTT(30), <1>1, <1>4, <2>1, <2>3, <2>4, <3>2
    <3> QED
      BY <3>1, <3>2
  <2>8. \A d \in Callers : at'[d].g # Nil /\ ~at'[d].left => gate'[at'[d].g].closed \/ gates'[Home(d)] = at'[d].g
    <3> SUFFICES ASSUME NEW d \in Callers, at'[d].g # Nil, ~at'[d].left, d # c
                 PROVE  gate'[at[d].g].closed \/ gates'[Home(d)] = at[d].g
      BY SMTT(30), <1>5, <2>2
    <3>1. at[d].g \in GateIds /\ (gate[at[d].g].closed \/ gates[Home(d)] = at[d].g)
      BY <1>1, <2>1, <2>2
    <3>2. CASE gates[l] = Nil
      <4>1. at[d].g # r.g
        BY <1>2, <3>2 DEF Using
      <4> QED
        BY SMTT(30), <1>1, <1>4, <3>1, <3>2, <4>1
    <3>3. CASE gates[l] # Nil
      <4>1. gates' = gates
        BY <1>1, <1>2, <3>3
      <4> QED
        BY <1>4, <3>1, <3>3, <4>1
    <3> QED
      BY <3>2, <3>3
  <2>9. \A i, m \in Lockers : gates'[i] # Nil /\ gates'[i] = gates'[m] => i = m
    BY SMTT(30), <1>5, <2>1, <2>4
  <2>10. \A g \in GateIds : gate'[g].closed => gate'[g].w = 1 /\ ~gate'[g].ch
    BY <1>4, <2>1, <2>6
  <2> QED
    BY SMTT(30), <1>1, <2>7, <2>8, <2>9, <2>10 DEF GatesCount, Home
<1>7. twice' => GatesCount'
  BY DEF GatesCount
<1>8. \A g \in GateIds : gate'[g].closed => gate[g].closed
  BY <1>3, <1>4
<1> QED
  BY <1>2, <1>4, <1>5, <1>6, <1>7, <1>8

\* A caller leaves its gate: woken, after a failed try, or with its last key.
LEMMA LeaveKeeps ==
    ASSUME LockInv, UNCHANGED opt, twice => twice', NEW c \in Callers, NEW g \in GateIds, at[c].g = g, ~twice' => ~at[c].left,
           NEW r, at' = [at EXCEPT ![c] = r], r.g = Nil \/ (r.g = g /\ r.left), Home(c) \in Lockers,
           \A h \in GateIds : h = g \/ gate'[h] = gate[h],
           ~twice' /\ gate[g].closed =>
               gates' = gates /\ (gate'[g] = gate[g] \/ (Using(g) = {c} /\ ~gate'[g].closed)),
           ~twice' /\ ~gate[g].closed =>
               /\ ~gate'[g].closed
               /\ \/ gates' = gates /\ gate'[g].w = gate[g].w - 1
                  \/ gates' = [gates EXCEPT ![Home(c)] = Nil] /\ gate[g].w = 1
    PROVE  GatesCount'
<1> SUFFICES ASSUME ~twice' PROVE GatesCount'
  BY DEF GatesCount
<1> PICK l \in Lockers : l = Home(c)
  OBVIOUS
<1>1. /\ Keys' = Keys /\ GateIds' = GateIds /\ Majority' = Majority /\ DOMAIN at = Callers
      /\ gates \in [Lockers -> GateIds \cup {Nil}] /\ gate \in [GateIds -> Gates]
      /\ \A d \in Callers : at[d].g \in GateIds \cup {Nil}
      /\ Nil \notin GateIds
  BY SMTT(30), LockInvIs DEF LockTypes, Keys, GateIds, Majority, AttemptOK, Attempts
<1>2. /\ \A i, m \in Lockers : gates[i] # Nil /\ gates[i] = gates[m] => i = m
      /\ \A i \in Lockers : gates[i] # Nil => ~gate[gates[i]].closed /\ gate[gates[i]].w = Cardinality(Members(gates[i]))
      /\ \A d \in Callers : at[d].g # Nil /\ ~at[d].left => gate[at[d].g].closed \/ gates[Home(d)] = at[d].g
      /\ \A h \in GateIds : gate[h].closed => gate[h].w = 1 /\ ~gate[h].ch
  BY LockInvIs DEF GatesCount
<1>3. /\ at'[c] = r /\ (at'[c].g = Nil \/ (at'[c].g = g /\ at'[c].left))
      /\ \A d \in Callers : d = c \/ (at'[d] = at[d] /\ (at'[d].left <=> at[d].left))
  BY <1>1
<1>4. \A h \in GateIds : h # g => Members(h)' = Members(h)
  BY <1>1, <1>3 DEF Members
<1>5. Members(g)' = Members(g) \ {c} /\ c \in Members(g) /\ IsFiniteSet(Members(g))
  <2>1. Members(g)' = Members(g) \ {c} /\ c \in Members(g)
    BY <1>1, <1>3 DEF Members
  <2>2. IsFiniteSet(Members(g))
    BY FS_Subset DEF Members
  <2> QED
    BY <2>1, <2>2
<1>6. Cardinality(Members(g)') = Cardinality(Members(g)) - 1
  <2>1. Cardinality(Members(g) \ {c}) = IF c \in Members(g) THEN Cardinality(Members(g)) - 1 ELSE Cardinality(Members(g))
    BY <1>5, FS_RemoveElement
  <2> QED
    BY <1>5, <2>1
<1>7. \A d \in Callers : at'[d].g # Nil /\ ~at'[d].left => d # c /\ at'[d] = at[d] /\ ~at[d].left /\ at[d].g \in GateIds
  BY <1>1, <1>3
<1>8. CASE gate[g].closed
  <2>1. gates' = gates /\ \A m \in Lockers : gates[m] # g
    BY <1>1, <1>2, <1>8
  <2>2. \A m \in Lockers : gates'[m] # Nil =>
            ~gate'[gates'[m]].closed /\ gate'[gates'[m]].w = Cardinality(Members(gates[m])')
    <3> SUFFICES ASSUME NEW m \in Lockers, NEW h \in GateIds, gates'[m] = h
                 PROVE  ~gate'[h].closed /\ gate'[h].w = Cardinality(Members(h)')
      BY <1>1, <2>1, MembersAre
    <3> QED
      BY <1>1, <1>2, <1>4, <2>1
  <2>3. \A d \in Callers : at'[d].g # Nil /\ ~at'[d].left => gate'[at'[d].g].closed \/ gates'[Home(d)] = at'[d].g
    <3> SUFFICES ASSUME NEW d \in Callers, at[d].g # Nil, ~at[d].left, at[d].g \in GateIds, d # c
                 PROVE  gate'[at[d].g].closed \/ gates[Home(d)] = at[d].g
      BY <1>7, <2>1
    <3>1. at[d].g = g => Using(g) # {c}
      BY DEF Using
    <3> QED
      BY <1>2, <1>8, <3>1
  <2>4. \A h \in GateIds : gate'[h].closed => gate'[h].w = 1 /\ ~gate'[h].ch
    BY SMTT(30), <1>2, <1>8
  <2> QED
    BY <1>1, <1>2, <2>1, <2>2, <2>3, <2>4 DEF GatesCount, Home
<1>9. CASE ~gate[g].closed
  <2>1. gates[l] = g /\ gate[g].w = Cardinality(Members(g)) /\ \A m \in Lockers : gates[m] = g => m = l
    <3>1. gates[l] = g
      <4>1. at[c].g # Nil /\ ~at[c].left
        BY <1>1
      <4> QED
        BY <1>2, <1>9, <4>1
    <3> QED
      BY SMTT(30), <1>1, <1>2, <3>1
  <2>2. CASE gates' = gates /\ gate'[g].w = gate[g].w - 1
    <3>1. \A m \in Lockers : gates'[m] # Nil =>
              ~gate'[gates'[m]].closed /\ gate'[gates'[m]].w = Cardinality(Members(gates[m])')
      <4> SUFFICES ASSUME NEW m \in Lockers, NEW h \in GateIds, gates'[m] = h
                   PROVE  ~gate'[h].closed /\ gate'[h].w = Cardinality(Members(h)')
        BY <1>1, <2>2, MembersAre
      <4>1. CASE h = g
        BY <1>6, <1>9, <2>1, <2>2, <4>1
      <4>2. CASE h # g
        BY SMTT(30), <1>1, <1>2, <1>4, <2>2, <4>2
      <4> QED
        BY <4>1, <4>2
    <3>2. \A d \in Callers : at'[d].g # Nil /\ ~at'[d].left => gate'[at'[d].g].closed \/ gates'[Home(d)] = at'[d].g
      BY SMTT(30), <1>2, <1>7, <1>9, <2>2
    <3>3. \A h \in GateIds : gate'[h].closed => gate'[h].w = 1 /\ ~gate'[h].ch
      BY <1>2, <1>9
    <3> QED
      BY <1>1, <1>2, <2>2, <3>1, <3>2, <3>3 DEF GatesCount, Home
  <2>3. CASE gates' = [gates EXCEPT ![l] = Nil] /\ gate[g].w = 1
    <3>1. Members(g) = {c}
      <4> PICK S : S = Members(g)
        OBVIOUS
      <4>1. IsFiniteSet(S) /\ {c} \in SUBSET S
        BY <1>5
      <4>2. Cardinality(S) = Cardinality({c})
        BY <2>1, <2>3, FS_Singleton
      <4>3. S = {c}
        BY <4>1, <4>2, FS_Subset
      <4> QED
        BY <4>3
    <3>2. gates'[l] = Nil /\ \A m \in Lockers : m = l \/ (gates'[m] = gates[m] /\ gates[m] # g)
      BY <1>1, <2>1, <2>3
    <3>3. \A m \in Lockers : gates'[m] # Nil =>
              ~gate'[gates'[m]].closed /\ gate'[gates'[m]].w = Cardinality(Members(gates[m])')
      <4> SUFFICES ASSUME NEW m \in Lockers, NEW h \in GateIds, gates'[m] = h
                   PROVE  ~gate'[h].closed /\ gate'[h].w = Cardinality(Members(h)')
        BY <1>1, <3>2, MembersAre
      <4> QED
        BY SMTT(30), <1>1, <1>2, <1>4, <3>2
    <3>4. \A d \in Callers : at'[d].g # Nil /\ ~at'[d].left => gate'[at'[d].g].closed \/ gates'[Home(d)] = at'[d].g
      <4> SUFFICES ASSUME NEW d \in Callers, at[d].g \in GateIds, ~at[d].left, d # c
                   PROVE  gate'[at[d].g].closed \/ gates'[Home(d)] = at[d].g
        BY <1>7
      <4>1. at[d].g # g
        BY <3>1 DEF Members
      <4>2. gate[at[d].g].closed \/ gates[Home(d)] = at[d].g
        BY <1>1, <1>2
      <4> QED
        BY SMTT(30), <1>1, <2>1, <2>3, <4>1, <4>2
    <3>5. \A h \in GateIds : gate'[h].closed => gate'[h].w = 1 /\ ~gate'[h].ch
      BY <1>2, <1>9
    <3>6. \A i, m \in Lockers : gates'[i] # Nil /\ gates'[i] = gates'[m] => i = m
      BY SMTT(30), <1>2, <3>2
    <3> QED
      BY <1>1, <3>3, <3>4, <3>5, <3>6 DEF GatesCount, Home
  <2> QED
    BY <1>9, <2>2, <2>3
<1> QED
  BY <1>8, <1>9

-----------------------------------------------------------------------------
(* The actions *)

\* What is known of an attempt and its gate.
LEMMA AttemptIs ==
    ASSUME LockInv, NEW c \in Callers
    PROVE  /\ opt \in Options /\ AttemptOK(at[c]) /\ at[c] \in Attempts /\ DOMAIN at = Callers
           /\ at[c].pc # "idle" => c \in DOMAIN opt.home /\ Home(c) \in Lockers
           /\ at[c].g \in GateIds \cup {Nil} /\ Nil \notin GateIds
           /\ holder \in [Keys -> Callers \cup {Nil}] /\ stolen \in BOOLEAN
           /\ gates \in [Lockers -> GateIds \cup {Nil}] /\ gate \in [GateIds -> Gates]
<1>1. opt \in Options /\ AttemptOK(at[c]) /\ (at[c].pc # "idle" => c \in DOMAIN opt.home)
  BY LockInvIs DEF LockTypes
<1> QED
  BY SMTT(30), <1>1, LockInvIs DEF LockTypes, AttemptOK, Attempts, Home, GateIds

\* A step of one attempt that leaves the server and the gates alone.
LEMMA LocalStep ==
    ASSUME LockInv, UNCHANGED <<opt, lockServer, lockGates>>, twice => twice', NEW c \in Callers, NEW r, at' = [at EXCEPT ![c] = r],
           AttemptOK(r), Extending(at[c]) => Extending(r), \A k \in Keys : r.mon[k] = "loop" => at[c].mon[k] = "loop",
           \/ r.g = at[c].g /\ (~twice' => (r.left <=> at[c].left))
           \/ r.g = Nil /\ (~twice' => at[c].left),
           r.pc # "idle" => at[c].pc # "idle", stolen' \in BOOLEAN, stolen => stolen'
    PROVE  LockInv'
<1>1. /\ holder' \in [Keys -> Callers \cup {Nil}] /\ UNCHANGED <<holder, gates, gate>>
      /\ gates' \in [Lockers -> GateIds \cup {Nil}] /\ gate' \in [GateIds -> Gates]
  BY AttemptIs DEF lockServer, lockGates
<1>2. ~stolen' =>
          /\ ~stolen /\ Extending(r) /\ \A k \in Keys : r.mon[k] = "loop" => holder'[k] = c
          /\ \A d \in Callers \ {c} : \A k \in Keys : at[d].mon[k] = "loop" => holder'[k] = d
  BY <1>1, LockInvIs DEF Undisturbed
<1>3. LockTypes' /\ Undisturbed'
  BY <1>1, <1>2, AttemptIs, OneAttempt
<1>4. \A g \in GateIds : gate'[g].closed = gate[g].closed /\ gate'[g].w = gate[g].w /\ (~twice /\ gate[g].closed => ~gate'[g].ch)
  BY <1>1, LockInvIs DEF GatesCount
<1>5. GatesCount'
  BY <1>1, <1>4, SameMembers
<1> QED
  BY <1>3, <1>5, LockInvIs

\* One that leaves its keys alone, too.
LEMMA OwnStep ==
    ASSUME LockInv, UNCHANGED <<opt, lockServer, lockGates>>, twice => twice', NEW c \in Callers, NEW r, at' = [at EXCEPT ![c] = r],
           AttemptOK(r), Extending(at[c]) => Extending(r), r.mon = at[c].mon, r.g = at[c].g,
           r.left = at[c].left, r.pc # "idle" => at[c].pc # "idle",
           stolen' \in BOOLEAN, stolen => stolen'
    PROVE  LockInv'
<1>1. ~twice' => (r.left <=> at[c].left)
  OBVIOUS
<1> QED
  BY <1>1, LocalStep

\* The context ends, results are counted, and the attempt is decided or unlocked.
LEMMA OwnSteps ==
    ASSUME LockInv, NEW c \in Callers,
           SourceDone(c) \/ CancelTimer(c) \/ Count(c) \/ Decide(c) \/ Unlock(c)
    PROVE  LockInv'
<1>1. /\ opt \in Options /\ AttemptOK(at[c]) /\ at[c] \in Attempts /\ DOMAIN at = Callers /\ stolen \in BOOLEAN
  BY AttemptIs
<1>2. CASE SourceDone(c)
  <2> PICK r : r = [at[c] EXCEPT !.src = FALSE, !.ctx = FALSE]
    OBVIOUS
  <2>1. at' = [at EXCEPT ![c] = r] /\ UNCHANGED <<opt, lockServer, lockGates, stolen, twice>>
    BY <1>2 DEF SourceDone, lockBounds
  <2>2. AttemptOK(r) /\ Extending(r) /\ r.g = at[c].g /\ r.mon = at[c].mon /\ r.left = at[c].left
        /\ (r.pc # "idle" => at[c].pc # "idle")
    <3>1. r.pc = at[c].pc
      BY <1>1 DEF Attempts
    <3> QED
      BY <1>1, <3>1, StopOK
  <2> QED
    BY <1>1, <2>1, <2>2, OwnStep
<1>3. CASE CancelTimer(c)
  <2> PICK r : r = [at[c] EXCEPT !.fired = TRUE, !.ctx = FALSE]
    OBVIOUS
  <2>1. at' = [at EXCEPT ![c] = r] /\ UNCHANGED <<opt, lockServer, lockGates, stolen, twice>>
    BY <1>3 DEF CancelTimer, Fault
  <2>2. AttemptOK(r) /\ Extending(r) /\ r.g = at[c].g /\ r.mon = at[c].mon /\ r.left = at[c].left
    BY <1>1, StopOK
  <2>3. r.pc = at[c].pc
    BY <1>1 DEF Attempts
  <2> QED
    BY <1>1, <2>1, <2>2, <2>3, OwnStep
<1>4. CASE Count(c)
  <2> PICK r : r = [Counted(at[c]) EXCEPT !.pc = "acquire"]
    OBVIOUS
  <2>1. at' = [at EXCEPT ![c] = r] /\ UNCHANGED <<opt, lockServer, lockGates, stolen, twice>> /\ at[c].pc = "count"
    BY <1>4 DEF Count, lockBounds
  <2>2. AttemptOK(r) /\ (Extending(at[c]) => Extending(r)) /\ r.g = at[c].g /\ r.mon = at[c].mon /\ r.left = at[c].left
    <3>1. opt \in Options /\ AttemptOK(at[c]) /\ at[c].pc = "count"
      BY <1>1, <2>1
    <3> QED
      BY <3>1, CountedOK
  <2> QED
    BY <1>1, <2>1, <2>2, OwnStep
<1>5. CASE Decide(c)
  <2> PICK r : r = [at[c] EXCEPT !.pc = IF ~at[c].fired /\ at[c].failures < Majority THEN "held" ELSE "drain"]
    OBVIOUS
  <2>1. at' = [at EXCEPT ![c] = r] /\ UNCHANGED <<opt, lockServer, lockGates, stolen, twice>> /\ at[c].pc = "acquire"
        /\ ~(at[c].acquired < Majority /\ at[c].failures < Majority)
    BY <1>5 DEF Decide, Deciding, lockBounds
  <2>2. AttemptOK(r) /\ (Extending(at[c]) => Extending(r)) /\ r.g = at[c].g /\ r.mon = at[c].mon /\ r.left = at[c].left
    BY SMTT(30), <1>1, <2>1, DecideOK
  <2> QED
    BY <1>1, <2>1, <2>2, OwnStep
<1>6. CASE Unlock(c)
  <2> PICK r : r = [at[c] EXCEPT !.ctx = FALSE, !.pc = "unlock"]
    OBVIOUS
  <2>1. at' = [at EXCEPT ![c] = r] /\ UNCHANGED <<opt, lockServer, lockGates, stolen, twice>> /\ at[c].pc = "held"
    BY <1>6 DEF Unlock, lockBounds
  <2>2. AttemptOK(r) /\ Extending(r) /\ r.g = at[c].g /\ r.mon = at[c].mon /\ r.left = at[c].left
    BY <1>1, <2>1, StopOK
  <2> QED
    BY <1>1, <2>1, <2>2, OwnStep
<1> QED
  BY <1>2, <1>3, <1>4, <1>5, <1>6

\* What acquire does at the server and to the gate: undisturbed, it sets a key that was free.
LEMMA AcquireIs ==
    ASSUME LockInv, NEW c \in Callers, at[c].next \in Keys, at[c].g \in GateIds, NEW e, Acquire(c, e)
    PROVE  /\ UNCHANGED <<opt, gates, twice>> /\ holder' \in [Keys -> Callers \cup {Nil}] /\ stolen' \in BOOLEAN
           /\ ~stolen' => /\ ~stolen
                          /\ \/ holder' = holder /\ e # "ok"
                             \/ holder[at[c].next] = Nil /\ holder' = [holder EXCEPT ![at[c].next] = c]
           /\ gate' \in [GateIds -> Gates]
           /\ \A g \in GateIds : gate'[g].closed = gate[g].closed /\ gate'[g].w = gate[g].w /\ gate'[g].ch = gate[g].ch
<1>1. /\ holder \in [Keys -> Callers \cup {Nil}] /\ stolen \in BOOLEAN /\ gate \in [GateIds -> Gates]
  BY AttemptIs
<1>2. UNCHANGED <<opt, gates>>
  BY DEF Acquire
<1>3. AcquireKey(c, at[c].next, e)
  BY DEF Acquire
<1>4. /\ UNCHANGED twice /\ holder' \in [Keys -> Callers \cup {Nil}] /\ stolen' \in BOOLEAN
      /\ ~stolen' => /\ ~stolen
                     /\ \/ holder' = holder /\ e # "ok"
                        \/ holder[at[c].next] = Nil /\ holder' = [holder EXCEPT ![at[c].next] = c]
  BY <1>1, <1>3 DEF AcquireKey, lockServer, NoFault, Fault, Set, Look
<1> PICK g \in GateIds : g = at[c].g
  OBVIOUS
<1> PICK S \in SUBSET Keys : gate' = [gate EXCEPT ![g].csc = S]
  <2>1. gate[g].csc \in SUBSET Keys
    BY <1>1 DEF Gates
  <2>2. \/ gate' = [gate EXCEPT ![g].csc = gate[g].csc \cup {at[c].next}]
        \/ gate' = [gate EXCEPT ![g].csc = gate[g].csc \ {at[c].next}]
    BY DEF Acquire
  <2> QED
    BY <2>1, <2>2
<1>5. gate' \in [GateIds -> Gates] /\ \A h \in GateIds : gate'[h].closed = gate[h].closed /\ gate'[h].w = gate[h].w /\ gate'[h].ch = gate[h].ch
  <2> PICK n : n = [gate[g] EXCEPT !.csc = S]
    OBVIOUS
  <2>1. n \in Gates /\ n.closed = gate[g].closed /\ n.w = gate[g].w /\ n.ch = gate[g].ch
    BY <1>1 DEF Gates
  <2>2. gate' = [gate EXCEPT ![g] = n]
    OBVIOUS
  <2> QED
    BY SMTT(30), <1>1, <2>1, <2>2
<1> QED
  BY <1>2, <1>4, <1>5

\* A key is acquired, in the loop of try or by the goroutine for the rest.
LEMMA AcquireKeeps ==
    ASSUME LockInv, NEW c \in Callers, AcquireNext(c) \/ AcquireRest(c)
    PROVE  LockInv'
<1> PICK q : q = at[c]
  OBVIOUS
<1>1. /\ opt \in Options /\ AttemptOK(q) /\ q \in Attempts /\ DOMAIN at = Callers
      /\ q.pc # "idle" => c \in DOMAIN opt.home
  BY AttemptIs
<1>2. q.pc \in {"acquire", "held", "unlock", "drain"} /\ q.next \in Keys /\ q.g \in GateIds
  <2>1. CASE q.pc = "acquire" /\ Deciding(c)
    <3>1. /\ q.next = q.acquired + q.failures /\ q.acquired \in Nat /\ q.failures \in Nat /\ q.g \in GateIds
      BY <1>1, <2>1 DEF AttemptOK, Attempts
    <3>2. Majority \in Nat /\ q.acquired < Majority /\ q.failures < Majority
      BY <1>1, <2>1, KeysAre DEF Deciding
    <3>3. q.next \in Nat /\ q.next < 2 * Majority - 1
      BY SMTT(30), <3>1, <3>2
    <3> QED
      BY <1>1, <2>1, <3>1, <3>3, KeysAre
  <2>2. CASE q.pc \in {"held", "unlock", "drain"} /\ q.next \in Keys
    BY <1>1, <2>2 DEF AttemptOK, Attempts
  <2> QED
    BY <2>1, <2>2 DEF AcquireNext, AcquireRest
<1>3. PICK e, r :
          /\ e \in {"ok", "notlocked", "other"} /\ Acquire(c, e) /\ at' = [at EXCEPT ![c] = r]
          /\ \/ q.pc # "acquire" /\ r = Monitored(q, e)
             \/ q.pc = "acquire" /\ r = [Monitored(q, e) EXCEPT !.pc = "count"]
  <2>1. CASE AcquireNext(c)
    <3>1. PICK e \in {"ok", "notlocked", "other"} :
              Acquire(c, e) /\ at' = [at EXCEPT ![c] = [Monitored(q, e) EXCEPT !.pc = "count"]]
      BY <2>1 DEF AcquireNext
    <3> QED
      BY <2>1, <3>1 DEF AcquireNext
  <2>2. CASE AcquireRest(c)
    <3>1. PICK e \in {"ok", "notlocked", "other"} : Acquire(c, e) /\ at' = [at EXCEPT ![c] = Monitored(q, e)]
      BY <2>2 DEF AcquireRest
    <3> QED
      BY <2>2, <3>1 DEF AcquireRest
  <2> QED
    BY <2>1, <2>2
<1>4. /\ AttemptOK(r) /\ (Extending(q) => Extending(r)) /\ r.g = q.g
      /\ \A k \in Keys : r.mon[k] = "loop" => q.mon[k] = "loop" \/ (k = q.next /\ e = "ok")
      /\ r.left = q.left
  BY SMTT(30), <1>1, <1>2, <1>3, MonitoredOK
<1>5. /\ UNCHANGED <<opt, gates, twice>> /\ holder' \in [Keys -> Callers \cup {Nil}] /\ stolen' \in BOOLEAN
      /\ ~stolen' => /\ ~stolen
                     /\ \/ holder' = holder /\ e # "ok"
                        \/ holder[q.next] = Nil /\ holder' = [holder EXCEPT ![q.next] = c]
      /\ gate' \in [GateIds -> Gates]
      /\ \A g \in GateIds : gate'[g].closed = gate[g].closed /\ gate'[g].w = gate[g].w /\ gate'[g].ch = gate[g].ch
  BY <1>2, <1>3, AcquireIs
<1>6. ~stolen' =>
          /\ ~stolen /\ Extending(r) /\ \A k \in Keys : r.mon[k] = "loop" => holder'[k] = c
          /\ \A d \in Callers \ {c} : \A k \in Keys : at[d].mon[k] = "loop" => holder'[k] = d
  <2> SUFFICES ASSUME ~stolen'
               PROVE  /\ ~stolen /\ Extending(r) /\ \A k \in Keys : r.mon[k] = "loop" => holder'[k] = c
                      /\ \A d \in Callers \ {c} : \A k \in Keys : at[d].mon[k] = "loop" => holder'[k] = d
    OBVIOUS
  <2>1. /\ \A d \in Callers : Extending(at[d]) /\ \A k \in Keys : at[d].mon[k] = "loop" => holder[k] = d
        /\ holder \in [Keys -> Callers \cup {Nil}]
    BY <1>5, AttemptIs, LockInvIs DEF Undisturbed
  <2> QED
    BY SMTT(30), <1>2, <1>4, <1>5, <2>1
<1>7. LockTypes' /\ Undisturbed'
  <2>1. c \in DOMAIN opt.home /\ gates' \in [Lockers -> GateIds \cup {Nil}]
    BY <1>1, <1>2, <1>5, AttemptIs
  <2> QED
    BY <1>3, <1>4, <1>5, <1>6, <2>1, OneAttempt
<1>8. \A g \in GateIds : gate'[g].closed = gate[g].closed /\ gate'[g].w = gate[g].w /\ (~twice /\ gate[g].closed => ~gate'[g].ch)
  BY <1>5, LockInvIs DEF GatesCount
<1>9. GatesCount'
  BY <1>3, <1>4, <1>5, <1>8, SameMembers
<1> QED
  BY <1>7, <1>9, LockInvIs

-----------------------------------------------------------------------------
(* The gates, the monitors, the server. *)

\* getgate, by a caller that begins or tries again.
LEMMA GetGateKeeps ==
    ASSUME LockInv, UNCHANGED <<opt, lockServer, stolen, twice>>, NEW c \in Callers, at[c].pc \in {"idle", "retry"},
           c \in DOMAIN opt.home, NEW o \in opt.ops \cup {"with"}, NEW b \in BOOLEAN, GetGate(c, o, b)
    PROVE  LockInv'
<1>1. /\ opt \in Options /\ AttemptOK(at[c]) /\ at[c].g = Nil /\ Home(c) \in Lockers /\ holder \in [Keys -> Callers \cup {Nil}]
      /\ stolen \in BOOLEAN /\ \A k \in Keys : at[c].mon[k] = "none"
  <2>1. opt \in Options /\ AttemptOK(at[c]) /\ holder \in [Keys -> Callers \cup {Nil}] /\ stolen \in BOOLEAN
    BY AttemptIs
  <2> QED
    BY <2>1 DEF AttemptOK, Home
<1>2. ~at[c].left
  BY <1>1, KeysAre DEF AttemptOK
<1>3. CASE Home(c) \in shut
  <2>1. at' = [at EXCEPT ![c] = NoAttempt] /\ UNCHANGED lockGates
    BY <1>3 DEF GetGate
  <2> PICK r : r = NoAttempt
    OBVIOUS
  <2>2. AttemptOK(r) /\ Extending(r) /\ r.pc = "idle" /\ r.g = Nil /\ ~r.left /\ \A k \in Keys : r.mon[k] = "none"
    BY <1>1, NewAttempt, BeginOK
  <2> QED
    BY <1>1, <1>2, <2>1, <2>2, LocalStep
<1>4. CASE Home(c) \notin shut
  <2> PICK r : r = [NoAttempt EXCEPT !.pc = "acquire", !.op = o, !.g = GateOf(Home(c)), !.ctx = b, !.src = b]
    OBVIOUS
  <2>1. /\ gates' = [gates EXCEPT ![Home(c)] = GateOf(Home(c))] /\ gate' = [gate EXCEPT ![GateOf(Home(c))] = GateJoined(Home(c))]
        /\ at' = [at EXCEPT ![c] = r]
    BY <1>4 DEF GetGate
  <2>2. /\ r.pc = "acquire" /\ r.g = GateOf(Home(c)) /\ r.next = 0 /\ r.acquired = 0 /\ r.failures = 0 /\ ~r.left
        /\ \A k \in Keys : r.mon[k] = "none"
    BY <1>1, NewAttempt DEF Attempts
  <2>3. /\ GatesCount' /\ r.g \in GateIds /\ gates' \in [Lockers -> GateIds \cup {Nil}] /\ gate' \in [GateIds -> Gates]
        /\ \A g \in GateIds : gate'[g].closed => gate[g].closed
    BY <1>1, <1>2, <2>1, <2>2, JoinKeeps
  <2>4. r \in Attempts
    <3>1. NoAttempt \in Attempts /\ GateOf(Home(c)) \in GateIds
      BY <1>1, <2>2, <2>3, NewAttempt
    <3> QED
      BY <3>1 DEF Attempts
  <2>5. AttemptOK(r) /\ Extending(r) /\ \A k \in Keys : r.mon[k] # "loop"
    BY <1>1, <2>2, <2>3, <2>4, BeginOK
  <2>6. UNCHANGED holder
    BY <2>1 DEF lockServer
  <2>7. ~stolen' =>
            /\ ~stolen /\ Extending(r) /\ \A k \in Keys : r.mon[k] = "loop" => holder'[k] = c
            /\ \A d \in Callers \ {c} : \A k \in Keys : at[d].mon[k] = "loop" => holder'[k] = d
    BY <2>3, <2>5, <2>6, LockInvIs DEF Undisturbed
  <2>8. LockTypes' /\ Undisturbed'
    BY <1>1, <2>1, <2>3, <2>5, <2>6, <2>7, OneAttempt
  <2> QED
    BY <2>3, <2>8, LockInvIs
<1> QED
  BY <1>3, <1>4

\* A gate with one user less.
LEMMA FewerIs ==
    ASSUME NEW q \in Gates, NEW x \in BOOLEAN
    PROVE  \A y : y = [q EXCEPT !.w = q.w - 1, !.ch = x] => y \in Gates /\ y.closed = q.closed /\ y.w = q.w - 1
<1> PICK z : z = [q EXCEPT !.w = q.w - 1]
  OBVIOUS
<1>1. z \in Gates /\ z.closed = q.closed /\ z.w = q.w - 1
  BY SMTT(30) DEF Gates
<1>2. \A y : y = [z EXCEPT !.ch = x] => y \in Gates /\ y.closed = z.closed /\ y.w = z.w
  BY <1>1 DEF Gates
<1> QED
  BY <1>1, <1>2

\* Leaving, as LeaveKeeps wants it.
LEMMA LeavingIs ==
    ASSUME LockInv, NEW c \in Callers, at[c].g \in GateIds, NEW b \in BOOLEAN, Leaving(c, b)
    PROVE  /\ gates' \in [Lockers -> GateIds \cup {Nil}] /\ gate' \in [GateIds -> Gates]
           /\ \A h \in GateIds : h = at[c].g \/ gate'[h] = gate[h]
           /\ \A h \in GateIds : gate'[h].closed => gate[h].closed
           /\ ~twice /\ gate[at[c].g].closed /\ Home(c) \in Lockers =>
                  gates' = gates /\ (gate'[at[c].g] = gate[at[c].g] \/ (Using(at[c].g) = {c} /\ ~gate'[at[c].g].closed))
           /\ ~twice /\ ~gate[at[c].g].closed /\ ~at[c].left /\ Home(c) \in Lockers =>
                  /\ ~gate'[at[c].g].closed
                  /\ \/ gates' = gates /\ gate'[at[c].g].w = gate[at[c].g].w - 1
                     \/ gates' = [gates EXCEPT ![Home(c)] = Nil] /\ gate[at[c].g].w = 1
<1> PICK g \in GateIds : g = at[c].g
  OBVIOUS
<1> PICK last \in BOOLEAN : last <=> gate[g].w = 1
  OBVIOUS
<1> PICK n : n = IF last /\ Using(g) = {c} THEN NewGate
                 ELSE IF gate[g].closed THEN gate[g]
                 ELSE [gate[g] EXCEPT !.w = @ - 1, !.ch = @ \/ (b /\ ~last /\ Home(c) \notin shut)]
  OBVIOUS
<1>1. /\ gates \in [Lockers -> GateIds \cup {Nil}] /\ gate \in [GateIds -> Gates] /\ gate[g] \in Gates /\ Nil \notin GateIds
  BY AttemptIs
<1>2. gate' = [gate EXCEPT ![g] = n]
      /\ gates' = IF last /\ gates[Home(c)] = g THEN [gates EXCEPT ![Home(c)] = Nil] ELSE gates
  BY DEF Leaving
<1>3. NewGate \in Gates /\ ~NewGate.closed
  <2>1. 1 \in Int /\ {} \in SUBSET Keys
    BY SMTT(30)
  <2> QED
    BY <2>1 DEF NewGate, Gates
<1>4. n \in Gates /\ (n.closed => gate[g].closed /\ n = gate[g])
  <2> PICK x : x = (gate[g].ch \/ (b /\ ~last /\ Home(c) \notin shut))
    OBVIOUS
  <2>1. x \in BOOLEAN
    OBVIOUS
  <2> PICK y : y = [gate[g] EXCEPT !.w = gate[g].w - 1, !.ch = x]
    OBVIOUS
  <2>2. y \in Gates /\ y.closed = gate[g].closed
    <3>1. gate[g] \in Gates
      BY <1>1
    <3> QED
      BY <2>1, <3>1, FewerIs
  <2>3. n = IF last /\ Using(g) = {c} THEN NewGate ELSE IF gate[g].closed THEN gate[g] ELSE y
    OBVIOUS
  <2> QED
    BY <1>1, <1>3, <2>2, <2>3
<1>5. /\ gate' \in [GateIds -> Gates] /\ gate'[g] = n /\ \A h \in GateIds : h = g \/ gate'[h] = gate[h]
      /\ gates' \in [Lockers -> GateIds \cup {Nil}]
  BY <1>1, <1>2, <1>4
<1>6. ASSUME ~twice, gate[g].closed, Home(c) \in Lockers
      PROVE  gates' = gates /\ (gate'[g] = gate[g] \/ (Using(g) = {c} /\ ~gate'[g].closed))
  <2>1. gates[Home(c)] # g
    BY SMTT(30), <1>1, <1>6, LockInvIs DEF GatesCount
  <2> QED
    BY <1>2, <1>3, <1>5, <1>6, <2>1
<1>7. ASSUME ~twice, ~gate[g].closed, ~at[c].left, Home(c) \in Lockers
      PROVE  /\ ~gate'[g].closed
             /\ \/ gates' = gates /\ gate'[g].w = gate[g].w - 1
                \/ gates' = [gates EXCEPT ![Home(c)] = Nil] /\ gate[g].w = 1
  <2>1. gates[Home(c)] = g
    BY <1>1, <1>7, LockInvIs DEF GatesCount
  <2>2. ~last => gate'[g].w = gate[g].w - 1 /\ gates' = gates
    BY <1>1, <1>2, <1>5, <1>7 DEF Gates
  <2> QED
    BY <1>2, <1>4, <1>5, <1>7, <2>1, <2>2
<1>8. \A h \in GateIds : gate'[h].closed => gate[h].closed
  BY <1>4, <1>5
<1> QED
  BY <1>2, <1>5, <1>6, <1>7, <1>8

\* A step with which its caller leaves the gate.
LEMMA LeavingKeeps ==
    ASSUME LockInv, UNCHANGED <<opt, lockServer>>, stolen' \in BOOLEAN, stolen => stolen', twice => twice',
           NEW c \in Callers, at[c].g \in GateIds, NEW b \in BOOLEAN, Leaving(c, b),
           ~twice' => ~at[c].left, NEW r, at' = [at EXCEPT ![c] = r], r.g = Nil \/ (r.g = at[c].g /\ r.left),
           AttemptOK(r), Extending(at[c]) => Extending(r), \A k \in Keys : r.mon[k] = "loop" => at[c].mon[k] = "loop"
    PROVE  LockInv'
<1>1. c \in DOMAIN opt.home /\ Home(c) \in Lockers /\ holder \in [Keys -> Callers \cup {Nil}] /\ UNCHANGED holder
  <2>1. at[c].pc # "idle"
    BY AttemptIs DEF AttemptOK
  <2> QED
    BY <2>1, AttemptIs DEF lockServer
<1> PICK g \in GateIds : g = at[c].g
  OBVIOUS
<1>2. /\ gates' \in [Lockers -> GateIds \cup {Nil}] /\ gate' \in [GateIds -> Gates]
      /\ \A h \in GateIds : h = g \/ gate'[h] = gate[h]
      /\ \A h \in GateIds : gate'[h].closed => gate[h].closed
      /\ ~twice' /\ gate[g].closed => gates' = gates /\ (gate'[g] = gate[g] \/ (Using(g) = {c} /\ ~gate'[g].closed))
      /\ ~twice' /\ ~gate[g].closed =>
             /\ ~gate'[g].closed
             /\ \/ gates' = gates /\ gate'[g].w = gate[g].w - 1
                \/ gates' = [gates EXCEPT ![Home(c)] = Nil] /\ gate[g].w = 1
  BY <1>1, LeavingIs
<1>3. GatesCount'
  BY <1>1, <1>2, LeaveKeeps
<1>4. ~stolen' =>
          /\ ~stolen /\ Extending(r) /\ \A k \in Keys : r.mon[k] = "loop" => holder'[k] = c
          /\ \A d \in Callers \ {c} : \A k \in Keys : at[d].mon[k] = "loop" => holder'[k] = d
  BY SMTT(30), <1>1, <1>2, LockInvIs DEF Undisturbed
<1>5. LockTypes' /\ Undisturbed'
  BY <1>1, <1>2, <1>4, OneAttempt
<1> QED
  BY <1>3, <1>5, LockInvIs

\* The end of a failed try and of a call.
LEMMA EndSteps ==
    ASSUME LockInv, NEW c \in Callers, TryFailed(c) \/ GiveUp(c) \/ Unlocked(c)
    PROVE  LockInv'
<1>1. /\ opt \in Options /\ AttemptOK(at[c]) /\ at[c] \in Attempts /\ stolen \in BOOLEAN
  BY AttemptIs
<1>2. at[c].pc \in {"drain", "waiting", "unlock"} /\ at[c].g \in GateIds /\ UNCHANGED <<opt, lockServer, stolen>>
      /\ (twice => twice') /\ (~twice' /\ at[c].pc = "drain" => ~at[c].left)
  <2>1. CASE TryFailed(c)
    <3>1. at[c].pc = "drain" /\ twice' = (twice \/ at[c].left) /\ UNCHANGED <<opt, lockServer, stolen>>
      BY <2>1 DEF TryFailed
    <3> QED
      BY <1>1, <3>1 DEF AttemptOK, Attempts
  <2>2. CASE GiveUp(c) \/ Unlocked(c)
    <3>1. at[c].pc \in {"waiting", "unlock"} /\ UNCHANGED <<opt, lockServer, stolen, twice>>
      BY <2>2 DEF GiveUp, Unlocked, lockBounds
    <3> QED
      BY <1>1, <3>1 DEF AttemptOK, Attempts
  <2> QED
    BY <2>1, <2>2
<1>3. AttemptOK(NoAttempt) /\ Extending(NoAttempt) /\ NoAttempt.g = Nil /\ NoAttempt.pc = "idle" /\ ~NoAttempt.left
      /\ \A k \in Keys : NoAttempt.mon[k] = "none"
  BY <1>1, NewAttempt, BeginOK
<1>4. ~twice' /\ at[c].pc \in {"drain", "waiting"} => ~at[c].left
  <2>1. at[c].pc = "waiting" => ~at[c].left
    BY <1>1, KeysAre DEF AttemptOK
  <2> QED
    BY <1>2, <2>1
<1>5. CASE at' = [at EXCEPT ![c] = NoAttempt] /\ Leaving(c, FALSE) /\ at[c].pc \in {"drain", "waiting"}
  <2> PICK r : r = NoAttempt
    OBVIOUS
  <2>1. AttemptOK(r) /\ Extending(r) /\ r.g = Nil /\ \A k \in Keys : r.mon[k] # "loop"
    BY <1>3
  <2> QED
    BY <1>1, <1>2, <1>4, <1>5, <2>1, LeavingKeeps
<1>6. CASE Unlocked(c)
  <2> PICK r : r = NoAttempt
    OBVIOUS
  <2>1. AttemptOK(r) /\ Extending(r) /\ r.g = Nil /\ (\A k \in Keys : r.mon[k] # "loop") /\ r.pc = "idle"
    BY <1>3
  <2>2. at' = [at EXCEPT ![c] = r] /\ UNCHANGED lockGates
    BY <1>6 DEF Unlocked
  <2>3. at[c].left
    BY <1>1, <1>6 DEF Unlocked, DoneClosed, AttemptOK
  <2> QED
    BY <1>1, <1>2, <2>1, <2>2, <2>3, LocalStep
<1>7. CASE TryFailed(c) /\ at[c].op = "with"
  <2> PICK r : r = [NoAttempt EXCEPT !.pc = "waiting", !.g = at[c].g, !.src = at[c].src, !.err = at[c].err]
    OBVIOUS
  <2>1. at' = [at EXCEPT ![c] = r] /\ UNCHANGED lockGates /\ at[c].pc = "drain"
    BY <1>7 DEF TryFailed
  <2>2. /\ r \in Attempts /\ r.pc = "waiting" /\ r.g = at[c].g /\ r.next = 0 /\ r.acquired = 0 /\ r.failures = 0
        /\ ~r.left /\ ~r.ctx /\ \A k \in Keys : r.mon[k] = "none"
    BY <1>1, <1>2, NewAttempt DEF Attempts
  <2>3. AttemptOK(r) /\ Extending(r) /\ \A k \in Keys : r.mon[k] # "loop"
    BY <1>1, <1>2, <2>2, BeginOK
  <2> QED
    BY <1>1, <1>2, <1>4, <2>1, <2>2, <2>3, LocalStep
<1> QED
  BY <1>5, <1>6, <1>7 DEF TryFailed, GiveUp, RemoveGate

\* A waiter is woken and leaves the gate, to get one again.
LEMMA WakeKeeps ==
    ASSUME LockInv, NEW c \in Callers, WakeUp(c)
    PROVE  LockInv'
<1>1. /\ opt \in Options /\ AttemptOK(at[c]) /\ at[c] \in Attempts /\ stolen \in BOOLEAN /\ at[c].pc = "waiting"
      /\ gates \in [Lockers -> GateIds \cup {Nil}] /\ gate \in [GateIds -> Gates] /\ holder \in [Keys -> Callers \cup {Nil}]
      /\ UNCHANGED <<opt, holder, gates, stolen, twice>>
  BY AttemptIs DEF WakeUp, lockServer, lockBounds
<1>2. c \in DOMAIN opt.home /\ Home(c) \in Lockers /\ at[c].g \in GateIds
  BY <1>1, AttemptIs DEF AttemptOK
<1> PICK g \in GateIds : g = at[c].g
  BY <1>2
<1> PICK r : r = [at[c] EXCEPT !.pc = "retry", !.g = Nil]
  OBVIOUS
<1>3. at' = [at EXCEPT ![c] = r]
  BY DEF WakeUp
<1>4. /\ r \in Attempts /\ r.pc = "retry" /\ r.g = Nil /\ r.mon = at[c].mon /\ r.ctx = at[c].ctx /\ r.left = at[c].left
      /\ r.next = at[c].next
  BY <1>1 DEF Attempts
<1>5. AttemptOK(r) /\ Extending(r)
  <2>1. 0 \in Keys /\ r.mon[0] # "end"
    BY <1>1, <1>4, KeysAre DEF AttemptOK
  <2> QED
    BY <1>1, <1>4, <2>1 DEF AttemptOK, Extending
<1>6. ~at[c].left /\ \A k \in Keys : r.mon[k] # "loop"
  BY <1>1, <1>4, KeysAre DEF AttemptOK
<1>7. /\ gate' \in [GateIds -> Gates] /\ \A h \in GateIds : (h = g \/ gate'[h] = gate[h]) /\ gate'[h].closed = gate[h].closed
      /\ \/ gate' = gate /\ gate[g].closed
         \/ gate'[g].w = gate[g].w - 1 /\ (gate[g].ch \/ ~gate[g].closed)
  <2>1. gate[g] \in Gates
    BY <1>1
  <2>2. CASE gate' = gate /\ gate[g].closed
    BY <1>1, <2>2
  <2>3. CASE gate[g].ch /\ gate' = [gate EXCEPT ![g].ch = FALSE, ![g].w = @ - 1]
    <3> PICK n : n = [gate[g] EXCEPT !.w = gate[g].w - 1, !.ch = FALSE]
      OBVIOUS
    <3>1. n \in Gates /\ n.closed = gate[g].closed /\ n.w = gate[g].w - 1
      BY <2>1, FewerIs
    <3>2. gate' = [gate EXCEPT ![g] = n]
      BY <2>3
    <3> QED
      BY SMTT(30), <1>1, <2>3, <3>1, <3>2
  <2>4. CASE ~gate[g].closed /\ gate' = [gate EXCEPT ![g].w = @ - 1]
    <3> PICK n : n = [gate[g] EXCEPT !.w = gate[g].w - 1]
      OBVIOUS
    <3>1. n \in Gates /\ n.closed = gate[g].closed /\ n.w = gate[g].w - 1
      BY SMTT(30), <2>1 DEF Gates
    <3>2. gate' = [gate EXCEPT ![g] = n]
      BY <2>4
    <3> QED
      BY SMTT(30), <1>1, <2>4, <3>1, <3>2
  <2> QED
    BY <2>2, <2>3, <2>4 DEF WakeUp
<1>8. GatesCount'
  <2>1. ~twice /\ gate[g].closed => ~gate[g].ch
    BY LockInvIs DEF GatesCount
  <2> QED
    <3>1. r.g = Nil /\ UNCHANGED <<opt, gates, twice>> /\ c \in DOMAIN opt.home /\ at[c].g \in GateIds
      BY <1>1, <1>2, <1>4
    <3> QED
      BY <1>2, <1>3, <1>6, <1>7, <2>1, <3>1, LeaveKeeps
<1>9. ~stolen' =>
          /\ ~stolen /\ Extending(r) /\ \A k \in Keys : r.mon[k] = "loop" => holder'[k] = c
          /\ \A d \in Callers \ {c} : \A k \in Keys : at[d].mon[k] = "loop" => holder'[k] = d
  BY <1>1, <1>5, <1>6, <1>7, LockInvIs DEF Undisturbed
<1>10. LockTypes' /\ Undisturbed'
  BY <1>1, <1>2, <1>3, <1>5, <1>7, <1>9, OneAttempt
<1> QED
  BY <1>8, <1>10, LockInvIs

\* A monitor leaves its loop or deletes its key; undisturbed, it leaves the loop only when the context is
\* done or it gives up.
LEMMA MonitorStep ==
    ASSUME LockInv, UNCHANGED <<opt, gates>>, twice => twice', NEW c \in Callers, NEW k \in Keys, NEW r, NEW s,
           s # "end", Monitoring(at[c], k, s, r), at[c].mon[k] \in {"loop", "delete"},
           at' = [at EXCEPT ![c] = r], holder' \in [Keys -> Callers \cup {Nil}], stolen' \in BOOLEAN, gate' \in [GateIds -> Gates],
           \A g \in GateIds : gate'[g].closed = gate[g].closed /\ gate'[g].w = gate[g].w /\ gate'[g].ch = gate[g].ch,
           ~stolen' =>
               /\ ~stolen /\ (at[c].mon[k] = "loop" /\ at[c].ctx => r = GivenUp(at[c], k))
               /\ \A d \in Callers : \A j \in Keys : at[d].mon[j] = "loop" => holder'[j] = d \/ (d = c /\ j = k)
    PROVE  LockInv'
<1> PICK q : q = at[c]
  OBVIOUS
<1>1. opt \in Options /\ AttemptOK(q) /\ q \in Attempts /\ q.ctx \in BOOLEAN /\ gates \in [Lockers -> GateIds \cup {Nil}]
      /\ (q.pc # "idle" => c \in DOMAIN opt.home)
  BY AttemptIs DEF Attempts
<1>2. /\ AttemptOK(r) /\ r.g = q.g /\ r.pc = q.pc /\ ~r.left
      /\ (r.ctx => q.ctx) /\ (r = GivenUp(q, k) /\ q.ctx => r.failed)
      /\ ((r.ctx /\ ~r.failed => q.mon[k] # "loop") /\ Extending(q) => Extending(r))
      /\ r.mon[k] = s /\ \A j \in Keys : j = k \/ r.mon[j] = q.mon[j]
  <2>1. s # "end" /\ q.mon[k] \notin {"none", "end"} /\ Monitoring(q, k, s, r)
    OBVIOUS
  <2> QED
    BY SMTT(30), <1>1, <2>1, MonitorOK
<1>3. ~q.left /\ r.mon[k] # "loop"
  BY <1>1, <1>2 DEF AttemptOK, Monitoring
<1>4. ~stolen' =>
          /\ ~stolen /\ Extending(r) /\ \A j \in Keys : r.mon[j] = "loop" => holder'[j] = c
          /\ \A d \in Callers \ {c} : \A j \in Keys : at[d].mon[j] = "loop" => holder'[j] = d
  <2> SUFFICES ASSUME ~stolen'
               PROVE  /\ ~stolen /\ Extending(r) /\ \A j \in Keys : r.mon[j] = "loop" => holder'[j] = c
                      /\ \A d \in Callers \ {c} : \A j \in Keys : at[d].mon[j] = "loop" => holder'[j] = d
    OBVIOUS
  <2>1. ~stolen /\ (q.mon[k] = "loop" /\ q.ctx => r = GivenUp(q, k)) /\ Extending(q)
    BY LockInvIs DEF Undisturbed
  <2>2. Extending(r)
    BY <1>2, <2>1
  <2> QED
    BY <1>2, <1>3, <2>1, <2>2
<1>5. LockTypes' /\ Undisturbed'
  BY <1>1, <1>2, <1>4, OneAttempt
<1>6. \A g \in GateIds : gate'[g].closed = gate[g].closed /\ gate'[g].w = gate[g].w /\ (~twice /\ gate[g].closed => ~gate'[g].ch)
  BY LockInvIs DEF GatesCount
<1>7. GatesCount'
  <2>1. r.g = at[c].g /\ (r.left <=> at[c].left)
    BY <1>2, <1>3
  <2> QED
    BY <1>6, <2>1, SameMembers
<1> QED
  BY <1>5, <1>7, LockInvIs

\* A step of no attempt that leaves the map of gates alone.
LEMMA ServerStep ==
    ASSUME LockInv, UNCHANGED <<opt, at, gates>>, twice => twice',
           holder' \in [Keys -> Callers \cup {Nil}], stolen' \in BOOLEAN, gate' \in [GateIds -> Gates],
           \A g \in GateIds : gate'[g].closed = gate[g].closed /\ gate'[g].w = gate[g].w /\ (~twice /\ gate[g].closed => ~gate'[g].ch),
           ~stolen' =>
               ~stolen /\ \A d \in Callers : \A j \in Keys : at[d].mon[j] = "loop" => holder'[j] = d
    PROVE  LockInv'
<1>1. /\ opt' \in Options /\ Keys' = Keys /\ GateIds' = GateIds /\ Gates' = Gates /\ Attempts' = Attempts /\ Majority' = Majority
      /\ gates \in [Lockers -> GateIds \cup {Nil}] /\ \A d \in Callers : at[d].g \in GateIds \cup {Nil}
  BY LockInvIs DEF LockTypes, Keys, GateIds, Gates, Attempts, Majority, AttemptOK
<1>2. \A d \in Callers : AttemptOK(at[d])' /\ (Extending(at[d])' <=> Extending(at[d])) /\ (at'[d].left <=> at[d].left)
  <2> SUFFICES ASSUME NEW d \in Callers
               PROVE  AttemptOK(at[d])' /\ (Extending(at[d])' <=> Extending(at[d])) /\ (at'[d].left <=> at[d].left)
    OBVIOUS
  <2>1. AttemptOK(at[d]) /\ Loops(at[d])' = Loops(at[d])
    BY <1>1, LockInvIs DEF LockTypes, Loops
  <2> QED
    BY <1>1, <2>1 DEF AttemptOK, Extending
<1>3. LockTypes'
  BY <1>1, <1>2, LockInvIs DEF LockTypes
<1>4. Undisturbed'
  BY <1>1, <1>2, LockInvIs DEF Undisturbed
<1>5. ASSUME ~twice' PROVE GatesCount'
  <2>1. \A g : Members(g)' = Members(g)
    BY <1>2 DEF Members
  <2>2. \A l \in Lockers : Members(gates[l])' = Members(gates[l])
    BY <1>2 DEF Members
  <2> QED
    BY <1>1, <1>2, <1>5, <2>2, LockInvIs DEF GatesCount, Home
<1>6. twice' => GatesCount'
  BY DEF GatesCount
<1> QED
  BY <1>3, <1>4, <1>5, <1>6, LockInvIs

\* The monitor of a key extends it, leaves its loop or deletes the key.
LEMMA MonitorKeeps ==
    ASSUME LockInv, NEW c \in Callers, NEW k \in Keys, Extend(c, k) \/ Leave(c, k) \/ DelKey(c, k)
    PROVE  LockInv'
<1>1. /\ opt \in Options /\ AttemptOK(at[c]) /\ at[c] \in Attempts /\ DOMAIN at = Callers
      /\ holder \in [Keys -> Callers \cup {Nil}] /\ stolen \in BOOLEAN /\ gate \in [GateIds -> Gates]
  BY AttemptIs
<1>2. at[c].mon[k] \in {"loop", "delete"} /\ UNCHANGED <<opt, gates, twice>>
  BY DEF Extend, Leave, DelKey, lockGates, lockBounds, NoFault, Fault
<1>3. at[c].g \in GateIds
  BY <1>1, <1>2 DEF AttemptOK, Attempts
<1>4. ~stolen => \A d \in Callers : \A j \in Keys : at[d].mon[j] = "loop" => holder[j] = d
  BY LockInvIs DEF Undisturbed
<1>5. CASE Extend(c, k)
  <2> PICK g \in GateIds : g = at[c].g
    BY <1>3
  <2>1. gate' \in [GateIds -> Gates] /\ \A h \in GateIds : gate'[h].closed = gate[h].closed /\ gate'[h].w = gate[h].w /\ gate'[h].ch = gate[h].ch
    <3> PICK n : n = [gate[g] EXCEPT !.csc = gate[g].csc \ {k}]
      OBVIOUS
    <3>1. n \in Gates /\ n.closed = gate[g].closed /\ n.w = gate[g].w /\ n.ch = gate[g].ch
      BY <1>1 DEF Gates
    <3>2. gate' = gate \/ gate' = [gate EXCEPT ![g] = n]
      BY <1>5 DEF Extend
    <3>3. CASE gate' = gate
      BY <1>1, <3>3
    <3>4. CASE gate' = [gate EXCEPT ![g] = n]
      BY <1>1, <3>1, <3>4
    <3> QED
      BY <3>2, <3>3, <3>4
  <2>2. at[c].mon[k] = "loop" /\ UNCHANGED holder
    BY <1>5 DEF Extend, PExpireAt, Look, lockServer
  <2>3. CASE UNCHANGED <<at, stolen>>
    <3>1. \A h \in GateIds : ~twice /\ gate[h].closed => ~gate[h].ch
      BY LockInvIs DEF GatesCount
    <3> QED
      BY <1>1, <1>2, <1>4, <2>1, <2>2, <2>3, <3>1, ServerStep
  <2>4. CASE holder[k] # c /\ at' = [at EXCEPT ![c].mon[k] = "release"] /\ UNCHANGED stolen
    <3> PICK r : r = Moved(at[c], k, "release")
      OBVIOUS
    <3>1. at' = [at EXCEPT ![c] = r] /\ Monitoring(at[c], k, "release", r)
      BY <2>4 DEF Moved, Monitoring
    <3> QED
      BY <1>1, <1>2, <1>4, <2>1, <2>2, <2>4, <3>1, MonitorStep
  <2>5. CASE GiveUpKey(c, k) /\ UNCHANGED stolen
    <3> PICK r : r = GivenUp(at[c], k)
      OBVIOUS
    <3>1. at' = [at EXCEPT ![c] = r] /\ Monitoring(at[c], k, "delete", r)
      BY <2>5 DEF GivenUp, GiveUpKey, Monitoring
    <3>2. ~stolen' => ~stolen /\ \A d \in Callers : \A j \in Keys : at[d].mon[j] = "loop" => holder'[j] = d
      BY <1>4, <2>2, <2>5
    <3>3. holder' \in [Keys -> Callers \cup {Nil}] /\ stolen' \in BOOLEAN /\ at[c].mon[k] \in {"loop", "delete"}
      BY <1>1, <2>2, <2>5
    <3> QED
      BY <1>2, <2>1, <3>1, <3>2, <3>3, MonitorStep
  <2> QED
    BY <1>5, <2>3, <2>4, <2>5 DEF Extend, MonitorAt, NoFault, Fault
<1>6. CASE Leave(c, k)
  <2> PICK r : r = GivenUp(at[c], k)
    OBVIOUS
  <2>1. UNCHANGED <<holder, gate, stolen>> /\ at' = [at EXCEPT ![c] = r] /\ Monitoring(at[c], k, "delete", r)
    BY <1>6 DEF Leave, GivenUp, GiveUpKey, Monitoring, lockServer, lockGates, lockBounds
  <2> QED
    BY <1>1, <1>2, <1>4, <2>1, MonitorStep
<1>7. CASE DelKey(c, k)
  <2> PICK r : r = Moved(at[c], k, "release")
    OBVIOUS
  <2>1. UNCHANGED <<gate, stolen>> /\ at' = [at EXCEPT ![c] = r] /\ at[c].mon[k] = "delete"
        /\ Monitoring(at[c], k, "release", r)
    BY <1>7 DEF DelKey, MonitorAt, Moved, Monitoring, lockGates, NoFault, Fault
  <2>2. holder' = holder \/ (holder[k] = c /\ holder' = [holder EXCEPT ![k] = Nil])
    <3>1. UNCHANGED lockServer \/ (holder[k] = c /\ Forget(Home(c), k)) \/ Look(c, k)
      BY <1>7 DEF DelKey
    <3> QED
      BY <3>1 DEF Forget, Look, lockServer
  <2>3. /\ holder' \in [Keys -> Callers \cup {Nil}]
        /\ ~stolen' =>
               /\ ~stolen
               /\ \A d \in Callers : \A j \in Keys : at[d].mon[j] = "loop" => holder'[j] = d \/ (d = c /\ j = k)
    BY <1>1, <1>4, <2>1, <2>2
  <2> QED
    BY <1>1, <1>2, <2>1, <2>2, <2>3, MonitorStep
<1> QED
  BY <1>5, <1>6, <1>7

\* A monitor ends; with the last one of a successful attempt the caller leaves the gate.
LEMMA ReleaseKeeps ==
    ASSUME LockInv, NEW c \in Callers, NEW k \in Keys, Release(c, k)
    PROVE  LockInv'
<1> PICK q : q = at[c]
  OBVIOUS
<1>1. /\ opt \in Options /\ AttemptOK(q) /\ q \in Attempts /\ DOMAIN at = Callers /\ stolen \in BOOLEAN
      /\ q.mon[k] = "release" /\ UNCHANGED <<opt, lockServer, stolen, twice>>
  BY AttemptIs DEF Release, lockBounds
<1>2. q.g \in GateIds /\ q.failures \in Nat /\ q.ctx \in BOOLEAN
  BY <1>1 DEF AttemptOK, Attempts
<1>3. IsFiniteSet(Ends(q)) /\ k \notin Ends(q) /\ Ends(q) \in SUBSET Keys
  <2>1. k \notin Ends(q) /\ Ends(q) \in SUBSET Keys
    BY <1>1 DEF Ends
  <2> QED
    BY <1>1, <2>1, KeysAre, FS_Subset
<1>4. Relieves(c) <=> q.failures < Majority /\ \A j \in Keys : j = k \/ q.mon[j] = "end"
  <2>1. (\A j \in Keys : j = k \/ q.mon[j] = "end") <=> Ends(q) \cup {k} = Keys
    BY <1>1 DEF Ends
  <2>2. Cardinality(Ends(q) \cup {k}) = Cardinality(Ends(q)) + 1
    BY <1>3, FS_AddElement
  <2>3. Ends(q) \cup {k} = Keys <=> Cardinality(Ends(q) \cup {k}) = Cardinality(Keys)
    <3>1. Ends(q) \cup {k} \in SUBSET Keys
      BY <1>3
    <3> QED
      BY <1>1, <3>1, KeysAre, FS_Subset
  <2>4. Released(c) = Cardinality(Ends(q)) + 1
    BY DEF Released, Ends
  <2> QED
    BY <2>1, <2>2, <2>3, <2>4 DEF Relieves
<1>5. PICK x, l \in BOOLEAN :
          /\ at' = [at EXCEPT ![c] = Ended(q, k, x, l)] /\ (x => q.ctx /\ Cardinality(Ends(q)) + 1 < Majority)
          /\ l <=> Relieves(c)
  <2> PICK x \in BOOLEAN : x <=> q.ctx /\ Cardinality(Ends(q)) + 1 < Majority
    OBVIOUS
  <2> PICK l \in BOOLEAN : l <=> Relieves(c)
    OBVIOUS
  <2>1. (q.ctx /\ Cardinality(Ends(q)) + 1 < Majority) = x /\ Relieves(c) = l
    <3>1. (q.ctx /\ Cardinality(Ends(q)) + 1 < Majority) = x
      OBVIOUS
    <3>2. Relieves(c) = l
      BY DEF Relieves
    <3> QED
      BY <3>1, <3>2
  <2>2. at' = [at EXCEPT ![c] = [q EXCEPT !.mon[k] = "end", !.ctx = q.ctx /\ Cardinality(Ends(q)) + 1 < Majority,
                                          !.left = Relieves(c)]]
    BY DEF Release, Released, Ends
  <2>3. at' = [at EXCEPT ![c] = Ended(q, k, x, l)]
    BY <2>1, <2>2 DEF Ended
  <2> QED
    BY <2>3
<1> PICK r : r = Ended(q, k, x, l)
  OBVIOUS
<1>6. /\ AttemptOK(r) /\ r.g = q.g /\ r.pc = q.pc /\ (Extending(q) => Extending(r))
      /\ r.mon[k] = "end" /\ \A j \in Keys : j = k \/ r.mon[j] = q.mon[j]
  <2>1. q.mon[k] \notin {"none", "end"} /\ q.mon[k] # "loop" /\ Monitoring(q, k, "end", r)
    BY <1>1, <1>4, <1>5 DEF Monitoring
  <2> QED
    BY SMTT(30), <1>1, <2>1, MonitorOK
<1>7. /\ ~q.left /\ (r.left <=> Relieves(c)) /\ at' = [at EXCEPT ![c] = r]
      /\ \A j \in Keys : r.mon[j] = "loop" => q.mon[j] = "loop"
  <2>1. ~q.left /\ r.left = l
    BY <1>1 DEF AttemptOK, Attempts, Ended
  <2> QED
    BY <1>5, <1>6, <2>1
<1>8. CASE Relieves(c)
  <2>1. Leaving(c, TRUE)
    BY <1>8 DEF Release, LeaveGate
  <2> QED
    BY <1>1, <1>2, <1>6, <1>7, <1>8, <2>1, LeavingKeeps
<1>9. CASE ~Relieves(c)
  <2>1. UNCHANGED lockGates
    BY <1>9 DEF Release
  <2> QED
    BY <1>1, <1>2, <1>6, <1>7, <1>9, <2>1, LocalStep
<1> QED
  BY <1>8, <1>9

\* A signal touches the channels of one gate.
LEMMA SignalIs ==
    ASSUME gate \in [GateIds -> Gates], NEW g \in GateIds, NEW ks \in SUBSET Keys, Signal(g, ks)
    PROVE  /\ gate' \in [GateIds -> Gates]
           /\ \A h \in GateIds : /\ gate'[h].closed = gate[h].closed /\ gate'[h].w = gate[h].w
                                 /\ h # g => gate'[h] = gate[h]
  BY DEF Signal, Gates

\* Pushes, expiries and losses leave the attempts alone.
LEMMA ServerKeeps ==
    ASSUME LockInv,
           \/ \E l \in Lockers : Disconnect(l) \/ \E k \in Keys : OnInvalidation(l, k)
           \/ \E k \in Keys : Expire(k) \/ Lose(k)
    PROVE  LockInv'
<1>1. /\ holder \in [Keys -> Callers \cup {Nil}] /\ stolen \in BOOLEAN /\ gate \in [GateIds -> Gates]
      /\ gates \in [Lockers -> GateIds \cup {Nil}]
  BY LockInvIs DEF LockTypes
<1>2. /\ ~stolen => \A d \in Callers : \A j \in Keys : at[d].mon[j] = "loop" => holder[j] = d
      /\ ~twice => (\A g \in GateIds : gate[g].closed => ~gate[g].ch) /\ \A l \in Lockers : gates[l] # Nil => ~gate[gates[l]].closed
  BY LockInvIs DEF Undisturbed, GatesCount
<1>3. ASSUME NEW l \in Lockers, Disconnect(l) PROVE LockInv'
  <2>1. gates[l] \in GateIds /\ Signal(gates[l], Keys) /\ UNCHANGED <<opt, at, gates, holder, stolen, twice>>
    BY <1>1, <1>3 DEF Disconnect, Loss
  <2>2. /\ gate' \in [GateIds -> Gates]
        /\ \A h \in GateIds : /\ gate'[h].closed = gate[h].closed /\ gate'[h].w = gate[h].w
                              /\ h # gates[l] => gate'[h] = gate[h]
    BY <1>1, <2>1, SignalIs
  <2>3. \A h \in GateIds : ~twice /\ gate[h].closed => ~gate'[h].ch
    <3> SUFFICES ASSUME NEW h \in GateIds, ~twice, gate[h].closed PROVE ~gate'[h].ch
      OBVIOUS
    <3>1. ~gate[h].ch /\ h # gates[l]
      BY SMTT(30), <1>1, <1>2, <2>1 DEF GateIds
    <3>2. gate'[h] = gate[h]
      BY <2>2, <3>1
    <3> QED
      BY <3>1, <3>2
  <2> QED
    BY <1>1, <1>2, <2>1, <2>2, <2>3, ServerStep
<1>4. ASSUME NEW l \in Lockers, NEW k \in Keys, OnInvalidation(l, k) PROVE LockInv'
  <2>1. UNCHANGED <<opt, at, gates, holder, stolen, twice>>
    BY <1>4 DEF OnInvalidation, lockBounds
  <2>2. /\ gate' \in [GateIds -> Gates]
        /\ \A h \in GateIds : /\ gate'[h].closed = gate[h].closed /\ gate'[h].w = gate[h].w
                              /\ h # gates[l] => gate'[h] = gate[h]
        /\ gates[l] = Nil => gate' = gate
    <3>1. CASE gates[l] = Nil
      BY <1>1, <1>4, <3>1 DEF OnInvalidation
    <3>2. CASE gates[l] # Nil
      <4>1. gates[l] \in GateIds /\ Signal(gates[l], {k}) /\ {k} \in SUBSET Keys
        BY <1>1, <1>4, <3>2 DEF OnInvalidation
      <4> QED
        BY <1>1, <3>2, <4>1, SignalIs
    <3> QED
      BY <3>1, <3>2
  <2>3. \A h \in GateIds : ~twice /\ gate[h].closed => ~gate'[h].ch
    <3> SUFFICES ASSUME NEW h \in GateIds, ~twice, gate[h].closed PROVE ~gate'[h].ch
      OBVIOUS
    <3>1. ~gate[h].ch /\ h # gates[l]
      BY SMTT(30), <1>1, <1>2 DEF GateIds
    <3>2. gate'[h] = gate[h]
      BY <2>2, <3>1
    <3> QED
      BY <3>1, <3>2
  <2> QED
    BY <1>1, <1>2, <2>1, <2>2, <2>3, ServerStep
<1>5. ASSUME NEW k \in Keys, Expire(k) \/ Lose(k) PROVE LockInv'
  <2>1. /\ UNCHANGED <<opt, at, gates, gate, twice>> /\ holder' = [holder EXCEPT ![k] = Nil]
        /\ stolen' = TRUE \/ (UNCHANGED stolen /\ ~Guarded(k))
    BY <1>5 DEF Expire, Lose, Forget, Loss, lockGates, lockBounds
  <2>2. /\ holder' \in [Keys -> Callers \cup {Nil}] /\ stolen' \in BOOLEAN
        /\ \A j \in Keys : j # k => holder'[j] = holder[j]
    BY <1>1, <2>1
  <2>3. ~stolen' => ~stolen /\ \A d \in Callers : \A j \in Keys : at[d].mon[j] = "loop" => holder'[j] = d
    <3> SUFFICES ASSUME ~stolen'
                 PROVE  ~stolen /\ \A d \in Callers : \A j \in Keys : at[d].mon[j] = "loop" => holder'[j] = d
      OBVIOUS
    <3>1. ~stolen /\ ~Guarded(k)
      BY <1>1, <2>1, <2>2
    <3>2. \A d \in Callers : at[d].mon[k] # "loop"
      BY <1>2, <3>1 DEF Guarded
    <3> QED
      BY <1>2, <2>2, <3>1, <3>2
  <2> QED
    BY <1>1, <1>2, <2>1, <2>2, <2>3, ServerStep
<1> QED
  BY <1>3, <1>4, <1>5

\* Close takes the gate out of the map and leaves it closed, for the callers that are at it.
LEMMA CloseKeeps ==
    ASSUME LockInv, NEW l \in Lockers, CloseLocker(l)
    PROVE  LockInv'
<1>1. UNCHANGED <<opt, at, holder, stolen, twice>> /\ gates' = [gates EXCEPT ![l] = Nil]
  BY DEF CloseLocker, lockBounds
<1>2. /\ opt' \in Options /\ Keys' = Keys /\ GateIds' = GateIds /\ Gates' = Gates /\ Attempts' = Attempts /\ Majority' = Majority
      /\ gates \in [Lockers -> GateIds \cup {Nil}] /\ gate \in [GateIds -> Gates]
  BY <1>1, LockInvIs DEF LockTypes, Keys, GateIds, Gates, Attempts, Majority
<1>3. PICK n : n = [NewGate EXCEPT !.closed = TRUE]
  OBVIOUS
<1>4. n \in Gates /\ n.closed /\ n.w = 1 /\ ~n.ch
  <2>1. n = [w |-> 1, ch |-> FALSE, csc |-> {}, closed |-> TRUE]
    BY <1>3 DEF NewGate
  <2> QED
    BY SMTT(30), <2>1 DEF Gates
<1>5. /\ gate' \in [GateIds -> Gates] /\ gates' \in [Lockers -> GateIds \cup {Nil}]
      /\ \A g \in GateIds : g # gates[l] => gate'[g] = gate[g]
      /\ gates[l] # Nil => gate'[gates[l]] = n
  <2>1. CASE gates[l] = Nil
    BY SMTT(30), <1>1, <1>2, <2>1 DEF CloseLocker
  <2>2. CASE gates[l] # Nil
    <3>1. gate' = [gate EXCEPT ![gates[l]] = n] /\ gates[l] \in GateIds
      BY <1>2, <1>3, <2>2 DEF CloseLocker
    <3> QED
      BY <1>1, <1>2, <1>4, <3>1
  <2> QED
    BY <2>1, <2>2
<1>6. \A d \in Callers : AttemptOK(at[d])' /\ (Extending(at[d])' <=> Extending(at[d])) /\ (at[d].g \in GateIds \cup {Nil})
  <2> SUFFICES ASSUME NEW d \in Callers
               PROVE  AttemptOK(at[d])' /\ (Extending(at[d])' <=> Extending(at[d])) /\ (at[d].g \in GateIds \cup {Nil})
    OBVIOUS
  <2>1. AttemptOK(at[d]) /\ Loops(at[d])' = Loops(at[d])
    BY <1>1, <1>2, LockInvIs DEF LockTypes, Loops
  <2>2. at[d].g \in GateIds \cup {Nil}
    BY <2>1 DEF AttemptOK, Attempts
  <2> QED
    BY <1>1, <1>2, <2>1, <2>2 DEF AttemptOK, Extending
<1>7. LockTypes'
  BY <1>1, <1>2, <1>5, <1>6, LockInvIs DEF LockTypes
<1>8. Undisturbed'
  BY <1>1, <1>2, <1>6, LockInvIs DEF Undisturbed
<1>9. GatesCount'
  <2> SUFFICES ASSUME ~twice'
               PROVE  /\ \A m, k \in Lockers : gates'[m] # Nil /\ gates'[m] = gates'[k] => m = k
                      /\ \A m \in Lockers : gates'[m] # Nil => ~gate'[gates'[m]].closed /\ gate'[gates'[m]].w = Cardinality(Members(gates[m])')
                      /\ \A c \in Callers : at'[c].g # Nil /\ ~at'[c].left => gate'[at'[c].g].closed \/ gates'[Home(c)'] = at'[c].g
                      /\ \A g \in GateIds : gate'[g].closed => gate'[g].w = 1 /\ ~gate'[g].ch
    BY <1>2 DEF GatesCount
  <2>1. ~twice /\ \A c \in Callers : Home(c)' = Home(c)
    BY <1>1 DEF Home
  <2>2. /\ \A m, k \in Lockers : gates[m] # Nil /\ gates[m] = gates[k] => m = k
        /\ \A m \in Lockers : gates[m] # Nil => ~gate[gates[m]].closed /\ gate[gates[m]].w = Cardinality(Members(gates[m]))
        /\ \A c \in Callers : at[c].g # Nil /\ ~at[c].left => gate[at[c].g].closed \/ gates[Home(c)] = at[c].g
        /\ \A g \in GateIds : gate[g].closed => gate[g].w = 1 /\ ~gate[g].ch
    BY <2>1, LockInvIs DEF GatesCount
  <2>3. \A m \in Lockers : m # l => gates'[m] = gates[m]
    BY <1>1, <1>2
  <2>4. \A m \in Lockers : m # l => Members(gates[m])' = Members(gates[m])
    BY <1>1, <1>6, <2>3 DEF Members
  <2>5. gates'[l] = Nil /\ \A m \in Lockers : m # l /\ gates[m] # Nil => gates[m] # gates[l] /\ gates[m] \in GateIds
    BY <1>1, <1>2, <2>2
  <2>6. \A m, k \in Lockers : gates'[m] # Nil /\ gates'[m] = gates'[k] => m = k
    BY <2>2, <2>3, <2>5
  <2>7. \A m \in Lockers : gates'[m] # Nil => ~gate'[gates'[m]].closed /\ gate'[gates'[m]].w = Cardinality(Members(gates[m])')
    BY SMTT(30), <1>5, <2>2, <2>3, <2>4, <2>5
  <2>8. \A c \in Callers : at'[c].g # Nil /\ ~at'[c].left => gate'[at'[c].g].closed \/ gates'[Home(c)'] = at'[c].g
    <3> SUFFICES ASSUME NEW c \in Callers, at[c].g # Nil, ~at[c].left
                 PROVE  gate'[at[c].g].closed \/ gates'[Home(c)] = at[c].g
      BY <1>1, <1>6, <2>1
    <3>1. at[c].g \in GateIds /\ c \in DOMAIN opt.home
      BY <1>6, LockInvIs DEF LockTypes, AttemptOK
    <3>2. Home(c) \in Lockers
      BY <3>1, LockInvIs DEF Home, LockTypes
    <3> QED
      BY SMTT(30), <1>4, <1>5, <2>2, <2>3, <3>1, <3>2
  <2>9. \A g \in GateIds : gate'[g].closed => gate'[g].w = 1 /\ ~gate'[g].ch
    <3> SUFFICES ASSUME NEW g \in GateIds, gate'[g].closed PROVE gate'[g].w = 1 /\ ~gate'[g].ch
      OBVIOUS
    <3>1. CASE g = gates[l]
      <4>1. gate'[g] = n
        BY SMTT(30), <1>2, <1>5, <3>1 DEF GateIds
      <4> QED
        BY <1>4, <4>1
    <3>2. CASE g # gates[l]
      BY <1>5, <2>2, <3>2
    <3> QED
      BY <3>1, <3>2
  <2> QED
    BY <2>6, <2>7, <2>8, <2>9
<1> QED
  BY <1>7, <1>8, <1>9, LockInvIs

-----------------------------------------------------------------------------
(* The invariant, and what follows from it *)

\* Init => Inv.
LEMMA LockStarts == LockInit => LockInv
<1> SUFFICES ASSUME LockInit PROVE LockInv
  OBVIOUS
<1>1. opt \in Options /\ stolen = FALSE /\ at = [c \in Callers |-> NoAttempt]
  BY DEF LockInit
<1>2. AttemptOK(NoAttempt) /\ NoAttempt.pc = "idle" /\ NoAttempt.g = Nil /\ ~NoAttempt.ctx /\ NoAttempt.mon = [k \in Keys |-> "none"]
  <2>1. NoAttempt \in Attempts
    BY <1>1, KeysAre DEF NoAttempt, Attempts, MonitorSteps
  <2>2. /\ NoAttempt.pc = "idle" /\ NoAttempt.g = Nil /\ ~NoAttempt.ctx /\ NoAttempt.mon = [k \in Keys |-> "none"]
        /\ NoAttempt.next = 0 /\ NoAttempt.acquired = 0 /\ NoAttempt.failures = 0 /\ ~NoAttempt.left
    BY DEF NoAttempt
  <2> QED
    BY <1>1, <2>1, <2>2, BeginOK
<1>3. NewGate \in Gates /\ ~NewGate.closed
  BY SMTT(30) DEF NewGate, Gates
<1>4. LockTypes
  BY <1>1, <1>2, <1>3 DEF LockTypes, LockInit
<1>5. Undisturbed
  BY <1>1, <1>2, <1>3 DEF Undisturbed, LockInit, Extending
<1>6. GatesCount
  BY <1>1, <1>2, <1>3 DEF GatesCount, LockInit
<1> QED
  BY <1>4, <1>5, <1>6, LockInvIs

\* Inv /\ [Next]_vars => Inv', action by action.
LEMMA LockSteps == LockInv /\ [LockNext]_lockVars => LockInv'
<1> SUFFICES ASSUME LockInv, [LockNext]_lockVars PROVE LockInv'
  OBVIOUS
<1>1. ASSUME NEW c \in Callers, NEW o \in opt.ops, Call(c, o) PROVE LockInv'
  <2>1. /\ UNCHANGED <<opt, lockServer, stolen, twice>> /\ at[c].pc \in {"idle", "retry"} /\ c \in DOMAIN opt.home
        /\ GetGate(c, o, TRUE) /\ TRUE \in BOOLEAN /\ o \in opt.ops \cup {"with"}
    BY <1>1 DEF Call, NoFault
  <2> QED
    BY <2>1, GetGateKeeps
<1>2. ASSUME NEW c \in Callers, Retry(c) PROVE LockInv'
  <2>1. AttemptOK(at[c]) /\ at[c].pc = "retry" /\ c \in DOMAIN opt.home
    BY <1>2, LockInvIs DEF Retry, LockTypes
  <2>2. /\ UNCHANGED <<opt, lockServer, stolen, twice>> /\ at[c].pc \in {"idle", "retry"}
        /\ GetGate(c, "with", at[c].src) /\ at[c].src \in BOOLEAN /\ "with" \in opt.ops \cup {"with"}
    BY <1>2, <2>1 DEF Retry, lockBounds, AttemptOK, Attempts
  <2> QED
    BY <2>1, <2>2, GetGateKeeps
<1>3. ASSUME NEW c \in Callers, Caller(c) \/ SourceDone(c) \/ CancelTimer(c) \/ Unlock(c) \/ AcquireRest(c) PROVE LockInv'
  BY <1>2, <1>3, OwnSteps, AcquireKeeps, EndSteps, WakeKeeps DEF Caller
<1>4. ASSUME NEW c \in Callers, NEW k \in Keys, Extend(c, k) \/ Monitor(c, k) PROVE LockInv'
  BY <1>4, MonitorKeeps, ReleaseKeeps DEF Monitor
<1>5. ASSUME NEW l \in Lockers, CloseLocker(l) PROVE LockInv'
  BY <1>5, CloseKeeps
<1>6. CASE \/ \E l \in Lockers : Disconnect(l) \/ \E k \in Keys : OnInvalidation(l, k)
           \/ \E k \in Keys : Expire(k) \/ Lose(k)
  BY <1>6, ServerKeeps
<1>7. CASE UNCHANGED lockVars
  <2>1. /\ UNCHANGED <<opt, at, gates, holder, stolen, twice, gate>>
        /\ holder \in [Keys -> Callers \cup {Nil}] /\ stolen \in BOOLEAN /\ gate \in [GateIds -> Gates]
    BY <1>7, LockInvIs DEF lockVars, lockServer, lockGates, lockBounds, LockTypes
  <2>2. /\ ~stolen => \A d \in Callers : \A j \in Keys : at[d].mon[j] = "loop" => holder[j] = d
        /\ \A g \in GateIds : ~twice /\ gate[g].closed => ~gate[g].ch
    BY LockInvIs DEF Undisturbed, GatesCount
  <2> QED
    BY <2>1, <2>2, ServerStep
<1> QED
  BY <1>1, <1>3, <1>4, <1>5, <1>6, <1>7 DEF LockNext

\* The invariant holds in every behaviour of the lock.
LEMMA LockHolds == LockSpec => []LockInv
<1>1. LockInit => LockInv
  BY LockStarts
<1>2. LockInv /\ [LockNext]_lockVars => LockInv'
  BY LockSteps
<1> QED
  BY <1>1, <1>2, PTL DEF LockSpec

\* MutualExclusion holds for any number of callers, lockers and keys, under failed scripts, early
\* timers, lost connections and Close: as long as no guarded key is lost or taken over, of two attempts
\* that hold the lock one has a monitor that gave up.  Otherwise both would extend a majority, and a key
\* that both extend would be set by both.
THEOREM OneHolder == LockSpec => []MutualExclusion
<1>1. LockInv => MutualExclusion
  <2> SUFFICES ASSUME LockInv, ~stolen, NEW c \in Callers, NEW d \in Callers, Live(c), Live(d),
                      ~at[c].failed, ~at[d].failed
               PROVE  c = d
    BY DEF MutualExclusion
  <2>1. /\ opt \in Options /\ AttemptOK(at[c]) /\ AttemptOK(at[d]) /\ Extending(at[c]) /\ Extending(at[d])
        /\ \A b \in Callers : \A k \in Keys : at[b].mon[k] = "loop" => holder[k] = b
    BY LockInvIs DEF LockTypes, Undisturbed
  <2>2. /\ at[c].acquired <= Cardinality(Loops(at[c])) /\ at[d].acquired <= Cardinality(Loops(at[d]))
        /\ Majority <= at[c].acquired /\ Majority <= at[d].acquired
        /\ at[c].acquired \in Nat /\ at[d].acquired \in Nat
    BY <2>1 DEF Live, Extending, AttemptOK, Attempts
  <2>3. /\ IsFiniteSet(Keys) /\ Cardinality(Keys) = 2 * Majority - 1 /\ Majority \in Nat
        /\ Loops(at[c]) \subseteq Keys /\ Loops(at[d]) \subseteq Keys
    BY <2>1, KeysAre DEF Loops
  <2>4. Cardinality(Loops(at[c])) \in Nat /\ Cardinality(Loops(at[d])) \in Nat
    BY <2>3, FS_Subset, FS_CardinalityType
  <2>5. Cardinality(Loops(at[c])) + Cardinality(Loops(at[d])) > Cardinality(Keys)
    BY SMTT(30), <2>2, <2>3, <2>4
  <2>6. Loops(at[c]) \cap Loops(at[d]) # {}
    BY <2>3, <2>5, FS_MajoritiesIntersect
  <2> QED
    BY <2>1, <2>6 DEF Loops
<1> QED
  BY <1>1, LockHolds, PTL

\* GateExact holds for any number of callers, lockers and keys, until an attempt has left its gate
\* twice: the gate of a caller that may sleep on it is the one in the map, or closed, and counts at least
\* that caller.
THEOREM GatesReachSleepers == LockSpec => []GateExact
<1>1. LockInv => GateExact
  <2> SUFFICES ASSUME LockInv, ~twice, NEW c \in Callers, at[c].pc = "waiting" \/ at[c].ctx
               PROVE  (gate[at[c].g].closed \/ gates[Home(c)] = at[c].g) /\ gate[at[c].g].w > 0
    BY DEF GateExact
  <2>1. /\ opt \in Options /\ AttemptOK(at[c]) /\ (c \in DOMAIN opt.home \/ at[c].pc = "idle")
        /\ gates \in [Lockers -> GateIds \cup {Nil}] /\ Nil \notin GateIds
    BY SMTT(30), LockInvIs DEF LockTypes, GateIds
  <2>2. at[c].g \in GateIds /\ ~at[c].left /\ Home(c) \in Lockers
    <3>1. at[c].pc \notin {"idle", "retry"} /\ at[c].g \in GateIds
      BY <2>1 DEF AttemptOK, Attempts
    <3>2. ~\A k \in Keys : at[c].mon[k] = "end"
      <4>1. 0 \in Keys
        BY <2>1, KeysAre
      <4> QED
        BY <2>1, <4>1 DEF AttemptOK
    <3>3. ~at[c].left
      BY <2>1, <3>2 DEF AttemptOK
    <3> QED
      BY <2>1, <3>1, <3>3 DEF Home
  <2>3. gate[at[c].g].closed \/ gates[Home(c)] = at[c].g
    BY <2>1, <2>2, LockInvIs DEF GatesCount
  <2>4. CASE gate[at[c].g].closed
    BY SMTT(30), <2>2, <2>3, <2>4, LockInvIs DEF GatesCount
  <2>5. CASE ~gate[at[c].g].closed
    <3>1. gate[at[c].g].w = Cardinality(Members(at[c].g))
      BY SMTT(30), <2>1, <2>2, <2>3, <2>5, LockInvIs DEF GatesCount
    <3>2. IsFiniteSet(Members(at[c].g)) /\ c \in Members(at[c].g)
      BY <2>2, FS_Subset DEF Members
    <3>3. Cardinality(Members(at[c].g)) \in Nat /\ Cardinality(Members(at[c].g)) # 0
      BY <3>2, FS_CardinalityType, FS_EmptySet
    <3> QED
      BY SMTT(30), <2>3, <2>5, <3>1, <3>3
  <2> QED
    BY <2>4, <2>5
<1> QED
  BY <1>1, LockHolds, PTL
=============================================================================
