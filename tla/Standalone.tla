----------------------------- MODULE Standalone -----------------------------
(* standalone.go with EnableRedirect: commands that a demoted primary        *)
(* answers with REDIRECT share one switch to a new primary (singleflight.go),*)
(* wherever each of them was sent, and the old connection is closed later.   *)
EXTENDS Naturals

CONSTANTS Callers, Hosts,
          MaxLinks,               \* connections to a host at a time
          MaxDos, MaxMoves, MaxFailures   \* bounds of a behaviour

VARIABLES primary,     \* s.primary
          live, old,   \* the open connections, and those that are to be closed
          switch,      \* s.redirectCall
          dos,         \* per goroutine: its Do
          leader,      \* the servers: which one is the primary
          done, moves, failures, ended

standaloneVars == <<primary, live, old, switch, dos, leader, done, moves, failures, ended>>

Links == Hosts \X (1..MaxLinks)
NoLink == <<"", 0>>
NoSwitch == [at |-> "none", to |-> "", link |-> NoLink]
NoCall == [pc |-> "idle", link |-> NoLink, to |-> ""]

StandaloneInit ==
    /\ leader = CHOOSE h \in Hosts : TRUE
    /\ primary = <<leader, 1>> /\ live = {primary} /\ old = {}
    /\ switch = NoSwitch /\ dos = [c \in Callers |-> NoCall]
    /\ done = 0 /\ moves = 0 /\ failures = 0 /\ ended = FALSE

Failure == failures < MaxFailures /\ failures' = failures + 1

Move ==
    /\ moves < MaxMoves /\ moves' = moves + 1 /\ leader' \in Hosts \ {leader}
    /\ UNCHANGED <<primary, live, old, switch, dos, done, failures, ended>>

StandaloneDo(c) ==
    /\ dos[c].pc = "idle" /\ done < MaxDos /\ done' = done + 1
    /\ dos' = [dos EXCEPT ![c].pc = "retry"]
    /\ UNCHANGED <<primary, live, old, switch, leader, moves, failures, ended>>

\* s.primary.Load().Do
SendPrimary(c) ==
    /\ dos[c].pc = "retry" /\ dos' = [dos EXCEPT ![c].pc = "sent", ![c].link = primary]
    /\ UNCHANGED <<primary, live, old, switch, leader, done, moves, failures, ended>>

\* The command fails on a closed connection, is executed, or is redirected.
Answer(c) ==
    LET k == dos[c].link IN
    /\ dos[c].pc = "sent"
    /\ dos' = [dos EXCEPT ![c] = IF k \notin live \/ k[1] = leader THEN NoCall
                                 ELSE [NoCall EXCEPT !.pc = "redirect", !.to = leader]]
    /\ UNCHANGED <<primary, live, old, switch, leader, done, moves, failures, ended>>

\* handleRedirect: join the switch that is under way, whatever its address.
HandleRedirect(c) ==
    /\ dos[c].pc = "redirect"
    /\ dos' = [dos EXCEPT ![c].pc = IF switch.at = "none" THEN "lead" ELSE "join", ![c].to = ""]
    /\ switch' = IF switch.at = "none" THEN [NoSwitch EXCEPT !.at = "dial", !.to = dos[c].to] ELSE switch
    /\ UNCHANGED <<primary, live, old, leader, done, moves, failures, ended>>

Waits(c) == dos[c].pc \in {"lead", "join"}

\* The context of a Do that joined another's switch is done: no retry.
StopsJoining(c) ==
    /\ dos[c].pc = "join" /\ dos' = [dos EXCEPT ![c] = NoCall]
    /\ UNCHANGED <<primary, live, old, switch, leader, done, moves, failures, ended>>

UnusedLinks(h) == {k \in Links : k[1] = h} \ (live \cup old \cup {primary} \cup {dos[c].link : c \in Callers})

\* redirectToPrimary: Dial; the error goes to all who wait, and each of them retries or gives up.
Dial ==
    /\ switch.at = "dial"
    /\ \/ /\ UnusedLinks(switch.to) # {}
          /\ LET k == CHOOSE k \in UnusedLinks(switch.to) : TRUE IN
             switch' = [switch EXCEPT !.at = "swap", !.link = k] /\ live' = live \cup {k}
          /\ UNCHANGED <<dos, failures>>
       \/ /\ Failure /\ switch' = NoSwitch /\ UNCHANGED live
          /\ \E again \in SUBSET Callers :
                dos' = [c \in Callers |-> IF ~Waits(c) THEN dos[c]
                                          ELSE IF c \in again THEN [NoCall EXCEPT !.pc = "retry"] ELSE NoCall]
    /\ UNCHANGED <<primary, old, leader, done, moves, ended>>

SwapWakesOne ==
    /\ switch.at = "swap" /\ primary' = switch.link /\ old' = old \cup {primary}
    /\ switch' = NoSwitch
    /\ LET c == CHOOSE c \in Callers : Waits(c) IN
       dos' = [dos EXCEPT ![c] = [NoCall EXCEPT !.pc = "retry"]]
    /\ UNCHANGED <<live, leader, done, moves, failures, ended>>

\* Swap of the primary; the waiting goroutines retry.
SwapPrimary ==
    /\ switch.at = "swap" /\ primary' = switch.link /\ old' = old \cup {primary}
    /\ switch' = NoSwitch
    /\ dos' = [c \in Callers |-> IF Waits(c) THEN [NoCall EXCEPT !.pc = "retry"] ELSE dos[c]]
    /\ UNCHANGED <<live, leader, done, moves, failures, ended>>

\* After five seconds.
CloseOld(k) ==
    /\ k \in old /\ old' = old \ {k} /\ live' = live \ {k}
    /\ UNCHANGED <<primary, switch, dos, leader, done, moves, failures, ended>>

CloseStandalone ==
    /\ ~ended /\ ended' = TRUE /\ live' = live \ {primary}
    /\ UNCHANGED <<primary, old, switch, dos, leader, done, moves, failures>>

CallerStep(c) == SendPrimary(c) \/ Answer(c) \/ HandleRedirect(c)

StandaloneNext ==
    \/ Move \/ Dial \/ SwapPrimary \/ CloseStandalone
    \/ (\E c \in Callers : StandaloneDo(c) \/ CallerStep(c) \/ StopsJoining(c)) \/ (\E k \in Links : CloseOld(k))

\* What goroutines do once started; sleeps end.
StandaloneSteps == Dial \/ SwapPrimary \/ (\E c \in Callers : CallerStep(c)) \/ (\E k \in Links : CloseOld(k))

\* Some goroutine that can run does.
StandaloneFair == WF_standaloneVars(StandaloneSteps)

StandaloneSpec == StandaloneInit /\ [][StandaloneNext]_standaloneVars /\ StandaloneFair

-----------------------------------------------------------------------------
\* Every connection that is open is the primary, or the goroutine that closes it is waiting,
\* or a switch is about to make it the primary; late redirections switch again to the same host.
NoLinkLost == live \subseteq {primary} \cup old \cup {switch.link}

\* Every Do returns (StandaloneBusy ~> ~StandaloneBusy), also one that joined a switch to another address than its own.
StandaloneBusy == \E c \in Callers : dos[c].pc # "idle"
=============================================================================
