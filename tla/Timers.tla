------------------------------- MODULE Timers -------------------------------
(* pipe.go: the lifetime, authentication and ping timers of a pipe.  The     *)
(* pool resets them when a connection is stored, and their own callbacks     *)
(* reset them, after a look at the pipe's error; Close and the worker set    *)
(* the error and stop them, in any interleaving.                             *)
EXTENDS Naturals

CONSTANTS Users,       \* goroutines that store and acquire the connection
          Stoppers,    \* calls of Close, and the background worker
          Callbacks,   \* callbacks that run at a time
          MaxFires, MaxUses   \* bounds of a behaviour

Timer == {"life", "auth", "ping"}

VARIABLES failed,      \* p.Error() # nil
          armed,       \* the timers that will fire
          user,        \* per user: its place in ResetTimer
          closer,      \* per Stopper: its place in Close or in the worker's exit
          of, at,      \* per callback: its timer and its place
          fires, uses

timerVars == <<failed, armed, user, closer, of, at, fires, uses>>

\* _newPipe
TimersInit ==
    /\ failed = FALSE /\ armed = Timer
    /\ user = [u \in Users |-> "idle"] /\ closer = [c \in Stoppers |-> "idle"]
    /\ of = [i \in Callbacks |-> "life"] /\ at = [i \in Callbacks |-> "idle"]
    /\ fires = 0 /\ uses = 0

User(u, l) == user' = [user EXCEPT ![u] = l]
On(i, l) == at' = [at EXCEPT ![i] = l]
StopTo(c, l) == closer' = [closer EXCEPT ![c] = l]
StopIfFailed(t) == armed' = IF failed THEN armed \ {t} ELSE armed

-----------------------------------------------------------------------------
(* StopTimer and ResetTimer *)

StopTimer(u) ==
    /\ user[u] = "idle" /\ uses < MaxUses /\ uses' = uses + 1
    /\ armed' = armed \ {"life", "auth"} /\ User(u, "using")
    /\ UNCHANGED <<failed, closer, of, at, fires>>

ResetTimer(u) ==
    /\ user[u] = "using"
    /\ \/ failed /\ User(u, "idle")
       \/ ~failed /\ User(u, "life")
    /\ UNCHANGED <<failed, armed, closer, of, at, fires, uses>>

\* Reset, then the look at the error that Close may have set between the two.
ResetLife(u) ==
    /\ user[u] = "life" /\ armed' = armed \cup {"life"} /\ User(u, "checkLife")
    /\ UNCHANGED <<failed, closer, of, at, fires, uses>>

RecheckNothing(u) ==
    /\ user[u] = "checkLife" /\ UNCHANGED armed /\ User(u, "auth")
    /\ UNCHANGED <<failed, closer, of, at, fires, uses>>

RecheckLife(u) ==
    /\ user[u] = "checkLife" /\ StopIfFailed("life") /\ User(u, "auth")
    /\ UNCHANGED <<failed, closer, of, at, fires, uses>>

\* There may be no time for the next refresh.
ResetAuth(u) ==
    /\ user[u] = "auth"
    /\ \/ armed' = armed \cup {"auth"} /\ User(u, "checkAuth")
       \/ User(u, "idle") /\ UNCHANGED armed
    /\ UNCHANGED <<failed, closer, of, at, fires, uses>>

RecheckAuth(u) ==
    /\ user[u] = "checkAuth" /\ StopIfFailed("auth") /\ User(u, "idle")
    /\ UNCHANGED <<failed, closer, of, at, fires, uses>>

-----------------------------------------------------------------------------
(* The callbacks *)

Fire(i) ==
    /\ at[i] = "idle" /\ fires < MaxFires /\ fires' = fires + 1
    /\ \E t \in armed : armed' = armed \ {t} /\ of' = [of EXCEPT ![i] = t] /\ On(i, "lock")
    /\ UNCHANGED <<failed, user, closer, uses>>

\* The callbacks of a timer have a mutex.  expired sets the error and calls Close, which is one
\* of the Stoppers; refreshAuth and the ping end the pipe (_exit) or go on to the reset, unless
\* the new credentials need no refresh.
Run(i) ==
    LET t == of[i] IN
    /\ at[i] = "lock"
    /\ t # "life" => \A j \in Callbacks : of[j] = t => at[j] \in {"idle", "lock"}
    /\ \/ /\ t = "auth" \/ (t = "ping" /\ failed)
          /\ On(i, "idle") /\ UNCHANGED failed
       \/ t # "life" /\ ~failed /\ On(i, "reset") /\ UNCHANGED failed
       \/ t # "life" /\ On(i, "stopLife") /\ failed' = TRUE
       \/ t = "life" /\ On(i, "idle") /\ failed' = TRUE
    /\ UNCHANGED <<armed, user, closer, of, fires, uses>>

\* _exit stops the lifetime timer only.
ExitStops(i) ==
    /\ at[i] = "stopLife" /\ armed' = armed \ {"life"} /\ On(i, "idle")
    /\ UNCHANGED <<failed, user, closer, of, fires, uses>>

CallbackResets(i) ==
    /\ at[i] = "reset" /\ armed' = armed \cup {of[i]} /\ On(i, "recheck")
    /\ UNCHANGED <<failed, user, closer, of, fires, uses>>

CallbackRechecks(i) ==
    /\ at[i] = "recheck" /\ StopIfFailed(of[i]) /\ On(i, "idle")
    /\ UNCHANGED <<failed, user, closer, of, fires, uses>>

-----------------------------------------------------------------------------
(* Close, and the worker after its loops have ended: the error, the timers one by one *)

StopError(c) ==
    /\ closer[c] = "idle" /\ failed' = TRUE /\ StopTo(c, "life")
    /\ UNCHANGED <<armed, user, of, at, fires, uses>>

Stop(c) ==
    /\ \/ closer[c] = "life" /\ StopTo(c, "ping")
       \/ closer[c] = "ping" /\ StopTo(c, "auth")
       \/ closer[c] = "auth" /\ StopTo(c, "done")
    /\ armed' = armed \ {closer[c]}
    /\ UNCHANGED <<failed, user, of, at, fires, uses>>

TimersNext ==
    \/ \E u \in Users : StopTimer(u) \/ ResetTimer(u) \/ ResetLife(u) \/ RecheckLife(u) \/ ResetAuth(u)
                        \/ RecheckAuth(u)
    \/ \E i \in Callbacks : Fire(i) \/ Run(i) \/ ExitStops(i) \/ CallbackResets(i) \/ CallbackRechecks(i)
    \/ \E c \in Stoppers : StopError(c) \/ Stop(c)

TimersSpec == TimersInit /\ [][TimersNext]_timerVars

-----------------------------------------------------------------------------
\* Once Close or the worker is through and no reset is under way, no timer is left running: it
\* would keep the pipe alive and act on a closed connection.  A reset that looked at the error
\* before it was set takes back what it did.
NoTimerOutlivesPipe ==
    /\ \E c \in Stoppers : closer[c] = "done"
    /\ \A u \in Users : user[u] \in {"idle", "using"}
    /\ \A i \in Callbacks : at[i] = "idle"
    => armed = {}
=============================================================================
