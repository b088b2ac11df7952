------------------------------- MODULE LoginLimit -------------------------------
(***************************************************************************)
(* The limit on the logins with one email: Allow of                        *)
(* auth/internal/ratelimit/redis_limiter.go, as Login calls it.            *)
(*                                                                         *)
(* Redis keeps the times of the attempts of the last window, and runs the  *)
(* pipeline of an attempt as one step; but the attempt took its time       *)
(* before, by the clock of the replica that answers it.  Time is counted   *)
(* in ticks: two attempts in one tick are stored as one.                   *)
(***************************************************************************)
EXTENDS Integers, FiniteSets

CONSTANTS
  Attempts,      \* how many there are
  MaxAttempts,   \* the limit, within a window
  Window,        \* its length
  MaxDelay,      \* bound: the ticks that pass in a call
  Skew,          \* bound: the ticks a replica's clock is ahead
  MaxTime        \* bound: the ticks of a behaviour

ASSUME LimitAssumption ==
  /\ {Attempts, MaxAttempts, Window, MaxDelay, Skew, MaxTime} \subseteq Nat
  /\ MaxDelay + Skew < Window

NoAttempt == [at |-> "none", begun |-> 0, stamp |-> 0, done |-> 0]

VARIABLES
  tick,       \* the time
  stamps,     \* the sorted set in Redis: the times of the attempts
  keptTo,     \* when its key expires
  attempt     \* of each attempt: "none", "asking", "allowed", "refused" or "open"
              \* (the limiter failed), the times it began and ended, its own time

limitVars == <<tick, stamps, keptTo, attempt>>

LimitInit ==
  /\ tick = 0 /\ stamps = {} /\ keptTo = 0
  /\ attempt = [a \in 1..Attempts |-> NoAttempt]

Allow(a) ==
  /\ attempt[a].at = "none"
  /\ \A b \in 1..(a - 1) : attempt[b].at # "none"
  /\ \E ahead \in 0..Skew :
       attempt' = [attempt EXCEPT ![a] = [at |-> "asking", begun |-> tick,
                                          stamp |-> tick + ahead, done |-> 0]]
  /\ UNCHANGED <<tick, stamps, keptTo>>

Ended(a, at) == attempt' = [attempt EXCEPT ![a].at = at, ![a].done = tick]
Recent(a) == {s \in stamps : s > attempt[a].stamp - Window}
Added(a) ==
  /\ stamps' = Recent(a) \cup {attempt[a].stamp}
  /\ keptTo' = tick + Window + 1

ExecCountFirst(a) ==                 \* mutant: ZCARD before ZREMRANGEBYSCORE
  /\ attempt[a].at = "asking"
  /\ Added(a)
  /\ Ended(a, IF Cardinality(stamps) < MaxAttempts THEN "allowed" ELSE "refused")
  /\ UNCHANGED tick

Exec(a) ==
  /\ attempt[a].at = "asking"
  /\ Added(a)
  /\ Ended(a, IF Cardinality(Recent(a)) < MaxAttempts THEN "allowed" ELSE "refused")
  /\ UNCHANGED tick

(* Login goes on; the pipeline may have run. *)
ExecFails(a) ==
  /\ attempt[a].at = "asking"
  /\ \/ Added(a)
     \/ UNCHANGED <<stamps, keptTo>>
  /\ Ended(a, "open")
  /\ UNCHANGED tick

WindowExpires ==
  /\ stamps # {} /\ tick = keptTo
  /\ stamps' = {}
  /\ UNCHANGED <<tick, keptTo, attempt>>

ClockTicks ==
  /\ tick < MaxTime /\ ~(stamps # {} /\ tick = keptTo)
  /\ \A a \in 1..Attempts : attempt[a].at = "asking" => tick < attempt[a].begun + MaxDelay
  /\ tick' = tick + 1
  /\ UNCHANGED <<stamps, keptTo, attempt>>

LimitNext ==
  \/ \E a \in 1..Attempts : Allow(a) \/ Exec(a) \/ ExecFails(a)
  \/ WindowExpires \/ ClockTicks

-----------------------------------------------------------------------------
(* In a window, less what the clocks and the calls may differ, attempts of *)
(* no more than MaxAttempts times are allowed; and who is refused was one  *)
(* of more than that many in a window, plus what they may differ.          *)
Differ == MaxDelay + Skew
AttemptsLimited ==
  /\ \A t \in 0..tick :
       Cardinality({attempt[a].stamp : a \in {b \in 1..Attempts :
         /\ attempt[b].at = "allowed"
         /\ attempt[b].done \in t..(t + Window - Differ - 1)}}) <= MaxAttempts
  /\ \A a \in 1..Attempts : attempt[a].at = "refused" =>
       Cardinality({b \in 1..Attempts \ {a} :
         /\ attempt[b].at \in {"allowed", "refused", "open"}
         /\ attempt[b].done \in (attempt[a].done - Window - Differ + 1)..attempt[a].done})
         >= MaxAttempts
=============================================================================
