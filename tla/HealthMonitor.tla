---------------------------- MODULE HealthMonitor ----------------------------
(***************************************************************************)
(* The monitor that tells the interface whether the running kernel serves: *)
(* a check at start(), one at every tick, early retries while the network  *)
(* settles or after traffic. A check waits for its probes while the engine *)
(* stops the monitor and starts it again, for another kernel. Of a verdict *)
(* only connectivity is kept, and the start that asked for it.             *)
(***************************************************************************)
EXTENDS Naturals

CONSTANTS
  MaxStarts,   \* bound: calls of start() and stop()
  NoVerdict, NoRetry

ASSUME HealthAssumption ==
  MaxStarts \in Nat /\ NoRetry \notin Nat /\ NoVerdict \notin [of : Nat, ok : BOOLEAN]

VARIABLES
  ticking,     \* timer
  generation,
  checks,      \* activeChecks: generations with a check under way
  retry,       \* retryTimer: the generation it was armed for
  settling,    \* startupRetryDeadline is ahead
  verdict      \* current, and the generation of the check that found it

healthVars == <<ticking, generation, checks, retry, settling, verdict>>

HealthInit ==
  /\ ticking = FALSE /\ generation = 0 /\ checks = {}
  /\ retry = NoRetry /\ settling = FALSE /\ verdict = NoVerdict

ConnectivityOk == verdict # NoVerdict /\ verdict.ok

\* runChecks(): one check of a generation at a time.
Checking(g) == checks' = checks \union {g}

MonitorStarts ==
  /\ ~ticking /\ generation < MaxStarts
  /\ ticking' = TRUE
  /\ generation' = generation + 1
  /\ settling' = TRUE
  /\ Checking(generation + 1)
  /\ UNCHANGED <<retry, verdict>>

MonitorStops ==
  /\ generation < MaxStarts
  /\ generation' = generation + 1
  /\ ticking' = FALSE /\ retry' = NoRetry /\ settling' = FALSE /\ verdict' = NoVerdict
  /\ UNCHANGED checks

Ticks ==
  /\ ticking
  /\ Checking(generation)
  /\ UNCHANGED <<ticking, generation, retry, settling, verdict>>

\* notifyTrafficSeen() of the traffic monitor.
TrafficSeen ==
  /\ ticking /\ ~ConnectivityOk /\ retry = NoRetry
  /\ retry' = generation
  /\ UNCHANGED <<ticking, generation, checks, settling, verdict>>

RetryFires ==
  /\ retry # NoRetry
  /\ retry' = NoRetry
  /\ Checking(retry)
  /\ UNCHANGED <<ticking, generation, settling, verdict>>

\* STARTUP_RETRY_WINDOW_MS passes.
Settles == settling /\ settling' = FALSE /\ UNCHANGED <<ticking, generation, checks, retry, verdict>>

\* Mutant of Outlived: an answer counts whenever it comes.
Outlived_Never(g) == FALSE

\* The monitor was stopped, or started again, during the check.
Outlived(g) == g # generation

\* The probes of a check answer; current is replaced and a retry is armed.
CheckEnds(g, ok) ==
  /\ g \in checks
  /\ checks' = checks \ {g}
  /\ IF Outlived(g)
     THEN UNCHANGED <<retry, settling, verdict>>
     ELSE /\ verdict' = [of |-> g, ok |-> ok]
          /\ settling' = (settling /\ ~ok)
          /\ retry' = IF ~ok /\ settling /\ retry = NoRetry THEN g ELSE retry
  /\ UNCHANGED <<ticking, generation>>

HealthNext ==
  \/ MonitorStarts
  \/ MonitorStops
  \/ Ticks
  \/ TrafficSeen
  \/ RetryFires
  \/ Settles
  \/ \E g \in checks, ok \in BOOLEAN : CheckEnds(g, ok)

HealthSpec == HealthInit /\ [][HealthNext]_healthVars

\* What the interface shows is about the kernel that runs now: a verdict was
\* found by a check of the present start, none is left once the monitor is
\* stopped, and no timer armed for an earlier kernel survives to ask for one
\* (HealthMonitor.ts:56-68, 119).
VerdictIsFresh ==
  /\ verdict # NoVerdict => ticking /\ verdict.of = generation
  /\ retry # NoRetry => ticking /\ retry = generation

=============================================================================
