------------------------------ MODULE VpnEngine ------------------------------
(***************************************************************************)
(* What an engine promises the one owner that calls it: the contract       *)
(* behind packages/runtime/src/engine/VPNEngine.interface.ts. A call is    *)
(* accepted, moves the public state along the state machine, and settles   *)
(* with an outcome; a kernel may die at any time. MihomoEngine implements  *)
(* it and RuntimeManager is built on it.                                   *)
(***************************************************************************)
EXTENDS RuntimeStateMachine

CONSTANTS
  Profile,    \* connection profiles
  Fallback,   \* profile -> the profile with AUTO for a vanished selection
  NoProfile

VARIABLES
  state,     \* getState()
  live,      \* an engine process exists whose exit was not delivered
  applied,   \* the profile the engine works with
  call,      \* the call in progress
  arg,       \* its profile; NoProfile once an update gave it up
  settled    \* the last call returned, rather than threw

engineVars == <<state, live, applied, call, arg, settled>>

Call == {"start", "stop", "restart", "update", "dispose"}

\* Where a settled call may leave the engine.
Resting == {"idle", "running", "crashed", "error"}

EngineTypeOK ==
  /\ state \in RuntimeState
  /\ live \in BOOLEAN
  /\ applied \in Profile \union {NoProfile}
  /\ call \in Call \union {"none", "disposed"}
  /\ arg \in Profile \union {NoProfile}
  /\ settled \in BOOLEAN

EngineInit ==
  /\ state = "idle" /\ live = FALSE /\ applied = NoProfile
  /\ call = "none" /\ arg = NoProfile /\ settled = TRUE

\* Where a step of a call may take the public state: only Crash crashes.
Successors == {state} \union (ValidTransitions[state] \ {"crashed"})

\* An update of an engine that is not running throws at once.
Refuses(c) == c = "update" /\ state # "running"

\* A call with nothing to do, or one its guards refuse, changes nothing; a
\* restart leaves a failed state before it first waits.
Begin(c, p) ==
  /\ call = "none" /\ ~Refuses(c) /\ call' = c /\ arg' = p
  /\ \/ state' = state
     \/ c = "restart" /\ state = "crashed" /\ state' = "reconnecting"
     \/ c = "restart" /\ state = "error" /\ state' = "idle"
  /\ UNCHANGED <<live, applied, settled>>

\* A process is spawned only while starting and only when none exists; the
\* profile changes under a start, never under an update. A stop only goes
\* through stopping, a disposal through nothing anybody sees; a start of an
\* engine that runs or crashed does nothing but throw, one that has an old
\* process waits for its exit, and one that fails says so when it returns.
Progress ==
  /\ call \in Call /\ UNCHANGED <<call, settled>>
  /\ state' \in Successors \ ({"running"} \ {state})
  /\ call = "stop" => state' \in {state, "stopping"}
  /\ call = "dispose" \/ (call = "start" /\ state \in {"running", "crashed"})
       => state' = state
  /\ call \in {"start", "restart"} =>
       /\ state = "starting" => state' = "starting"
       /\ live /\ state \in {"idle", "error"} => state' = state
  /\ live' \in {live, live \/ (state = "starting" /\ state' = "starting")}
  /\ arg' \in {arg, IF call = "update" THEN NoProfile ELSE arg}
  /\ applied' = IF call \in {"start", "restart"} /\ state # "starting" /\ state' = "starting"
                  THEN arg ELSE applied

Return(ok) ==
  /\ call' = "none" /\ arg' = NoProfile /\ settled' = ok
  /\ state' \in Successors \intersect Resting

\* Whether the process is still there is not promised: it may have died. A
\* start that got going and fails ends in error; one that never got going
\* was refused for the state, or for a process not confirmed dead.
StartReturns(ok) ==
  /\ call \in {"start", "restart"} /\ Return(ok)
  /\ IF ok
       THEN state = "starting" /\ state' = "running" /\ UNCHANGED live
            /\ applied' \in {applied, Fallback[applied]}
       ELSE /\ state' \in {state, "error"} /\ UNCHANGED <<live, applied>>
            /\ state = "starting" => state' = "error"
            /\ state \in {"idle", "error"} => live /\ state' = state

\* The process is gone, or the call throws; an idle engine does not look.
StopReturns(ok) ==
  /\ call = "stop" /\ Return(ok) /\ UNCHANGED <<live, applied>>
  /\ IF ok THEN state' = "idle" /\ (live => state = "idle")
           ELSE state' = "error" /\ live

\* All or nothing: the new profile, or an error and the previous one.
UpdateReturns(ok) ==
  /\ call = "update" /\ Return(ok) /\ UNCHANGED live
  /\ IF ok
       THEN arg # NoProfile /\ applied' = arg /\ state' \in {"running", "crashed"}
       ELSE applied' = applied /\ state' # "idle"

DisposeReturns ==
  /\ call = "dispose" /\ call' = "disposed"
  /\ state' = "idle" /\ applied' = NoProfile
  /\ UNCHANGED <<live, arg, settled>>

\* The death of a running engine is a crash.
Crash ==
  /\ live /\ live' = FALSE
  /\ state' = TryTransition(state, "crashed")
  /\ UNCHANGED <<applied, call, arg, settled>>

EngineStep ==
  \/ \E ok \in BOOLEAN : StartReturns(ok) \/ StopReturns(ok) \/ UpdateReturns(ok)
  \/ Progress \/ DisposeReturns \/ Crash

EngineNext ==
  \/ \E c \in Call, p \in Profile \union {NoProfile} : Begin(c, p)
  \/ EngineStep

EngineSpec == EngineInit /\ [][EngineNext]_engineVars

=============================================================================
