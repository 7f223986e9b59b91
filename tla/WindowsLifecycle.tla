-------------------------- MODULE WindowsLifecycle --------------------------
(***************************************************************************)
(* Who connects and disconnects on Windows: the user through               *)
(* RuntimeServiceImpl, the power monitor through reconnectAfterResume, and *)
(* RecoveryCoordinator after a failure. All three act on one               *)
(* RuntimeManager, whose steps are those of the module RuntimeManager;     *)
(* service and coordinator hear its engine through 'stateChanged'.         *)
(* The application creates the manager without retries of its own.         *)
(***************************************************************************)
EXTENDS RuntimeManager

CONSTANTS
  MaxRecovery,         \* RecoveryPolicy.maxAttempts
  KillConfirms,        \* external: stops and starts always see the exit in time
  MayDisconnectAgain,  \* also after a connect overtook a disconnect that waits
  MayUpdate            \* settings may change while connected

ASSUME LifecycleAssumption ==
  /\ MaxRecovery \in Nat
  /\ {KillConfirms, MayDisconnectAgain, MayUpdate} \subseteq BOOLEAN
  /\ ~AutoReconnect

VARIABLES
  connecting,  \* the connect() that holds connectLock
  resuming,    \* reconnectAfterResume waits for its disconnect, not superseded
  recovery,    \* RecoveryCoordinator
  proxy,       \* the Windows system proxy points at the engine
  intent       \* history: what the user asked for last

serviceVars == <<connecting, resuming, intent>>
lifecycleVars == <<vars, serviceVars, recovery, proxy>>

\* fresh: the epoch the connect remembers is still connectionEpoch.
ConnectLock ==
  [phase : {"free", "preparing", "managed"}, fresh : BOOLEAN]

\* owns: the connect in progress was called by the current generation.
Coordinator ==
  [recovering : BOOLEAN, timer : BOOLEAN, attempts : 0..MaxRecovery,
   exhausted : BOOLEAN, owns : BOOLEAN]

LifecycleTypeOK ==
  /\ TypeOK
  /\ connecting \in ConnectLock
  /\ {resuming, proxy} \subseteq BOOLEAN
  /\ recovery \in Coordinator
  /\ intent \in {"down", "asked", "up"}

Free == [phase |-> "free", fresh |-> FALSE]
Preparing == [phase |-> "preparing", fresh |-> TRUE]

LifecycleInit ==
  /\ Init
  /\ connecting = Free /\ resuming = FALSE
  /\ recovery = [recovering |-> FALSE, timer |-> FALSE, attempts |-> 0,
                 exhausted |-> FALSE, owns |-> FALSE]
  /\ proxy = FALSE /\ intent = "down"

\* isConnectionDesired()
Wanted == desired /\ ~disposed

Locked == connecting.phase # "free"

\* disconnectLock is held until the operation of the chain settles.
Disconnecting == \E i \in DOMAIN queue : queue[i].op = "disconnect"

\* stop() of an idle engine returns without waiting for anything.
StopsNothing == call = "stop" /\ state = "idle"

\* An operation of the chain whose turn it is goes on in microtasks, before
\* the event loop delivers the next command, timer, answer or exit.
NextEvent ==
  /\ ~StopsNothing
  /\ queue # <<>> =>
       phase # "stopped" /\ (phase = "waiting" => call \notin {"none", "disposed"})

-----------------------------------------------------------------------------
(* RecoveryCoordinator                                                    *)

\* A new generation: neither the timer nor a late rejection counts any more.
Reset(c) ==
  [c EXCEPT !.recovering = FALSE, !.timer = FALSE, !.attempts = 0, !.owns = FALSE]

\* Mutant of Attempt: spending the budget leaves the cycle open.
Attempt_Latches(c) ==
  CASE ~Wanted -> Reset(c)
    [] Wanted /\ c.attempts < MaxRecovery ->
         [c EXCEPT !.timer = TRUE, !.attempts = @ + 1]
    [] OTHER -> [c EXCEPT !.exhausted = TRUE]

\* doRecoveryAttempt, onExhausted
Attempt(c) ==
  CASE ~Wanted -> Reset(c)
    [] Wanted /\ c.attempts < MaxRecovery ->
         [c EXCEPT !.timer = TRUE, !.attempts = @ + 1]
    [] OTHER -> Reset([c EXCEPT !.exhausted = TRUE])

\* Mutant of Hears: exhaustion is not latched.
Hears_Again(c, s) ==
  CASE disposed -> c
    [] ~disposed /\ (~desired \/ s = "running") ->
         Reset([c EXCEPT !.exhausted = FALSE])
    [] Wanted /\ s \in {"error", "crashed"} /\ ~c.recovering ->
         Attempt([c EXCEPT !.recovering = TRUE])
    [] OTHER -> c

\* Mutant of Hears: a failure during a recovery cycle starts another one.
Hears_Twice(c, s) ==
  CASE disposed -> c
    [] ~disposed /\ (~desired \/ s = "running") ->
         Reset([c EXCEPT !.exhausted = FALSE])
    [] Wanted /\ s \in {"error", "crashed"} /\ ~c.exhausted ->
         Attempt([c EXCEPT !.recovering = TRUE])
    [] OTHER -> c

\* The 'stateChanged' listener, onRecovered, scheduleRecovery.
Hears(c, s) ==
  CASE disposed -> c
    [] ~disposed /\ (~desired \/ s = "running") ->
         Reset([c EXCEPT !.exhausted = FALSE])
    [] Wanted /\ s \in {"error", "crashed"} /\ ~c.exhausted /\ ~c.recovering ->
         Attempt([c EXCEPT !.recovering = TRUE])
    [] OTHER -> c

\* The catch of connectFn, if the connect was the coordinator's.
Rejected(c) ==
  IF c.owns /\ c.recovering /\ Wanted
    THEN Attempt([c EXCEPT !.owns = FALSE]) ELSE [c EXCEPT !.owns = FALSE]

Resolved(c) == [c EXCEPT !.owns = FALSE]

\* The coordinator after what this step of the engine emits.
Heard == IF state' # state THEN Hears(recovery, state') ELSE recovery

\* stop() announces the state it finds when that cannot become stopping.
HeardStopping ==
  IF state \in {"crashed", "error"} THEN Hears(recovery, state) ELSE recovery

\* A stop that failed announces error, even where error was.
HeardStopped(ok) == IF ok THEN Heard ELSE Hears(recovery, "error")

\* The service's own listener; disposal removes all listeners first.
SetsProxy ==
  proxy' = CASE state' = state \/ call' = "disposed" -> proxy
             [] state' # state /\ call' # "disposed" /\ state' = "running" -> TRUE
             [] state' # state /\ call' # "disposed" /\ state' = "idle" -> FALSE
             [] OTHER -> proxy

-----------------------------------------------------------------------------
(* RuntimeServiceImpl: connect, disconnect, reconnectAfterResume          *)

\* ++connectionEpoch of a connect supersedes a resume.
TakesLock == connecting' = Preparing /\ resuming' = FALSE

\* A running service returns, a locked one throws: neither changes anything.
UserConnects ==
  /\ NextEvent
  /\ state \notin {"running", "starting"} /\ ~Locked /\ call # "disposed"
  /\ TakesLock
  /\ intent' = IF intent = "down" THEN "asked" ELSE intent
  /\ UNCHANGED <<vars, recovery, proxy>>

\* Preflight, settings, subscriptions: one of them fails, or no server is left.
PreparationFails ==
  /\ NextEvent
  /\ connecting.phase = "preparing"
  /\ connecting' = Free /\ recovery' = Rejected(recovery)
  /\ UNCHANGED <<vars, resuming, intent, proxy>>

\* Mutant of Superseded: the epoch is not compared after the awaits.
Superseded_Never == call = "disposed"

\* The epoch moved, or there is no engine any more.
Superseded == ~connecting.fresh \/ call = "disposed"

Prepared ==
  /\ NextEvent
  /\ connecting.phase = "preparing"
  /\ IF Superseded
       THEN /\ connecting' = Free /\ recovery' = Resolved(recovery)
            /\ UNCHANGED <<vars, intent>>
       ELSE /\ \E p \in Profile : Connect(p)
            /\ connecting' = [connecting EXCEPT !.phase = "managed"]
            /\ intent' = IF intent = "asked" THEN "up" ELSE intent
            /\ UNCHANGED recovery
  /\ UNCHANGED <<resuming, proxy>>

\* Mutant of Supersedes: a disconnect does not end a pending resume.
Supersedes_KeepsResume ==
  /\ connecting' = [connecting EXCEPT !.fresh = FALSE]
  /\ UNCHANGED resuming

\* ++connectionEpoch of a disconnect: also of one that finds the lock taken.
Supersedes ==
  /\ connecting' = [connecting EXCEPT !.fresh = FALSE]
  /\ resuming' = FALSE

\* A disconnect that finds disconnectLock taken does not reach the manager.
UserDisconnects ==
  /\ NextEvent
  /\ Supersedes /\ intent' = "down"
  /\ \/ ~Disconnecting /\ Disconnect
     \/ Disconnecting /\ (MayDisconnectAgain \/ ~desired) /\ UNCHANGED vars
  /\ UNCHANGED <<recovery, proxy>>

\* triggerReconnect after the power monitor's 'resume'.
Resumes ==
  /\ NextEvent
  /\ state = "running" /\ Wanted /\ ~Locked /\ ~Disconnecting
  /\ Disconnect /\ resuming' = TRUE
  /\ UNCHANGED <<connecting, intent, recovery, proxy>>

\* Mutant of RecoveryFires: finding the service locked is no rejection.
RecoveryFires_SkipsLocked ==
  /\ NextEvent
  /\ recovery.timer
  /\ LET fired == [recovery EXCEPT !.timer = FALSE, !.owns = TRUE]
     IN  CASE ~Wanted \/ state \notin {"error", "crashed"} ->
                recovery' = Reset(recovery) /\ UNCHANGED <<connecting, resuming>>
           [] Wanted /\ state \in {"error", "crashed"} /\ Locked ->
                recovery' = Resolved(fired) /\ UNCHANGED <<connecting, resuming>>
           [] OTHER -> recovery' = fired /\ TakesLock
  /\ UNCHANGED <<vars, intent, proxy>>

\* The recovery timer: connectFn is connect().
RecoveryFires ==
  /\ NextEvent
  /\ recovery.timer
  /\ LET fired == [recovery EXCEPT !.timer = FALSE, !.owns = TRUE]
     IN  CASE ~Wanted \/ state \notin {"error", "crashed"} ->
                recovery' = Reset(recovery) /\ UNCHANGED <<connecting, resuming>>
           [] Wanted /\ state \in {"error", "crashed"} /\ Locked ->
                recovery' = Rejected(fired) /\ UNCHANGED <<connecting, resuming>>
           [] OTHER -> recovery' = fired /\ TakesLock
  /\ UNCHANGED <<vars, intent, proxy>>

\* applyDesiredProfile: a setting changed while connected. The resolutions are
\* serialised: the next one starts when the engine has answered.
Updating == \E i \in DOMAIN queue : queue[i].op = "update"

ProfileChanges ==
  /\ NextEvent
  /\ MayUpdate /\ state = "running" /\ ~Updating
  /\ \E p \in Profile : UpdateProfile(p)
  /\ UNCHANGED <<serviceVars, recovery, proxy>>

\* shutdownBootstrap: first the coordinator, then the manager.
Quit ==
  /\ NextEvent
  /\ Dispose /\ recovery' = Reset(recovery)
  /\ UNCHANGED <<serviceVars, proxy>>

-----------------------------------------------------------------------------
(* Steps of the manager, and who hears or awaits them                     *)

Settled == connecting' = Free /\ UNCHANGED <<resuming, intent>>

Confirmed(ok) == KillConfirms => ok \/ ~live

\* An obsolete connect of the chain resolves.
ConnectDropped ==
  /\ (Skips /\ Head(queue).op = "connect") \/ (ConnectContinues /\ Obsolete)
  /\ Settled /\ recovery' = Resolved(recovery)
  /\ UNCHANGED proxy

ConnectProceeds ==
  /\ \/ ConnectBegins /\ recovery' = IF state = "crashed" THEN HeardStopping ELSE recovery
     \/ ConnectContinues /\ ~Obsolete /\ UNCHANGED recovery
  /\ UNCHANGED <<serviceVars, proxy>>

ConnectAnswered(ok) ==
  /\ NextEvent
  /\ \/ ConnectSettles(ok) /\ recovery' = IF ok THEN Resolved(Heard) ELSE Rejected(Heard)
     \/ ~ok /\ ConnectStopSettles(ok) /\ recovery' = Rejected(HeardStopped(ok))
  /\ Confirmed(ok) /\ Settled /\ SetsProxy

ConnectStopped ==
  /\ NextEvent
  /\ ConnectStopSettles(TRUE) /\ recovery' = Heard
  /\ SetsProxy /\ UNCHANGED serviceVars

DisconnectProceeds ==
  /\ DisconnectBegins /\ recovery' = HeardStopping
  /\ UNCHANGED <<serviceVars, proxy>>

DisposeProceeds ==
  /\ DisposeBegins /\ UNCHANGED <<serviceVars, recovery, proxy>>

UpdateProceeds ==
  /\ UpdateBegins \/ (Skips /\ Head(queue).op = "update")
  /\ UNCHANGED <<serviceVars, recovery, proxy>>

UpdateAnswered(ok) ==
  /\ NextEvent
  /\ UpdateSettles(ok) /\ recovery' = Heard /\ SetsProxy
  /\ UNCHANGED serviceVars

\* The resume that waited for it goes on to connect().
Continues(ok) ==
  /\ IF ok /\ resuming THEN TakesLock ELSE UNCHANGED connecting /\ resuming' = FALSE
  /\ UNCHANGED intent

DisconnectAnswered(ok) ==
  /\ NextEvent \/ StopsNothing
  /\ DisconnectSettles(ok) /\ Confirmed(ok)
  /\ recovery' = HeardStopped(ok) /\ SetsProxy /\ Continues(ok)

DisconnectAnsweredByNobody ==
  /\ DisconnectsNothing /\ Continues(TRUE)
  /\ UNCHANGED <<recovery, proxy>>

\* The engine works or crashes; disposal is heard by nobody.
EngineMoves ==
  /\ NextEvent
  /\ \/ EngineProgresses \/ EngineCrashes
     \/ DisposeSettles
  /\ recovery' = Heard /\ SetsProxy
  /\ UNCHANGED serviceVars

-----------------------------------------------------------------------------
Commands == UserConnects \/ UserDisconnects \/ ProfileChanges \/ Resumes \/ Quit

Preparation == PreparationFails \/ Prepared

ChainMoves ==
  \/ ConnectDropped \/ ConnectProceeds \/ UpdateProceeds
  \/ DisconnectProceeds \/ DisconnectAnsweredByNobody \/ DisposeProceeds

Answers ==
  \/ ConnectStopped
  \/ \E ok \in BOOLEAN : ConnectAnswered(ok) \/ DisconnectAnswered(ok) \/ UpdateAnswered(ok)

LifecycleNext ==
  Commands \/ Preparation \/ RecoveryFires \/ ChainMoves \/ Answers \/ EngineMoves

LifecycleSpec == LifecycleInit /\ [][LifecycleNext]_lifecycleVars

\* Fetches time out, timers fire, and every call of the engine settles.
\* Strongly fair: the chain's microtasks hold them up again and again, but
\* every time only until the event loop turns.
LifecycleFairSpec ==
  /\ LifecycleSpec
  /\ WF_lifecycleVars(ChainMoves)
  /\ SF_lifecycleVars(Preparation) /\ SF_lifecycleVars(RecoveryFires)
  /\ SF_lifecycleVars(EngineMoves) /\ SF_lifecycleVars(Answers)

-----------------------------------------------------------------------------
(* Properties                                                             *)

\* "Explicit Disconnect clears desired state immediately ..., invalidates
\* queued operations, and supersedes the pending resume command": whatever was
\* under way, the connection is not wanted again before the user asks for it.
DisconnectIsFinal == intent = "down" => ~Wanted

\* "already in a recovery cycle": recovering is only set while a timer runs or
\* a connect of the cycle is in progress, or the user has just disconnected.
RecoveryIsPending ==
  recovery.recovering => recovery.timer \/ recovery.owns \/ ~Wanted

\* Recovery has one owner and one attempt at a time: never a timer beside
\* the connect it started. "Exhaustion is now latched until a successful
\* connection or disconnected intent is observed": no failure starts a cycle
\* after a spent budget.
OneRecoveryAtATime ==
  /\ ~(recovery.timer /\ recovery.owns)
  /\ recovery.exhausted => ~recovery.recovering

\* A failed connection that is still wanted is tried again, or the budget is
\* spent, or the user gives up.
FailureIsRetried ==
  (state \in {"error", "crashed"} /\ Wanted) ~>
    (state \in {"starting", "running"} \/ recovery.exhausted \/ ~Wanted)

\* A recovery does not go on for ever: it succeeds, gives up, or is dropped.
RecoveryEnds == recovery.recovering ~> ~recovery.recovering

\* "VPN reconnects within 30 seconds of wake": what the user has connected
\* and not disconnected stays wanted, or is on its way back.
ConnectionIsKept ==
  intent = "up" /\ ~disposed =>
    desired \/ resuming \/ Locked \/ Disconnecting

\* "app restart/exit while active; verify system proxy/TUN cleanup"
ProxyIsOffAfterExit == call = "disposed" => ~proxy

=============================================================================
