---------------------------- MODULE MihomoEngine ----------------------------
(***************************************************************************)
(* The Mihomo engine of packages/runtime: MihomoEngine.ts with the         *)
(* ProcessManager.ts and ProcessWatcher.ts it owns, the configuration file *)
(* on disk, and the external mihomo kernel it drives over a REST API.      *)
(*                                                                         *)
(* The engine is called by one owner that waits for each call to settle    *)
(* (RuntimeManager.enqueue). A call is a sequence of awaits; between two   *)
(* awaits the code runs to completion, so every action below is one        *)
(* stretch of code between two awaits, named by pc. What interleaves with  *)
(* a call is the outside: the kernel dies, its 'exit' event is delivered,  *)
(* applications open sockets, an API request fails before or after it took *)
(* effect, a file operation fails, a signal is ignored until kill gives up.*)
(***************************************************************************)
EXTENDS RuntimeStateMachine, FiniteSets

CONSTANTS
  Pids,       \* OS process identities, reused once an exit was delivered
  Hards,      \* tunEnabled / mixedPort / tunStack: needs a full restart
  Softs,      \* everything else that generateMihomoConfig reads
  Targets,    \* members of the SELECT group
  AutoTarget,       \* the generated group SLAVE-AUTO
  GroupOf,    \* soft part -> members its configuration gives the group
  Requests,   \* profiles an owner passes to start and updateProfile
  Calls,      \* calls this owner makes
  NoPid, NoTarget, NoConfig, NoProfile, NoKernel

Config  == [hard : Hards, soft : Softs]
Profile == [hard : Hards, soft : Softs, sel : Targets \union {NoTarget}]
Kernel  == [cfg : Config, sel : Targets, socks : SUBSET Targets]

ASSUME GroupAssumption ==
  /\ AutoTarget \in Targets
  /\ GroupOf \in [Softs -> (SUBSET Targets) \ {{}}]
ASSUME RequestsAssumption == Requests \subseteq Profile
ASSUME NoneAssumption ==
  /\ NoPid \notin Pids
  /\ NoTarget \notin Targets
  /\ NoConfig \notin Config
  /\ NoProfile \notin Profile
  /\ NoKernel \notin Kernel

VARIABLES
  fsm,       \* RuntimeStateMachine._state
  held,      \* ProcessManager.process
  pending,   \* ProcessWatcher.pendingStopReason
  monitors,  \* health and traffic monitors polling
  profile,   \* MihomoEngine.currentProfile
  disk,      \* workingDir/config.yaml; NoConfig: absent or torn
  os,        \* operating system: the mihomo processes
  kernel,    \* what the live mihomo has loaded, selected and open
  asked,     \* history: processes some kill was requested for
  pc,        \* the await the current call is suspended at
  job,       \* the call, and inside updateProfile its phase
  cand,      \* local: profile being started or applied
  prev,      \* local: previousProfile of updateProfile
  backup,    \* local: previousConfig read before a reload
  allow,     \* local: allowUnavailableSelection
  reason,    \* local: StopReason of the stop in progress
  cont,      \* where a settled kill continues
  settled    \* history: the last call settled without throwing

procVars  == <<held, pending, os, kernel, asked>>
localVars == <<cand, prev, backup, allow, reason, cont, settled>>
vars == <<fsm, monitors, profile, disk, pc, job, procVars, localVars>>

PC == {"ready", "disposed", "startEnter", "writing", "spawning", "probing",
       "version", "startSelect", "group", "startAuto", "stopEnter", "killing",
       "select", "close", "readBackup", "rewrite", "reload",
       "restoreConfig", "restoreReload", "restoreSelect", "restoreClose",
       "failRecovery"}

\* start, stop, restart, dispose: direct calls. hot, reload: updateProfile in
\* place, refused: given up before it touched anything. swap: its full
\* restart; undoStop, undo: that restart rolled back.
Job == {"start", "stop", "restart", "dispose", "hot", "reload", "refused",
        "swap", "undoStop", "undo"}

Cont == {"startKill", "startFailed", "stop", "failRecovery", "dispose"}

DataTypeOK ==
  /\ fsm \in RuntimeState
  /\ held \in Pids \union {NoPid}
  /\ pending \in StopReason
  /\ profile \in Profile \union {NoProfile}
  /\ disk \in Config \union {NoConfig}
  /\ os \in [Pids -> {"free", "alive", "dead"}]
  /\ kernel \in Kernel \union {NoKernel}
  /\ asked \subseteq Pids
  /\ pc \in PC
  /\ job \in Job
  /\ cand \in Profile \union {NoProfile}
  /\ prev \in Profile \union {NoProfile}
  /\ backup \in Config \union {NoConfig}
  /\ reason \in StopReason
  /\ cont \in Cont

TypeOK == DataTypeOK /\ {monitors, allow, settled} \subseteq BOOLEAN

Init ==
  /\ fsm = "idle" /\ held = NoPid /\ pending = "crashed" /\ monitors = FALSE
  /\ profile = NoProfile /\ disk = NoConfig
  /\ os = [p \in Pids |-> "free"] /\ kernel = NoKernel /\ asked = {}
  /\ pc = "ready" /\ job = "stop"
  /\ cand = NoProfile /\ prev = NoProfile /\ backup = NoConfig
  /\ allow = TRUE /\ reason = "intentional" /\ cont = "stop" /\ settled = TRUE

ConfigOf(p) == [hard |-> p.hard, soft |-> p.soft]

\* The profile after "requested proxy unavailable; fell back to AUTO".
WithAuto(p) == [p EXCEPT !.sel = AutoTarget]

-----------------------------------------------------------------------------
(* The kernel behind the REST API, and the file operations.               *)

Alive == kernel # NoKernel

\* The kernel states a request may produce: none when it is refused.
Selected(t) ==
  IF Alive /\ t \in GroupOf[kernel.cfg.soft]
    THEN {[kernel EXCEPT !.sel = t]} ELSE {}

\* store-selected keeps or defaults the choice: any member of the group.
Reloaded ==
  IF Alive /\ disk # NoConfig
    THEN {[kernel EXCEPT !.cfg = disk, !.sel = t] : t \in GroupOf[disk.soft]}
    ELSE {}

Closed == IF Alive THEN {[kernel EXCEPT !.socks = {}]} ELSE {}

\* A request that succeeds took effect; one that fails may have, too.
ApiOk(outcomes)    == kernel' \in outcomes
ApiFails(outcomes) == kernel' \in {kernel} \union outcomes

WriteOk(c)    == disk' = c
WriteFails(c) == disk' \in {disk, c, NoConfig}

-----------------------------------------------------------------------------
(* Settling a call, and the continuations of start, stop and kill.        *)

\* The owner's call returns (ok) or throws: its locals go out of scope.
Settle(ok) ==
  /\ pc' = "ready" /\ settled' = ok
  /\ cand' = NoProfile /\ prev' = NoProfile /\ backup' = NoConfig
  /\ allow' = TRUE /\ reason' = "intentional" /\ cont' = "stop"

Goto(l) == pc' = l /\ UNCHANGED localVars

\* start() returns or throws to its caller: the owner, restart(), the full
\* restart of updateProfile or that restart's rollback.
StartReturns(ok) ==
  \/ /\ job \in {"start", "restart"} \/ ok
     /\ Settle(ok /\ job # "undo") /\ UNCHANGED job
  \/ /\ job = "swap" /\ ~ok
     /\ pc' = "stopEnter" /\ job' = "undoStop"
     /\ UNCHANGED localVars
  \/ /\ job = "undo" /\ ~ok
     /\ Goto("failRecovery") /\ UNCHANGED job

\* stop() returns or throws to its caller.
StopReturns(ok) ==
  \/ /\ job = "stop" \/ (job = "restart" /\ ~ok)
     /\ Settle(ok) /\ UNCHANGED job
  \/ /\ job \in {"restart", "swap"} /\ ok
     /\ Goto("startEnter") /\ UNCHANGED job
  \/ /\ job = "swap" /\ ~ok
     /\ pc' = "stopEnter" /\ job' = "undoStop"
     /\ UNCHANGED localVars
  \/ /\ job = "undoStop" /\ ok
     /\ pc' = "startEnter" /\ job' = "undo"
     /\ cand' = prev /\ allow' = FALSE
     /\ UNCHANGED <<prev, backup, reason, cont, settled>>
  \/ /\ job = "undoStop" /\ ~ok
     /\ Goto("failRecovery") /\ UNCHANGED job

\* Mutant of Kill: a signal is sent although there is no process.
Kill_Unguarded(why, then) ==
  /\ pc' = "killing" /\ cont' = then
  /\ asked' = asked \union {held}
  /\ pending' = IF held = NoPid THEN pending ELSE why
  /\ UNCHANGED <<cand, prev, backup, allow, reason, settled>>

\* ProcessManager.kill up to its await. Without a process it resolves at
\* once and records nothing.
Kill(why, then) ==
  /\ pc' = "killing" /\ cont' = then
  /\ asked' = asked \union ({held} \ {NoPid})
  /\ pending' = IF held = NoPid THEN pending ELSE why
  /\ UNCHANGED <<cand, prev, backup, allow, reason, settled>>

-----------------------------------------------------------------------------
(* start(profile, allowUnavailableSelection)                              *)

Startable == {"idle", "error", "reconnecting"}

CallStart(p) ==
  /\ "start" \in Calls /\ pc = "ready"
  /\ pc' = "startEnter" /\ job' = "start" /\ cand' = p /\ allow' = TRUE
  /\ UNCHANGED <<fsm, monitors, profile, disk, procVars,
                 prev, backup, reason, cont, settled>>

\* start() throws in any other state, before it changes anything.
StartRefused ==
  /\ pc = "startEnter" /\ fsm \notin Startable
  /\ StartReturns(FALSE)
  /\ UNCHANGED <<fsm, monitors, profile, disk, procVars>>

\* A process an earlier kill could not confirm dead is killed first.
StartKillsOld ==
  /\ pc = "startEnter" /\ fsm \in Startable /\ held # NoPid
  /\ Kill("intentional", "startKill")
  /\ UNCHANGED <<fsm, monitors, profile, disk, held, os, kernel, job>>

StartResetsError ==
  /\ pc = "startEnter" /\ fsm = "error" /\ held = NoPid
  /\ fsm' = "idle"
  /\ UNCHANGED <<monitors, profile, disk, procVars, pc, job, localVars>>

\* Mutant of StartBegins: a process still held is not waited for.
StartBegins_NoCheck ==
  /\ pc = "startEnter" /\ fsm \in Startable
  /\ fsm' = "starting" /\ profile' = cand
  /\ Goto("writing")
  /\ UNCHANGED <<monitors, disk, procVars, job>>

StartBegins ==
  /\ pc = "startEnter" /\ fsm \in Startable \ {"error"} /\ held = NoPid
  /\ fsm' = "starting" /\ profile' = cand
  /\ Goto("writing")
  /\ UNCHANGED <<monitors, disk, procVars, job>>

\* Mutant of StartFails: the spawned process is not killed.
StartFails_NoKill ==
  /\ monitors' = FALSE
  /\ pc' = "killing" /\ cont' = "startFailed"
  /\ UNCHANGED <<fsm, held, os, job, asked, pending,
                 cand, prev, backup, allow, reason, settled>>

\* The catch clause of start(): a failed kill is swallowed.
StartFails ==
  /\ monitors' = FALSE
  /\ Kill("intentional", "startFailed")
  /\ UNCHANGED <<fsm, held, os, job>>

StartSucceeds(p) ==
  /\ monitors' = TRUE
  /\ fsm' = "running"
  /\ profile' = p
  /\ StartReturns(TRUE)
  /\ UNCHANGED <<held, pending, os, asked, disk>>

StartWrites ==
  /\ pc = "writing"
  /\ \/ /\ WriteOk(ConfigOf(cand)) /\ Goto("spawning")
        /\ UNCHANGED <<monitors, procVars, fsm, job>>
     \/ WriteFails(ConfigOf(cand)) /\ StartFails /\ UNCHANGED kernel
  /\ UNCHANGED profile

\* Mutant of Spawns: attach does not reset the pending stop reason.
Spawns_StaleReason ==
  /\ pc = "spawning" /\ held = NoPid
  /\ \E p \in Pids, t \in GroupOf[disk.soft] :
       /\ os[p] = "free"
       /\ os' = [os EXCEPT ![p] = "alive"]
       /\ held' = p
       /\ kernel' = [cfg |-> disk, sel |-> t, socks |-> {}]
  /\ Goto("probing")
  /\ UNCHANGED <<fsm, monitors, profile, disk, asked, job, pending>>

\* ProcessManager.spawn and ProcessWatcher.attach.
Spawns ==
  /\ pc = "spawning" /\ held = NoPid
  /\ \E p \in Pids, t \in GroupOf[disk.soft] :
       /\ os[p] = "free"
       /\ os' = [os EXCEPT ![p] = "alive"]
       /\ held' = p
       /\ kernel' = [cfg |-> disk, sel |-> t, socks |-> {}]
  /\ pending' = "crashed"
  /\ Goto("probing")
  /\ UNCHANGED <<fsm, monitors, profile, disk, asked, job>>

\* The binary is missing, or a process is already held.
SpawnRefused ==
  /\ pc = "spawning"
  /\ StartFails
  /\ UNCHANGED <<profile, disk, kernel>>

\* spawn emitted 'error' without a pid: onExit, and nobody answers the probe.
SpawnErrors ==
  /\ pc = "spawning" /\ held = NoPid
  /\ monitors' = FALSE
  /\ pending' = "crashed"
  /\ fsm' = TryTransition(fsm, "crashed")
  /\ Goto("probing")
  /\ UNCHANGED <<profile, disk, held, os, kernel, asked, job>>

\* waitForApi: an answer within 15 seconds or the deadline.
ApiAnswers ==
  /\ pc = "probing" /\ Alive
  /\ Goto("version")
  /\ UNCHANGED <<fsm, monitors, profile, disk, procVars, job>>

ApiNeverAnswers ==
  /\ pc = "probing"
  /\ StartFails
  /\ UNCHANGED <<profile, disk, kernel>>

\* getVersion settles either way: its failure is "non-critical".
VersionSettles ==
  /\ pc = "version"
  /\ \/ cand.sel = NoTarget /\ StartSucceeds(profile)
     \/ /\ cand.sel # NoTarget /\ Goto("startSelect")
        /\ UNCHANGED <<fsm, monitors, profile, disk, held, pending, os, asked, job>>
  /\ UNCHANGED kernel

StartSelects ==
  /\ pc = "startSelect"
  /\ \/ ApiOk(Selected(cand.sel)) /\ StartSucceeds(profile)
     \/ /\ ApiFails(Selected(cand.sel)) /\ ~allow /\ StartFails
        /\ UNCHANGED <<profile, disk>>
     \/ /\ ApiFails(Selected(cand.sel)) /\ allow /\ Goto("group")
        /\ UNCHANGED <<fsm, monitors, profile, disk, held, pending, os, asked, job>>

\* Positive evidence that the saved target is gone and AUTO is there.
FallbackProven ==
  /\ Alive
  /\ cand.sel \notin GroupOf[kernel.cfg.soft]
  /\ AutoTarget \in GroupOf[kernel.cfg.soft]

StartReadsGroup ==
  /\ pc = "group"
  /\ \/ /\ FallbackProven /\ Goto("startAuto")
        /\ UNCHANGED <<fsm, monitors, procVars, job>>
     \/ StartFails /\ UNCHANGED kernel
  /\ UNCHANGED <<profile, disk>>

\* The fallback is recorded in the profile object start() was given.
StartSelectsAuto ==
  /\ pc = "startAuto"
  /\ \/ /\ ApiOk(Selected(AutoTarget))
        /\ StartSucceeds(WithAuto(profile))
     \/ /\ ApiFails(Selected(AutoTarget)) /\ StartFails
        /\ UNCHANGED <<profile, disk>>

-----------------------------------------------------------------------------
(* stop(reason), restart(reason), dispose()                               *)

CallStop(r) ==
  /\ "stop" \in Calls /\ pc = "ready"
  /\ pc' = "stopEnter" /\ job' = "stop" /\ reason' = r
  /\ UNCHANGED <<fsm, monitors, profile, disk, procVars,
                 cand, prev, backup, allow, cont, settled>>

StopIdle ==
  /\ pc = "stopEnter" /\ fsm = "idle"
  /\ StopReturns(TRUE)
  /\ UNCHANGED <<fsm, monitors, profile, disk, procVars>>

\* setNextStopReason is called even when there is no process to kill.
StopBegins ==
  /\ pc = "stopEnter" /\ fsm # "idle"
  /\ monitors' = FALSE
  /\ fsm' = TryTransition(fsm, "stopping")
  /\ pc' = "killing" /\ cont' = "stop"
  /\ asked' = asked \union ({held} \ {NoPid})
  /\ pending' = reason
  /\ UNCHANGED <<profile, disk, held, os, kernel, job,
                 cand, prev, backup, allow, reason, settled>>

\* restart() up to its stop() or start(); start() gets the current profile.
RestartWith(p, r) ==
  /\ cand' = p /\ reason' = r /\ allow' = (r # "config_reload")
  /\ \/ /\ fsm = "crashed" /\ monitors' = FALSE
        /\ fsm' = "reconnecting" /\ pc' = "startEnter"
     \/ /\ fsm \in {"error", "idle"}
        /\ fsm' = "idle" /\ pc' = "startEnter" /\ UNCHANGED monitors
     \/ /\ fsm \notin {"crashed", "error", "idle"}
        /\ pc' = "stopEnter" /\ UNCHANGED <<fsm, monitors>>

CallRestart(r) ==
  /\ "restart" \in Calls /\ pc = "ready" /\ profile # NoProfile
  /\ job' = "restart"
  /\ RestartWith(profile, r)
  /\ UNCHANGED <<profile, disk, procVars, prev, backup, cont, settled>>

CallDispose ==
  /\ "dispose" \in Calls /\ pc = "ready"
  /\ monitors' = FALSE /\ job' = "dispose"
  /\ Kill("intentional", "dispose")
  /\ UNCHANGED <<fsm, profile, disk, held, os, kernel>>

-----------------------------------------------------------------------------
(* ProcessManager.kill: how its promise settles.                          *)

\* What runs after the await of each kill; ok: the exit was confirmed.
KillReturns(ok) ==
  \/ /\ cont = "startKill"
     /\ IF ok THEN Goto("startEnter") /\ UNCHANGED job ELSE StartReturns(FALSE)
     /\ UNCHANGED <<fsm, profile>>
  \/ /\ cont = "startFailed"
     /\ fsm' = TryTransition(fsm, "error")
     /\ StartReturns(FALSE) /\ UNCHANGED profile
  \/ /\ cont = "stop"
     /\ fsm' = TryTransition(fsm, IF ok THEN "idle" ELSE "error")
     /\ StopReturns(ok) /\ UNCHANGED profile
  \/ /\ cont = "failRecovery"
     /\ fsm' = TryTransition(fsm, "error") /\ profile' = prev
     /\ Settle(FALSE) /\ UNCHANGED job
  \/ /\ cont = "dispose"
     /\ fsm' = "idle" /\ profile' = NoProfile
     /\ Goto("disposed") /\ UNCHANGED job

KillConfirmed ==
  /\ pc = "killing" /\ held = NoPid
  /\ KillReturns(TRUE)
  /\ UNCHANGED <<monitors, disk, procVars>>

\* Mutant of KillUnconfirmed: giving up also forgets the process.
KillUnconfirmed_Drops ==
  /\ pc = "killing" /\ held # NoPid
  /\ KillReturns(FALSE)
  /\ held' = NoPid
  /\ UNCHANGED <<monitors, disk, pending, os, kernel, asked>>

\* Mutant of KillUnconfirmed: kill waits for the exit without a timeout.
KillUnconfirmed_Never == FALSE

\* SIGTERM and SIGKILL, 5 seconds each, or a signal that could not be sent:
\* kill rejects and keeps the process reference.
KillUnconfirmed ==
  /\ pc = "killing" /\ held # NoPid
  /\ KillReturns(FALSE)
  /\ UNCHANGED <<monitors, disk, procVars>>

-----------------------------------------------------------------------------
(* updateProfile(profile) and its rollback                                *)

Classify(old, new) ==
  IF old.hard # new.hard THEN "swap"
  ELSE IF new.sel # NoTarget /\ ConfigOf(old) = ConfigOf(new) THEN "hot"
  ELSE "reload"

\* In any other state, or for an equal profile, the call changes nothing.
Updatable(p) ==
  /\ "update" \in Calls /\ pc = "ready"
  /\ profile # NoProfile /\ fsm = "running" /\ p # profile

CallUpdateInPlace(p) ==
  /\ Updatable(p) /\ Classify(profile, p) # "swap"
  /\ job' = Classify(profile, p)
  /\ pc' = IF job' = "hot" THEN "select" ELSE "readBackup"
  /\ cand' = p /\ prev' = profile
  /\ UNCHANGED <<fsm, monitors, profile, disk, procVars,
                 backup, allow, reason, cont, settled>>

CallUpdateFullRestart(p) ==
  /\ Updatable(p) /\ Classify(profile, p) = "swap"
  /\ job' = "swap" /\ prev' = profile /\ profile' = p
  /\ RestartWith(p, "config_reload")
  /\ UNCHANGED <<disk, procVars, backup, cont, settled>>

\* Mutant of Recover: an in-place change is rolled back by closing sockets.
Recover_CloseOnly == Goto("restoreClose")

\* The catch clauses of the two in-place branches: recoverProfile. A hot
\* change left the file alone: it reloads it only without a saved target.
Recover ==
  Goto(CASE job = "reload"                    -> "restoreConfig"
         [] job = "hot" /\ prev.sel # NoTarget -> "restoreSelect"
         [] OTHER                              -> "restoreReload")

\* Mutant of UpdateSelects: the old sockets are left open.
UpdateSelects_NoClose ==
  /\ pc = "select"
  /\ \/ ApiOk(Selected(cand.sel)) /\ profile' = cand /\ Settle(TRUE)
     \/ ApiFails(Selected(cand.sel)) /\ Recover /\ UNCHANGED profile
  /\ UNCHANGED <<fsm, monitors, disk, held, pending, os, asked, job>>

UpdateSelects ==
  /\ pc = "select"
  /\ \/ ApiOk(Selected(cand.sel)) /\ Goto("close")
     \/ ApiFails(Selected(cand.sel)) /\ Recover
  /\ UNCHANGED <<fsm, monitors, profile, disk, held, pending, os, asked, job>>

\* Select first, close second; then the candidate is the current profile.
UpdateCloses ==
  /\ pc = "close"
  /\ \/ ApiOk(Closed) /\ profile' = cand /\ Settle(TRUE)
     \/ ApiFails(Closed) /\ Recover /\ UNCHANGED profile
  /\ UNCHANGED <<fsm, monitors, disk, held, pending, os, asked, job>>

\* Without the recovery artifact nothing is mutated.
UpdateReadsBackup ==
  /\ pc = "readBackup"
  /\ \/ /\ disk # NoConfig /\ backup' = disk /\ pc' = "rewrite"
        /\ UNCHANGED <<cand, prev, allow, reason, cont, settled, job>>
     \/ Settle(FALSE) /\ job' = "refused"
  /\ UNCHANGED <<fsm, monitors, profile, disk, procVars>>

UpdateRewrites ==
  /\ pc = "rewrite"
  /\ \/ WriteOk(ConfigOf(cand)) /\ Goto("reload")
     \/ WriteFails(ConfigOf(cand)) /\ Recover
  /\ UNCHANGED <<fsm, monitors, profile, procVars, job>>

UpdateReloads ==
  /\ pc = "reload"
  /\ \/ /\ ApiOk(Reloaded)
        /\ Goto(IF cand.sel = NoTarget THEN "close" ELSE "select")
     \/ ApiFails(Reloaded) /\ Recover
  /\ UNCHANGED <<fsm, monitors, profile, disk, held, pending, os, asked, job>>

RestoreWrites ==
  /\ pc = "restoreConfig"
  /\ \/ WriteOk(backup) /\ Goto("restoreReload")
     \/ WriteFails(backup) /\ Goto("failRecovery")
  /\ UNCHANGED <<fsm, monitors, profile, procVars, job>>

RestoreReloads ==
  /\ pc = "restoreReload"
  /\ \/ /\ ApiOk(Reloaded)
        /\ Goto(IF prev.sel = NoTarget THEN "restoreClose" ELSE "restoreSelect")
     \/ ApiFails(Reloaded) /\ Goto("failRecovery")
  /\ UNCHANGED <<fsm, monitors, profile, disk, held, pending, os, asked, job>>

RestoreSelects ==
  /\ pc = "restoreSelect"
  /\ \/ ApiOk(Selected(prev.sel)) /\ Goto("restoreClose")
     \/ ApiFails(Selected(prev.sel)) /\ Goto("failRecovery")
  /\ UNCHANGED <<fsm, monitors, profile, disk, held, pending, os, asked, job>>

RestoreCloses ==
  /\ pc = "restoreClose"
  /\ \/ ApiOk(Closed) /\ Settle(FALSE)
     \/ ApiFails(Closed) /\ Goto("failRecovery")
  /\ UNCHANGED <<fsm, monitors, profile, disk, held, pending, os, asked, job>>

FailRecovery ==
  /\ pc = "failRecovery"
  /\ monitors' = FALSE
  /\ fsm' = TryTransition(fsm, "stopping")
  /\ Kill("intentional", "failRecovery")
  /\ UNCHANGED <<profile, disk, held, os, kernel, job>>

-----------------------------------------------------------------------------
(* The outside                                                            *)

\* A mihomo process dies, of a signal or by itself; its sockets go with it.
Die(p) ==
  /\ os[p] = "alive"
  /\ os' = [os EXCEPT ![p] = "dead"]
  /\ kernel' = NoKernel
  /\ UNCHANGED <<fsm, monitors, profile, disk, held, pending, asked,
                 pc, job, localVars>>

\* Mutant of Exit: the crash is cleaned up but never becomes a state.
Exit_Silent(p) ==
  /\ os[p] = "dead"
  /\ os' = [os EXCEPT ![p] = "free"]
  /\ asked' = asked \ {p}
  /\ held' = NoPid
  /\ pending' = "crashed"
  /\ monitors' = (monitors /\ fsm = "stopping")
  /\ UNCHANGED <<profile, disk, kernel, pc, job, localVars, fsm>>

\* How a process ends: of TERM or KILL, with code 0, or of anything else.
Endings == {"killed", "finished", "failed"}

\* The reason the 'stopped' event carries: what the stopper left decides;
\* without it a signal TERM or KILL and code 0 count as intentional too.
\* (The manager may retry after a crash: RuntimeManager.EngineCrashes.)
ClassifyExit(ending) ==
  CASE pending # "crashed" -> pending
    [] pending = "crashed" /\ ending = "failed" -> "crashed"
    [] OTHER -> "intentional"

\* Node delivers 'exit': the watcher, ProcessManager's closure and
\* onProcessExit run in one go; a pending kill resumes afterwards. The new
\* state does not depend on ClassifyExit: outside stop() it is crashed.
Exit(p) ==
  /\ os[p] = "dead"
  /\ os' = [os EXCEPT ![p] = "free"]
  /\ asked' = asked \ {p}
  /\ held' = NoPid
  /\ pending' = "crashed"
  /\ fsm' = IF fsm = "stopping" THEN fsm ELSE TryTransition(fsm, "crashed")
  /\ monitors' = (monitors /\ fsm = "stopping")
  /\ UNCHANGED <<profile, disk, kernel, pc, job, localVars>>

\* Applications open sockets through whatever the kernel has selected.
OpenSocket ==
  /\ Alive
  /\ kernel' = [kernel EXCEPT !.socks = @ \union {kernel.sel}]
  /\ UNCHANGED <<fsm, monitors, profile, disk, held, pending, os, asked,
                 pc, job, localVars>>

\* closeConnection(id), from the user interface, is not a queued call.
CloseSocket(t) ==
  /\ fsm = "running" /\ Alive
  /\ kernel' = [kernel EXCEPT !.socks = @ \ {t}]
  /\ UNCHANGED <<fsm, monitors, profile, disk, held, pending, os, asked,
                 pc, job, localVars>>

-----------------------------------------------------------------------------
Call ==
  \/ \E p \in Requests : CallStart(p) \/ CallUpdateInPlace(p)
                           \/ CallUpdateFullRestart(p)
  \/ \E r \in StopReason : CallStop(r) \/ CallRestart(r)
  \/ CallDispose

Work ==
  \/ StartRefused \/ StartKillsOld \/ StartResetsError \/ StartBegins
  \/ StartWrites \/ Spawns \/ SpawnRefused \/ SpawnErrors
  \/ ApiAnswers \/ ApiNeverAnswers \/ VersionSettles \/ StartSelects
  \/ StartReadsGroup \/ StartSelectsAuto
  \/ StopIdle \/ StopBegins \/ KillConfirmed \/ KillUnconfirmed
  \/ UpdateSelects \/ UpdateCloses \/ UpdateReadsBackup \/ UpdateRewrites
  \/ UpdateReloads \/ RestoreWrites \/ RestoreReloads \/ RestoreSelects
  \/ RestoreCloses \/ FailRecovery

Outside ==
  \/ \E p \in Pids : Die(p) \/ Exit(p)
  \/ OpenSocket
  \/ \E t \in Targets : CloseSocket(t)

Next == Call \/ Work \/ Outside

Spec == Init /\ [][Next]_vars

\* Every await of a call settles: requests, file operations and probes have
\* timeouts, kill gives up after two; a dead child's 'exit' is delivered.
FairSpec ==
  /\ Spec
  /\ WF_vars(Work)
  /\ \A p \in Pids : WF_vars(Exit(p))

-----------------------------------------------------------------------------
(* Properties                                                             *)

\* Never two kernels: every process whose exit was not delivered is the one
\* ProcessManager holds, so none can outlive a later start unseen.
NoOrphan == \A p \in Pids : os[p] # "free" => held = p

\* config.yaml is rewritten under a process only by an update in place:
\* "a subsequent start cannot overwrite a live process config".
ConfigGuard == [][disk' # disk => held = NoPid \/ job = "reload"]_vars

\* The exit of a process nobody asked to die is classified by the way that
\* process ends, never by a stop reason left behind for an earlier one. It
\* does not say that every such exit counts as a crash: one of TERM, of KILL
\* or with code 0 is classified as intentional, as ClassifyExit says.
CleanClassification ==
  \A p \in Pids : os[p] = "alive" /\ p \notin asked =>
    \A ending \in Endings :
      ClassifyExit(ending) = "crashed" <=> ending = "failed"

\* Between calls a running engine with a live kernel works with exactly
\* the profile it reports: file, loaded configuration and selection,
\* whether the last call succeeded, was refused or was rolled back.
RunningMatchesProfile ==
  pc = "ready" /\ fsm = "running" /\ Alive =>
    /\ kernel.cfg = ConfigOf(profile) /\ disk = ConfigOf(profile)
    /\ profile.sel # NoTarget => kernel.sel = profile.sel

\* After an update in place, done or rolled back, no socket is left through
\* a target other than the selected one: visible selection and egress agree.
EgressConverges ==
  /\ pc = "ready" /\ fsm = "running" /\ Alive
  /\ job \in {"hot", "reload"}
  => kernel.socks \subseteq {kernel.sel}

\* The monitors poll exactly while the engine is running: no exit, failed
\* start or failed rollback leaves one behind.
MonitorsFollowState == pc = "ready" => (monitors <=> fsm = "running")

\* When the engine is not running, a kernel that is still alive has at
\* least been told to die: no error path forgets it.
NotRunningMeansTold ==
  pc \in {"ready", "disposed"} /\ fsm # "running" =>
    \A p \in Pids : os[p] = "alive" => p \in asked

\* Running with an explicit selection means the kernel confirmed it, so the
\* process was held then and its exit is a crash.
RunningSelectionIsBacked ==
  pc = "ready" /\ fsm = "running" /\ profile.sel # NoTarget => held # NoPid

\* Between calls the public state is true to the process, and to what polls
\* it: a kernel that should not run was told to die, one that was given a
\* selection is held, and the monitors stop with it.
StateIsHonest == NotRunningMeansTold /\ RunningSelectionIsBacked /\ MonitorsFollowState

\* Every call settles, whatever the kernel, the disk and the API do.
CallsReturn == pc # "ready" ~> pc \in {"ready", "disposed"}

\* ProcessManager's exit always reaches the owner as a state: a running
\* engine holds a process ("Unexpected exit - clean up monitors and
\* transition to crashed").
RunningHasProcess == pc = "ready" /\ fsm = "running" => held # NoPid

-----------------------------------------------------------------------------
(* The contract of VpnEngine, as the owner sees this engine.              *)

InUpdate == pc # "ready" /\ job \in {"hot", "reload", "swap", "undoStop", "undo"}

CallInProgress ==
  CASE pc = "ready"    -> "none"
    [] pc = "disposed" -> "disposed"
    [] InUpdate        -> "update"
    [] OTHER           -> job

Contract == INSTANCE VpnEngine WITH
  Fallback <- [p \in Profile |-> WithAuto(p)],
  state    <- fsm,
  live     <- \E p \in Pids : os[p] # "free",
  applied  <- IF InUpdate THEN prev ELSE profile,
  call     <- CallInProgress,
  arg      <- IF pc # "ready" /\ job \in {"undoStop", "undo"}
                THEN NoProfile ELSE cand,
  settled  <- settled

\* The engine keeps the promises its owner relies on.
ImplementsContract == Contract!EngineSpec

=============================================================================
