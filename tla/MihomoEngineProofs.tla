-------------------------- MODULE MihomoEngineProofs --------------------------
(***************************************************************************)
(* Safety of the engine for every set of processes, profiles and targets:  *)
(* the inductive invariants and their proofs.                              *)
(***************************************************************************)
EXTENDS MihomoEngine, TLAPS

StartPhase == {"writing", "spawning", "probing", "version", "startSelect",
               "group", "startAuto"}
InPlace == {"select", "close", "readBackup", "rewrite", "reload",
            "restoreConfig", "restoreReload", "restoreSelect", "restoreClose"}
StartJobs == {"start", "restart", "swap", "undo"}
StopJobs  == {"stop", "restart", "swap", "undoStop"}

\* Which calls may be suspended at which await.
JobOK ==
  /\ pc \in StartPhase \union {"startEnter"} => job \in StartJobs
  /\ pc = "stopEnter" => job \in StopJobs
  /\ pc \in InPlace => job \in {"hot", "reload"}
  /\ pc \in {"readBackup", "rewrite", "reload", "restoreConfig"} => job = "reload"
  /\ pc = "failRecovery" => job \in {"hot", "reload", "undoStop", "undo"}
  /\ pc = "killing" =>
       /\ cont \in {"startKill", "startFailed"} => job \in StartJobs
       /\ cont = "stop" => job \in StopJobs
       /\ cont = "failRecovery" => job \in {"hot", "reload", "undoStop", "undo"}
       /\ cont = "dispose" => job = "dispose"
  /\ pc = "disposed" => job = "dispose"

\* The locals a suspended call still needs are there.
LocalsOK ==
  /\ pc # "ready" /\ job \in StartJobs \union {"undoStop", "hot", "reload"}
       => cand \in Profile
  /\ pc # "ready" /\ job \in {"hot", "reload", "swap", "undoStop", "undo"}
       => prev \in Profile
  /\ pc \in StartPhase => profile = cand
  /\ pc = "spawning" => disk = ConfigOf(cand)

TypeInv == DataTypeOK /\ JobOK /\ LocalsOK

-----------------------------------------------------------------------------
(* Lemmas about the operators                                             *)

\* tryTransition always yields a state of the machine.
LEMMA TryTransitionType ==
  ASSUME NEW s \in RuntimeState, NEW t \in RuntimeState
  PROVE  TryTransition(s, t) \in RuntimeState
BY DEF TryTransition

\* The configuration written for a profile is well formed.
LEMMA ConfigOfType == \A p \in Profile : ConfigOf(p) \in Config
BY DEF ConfigOf, Profile, Config

\* Every request leaves a well-formed kernel, done or refused.
LEMMA RequestTypes ==
  ASSUME kernel \in Kernel \union {NoKernel}, disk \in Config \union {NoConfig}
  PROVE  /\ \A t : Selected(t) \subseteq Kernel
         /\ Reloaded \subseteq Kernel
         /\ Closed \subseteq Kernel
<1>1. \A t : Selected(t) \subseteq Kernel
  <2>. SUFFICES ASSUME NEW t, NEW k \in Selected(t)  PROVE k \in Kernel
    OBVIOUS
  <2>1. kernel \in Kernel /\ t \in GroupOf[kernel.cfg.soft]
        /\ k = [kernel EXCEPT !.sel = t]
    BY DEF Selected, Alive
  <2>2. kernel.cfg.soft \in Softs
    BY <2>1 DEF Kernel, Config
  <2>3. t \in Targets
    BY <2>1, <2>2, GroupAssumption
  <2>. QED  BY <2>1, <2>3 DEF Kernel
<1>2. Reloaded \subseteq Kernel
  <2>. SUFFICES ASSUME NEW k \in Reloaded  PROVE k \in Kernel
    OBVIOUS
  <2>1. /\ kernel \in Kernel /\ disk \in Config
        /\ \E t \in GroupOf[disk.soft] :
             k = [kernel EXCEPT !.cfg = disk, !.sel = t]
    BY DEF Reloaded, Alive
  <2>2. GroupOf[disk.soft] \subseteq Targets
    BY <2>1, GroupAssumption DEF Config
  <2>. QED  BY <2>1, <2>2 DEF Kernel
<1>3. Closed \subseteq Kernel
  BY DEF Closed, Alive, Kernel
<1>. QED  BY <1>1, <1>2, <1>3

\* A request the engine makes, whatever its outcome, keeps the kernel well
\* formed.
LEMMA ApiTypes ==
  ASSUME kernel \in Kernel \union {NoKernel}, disk \in Config \union {NoConfig}
  PROVE  /\ \A t : ApiOk(Selected(t)) \/ ApiFails(Selected(t))
                     => kernel' \in Kernel \union {NoKernel}
         /\ ApiOk(Reloaded) \/ ApiFails(Reloaded)
              => kernel' \in Kernel \union {NoKernel}
         /\ ApiOk(Closed) \/ ApiFails(Closed)
              => kernel' \in Kernel \union {NoKernel}
BY RequestTypes DEF ApiOk, ApiFails

-----------------------------------------------------------------------------
(* Types, and which call may be suspended where with which locals.        *)

LEMMA TypeInvInit == Init => TypeInv
BY NoneAssumption DEF Init, TypeInv, DataTypeOK, JobOK, LocalsOK, RuntimeState,
   StopReason, PC, Job, Cont, StartPhase, InPlace, StartJobs, StopJobs

LEMMA TypeInvStep == TypeInv /\ [Next]_vars => TypeInv'
<1>. SUFFICES ASSUME TypeInv, [Next]_vars  PROVE TypeInv'
  OBVIOUS
<1>. USE DEF TypeInv, DataTypeOK, JobOK, LocalsOK, StopReason, PC, Job, Cont,
     StartPhase, InPlace, StartJobs, StopJobs, procVars, localVars
<1>a. \A s, t \in RuntimeState : TryTransition(s, t) \in RuntimeState
  BY TryTransitionType
<1>b. RuntimeState = {"idle", "starting", "running", "stopping", "crashed",
                      "reconnecting", "error"}
  BY DEF RuntimeState
<1>1. ASSUME NEW p \in Requests, CallStart(p)  PROVE TypeInv'
  BY <1>1, RequestsAssumption DEF CallStart
<1>2. ASSUME NEW p \in Requests, CallUpdateInPlace(p)  PROVE TypeInv'
  BY <1>2, RequestsAssumption DEF CallUpdateInPlace, Updatable, Classify
<1>3. ASSUME NEW p \in Requests, CallUpdateFullRestart(p)  PROVE TypeInv'
  BY <1>3, <1>b, RequestsAssumption DEF CallUpdateFullRestart, Updatable, RestartWith
<1>4. ASSUME NEW r \in StopReason, CallStop(r)  PROVE TypeInv'
  BY <1>4 DEF CallStop
<1>5. ASSUME NEW r \in StopReason, CallRestart(r)  PROVE TypeInv'
  BY <1>5, <1>b DEF CallRestart, RestartWith
<1>6. CASE CallDispose
  BY <1>6 DEF CallDispose, Kill
<1>7. CASE StartRefused
  BY <1>7 DEF StartRefused, StartReturns, Settle, Goto
<1>8. CASE StartKillsOld
  BY <1>8 DEF StartKillsOld, Kill
<1>9. CASE StartResetsError
  BY <1>9, <1>b DEF StartResetsError
<1>10. CASE StartBegins
  BY <1>10, <1>b DEF StartBegins, Goto
<1>11. CASE StartWrites
  BY <1>11, ConfigOfType DEF StartWrites, WriteOk, WriteFails, Goto, StartFails, Kill
<1>12. CASE Spawns
  BY <1>12, ConfigOfType, GroupAssumption DEF Spawns, Goto, Config, Kernel
<1>13. CASE SpawnRefused
  BY <1>13 DEF SpawnRefused, StartFails, Kill
<1>14. CASE SpawnErrors
  BY <1>14, <1>a, <1>b DEF SpawnErrors, Goto
<1>15. CASE ApiAnswers
  BY <1>15 DEF ApiAnswers, Goto
<1>16. CASE ApiNeverAnswers
  BY <1>16 DEF ApiNeverAnswers, StartFails, Kill
<1>17. CASE VersionSettles
  BY <1>17, <1>b DEF VersionSettles, StartSucceeds, StartReturns, Settle, Goto
<1>18. CASE StartSelects
  BY <1>18, <1>b, ApiTypes DEF StartSelects, StartSucceeds, StartReturns, Settle, Goto,
     StartFails, Kill
<1>19. CASE StartReadsGroup
  BY <1>19 DEF StartReadsGroup, Goto, StartFails, Kill
<1>20. CASE StartSelectsAuto
  BY <1>20, <1>b, ApiTypes, GroupAssumption
     DEF StartSelectsAuto, StartSucceeds, StartReturns, Settle, Goto,
     StartFails, Kill, WithAuto, Profile
<1>21. CASE StopIdle
  BY <1>21 DEF StopIdle, StopReturns, Settle, Goto
<1>22. CASE StopBegins
  BY <1>22, <1>a, <1>b DEF StopBegins
<1>23. ASSUME NEW ok \in BOOLEAN, KillReturns(ok), pc = "killing",
              UNCHANGED <<monitors, disk, procVars>>
       PROVE TypeInv'
  BY <1>23, <1>a, <1>b DEF KillReturns, StartReturns, StopReturns, Settle, Goto
<1>24. CASE KillConfirmed
  BY <1>23, <1>24 DEF KillConfirmed
<1>25. CASE KillUnconfirmed
  BY <1>23, <1>25 DEF KillUnconfirmed
<1>26. CASE UpdateSelects
  BY <1>26, ApiTypes DEF UpdateSelects, Recover, Goto
<1>27. CASE UpdateCloses
  BY <1>27, ApiTypes DEF UpdateCloses, Recover, Goto, Settle
<1>28. CASE UpdateReadsBackup
  BY <1>28 DEF UpdateReadsBackup, Settle
<1>29. CASE UpdateRewrites
  BY <1>29, ConfigOfType DEF UpdateRewrites, WriteOk, WriteFails, Recover, Goto
<1>30. CASE UpdateReloads
  BY <1>30, ApiTypes DEF UpdateReloads, Recover, Goto
<1>31. CASE RestoreWrites
  BY <1>31 DEF RestoreWrites, WriteOk, WriteFails, Goto
<1>32. CASE RestoreReloads
  BY <1>32, ApiTypes DEF RestoreReloads, Goto
<1>33. CASE RestoreSelects
  BY <1>33, ApiTypes DEF RestoreSelects, Goto
<1>34. CASE RestoreCloses
  BY <1>34, ApiTypes DEF RestoreCloses, Goto, Settle
<1>35. CASE FailRecovery
  BY <1>35, <1>a, <1>b DEF FailRecovery, Kill
<1>36. ASSUME NEW p \in Pids, Die(p)  PROVE TypeInv'
  BY <1>36 DEF Die
<1>37. ASSUME NEW p \in Pids, Exit(p)  PROVE TypeInv'
  BY <1>37, <1>a, <1>b DEF Exit
<1>38. CASE OpenSocket
  BY <1>38 DEF OpenSocket, Alive, Kernel
<1>39. ASSUME NEW t \in Targets, CloseSocket(t)  PROVE TypeInv'
  BY <1>39 DEF CloseSocket, Alive, Kernel
<1>40. CASE UNCHANGED vars
  BY <1>40 DEF vars
<1>. QED
  BY <1>1, <1>2, <1>3, <1>4, <1>5, <1>6, <1>7, <1>8, <1>9, <1>10, <1>11,
     <1>12, <1>13, <1>14, <1>15, <1>16, <1>17, <1>18, <1>19, <1>20, <1>21,
     <1>22, <1>24, <1>25, <1>26, <1>27, <1>28, <1>29, <1>30, <1>31, <1>32,
     <1>33, <1>34, <1>35, <1>36, <1>37, <1>38, <1>39, <1>40
     DEF Next, Call, Work, Outside

FlagsOK == monitors \in BOOLEAN /\ allow \in BOOLEAN /\ settled \in BOOLEAN

\* The flags, apart from the rest: they depend on nothing else.
LEMMA FlagsStep == FlagsOK /\ [Next]_vars => FlagsOK'
<1>. SUFFICES ASSUME FlagsOK, [Next]_vars  PROVE FlagsOK'
  OBVIOUS
<1>. USE DEF FlagsOK, procVars, localVars
<1>1. \A ok \in BOOLEAN : StartReturns(ok) \/ StopReturns(ok)
                            => allow' \in BOOLEAN /\ settled' \in BOOLEAN
  BY DEF StartReturns, StopReturns, Settle, Goto
<1>2. \A ok \in BOOLEAN : KillReturns(ok)
                            => allow' \in BOOLEAN /\ settled' \in BOOLEAN
  BY <1>1 DEF KillReturns, Settle, Goto
<1>3. StartFails => FlagsOK'
  BY DEF StartFails, Kill
<1>4. \A p : StartSucceeds(p) => FlagsOK'
  BY <1>1 DEF StartSucceeds
<1>5. CASE Call
  BY <1>5 DEF Call, CallStart, CallUpdateInPlace, CallUpdateFullRestart,
     RestartWith, CallStop, CallRestart, CallDispose, Kill
<1>6. CASE StartRefused \/ StartKillsOld \/ StartResetsError \/ StartBegins
  BY <1>6, <1>1 DEF StartRefused, StartKillsOld, StartResetsError, StartBegins,
     Kill, Goto
<1>7. CASE StartWrites \/ Spawns \/ SpawnRefused \/ SpawnErrors
  BY <1>7, <1>3 DEF StartWrites, Spawns, SpawnRefused, SpawnErrors, Goto
<1>8. CASE ApiAnswers \/ ApiNeverAnswers \/ VersionSettles \/ StartSelects
           \/ StartReadsGroup \/ StartSelectsAuto
  BY <1>8, <1>3, <1>4 DEF ApiAnswers, ApiNeverAnswers, VersionSettles,
     StartSelects, StartReadsGroup, StartSelectsAuto, Goto
<1>9. CASE StopIdle \/ StopBegins \/ FailRecovery
  BY <1>9, <1>1 DEF StopIdle, StopBegins, FailRecovery, Kill
<1>10. CASE KillConfirmed \/ KillUnconfirmed
  BY <1>10, <1>2 DEF KillConfirmed, KillUnconfirmed
<1>11. CASE UpdateSelects \/ UpdateCloses \/ UpdateReadsBackup \/ UpdateRewrites
            \/ UpdateReloads
  BY <1>11 DEF UpdateSelects, UpdateCloses, UpdateReadsBackup, UpdateRewrites,
     UpdateReloads, Recover, Settle, Goto
<1>12. CASE RestoreWrites \/ RestoreReloads \/ RestoreSelects \/ RestoreCloses
  BY <1>12 DEF RestoreWrites, RestoreReloads, RestoreSelects, RestoreCloses,
     Settle, Goto
<1>13. CASE Outside
  BY <1>13 DEF Outside, Die, Exit, OpenSocket, CloseSocket
<1>14. CASE UNCHANGED vars
  BY <1>14 DEF vars
<1>. QED
  BY <1>5, <1>6, <1>7, <1>8, <1>9, <1>10, <1>11, <1>12, <1>13, <1>14
     DEF Next, Work

\* Every variable keeps its type in every reachable state, for any numbers of
\* processes, profiles and targets.
THEOREM TypeCorrect == Spec => []TypeOK
<1>1. Init => TypeInv /\ FlagsOK
  BY TypeInvInit DEF Init, FlagsOK
<1>2. TypeInv /\ FlagsOK /\ [Next]_vars => (TypeInv /\ FlagsOK)'
  BY TypeInvStep, FlagsStep
<1>3. TypeInv /\ FlagsOK => TypeOK
  BY DEF TypeInv, FlagsOK, TypeOK
<1>. QED  BY <1>1, <1>2, <1>3, PTL DEF Spec

-----------------------------------------------------------------------------
(* Processes: at most the held one exists, and only it serves the API.    *)

ProcInv ==
  /\ NoOrphan
  /\ held # NoPid => os[held] # "free"
  /\ Alive <=> \E p \in Pids : os[p] = "alive"
  /\ pc \in {"writing", "spawning"} => held = NoPid

\* A request never changes whether the kernel is there.
LEMMA ApiKeepsLife ==
  ASSUME kernel \in Kernel \union {NoKernel}, disk \in Config \union {NoConfig}
  PROVE  /\ \A t : ApiOk(Selected(t)) \/ ApiFails(Selected(t)) => Alive' = Alive
         /\ ApiOk(Reloaded) \/ ApiFails(Reloaded) => Alive' = Alive
         /\ ApiOk(Closed) \/ ApiFails(Closed) => Alive' = Alive
         /\ \A t : ApiOk(Selected(t)) => Alive
         /\ ApiOk(Closed) => Alive
<1>1. \A k \in Kernel : k # NoKernel
  BY NoneAssumption
<1>2. \A t : Selected(t) # {} => Alive
  BY DEF Selected
<1>3. Reloaded # {} => Alive
  BY DEF Reloaded
<1>4. Closed # {} => Alive
  BY DEF Closed
<1>. QED
  BY <1>1, <1>2, <1>3, <1>4, RequestTypes DEF ApiOk, ApiFails, Alive

LEMMA ProcInvInit == Init => ProcInv
BY NoneAssumption DEF Init, ProcInv, NoOrphan, Alive

LEMMA ProcInvStep == TypeInv /\ ProcInv /\ [Next]_vars => ProcInv'
<1>. SUFFICES ASSUME TypeInv, ProcInv, [Next]_vars  PROVE ProcInv'
  OBVIOUS
<1>. USE DEF ProcInv, NoOrphan, procVars, localVars
<1>a. DataTypeOK
  BY DEF TypeInv
<1>b. /\ kernel \in Kernel \union {NoKernel} /\ disk \in Config \union {NoConfig}
      /\ os \in [Pids -> {"free", "alive", "dead"}]
      /\ held \in Pids \union {NoPid}
  BY <1>a DEF DataTypeOK
<1>1. \A ok : StartReturns(ok) \/ StopReturns(ok)
                => pc' \in {"ready", "stopEnter", "failRecovery", "startEnter"}
  BY DEF StartReturns, StopReturns, Settle, Goto
<1>2. \A ok : KillReturns(ok) => pc' \in {"ready", "stopEnter", "failRecovery",
                                          "startEnter", "disposed"}
  BY <1>1 DEF KillReturns, Settle, Goto
<1>3. \A p : StartSucceeds(p) => pc' \notin {"writing", "spawning"}
                                 /\ UNCHANGED <<held, os>>
  BY <1>1 DEF StartSucceeds
<1>4. StartFails => pc' = "killing" /\ UNCHANGED <<held, os>>
  BY DEF StartFails, Kill
<1>5. CASE Call
  BY <1>5 DEF Call, CallStart, CallUpdateInPlace, CallUpdateFullRestart,
     RestartWith, CallStop, CallRestart, CallDispose, Kill, Alive
<1>6. CASE StartRefused \/ StartKillsOld \/ StartResetsError \/ StartBegins
  BY <1>6, <1>1 DEF StartRefused, StartKillsOld, StartResetsError, StartBegins,
     Kill, Goto, Alive
<1>7. CASE StartWrites \/ SpawnRefused \/ SpawnErrors
  BY <1>7, <1>4 DEF StartWrites, SpawnRefused, SpawnErrors, Goto, Alive
<1>8. CASE Spawns
  <2>1. PICK p \in Pids, t \in GroupOf[disk.soft] :
          /\ os' = [os EXCEPT ![p] = "alive"]
          /\ held' = p
          /\ kernel' = [cfg |-> disk, sel |-> t, socks |-> {}]
    BY <1>8 DEF Spawns
  <2>2. kernel' # NoKernel
    <3>1. disk \in Config
      BY <1>8, ConfigOfType
         DEF Spawns, TypeInv, LocalsOK, JobOK, StartPhase, StartJobs
    <3>2. t \in Targets
      BY <3>1, GroupAssumption DEF Config
    <3>. QED  BY <2>1, <3>1, <3>2, NoneAssumption DEF Kernel
  <2>3. pc' = "probing" /\ held = NoPid
    BY <1>8 DEF Spawns, Goto
  <2>. QED  BY <2>1, <2>2, <2>3, <1>b, NoneAssumption DEF Alive
<1>9. CASE ApiAnswers \/ ApiNeverAnswers \/ VersionSettles \/ StartReadsGroup
  BY <1>9, <1>3, <1>4 DEF ApiAnswers, ApiNeverAnswers, VersionSettles,
     StartReadsGroup, Goto, Alive
<1>10. CASE StartSelects \/ StartSelectsAuto
  BY <1>10, <1>b, <1>3, <1>4, ApiKeepsLife
     DEF StartSelects, StartSelectsAuto, Goto
<1>11. CASE StopIdle \/ StopBegins \/ FailRecovery
  BY <1>11, <1>1 DEF StopIdle, StopBegins, FailRecovery, Kill, Alive
<1>12. CASE KillConfirmed \/ KillUnconfirmed
  BY <1>12, <1>2 DEF KillConfirmed, KillUnconfirmed, Alive
<1>13. CASE UpdateReadsBackup \/ UpdateRewrites \/ RestoreWrites
  BY <1>13 DEF UpdateReadsBackup, UpdateRewrites, RestoreWrites, Recover, Settle,
     Goto, Alive
<1>14. CASE UpdateSelects \/ UpdateCloses \/ UpdateReloads
            \/ RestoreReloads \/ RestoreSelects \/ RestoreCloses
  BY <1>14, <1>b, ApiKeepsLife DEF UpdateSelects, UpdateCloses, UpdateReloads,
     RestoreReloads, RestoreSelects, RestoreCloses, Recover, Settle, Goto
<1>15. ASSUME NEW p \in Pids, Die(p) \/ Exit(p)  PROVE ProcInv'
  BY <1>15, <1>b, NoneAssumption DEF Die, Exit, Alive
<1>16. CASE OpenSocket \/ \E t \in Targets : CloseSocket(t)
  <2>1. kernel' \in Kernel
    BY <1>16, <1>b DEF OpenSocket, CloseSocket, Alive, Kernel
  <2>. QED  BY <1>16, <2>1, NoneAssumption DEF OpenSocket, CloseSocket, Alive
<1>17. CASE UNCHANGED vars
  BY <1>17 DEF vars, Alive
<1>. QED
  BY <1>5, <1>6, <1>7, <1>8, <1>9, <1>10, <1>11, <1>12, <1>13, <1>14, <1>15,
     <1>16, <1>17 DEF Next, Work, Outside

\* Never two kernels: every process whose exit was not delivered is the one
\* the process manager holds (MihomoEngine.ts start, ProcessManager.ts).
THEOREM SingleKernel == Spec => []NoOrphan
<1>1. Init => TypeInv /\ ProcInv
  BY TypeInvInit, ProcInvInit
<1>2. TypeInv /\ ProcInv /\ [Next]_vars => (TypeInv /\ ProcInv)'
  BY TypeInvStep, ProcInvStep
<1>3. ProcInv => NoOrphan
  BY DEF ProcInv
<1>. QED  BY <1>1, <1>2, <1>3, PTL DEF Spec

\* config.yaml is never overwritten under a live process except by a reload in
\* place, which the kernel is then told to read.
THEOREM ConfigGuarded == Spec => ConfigGuard
<1>1. Init => TypeInv /\ ProcInv
  BY TypeInvInit, ProcInvInit
<1>2. TypeInv /\ ProcInv /\ [Next]_vars => (TypeInv /\ ProcInv)'
  BY TypeInvStep, ProcInvStep
<1>3. TypeInv /\ ProcInv /\ [Next]_vars
        => (disk' # disk => held = NoPid \/ job = "reload")
  <2>. SUFFICES ASSUME TypeInv, ProcInv, [Next]_vars, disk' # disk
                PROVE  held = NoPid \/ job = "reload"
    OBVIOUS
  <2>1. StartWrites \/ UpdateRewrites \/ RestoreWrites
    BY DEF Next, Call, Work, Outside, vars, CallStart, CallUpdateInPlace,
       CallUpdateFullRestart, CallStop, CallRestart, CallDispose, StartRefused,
       StartKillsOld, StartResetsError, StartBegins, Spawns, SpawnRefused,
       SpawnErrors, ApiAnswers, ApiNeverAnswers, VersionSettles, StartSelects,
       StartReadsGroup, StartSelectsAuto, StartSucceeds, StopIdle, StopBegins,
       KillConfirmed, KillUnconfirmed, UpdateSelects, UpdateCloses,
       UpdateReadsBackup, UpdateReloads, RestoreReloads, RestoreSelects,
       RestoreCloses, FailRecovery, Die, Exit, OpenSocket, CloseSocket
  <2>. QED
    BY <2>1 DEF StartWrites, UpdateRewrites, RestoreWrites, TypeInv, JobOK, ProcInv
<1>. QED  BY <1>1, <1>2, <1>3, PTL DEF Spec, ConfigGuard

-----------------------------------------------------------------------------
(* Stop reasons, and processes that were told to die.                     *)

Told == \A p \in Pids : os[p] = "alive" => p \in asked

NothingPending ==
  \A p \in Pids : os[p] = "alive" /\ p \notin asked => pending = "crashed"

TellInv ==
  /\ NothingPending
  /\ fsm \notin {"starting", "running"} => Told
  /\ pc \in {"killing", "disposed"} => Told
  /\ pc \in StartPhase => fsm = "starting"
  /\ fsm = "starting" => pc \in StartPhase \/ (pc = "killing" /\ cont = "startFailed")

LEMMA TellInvInit == Init => TellInv
BY DEF Init, TellInv, NothingPending, Told, StartPhase

LEMMA TellInvStep == TypeInv /\ ProcInv /\ TellInv /\ [Next]_vars => TellInv'
<1>. SUFFICES ASSUME TypeInv, ProcInv, TellInv, [Next]_vars  PROVE TellInv'
  OBVIOUS
<1>. USE DEF TellInv, NothingPending, Told, StartPhase, procVars, localVars
<1>a. /\ os \in [Pids -> {"free", "alive", "dead"}] /\ fsm \in RuntimeState
      /\ NoOrphan /\ asked \subseteq Pids
  BY DEF TypeInv, DataTypeOK, ProcInv
<1>b. RuntimeState = {"idle", "starting", "running", "stopping", "crashed",
                      "reconnecting", "error"}
  BY DEF RuntimeState
<1>c. \A s \in RuntimeState \ {"starting"}, t \in {"crashed", "error", "idle", "stopping"} :
        TryTransition(s, t) # "starting"
      /\ (TryTransition(s, t) = "running" => s = "running")
  BY <1>b DEF TryTransition
<1>d. TryTransition("starting", "crashed") = "starting"
      /\ TryTransition("starting", "error") = "error"
  BY DEF TryTransition, CanTransition, ValidTransitions
<1>1. \A ok : StartReturns(ok) \/ StopReturns(ok)
                => pc' \in {"ready", "stopEnter", "failRecovery", "startEnter"}
  BY DEF StartReturns, StopReturns, Settle, Goto
<1>2. \A p : StartSucceeds(p) => pc' \notin StartPhase \union {"killing", "disposed"}
               /\ fsm' = "running" /\ UNCHANGED <<held, pending, os, asked>>
  BY <1>1 DEF StartSucceeds
<1>3. \A why, then : Kill(why, then) /\ os' = os => Told'
                       /\ pc' = "killing" /\ cont' = then
  BY <1>a, NoneAssumption DEF Kill, NoOrphan
<1>4. \A why, then : Kill(why, then) /\ os' = os => NothingPending'
  BY <1>a DEF Kill, NoOrphan
<1>5. CASE Call /\ ~CallDispose
  BY <1>5, <1>b DEF Call, CallStart, CallUpdateInPlace, CallUpdateFullRestart,
     Updatable, Classify, RestartWith, CallStop, CallRestart
<1>6. CASE CallDispose \/ StartKillsOld \/ StartFails \/ FailRecovery
  <2>1. Told' /\ pc' = "killing" /\ NothingPending'
    BY <1>6, <1>3, <1>4 DEF CallDispose, StartKillsOld, StartFails, FailRecovery
  <2>2. CASE StartFails /\ fsm = "starting"
    BY <2>1, <2>2 DEF StartFails, Kill
  <2>3. CASE StartFails /\ fsm # "starting"
    BY <2>1, <2>3 DEF StartFails
  <2>4. CASE CallDispose
    BY <2>1, <2>4 DEF CallDispose
  <2>5. CASE StartKillsOld
    BY <2>1, <2>5 DEF StartKillsOld, Startable
  <2>6. CASE FailRecovery
    <3>1. fsm \in RuntimeState \ {"starting"}
      BY <2>6, <1>a DEF FailRecovery
    <3>2. fsm' # "starting"
      BY <2>6, <3>1, <1>c DEF FailRecovery
    <3>. QED  BY <2>1, <3>2
  <2>. QED  BY <1>6, <2>2, <2>3, <2>4, <2>5, <2>6
<1>7. CASE StartRefused \/ StartResetsError \/ StartBegins
  <2>1. CASE StartRefused
    BY <2>1, <1>1 DEF StartRefused
  <2>2. CASE StartResetsError
    BY <2>2 DEF StartResetsError
  <2>3. CASE StartBegins
    BY <2>3 DEF StartBegins, Goto
  <2>. QED  BY <1>7, <2>1, <2>2, <2>3
<1>8. CASE StartWrites \/ SpawnRefused \/ SpawnErrors
  BY <1>8, <1>6, <1>d, <1>a
     DEF StartWrites, SpawnRefused, SpawnErrors, Goto, ProcInv, NoOrphan
<1>9. CASE Spawns
  BY <1>9, <1>a DEF Spawns, Goto, NoOrphan
<1>10. CASE ApiAnswers \/ ApiNeverAnswers \/ VersionSettles \/ StartReadsGroup
            \/ StartSelects \/ StartSelectsAuto
  BY <1>10, <1>2, <1>6 DEF ApiAnswers, ApiNeverAnswers, VersionSettles,
     StartReadsGroup, StartSelects, StartSelectsAuto, Goto
<1>11. CASE StopIdle
  BY <1>11, <1>1 DEF StopIdle
<1>12. CASE StopBegins
  <2>1. fsm \in RuntimeState \ {"starting"}
    BY <1>12, <1>a DEF StopBegins
  <2>2. fsm' # "starting"
    BY <1>12, <2>1, <1>c DEF StopBegins
  <2>3. Told' /\ NothingPending' /\ pc' = "killing"
    BY <1>12, <1>a, NoneAssumption DEF StopBegins, NoOrphan
  <2>. QED  BY <2>2, <2>3
<1>13. ASSUME NEW ok \in BOOLEAN, KillReturns(ok), pc = "killing",
              UNCHANGED <<monitors, disk, procVars>>
       PROVE TellInv'
  <2>1. pc' \in {"ready", "stopEnter", "failRecovery", "startEnter", "disposed"}
    BY <1>13, <1>1 DEF KillReturns, Settle, Goto
  <2>2. fsm' # "starting"
    <3>1. CASE fsm = "starting"
      BY <1>13, <3>1, <1>d DEF KillReturns
    <3>2. CASE fsm # "starting" /\ fsm' # fsm
      <4>1. fsm' \in {"idle", TryTransition(fsm, "error"), TryTransition(fsm, "idle")}
        BY <1>13, <3>2 DEF KillReturns
      <4>. QED  BY <3>2, <4>1, <1>a, <1>c
    <3>. QED  BY <3>1, <3>2
  <2>. QED  BY <1>13, <2>1, <2>2
<1>14. CASE KillConfirmed \/ KillUnconfirmed
  BY <1>13, <1>14 DEF KillConfirmed, KillUnconfirmed
<1>15. CASE UpdateSelects \/ UpdateCloses \/ UpdateReadsBackup \/ UpdateRewrites
            \/ UpdateReloads
  BY <1>15 DEF UpdateSelects, UpdateCloses, UpdateReadsBackup, UpdateRewrites,
     UpdateReloads, Recover, Settle, Goto
<1>16. CASE RestoreWrites \/ RestoreReloads \/ RestoreSelects \/ RestoreCloses
  BY <1>16 DEF RestoreWrites, RestoreReloads, RestoreSelects, RestoreCloses,
     Settle, Goto
<1>17. ASSUME NEW p \in Pids, Die(p)  PROVE TellInv'
  BY <1>17, <1>a DEF Die
<1>18. ASSUME NEW p \in Pids, Exit(p)  PROVE TellInv'
  <2>1. Told' /\ NothingPending'
    BY <1>18, <1>a DEF Exit, NoOrphan
  <2>2. fsm = "starting" => fsm' = "starting"
    BY <1>18, <1>d DEF Exit
  <2>3. fsm # "starting" => fsm' # "starting"
    BY <1>18, <1>a, <1>c DEF Exit
  <2>. QED  BY <1>18, <2>1, <2>2, <2>3 DEF Exit
<1>19. CASE OpenSocket \/ \E t \in Targets : CloseSocket(t)
  BY <1>19 DEF OpenSocket, CloseSocket
<1>20. CASE UNCHANGED vars
  BY <1>20 DEF vars
<1>. QED
  BY <1>5, <1>6, <1>7, <1>8, <1>9, <1>10, <1>11, <1>12, <1>14, <1>15, <1>16,
     <1>17, <1>18, <1>19, <1>20 DEF Next, Call, Work, Outside

\* The invariants above hold together; the theorems below cite this fact.
LEMMA Inductive == Spec => [](TypeInv /\ ProcInv /\ TellInv)
<1>1. Init => TypeInv /\ ProcInv /\ TellInv
  BY TypeInvInit, ProcInvInit, TellInvInit
<1>2. TypeInv /\ ProcInv /\ TellInv /\ [Next]_vars => (TypeInv /\ ProcInv /\ TellInv)'
  BY TypeInvStep, ProcInvStep, TellInvStep
<1>. QED  BY <1>1, <1>2, PTL DEF Spec

\* The exit of a kernel nobody asked to die is classified by the way it ends,
\* never by a stop reason left for an earlier process (ProcessWatcher.ts).
THEOREM CleanlyClassified == Spec => []CleanClassification
<1>1. TellInv => CleanClassification
  BY DEF TellInv, NothingPending, CleanClassification, ClassifyExit, Endings
<1>. QED  BY <1>1, Inductive, PTL

\* No error path of the engine forgets a live kernel: unless it runs, it has
\* been told to die.
THEOREM NobodyForgotten == Spec => []NotRunningMeansTold
<1>1. TellInv => NotRunningMeansTold
  BY DEF TellInv, NotRunningMeansTold, Told, StartPhase
<1>. QED  BY <1>1, Inductive, PTL

-----------------------------------------------------------------------------
(* A running engine with an explicit selection holds a process.           *)

BackedInv ==
  /\ fsm = "running" /\ pc # "stopEnter" /\ profile.sel # NoTarget => held # NoPid
  /\ pc = "killing" /\ cont # "dispose" => fsm # "running"

LEMMA BackedInvStep ==
  TypeInv /\ ProcInv /\ TellInv /\ BackedInv /\ [Next]_vars => BackedInv'
<1>. SUFFICES ASSUME TypeInv, ProcInv, TellInv, BackedInv, [Next]_vars
              PROVE  BackedInv'
  OBVIOUS
<1>. USE DEF BackedInv, procVars, localVars
<1>a. /\ kernel \in Kernel \union {NoKernel} /\ disk \in Config \union {NoConfig}
      /\ fsm \in RuntimeState /\ os \in [Pids -> {"free", "alive", "dead"}]
      /\ NoOrphan /\ (pc \in StartPhase => fsm = "starting")
      /\ (pc \in StartPhase => profile = cand /\ profile \in Profile)
  BY DEF TypeInv, DataTypeOK, ProcInv, TellInv, LocalsOK, JobOK, StartPhase, StartJobs
<1>b. RuntimeState = {"idle", "starting", "running", "stopping", "crashed",
                      "reconnecting", "error"}
  BY DEF RuntimeState
<1>c. \A s \in RuntimeState, t \in {"crashed", "error", "idle", "stopping"} :
        /\ TryTransition(s, t) = "running" => s = "running"
        /\ t \in {"stopping", "crashed"} => TryTransition(s, t) # "running"
  BY <1>b DEF TryTransition, CanTransition, ValidTransitions
<1>d. Alive => held # NoPid
  BY <1>a, NoneAssumption DEF ProcInv, NoOrphan
<1>1. \A ok : StartReturns(ok) \/ StopReturns(ok)
                => pc' \in {"ready", "stopEnter", "failRecovery", "startEnter"}
  BY DEF StartReturns, StopReturns, Settle, Goto
<1>2. StartFails => pc' = "killing" /\ cont' = "startFailed"
                    /\ UNCHANGED <<fsm, held>>
  BY DEF StartFails, Kill
<1>3. ASSUME NEW p, StartSucceeds(p), p.sel = NoTarget \/ Alive
      PROVE  BackedInv'
  BY <1>3, <1>1, <1>d DEF StartSucceeds
<1>4. CASE Call
  BY <1>4 DEF Call, CallStart, CallUpdateInPlace, CallUpdateFullRestart,
     Updatable, RestartWith, CallStop, CallRestart, CallDispose, Kill
<1>5. CASE StartRefused \/ StartKillsOld \/ StartResetsError \/ StartBegins
  BY <1>5, <1>1 DEF StartRefused, StartKillsOld, StartResetsError, StartBegins,
     Kill, Goto, Startable
<1>6. CASE StartWrites \/ SpawnRefused \/ SpawnErrors \/ Spawns
  BY <1>6, <1>2, <1>a, <1>c DEF StartWrites, SpawnRefused, SpawnErrors, Spawns, Goto,
     StartPhase
<1>7. CASE ApiAnswers \/ ApiNeverAnswers \/ StartReadsGroup
  BY <1>7, <1>2, <1>a DEF ApiAnswers, ApiNeverAnswers, StartReadsGroup, Goto,
     StartPhase
<1>8. CASE VersionSettles
  BY <1>8, <1>3, <1>a DEF VersionSettles, Goto, StartPhase
<1>9. CASE StartSelects
  BY <1>9, <1>2, <1>3, <1>a, ApiKeepsLife DEF StartSelects, Goto, StartPhase
<1>10. CASE StartSelectsAuto
  BY <1>10, <1>2, <1>3, <1>a, ApiKeepsLife DEF StartSelectsAuto, Goto, StartPhase
<1>11. CASE StopIdle \/ StopBegins \/ FailRecovery
  <2>1. CASE StopIdle
    BY <2>1, <1>1 DEF StopIdle
  <2>2. CASE StopBegins \/ FailRecovery
    <3>1. fsm' # "running"
      BY <2>2, <1>a, <1>c DEF StopBegins, FailRecovery
    <3>. QED  BY <3>1
  <2>. QED  BY <1>11, <2>1, <2>2
<1>12. ASSUME NEW ok \in BOOLEAN, KillReturns(ok), pc = "killing",
              UNCHANGED <<monitors, disk, procVars>>
       PROVE BackedInv'
  <2>1. pc' # "killing"
    BY <1>12, <1>1 DEF KillReturns, Settle, Goto
  <2>2. CASE cont # "dispose"
    <3>1. fsm' \in {fsm, TryTransition(fsm, "error"), TryTransition(fsm, "idle")}
      BY <1>12, <2>2 DEF KillReturns
    <3>2. fsm' # "running"
      BY <1>12, <2>2, <3>1, <1>a, <1>c
    <3>. QED  BY <2>1, <3>2
  <2>3. CASE cont = "dispose"
    BY <1>12, <2>1, <2>3 DEF KillReturns
  <2>. QED  BY <2>2, <2>3
<1>13. CASE KillConfirmed \/ KillUnconfirmed
  BY <1>12, <1>13 DEF KillConfirmed, KillUnconfirmed
<1>14. CASE UpdateCloses
  BY <1>14, <1>a, <1>d, ApiKeepsLife DEF UpdateCloses, Recover, Settle, Goto
<1>15. CASE UpdateSelects \/ UpdateReadsBackup \/ UpdateRewrites \/ UpdateReloads
            \/ RestoreWrites \/ RestoreReloads \/ RestoreSelects \/ RestoreCloses
  BY <1>15 DEF UpdateSelects, UpdateReadsBackup, UpdateRewrites, UpdateReloads,
     RestoreWrites, RestoreReloads, RestoreSelects, RestoreCloses,
     Recover, Settle, Goto
<1>16. ASSUME NEW p \in Pids, Die(p)  PROVE BackedInv'
  BY <1>16 DEF Die
<1>17. ASSUME NEW p \in Pids, Exit(p)  PROVE BackedInv'
  <2>1. fsm' # "running"
    BY <1>17, <1>a, <1>c DEF Exit
  <2>. QED  BY <1>17, <2>1 DEF Exit
<1>18. CASE OpenSocket \/ \E t \in Targets : CloseSocket(t)
  BY <1>18 DEF OpenSocket, CloseSocket
<1>19. CASE UNCHANGED vars
  BY <1>19 DEF vars
<1>. QED
  BY <1>4, <1>5, <1>6, <1>7, <1>8, <1>9, <1>10, <1>11, <1>13, <1>14, <1>15,
     <1>16, <1>17, <1>18, <1>19 DEF Next, Work, Outside

\* Running with a proxy the user picked is never reported without a process
\* behind it: the kernel confirmed the selection, and its later exit is a crash.
THEOREM SelectionBacked == Spec => []RunningSelectionIsBacked
<1>1. Init => BackedInv
  BY DEF Init, BackedInv
<1>2. BackedInv => RunningSelectionIsBacked
  BY DEF BackedInv, RunningSelectionIsBacked
<1>. QED  BY <1>1, <1>2, BackedInvStep, Inductive, PTL DEF Spec

-----------------------------------------------------------------------------
(* What a live kernel works with, at every await of a call.               *)

Loaded(p) == kernel.cfg = ConfigOf(p) /\ disk = ConfigOf(p)
Serves(p) == Loaded(p) /\ (p.sel # NoTarget => kernel.sel = p.sel)

MatchInv ==
  /\ pc \in InPlace => profile = prev
  /\ Alive =>
       /\ fsm = "running" /\ pc \in {"ready", "startEnter"} => Serves(profile)
       /\ pc \in StartPhase => Loaded(cand)
       /\ pc \in {"select", "close"} => Loaded(cand)
       /\ pc = "close" => Serves(cand)
       /\ pc \in {"select", "close"} /\ job = "hot" => Loaded(prev)
       /\ pc = "readBackup" => Serves(prev)
       /\ pc = "restoreSelect" => Loaded(prev)
       /\ pc = "reload" => disk = ConfigOf(cand)
       /\ pc = "restoreReload" => disk = ConfigOf(prev)
       /\ pc = "restoreClose" => Serves(prev)
       /\ pc \in InPlace \ {"readBackup"} /\ job = "reload"
            => backup = ConfigOf(prev)

\* What each request does to a live kernel, done or refused.
LEMMA ApiEffects ==
  ASSUME kernel \in Kernel \union {NoKernel}, disk \in Config \union {NoConfig}
  PROVE  /\ \A t : ApiOk(Selected(t)) => kernel'.cfg = kernel.cfg /\ kernel'.sel = t
         /\ \A t : ApiFails(Selected(t)) => kernel'.cfg = kernel.cfg
         /\ ApiOk(Reloaded) => kernel'.cfg = disk
         /\ ApiOk(Closed) => kernel'.cfg = kernel.cfg /\ kernel'.sel = kernel.sel
         /\ ApiFails(Closed) => kernel'.cfg = kernel.cfg /\ kernel'.sel = kernel.sel
<1>1. ASSUME NEW t, NEW k \in Selected(t)
      PROVE  k.cfg = kernel.cfg /\ k.sel = t
  BY <1>1 DEF Selected, Alive, Kernel
<1>2. ASSUME NEW k \in Reloaded  PROVE k.cfg = disk
  BY <1>2 DEF Reloaded, Alive, Kernel
<1>3. ASSUME NEW k \in Closed  PROVE k.cfg = kernel.cfg /\ k.sel = kernel.sel
  BY <1>3 DEF Closed, Alive, Kernel
<1>. QED  BY <1>1, <1>2, <1>3 DEF ApiOk, ApiFails

LEMMA MatchInvStep ==
  TypeInv /\ ProcInv /\ TellInv /\ BackedInv /\ MatchInv /\ [Next]_vars => MatchInv'
<1>. SUFFICES ASSUME TypeInv, ProcInv, TellInv, BackedInv, MatchInv, [Next]_vars
              PROVE  MatchInv'
  OBVIOUS
<1>. USE DEF MatchInv, Serves, Loaded, StartPhase, InPlace, procVars, localVars
<1>a. /\ kernel \in Kernel \union {NoKernel} /\ disk \in Config \union {NoConfig}
      /\ fsm \in RuntimeState
      /\ (pc \in StartPhase => fsm = "starting" /\ profile = cand /\ cand \in Profile)
      /\ (pc = "spawning" => disk = ConfigOf(cand))
      /\ (pc \in {"writing", "spawning"} => ~Alive)
      /\ (pc = "killing" /\ cont # "dispose" => fsm # "running")
      /\ (pc \in InPlace => job \in {"hot", "reload"})
      /\ (pc \in {"readBackup", "rewrite", "reload", "restoreConfig"}
            => job = "reload")
  <2>1. pc \in {"writing", "spawning"} => ~Alive
    BY NoneAssumption DEF ProcInv, NoOrphan
  <2>. QED
    BY <2>1 DEF TypeInv, DataTypeOK, TellInv, LocalsOK, JobOK, StartJobs, BackedInv
<1>b. RuntimeState = {"idle", "starting", "running", "stopping", "crashed",
                      "reconnecting", "error"}
  BY DEF RuntimeState
<1>c. \A s \in RuntimeState, t \in {"crashed", "error", "idle", "stopping"} :
        /\ TryTransition(s, t) = "running" => s = "running"
        /\ t \in {"stopping", "crashed"} => TryTransition(s, t) # "running"
  BY <1>b DEF TryTransition, CanTransition, ValidTransitions
<1>1. \A ok : StartReturns(ok) \/ StopReturns(ok)
                => pc' \in {"ready", "stopEnter", "failRecovery", "startEnter"}
  BY DEF StartReturns, StopReturns, Settle, Goto
<1>2. StartFails => pc' = "killing"
  BY DEF StartFails, Kill
<1>3. ASSUME NEW p, StartSucceeds(p),
             Alive' => /\ kernel'.cfg = ConfigOf(p) /\ disk = ConfigOf(p)
                       /\ p.sel # NoTarget => kernel'.sel = p.sel
      PROVE  MatchInv'
  BY <1>3, <1>1 DEF StartSucceeds, Alive
<1>4. CASE Call
  BY <1>4 DEF Call, CallStart, CallUpdateInPlace, CallUpdateFullRestart,
     Updatable, Classify, RestartWith, CallStop, CallRestart, CallDispose, Kill, Alive
<1>5. CASE StartRefused \/ StartKillsOld \/ StartResetsError \/ StartBegins
  <2>1. CASE StartRefused
    BY <2>1, <1>1 DEF StartRefused, StartReturns, Settle, Goto, Startable, Alive
  <2>2. CASE StartKillsOld
    BY <2>2 DEF StartKillsOld, Kill, Alive
  <2>3. CASE StartResetsError
    BY <2>3 DEF StartResetsError, Alive
  <2>4. CASE StartBegins
    <3>1. pc' = "writing" /\ held' = NoPid /\ UNCHANGED <<kernel, os>>
      BY <2>4 DEF StartBegins, Goto
    <3>2. ~Alive
      BY <2>4, NoneAssumption DEF StartBegins, ProcInv, NoOrphan
    <3>. QED  BY <3>1, <3>2 DEF Alive
  <2>. QED  BY <1>5, <2>1, <2>2, <2>3, <2>4
<1>6. CASE StartWrites \/ SpawnRefused \/ SpawnErrors
  BY <1>6, <1>2, <1>a DEF StartWrites, SpawnRefused, SpawnErrors, Goto, Alive
<1>7. CASE Spawns
  BY <1>7, <1>a DEF Spawns, Goto
<1>8. CASE ApiAnswers \/ ApiNeverAnswers \/ StartReadsGroup
  BY <1>8, <1>2 DEF ApiAnswers, ApiNeverAnswers, StartReadsGroup, Goto, Alive
<1>9. CASE VersionSettles
  <2>1. CASE cand.sel = NoTarget
    BY <1>9, <2>1, <1>3, <1>a DEF VersionSettles, StartSucceeds, Alive
  <2>2. CASE cand.sel # NoTarget
    BY <1>9, <2>2 DEF VersionSettles, Goto, Alive
  <2>. QED  BY <2>1, <2>2
<1>10. CASE StartSelects
  <2>1. CASE ApiOk(Selected(cand.sel)) /\ StartSucceeds(profile)
    BY <1>10, <2>1, <1>3, <1>a, ApiEffects, ApiKeepsLife
       DEF StartSelects, StartSucceeds
  <2>2. CASE ApiFails(Selected(cand.sel)) /\ StartFails
    BY <2>2, <1>2
  <2>3. CASE ApiFails(Selected(cand.sel)) /\ Goto("group")
             /\ UNCHANGED <<fsm, profile, disk, job>>
    BY <1>10, <2>3, <1>a, ApiEffects, ApiKeepsLife DEF StartSelects, Goto
  <2>. QED  BY <1>10, <2>1, <2>2, <2>3 DEF StartSelects
<1>11. CASE StartSelectsAuto
  <2>1. CASE ApiOk(Selected(AutoTarget)) /\ StartSucceeds(WithAuto(profile))
    <3>1. /\ ConfigOf(WithAuto(profile)) = ConfigOf(profile)
          /\ WithAuto(profile).sel = AutoTarget
      BY <1>11, <1>a DEF StartSelectsAuto, WithAuto, ConfigOf, Profile
    <3>2. Alive' => kernel'.cfg = ConfigOf(profile) /\ kernel'.sel = AutoTarget
                    /\ disk = ConfigOf(profile)
      BY <1>11, <2>1, <1>a, ApiEffects, ApiKeepsLife DEF StartSelectsAuto
    <3>. QED  BY <2>1, <3>1, <3>2, <1>3
  <2>2. CASE StartFails
    BY <2>2, <1>2
  <2>. QED  BY <1>11, <2>1, <2>2 DEF StartSelectsAuto
<1>12. CASE StopIdle \/ StopBegins \/ FailRecovery
  BY <1>12, <1>1 DEF StopIdle, StopReturns, StopBegins, FailRecovery, Settle, Goto,
     Kill, Alive
<1>13. ASSUME NEW ok \in BOOLEAN, KillReturns(ok), pc = "killing",
              UNCHANGED <<monitors, disk, procVars>>
       PROVE MatchInv'
  <2>1. pc' \in {"ready", "stopEnter", "failRecovery", "startEnter", "disposed"}
    BY <1>13, <1>1 DEF KillReturns, Settle, Goto
  <2>2. fsm' # "running"
    <3>1. CASE cont # "dispose"
      <4>1. fsm' \in {fsm, TryTransition(fsm, "error"), TryTransition(fsm, "idle")}
        BY <1>13, <3>1 DEF KillReturns
      <4>. QED  BY <1>13, <3>1, <4>1, <1>a, <1>c
    <3>2. CASE cont = "dispose"
      BY <1>13, <3>2 DEF KillReturns
    <3>. QED  BY <3>1, <3>2
  <2>. QED  BY <2>1, <2>2
<1>14. CASE KillConfirmed \/ KillUnconfirmed
  BY <1>13, <1>14 DEF KillConfirmed, KillUnconfirmed
<1>15. CASE UpdateSelects
  BY <1>15, <1>a, ApiEffects, ApiKeepsLife DEF UpdateSelects, Recover, Goto
<1>16. CASE UpdateCloses
  BY <1>16, <1>a, ApiEffects, ApiKeepsLife DEF UpdateCloses, Recover, Goto, Settle
<1>17. CASE UpdateReadsBackup \/ UpdateRewrites
  <2>1. CASE UpdateReadsBackup
    BY <2>1, <1>a DEF UpdateReadsBackup, Settle, Alive
  <2>2. CASE UpdateRewrites
    <3>1. CASE WriteOk(ConfigOf(cand)) /\ Goto("reload")
      BY <2>2, <3>1, <1>a DEF UpdateRewrites, WriteOk, Goto, Alive
    <3>2. CASE Recover
      BY <2>2, <3>2, <1>a DEF UpdateRewrites, Recover, Goto, Alive
    <3>. QED  BY <2>2, <3>1, <3>2 DEF UpdateRewrites
  <2>. QED  BY <1>17, <2>1, <2>2
<1>18. CASE UpdateReloads
  BY <1>18, <1>a, ApiEffects, ApiKeepsLife DEF UpdateReloads, Recover, Goto
<1>19. CASE RestoreWrites
  BY <1>19, <1>a DEF RestoreWrites, WriteOk, WriteFails, Goto, Alive
<1>20. CASE RestoreReloads \/ RestoreSelects \/ RestoreCloses
  BY <1>20, <1>a, ApiEffects, ApiKeepsLife
     DEF RestoreReloads, RestoreSelects, RestoreCloses, Goto, Settle
<1>21. ASSUME NEW p \in Pids, Die(p)  PROVE MatchInv'
  BY <1>21 DEF Die, Alive
<1>22. ASSUME NEW p \in Pids, Exit(p)  PROVE MatchInv'
  <2>1. fsm' # "running"
    BY <1>22, <1>a, <1>c DEF Exit
  <2>. QED  BY <1>22, <2>1 DEF Exit, Alive
<1>23. CASE OpenSocket \/ \E t \in Targets : CloseSocket(t)
  BY <1>23, <1>a DEF OpenSocket, CloseSocket, Alive, Kernel
<1>24. CASE UNCHANGED vars
  BY <1>24 DEF vars, Alive
<1>. QED
  BY <1>4, <1>5, <1>6, <1>7, <1>8, <1>9, <1>10, <1>11, <1>12, <1>14, <1>15,
     <1>16, <1>17, <1>18, <1>19, <1>20, <1>21, <1>22, <1>23, <1>24
     DEF Next, Work, Outside

\* Between calls, a live kernel of a running engine works with exactly the
\* profile the engine reports, also after a failed or rolled back update.
THEOREM ServesItsProfile == Spec => []RunningMatchesProfile
<1>1. Init => BackedInv /\ MatchInv
  BY DEF Init, BackedInv, MatchInv, Alive, InPlace
<1>2. MatchInv => RunningMatchesProfile
  BY DEF MatchInv, RunningMatchesProfile, Serves, Loaded
<1>. QED  BY <1>1, <1>2, BackedInvStep, MatchInvStep, Inductive, PTL DEF Spec

-----------------------------------------------------------------------------
(* Sockets after an update in place.                                      *)

\* After an update in place, done or rolled back, no application is left with
\* a socket through a target that is not selected any more: closing them is
\* the last step of both, and later ones are opened through the selection.
THEOREM SocketsConverge == Spec => []EgressConverges
<1>1. Init => BackedInv /\ EgressConverges
  BY DEF Init, BackedInv, EgressConverges
<1>2. /\ TypeInv /\ ProcInv /\ TellInv /\ BackedInv /\ EgressConverges /\ [Next]_vars
      => EgressConverges'
  <2>. SUFFICES ASSUME TypeInv, ProcInv, BackedInv, TellInv, EgressConverges, [Next]_vars,
                       pc' = "ready", fsm' = "running", Alive', job' \in {"hot", "reload"}
                PROVE  kernel'.socks \subseteq {kernel'.sel}
    BY DEF EgressConverges
  <2>. USE DEF procVars, localVars
  <2>a. /\ kernel \in Kernel \union {NoKernel} /\ fsm \in RuntimeState
        /\ pc \in StartPhase \union {"startEnter"} => job \in StartJobs
        /\ pc = "stopEnter" => job \in StopJobs
        /\ pc = "killing" /\ cont # "dispose" => fsm # "running"
    BY DEF TypeInv, DataTypeOK, JobOK, BackedInv
  <2>b. \A t \in {"crashed", "error", "idle"} :
          fsm # "running" => TryTransition(fsm, t) # "running"
    BY DEF TryTransition, CanTransition, ValidTransitions
  <2>1. CASE Call
    BY <2>1 DEF Call, CallStart, CallUpdateInPlace, CallUpdateFullRestart, RestartWith,
       CallStop, CallRestart, CallDispose, Kill
  <2>2. CASE StartRefused \/ StartKillsOld \/ StartResetsError \/ StartBegins \/ StartWrites
             \/ Spawns \/ SpawnRefused \/ SpawnErrors \/ ApiAnswers \/ ApiNeverAnswers
             \/ VersionSettles \/ StartSelects \/ StartReadsGroup \/ StartSelectsAuto
    <3>1. pc \in StartPhase \union {"startEnter"}
      BY <2>2 DEF StartPhase, StartRefused, StartKillsOld, StartResetsError, StartBegins,
         StartWrites, Spawns, SpawnRefused, SpawnErrors, ApiAnswers, ApiNeverAnswers,
         VersionSettles, StartSelects, StartReadsGroup, StartSelectsAuto
    <3>2. job' = job \/ job' = "undoStop"
      BY <2>2 DEF StartRefused, StartKillsOld, StartResetsError, StartBegins,
         StartWrites, Spawns, SpawnRefused, SpawnErrors, ApiAnswers, ApiNeverAnswers,
         VersionSettles, StartSelects, StartReadsGroup, StartSelectsAuto, StartFails,
         StartSucceeds, StartReturns
    <3>. QED  BY <2>a, <3>1, <3>2 DEF StartJobs
  <2>3. CASE StopIdle \/ StopBegins
    BY <2>3, <2>a DEF StopIdle, StopBegins, StopReturns, StopJobs
  <2>4. ASSUME NEW ok \in BOOLEAN, KillReturns(ok), pc = "killing"  PROVE FALSE
    <3>1. cont # "dispose"
      BY <2>4 DEF KillReturns, Goto
    <3>2. fsm' \in {fsm, TryTransition(fsm, "error"), TryTransition(fsm, "idle")}
      BY <2>4, <3>1 DEF KillReturns
    <3>. QED  BY <2>4, <2>a, <2>b, <3>1, <3>2
  <2>5. CASE KillConfirmed \/ KillUnconfirmed
    BY <2>4, <2>5 DEF KillConfirmed, KillUnconfirmed
  <2>6. CASE UpdateCloses \/ RestoreCloses
    <3>1. ApiOk(Closed)
      BY <2>6 DEF UpdateCloses, RestoreCloses, Recover, Goto
    <3>2. kernel' = [kernel EXCEPT !.socks = {}] /\ kernel \in Kernel
      BY <3>1, <2>a DEF ApiOk, Closed, Alive
    <3>. QED  BY <3>2 DEF Kernel
  <2>7. CASE UpdateSelects \/ UpdateReadsBackup \/ UpdateRewrites \/ UpdateReloads
             \/ RestoreWrites \/ RestoreReloads \/ RestoreSelects \/ FailRecovery
    BY <2>7 DEF UpdateSelects, UpdateReadsBackup, UpdateRewrites, UpdateReloads,
       RestoreWrites, RestoreReloads, RestoreSelects, FailRecovery, Recover, Settle, Goto, Kill
  <2>8. ASSUME NEW p \in Pids, Die(p)  PROVE FALSE
    BY <2>8 DEF Die, Alive
  <2>9. ASSUME NEW p \in Pids, Exit(p)  PROVE FALSE
    <3>1. fsm' # "running"
      BY <2>9, <2>a DEF Exit, TryTransition, CanTransition, ValidTransitions
    <3>. QED  BY <3>1
  <2>10. CASE OpenSocket \/ \E t \in Targets : CloseSocket(t)
    <3>1. /\ kernel \in Kernel /\ kernel.socks \subseteq {kernel.sel}
          /\ \/ kernel' = [kernel EXCEPT !.socks = @ \union {kernel.sel}]
             \/ \E t : kernel' = [kernel EXCEPT !.socks = @ \ {t}]
      BY <2>10, <2>a DEF OpenSocket, CloseSocket, Alive, EgressConverges
    <3>. QED  BY <3>1 DEF Kernel
  <2>11. CASE UNCHANGED vars
    BY <2>11 DEF vars, EgressConverges, Alive
  <2>. QED
    BY <2>1, <2>2, <2>3, <2>5, <2>6, <2>7, <2>8, <2>9, <2>10, <2>11 DEF Next, Work, Outside
<1>. QED  BY <1>1, <1>2, BackedInvStep, Inductive, PTL DEF Spec

-----------------------------------------------------------------------------
(* The monitors, and where a call leaves the public state.                *)

\* The monitors poll exactly while the state is running, but for a disposal,
\* which stops them first.
MonInv ==
  /\ pc = "killing" /\ cont = "dispose" => monitors = FALSE
  /\ ~(pc = "killing" /\ cont = "dispose") => monitors = (fsm = "running")

LEMMA MonInvStep ==
  TypeInv /\ TellInv /\ BackedInv /\ MonInv /\ [Next]_vars => MonInv'
<1>. SUFFICES ASSUME TypeInv, TellInv, BackedInv, MonInv, [Next]_vars  PROVE MonInv'
  OBVIOUS
<1>. USE DEF MonInv, procVars, localVars
<1>a. /\ fsm \in RuntimeState
      /\ pc \in StartPhase => fsm = "starting"
      /\ pc = "killing" /\ cont # "dispose" => fsm # "running"
  BY DEF TypeInv, DataTypeOK, TellInv, BackedInv
<1>b. RuntimeState = {"idle", "starting", "running", "stopping", "crashed",
                      "reconnecting", "error"}
  BY DEF RuntimeState
<1>c. /\ TryTransition(fsm, "stopping") # "running" /\ TryTransition(fsm, "crashed") # "running"
      /\ \A t \in {"error", "idle"} : TryTransition(fsm, t) = "running" => fsm = "running"
      /\ fsm = "starting" => TryTransition(fsm, "crashed") = "starting"
  BY <1>a, <1>b DEF TryTransition, CanTransition, ValidTransitions
<1>1. \A ok : StartReturns(ok) \/ StopReturns(ok)
                => pc' \in {"ready", "stopEnter", "failRecovery", "startEnter"}
  BY DEF StartReturns, StopReturns, Settle, Goto
<1>2. StartFails /\ pc \in StartPhase => MonInv'
  BY <1>a DEF StartFails, Kill
<1>3. \A p : StartSucceeds(p) => MonInv'
  BY <1>1 DEF StartSucceeds
<1>4. CASE Call
  BY <1>4 DEF Call, CallStart, CallUpdateInPlace, CallUpdateFullRestart,
     Updatable, RestartWith, CallStop, CallRestart, CallDispose, Kill
<1>5. CASE StartRefused \/ StartKillsOld \/ StartResetsError \/ StartBegins
  BY <1>5, <1>1 DEF StartRefused, StartKillsOld, StartResetsError, StartBegins,
     Kill, Goto, Startable
<1>6. CASE StartWrites \/ Spawns \/ SpawnRefused \/ SpawnErrors
  BY <1>6, <1>2, <1>a, <1>c DEF StartWrites, Spawns, SpawnRefused, SpawnErrors, Goto, StartPhase
<1>7. CASE ApiAnswers \/ ApiNeverAnswers \/ VersionSettles \/ StartSelects
           \/ StartReadsGroup \/ StartSelectsAuto
  BY <1>7, <1>2, <1>3, <1>a DEF ApiAnswers, ApiNeverAnswers, VersionSettles,
     StartSelects, StartReadsGroup, StartSelectsAuto, Goto, StartPhase
<1>8. CASE StopIdle
  BY <1>8, <1>1 DEF StopIdle
<1>9. CASE StopBegins \/ FailRecovery
  BY <1>9, <1>c DEF StopBegins, FailRecovery, Kill
<1>10. ASSUME NEW ok \in BOOLEAN, KillReturns(ok), pc = "killing", UNCHANGED monitors
       PROVE MonInv'
  <2>1. pc' # "killing"
    BY <1>10, <1>1 DEF KillReturns, Settle, Goto
  <2>2. monitors = FALSE /\ fsm' # "running"
    <3>1. CASE cont # "dispose"
      <4>1. fsm' \in {fsm, TryTransition(fsm, "error"), TryTransition(fsm, "idle")}
        BY <1>10, <3>1 DEF KillReturns
      <4>. QED  BY <1>10, <3>1, <4>1, <1>a, <1>c
    <3>2. CASE cont = "dispose"
      BY <1>10, <3>2 DEF KillReturns
    <3>. QED  BY <3>1, <3>2
  <2>. QED  BY <1>10, <2>1, <2>2
<1>11. CASE KillConfirmed \/ KillUnconfirmed
  BY <1>10, <1>11 DEF KillConfirmed, KillUnconfirmed
<1>12. CASE UpdateSelects \/ UpdateCloses \/ UpdateReadsBackup \/ UpdateRewrites
            \/ UpdateReloads
  BY <1>12 DEF UpdateSelects, UpdateCloses, UpdateReadsBackup, UpdateRewrites,
     UpdateReloads, Recover, Settle, Goto
<1>13. CASE RestoreWrites \/ RestoreReloads \/ RestoreSelects \/ RestoreCloses
  BY <1>13 DEF RestoreWrites, RestoreReloads, RestoreSelects, RestoreCloses, Settle, Goto
<1>14. ASSUME NEW p \in Pids, Exit(p)  PROVE MonInv'
  BY <1>14, <1>c DEF Exit
<1>15. CASE UNCHANGED <<fsm, monitors, pc, cont>>
  BY <1>15
<1>. QED
  BY <1>4, <1>5, <1>6, <1>7, <1>8, <1>9, <1>11, <1>12, <1>13, <1>14, <1>15
     DEF Next, Work, Outside, Die, OpenSocket, CloseSocket, vars

\* Between calls the public state is true to the process and to what polls
\* it: a kernel that should not run was told to die, a selection that is
\* reported is backed by a process, and no monitor outlives its kernel.
THEOREM HonestState == Spec => []StateIsHonest
<1>1. Init => BackedInv /\ MonInv
  BY DEF Init, BackedInv, MonInv
<1>2. TellInv /\ BackedInv /\ MonInv => StateIsHonest
  BY DEF TellInv, BackedInv, MonInv, StateIsHonest, NotRunningMeansTold, Told, StartPhase,
     RunningSelectionIsBacked, MonitorsFollowState
<1>. QED  BY <1>1, <1>2, BackedInvStep, MonInvStep, Inductive, PTL DEF Spec

-----------------------------------------------------------------------------
(* How far a call is, and the public state that goes with it.             *)

\* A crash and a reconnect are reported when the process is gone.
GoneInv == fsm \in {"crashed", "reconnecting"} => held = NoPid

\* A full restart and its rollback meet no state the owner could not have
\* left: they start from idle with no process, stop what runs or failed, and
\* give up with a state that is not idle.
StageInv ==
  /\ pc \in {"ready", "stopEnter"} => fsm \in {"idle", "running", "crashed", "error"}
  /\ pc = "startEnter" => fsm \in {"idle", "running", "crashed", "error", "reconnecting"}
  /\ pc = "startEnter" /\ job \in {"swap", "undo"} => fsm = "idle" /\ held = NoPid
  /\ pc = "stopEnter" /\ job = "swap" => fsm \in {"running", "crashed"}
  /\ pc = "stopEnter" /\ job = "undoStop" => fsm = "error"
  /\ pc = "killing" /\ cont = "startKill" => fsm \in {"idle", "error"} /\ job \in {"start", "restart"}
  /\ pc = "killing" /\ cont \in {"stop", "failRecovery"} => fsm \in {"stopping", "crashed", "error"}
  /\ pc = "killing" /\ cont = "startFailed" => fsm = "starting"
  /\ pc = "failRecovery" => fsm \in {"running", "crashed", "error"}
  /\ pc \in InPlace => fsm \in {"running", "crashed"}

\* Only a start of the owner's own may fall back to AUTO, and a rollback
\* starts the previous profile.
LocalInv ==
  /\ pc # "ready" /\ job \in {"swap", "undoStop", "undo"} => ~allow
  /\ pc \in {"group", "startAuto"} => allow
  /\ pc # "ready" /\ job = "undo" => cand = prev

\* The transitions that the steps below ask for.
LEMMA Transitions ==
  /\ TryTransition("starting", "crashed") = "starting"
  /\ TryTransition("starting", "error") = "error"
  /\ TryTransition("running", "crashed") = "crashed"
  /\ TryTransition("running", "stopping") = "stopping"
  /\ \A s \in {"stopping", "crashed", "error"} :
       TryTransition(s, "idle") = "idle" /\ TryTransition(s, "error") = "error"
  /\ \A s \in {"idle", "crashed", "error", "reconnecting"} :
       TryTransition(s, "crashed") = s /\ TryTransition(s, "stopping") = s
BY DEF TryTransition, CanTransition, ValidTransitions

LEMMA GoneInvStep == TypeInv /\ TellInv /\ GoneInv /\ [Next]_vars => GoneInv'
<1>. SUFFICES ASSUME TypeInv, TellInv, GoneInv, [Next]_vars  PROVE GoneInv'
  OBVIOUS
<1>. USE DEF GoneInv, procVars
<1>a. fsm \in RuntimeState /\ (pc = "spawning" => fsm = "starting")
  BY DEF TypeInv, DataTypeOK, TellInv, StartPhase
<1>b. /\ \A t \in {"error", "idle", "stopping"} :
           TryTransition(fsm, t) \in {"crashed", "reconnecting"}
             => fsm \in {"crashed", "reconnecting"}
      /\ fsm = "starting" => TryTransition(fsm, "crashed") = "starting"
  BY Transitions DEF TryTransition
<1>1. CASE Call
  BY <1>1 DEF Call, CallStart, CallUpdateInPlace, CallUpdateFullRestart,
     RestartWith, CallStop, CallRestart, CallDispose, Kill
<1>2. CASE StartRefused \/ StartKillsOld \/ StartResetsError \/ StartBegins \/ StartWrites
           \/ SpawnRefused \/ ApiAnswers \/ ApiNeverAnswers \/ VersionSettles \/ StartSelects
           \/ StartReadsGroup \/ StartSelectsAuto
  BY <1>2 DEF StartRefused, StartKillsOld, StartResetsError, StartBegins, StartWrites,
     SpawnRefused, ApiAnswers, ApiNeverAnswers, VersionSettles, StartSelects,
     StartReadsGroup, StartSelectsAuto, StartFails, StartSucceeds, Kill
<1>3. CASE Spawns \/ SpawnErrors
  BY <1>3, <1>a, <1>b DEF Spawns, SpawnErrors
<1>4. CASE StopIdle \/ StopBegins \/ FailRecovery
  BY <1>4, <1>b DEF StopIdle, StopBegins, FailRecovery, Kill
<1>5. CASE KillConfirmed \/ KillUnconfirmed
  BY <1>5, <1>b DEF KillConfirmed, KillUnconfirmed, KillReturns
<1>6. CASE UpdateSelects \/ UpdateCloses \/ UpdateReadsBackup \/ UpdateRewrites
           \/ UpdateReloads \/ RestoreWrites \/ RestoreReloads \/ RestoreSelects
           \/ RestoreCloses
  BY <1>6 DEF UpdateSelects, UpdateCloses, UpdateReadsBackup, UpdateRewrites,
     UpdateReloads, RestoreWrites, RestoreReloads, RestoreSelects, RestoreCloses
<1>7. CASE Outside
  BY <1>7 DEF Outside, Die, Exit, OpenSocket, CloseSocket
<1>8. CASE UNCHANGED vars
  BY <1>8 DEF vars
<1>. QED  BY <1>1, <1>2, <1>3, <1>4, <1>5, <1>6, <1>7, <1>8 DEF Next, Work

LEMMA StageInvStep ==
  TypeInv /\ ProcInv /\ TellInv /\ GoneInv /\ StageInv /\ LocalInv /\ [Next]_vars
    => StageInv' /\ LocalInv'
<1>. SUFFICES ASSUME TypeInv, ProcInv, TellInv, GoneInv, StageInv, LocalInv, [Next]_vars
              PROVE  StageInv' /\ LocalInv'
  OBVIOUS
<1>. USE DEF StageInv, LocalInv, StartPhase, InPlace, procVars, localVars
<1>a. /\ JobOK /\ fsm \in RuntimeState
      /\ pc \in StartPhase => fsm = "starting"
      /\ held # NoPid => fsm \notin {"crashed", "reconnecting"}
  BY DEF TypeInv, DataTypeOK, TellInv, GoneInv
<1>b. pc \in StartPhase \union {"startEnter"} => job \in {"start", "restart", "swap", "undo"}
  BY <1>a DEF JobOK, StartJobs
<1>1. ASSUME StartFails, pc \in StartPhase  PROVE StageInv' /\ LocalInv'
  BY <1>1, <1>a, <1>b DEF StartFails, Kill
<1>2. ASSUME NEW p, StartSucceeds(p), pc \in StartPhase  PROVE StageInv' /\ LocalInv'
  <2>1. pc' = "ready" /\ fsm' = "running"
    BY <1>2 DEF StartSucceeds, StartReturns, Settle
  <2>. QED  BY <2>1
<1>3. CASE \E p \in Requests : CallStart(p) \/ CallUpdateInPlace(p)
  BY <1>3 DEF CallStart, CallUpdateInPlace, Updatable, Classify
<1>4. CASE \E p \in Requests : CallUpdateFullRestart(p)
  BY <1>4 DEF CallUpdateFullRestart, Updatable, RestartWith
<1>5. CASE (\E r \in StopReason : CallStop(r) \/ CallRestart(r)) \/ CallDispose
  BY <1>5 DEF CallStop, CallRestart, RestartWith, CallDispose, Kill
<1>6. CASE StartRefused
  <2>1. fsm \in {"running", "crashed"} /\ job \in {"start", "restart"}
    BY <1>6, <1>b DEF StartRefused, Startable
  <2>. QED  BY <1>6, <2>1 DEF StartRefused, StartReturns, Settle
<1>7. CASE StartKillsOld \/ StartResetsError \/ StartBegins
  BY <1>7, <1>a, <1>b DEF StartKillsOld, StartResetsError, StartBegins, Startable, Kill, Goto
<1>8. CASE StartWrites \/ Spawns \/ SpawnRefused \/ SpawnErrors
  BY <1>8, <1>1, Transitions DEF StartWrites, Spawns, SpawnRefused, SpawnErrors, Goto
<1>9. CASE ApiAnswers \/ ApiNeverAnswers \/ VersionSettles \/ StartSelects
           \/ StartReadsGroup \/ StartSelectsAuto
  BY <1>9, <1>1, <1>2 DEF ApiAnswers, ApiNeverAnswers, VersionSettles,
     StartSelects, StartReadsGroup, StartSelectsAuto, Goto
<1>10. CASE StopIdle
  <2>1. fsm = "idle" /\ pc = "stopEnter" /\ job \in {"stop", "restart"} /\ fsm' = fsm
    BY <1>10, <1>a DEF StopIdle, JobOK, StopJobs
  <2>. QED  BY <1>10, <2>1 DEF StopIdle, StopReturns, Settle, Goto
<1>11. CASE StopBegins
  <2>1. fsm' \in {"stopping", "crashed", "error"} /\ pc' = "killing" /\ cont' = "stop"
    BY <1>11, Transitions DEF StopBegins
  <2>. QED  BY <1>11, <2>1 DEF StopBegins
<1>12. CASE FailRecovery
  <2>1. fsm' \in {"stopping", "crashed", "error"} /\ pc' = "killing" /\ cont' = "failRecovery"
    BY <1>12, Transitions DEF FailRecovery, Kill
  <2>. QED  BY <1>12, <2>1 DEF FailRecovery, Kill
<1>13. ASSUME NEW ok \in BOOLEAN, KillReturns(ok), pc = "killing", held' = held,
              ok => held = NoPid
       PROVE StageInv' /\ LocalInv'
  <2>1. CASE cont = "startKill"
    BY <1>13, <2>1 DEF KillReturns, StartReturns, Settle, Goto
  <2>2. CASE cont = "startFailed"
    <3>1. fsm' = "error" /\ StartReturns(FALSE)
      BY <1>13, <2>2, Transitions DEF KillReturns
    <3>. QED  BY <1>13, <2>2, <3>1 DEF StartReturns, Settle, Goto
  <2>3. CASE cont = "stop"
    <3>1. fsm' = (IF ok THEN "idle" ELSE "error") /\ StopReturns(ok)
      BY <1>13, <2>3, Transitions DEF KillReturns
    <3>. QED  BY <1>13, <2>3, <3>1 DEF StopReturns, Settle, Goto
  <2>4. CASE cont = "failRecovery"
    <3>1. fsm' = "error" /\ pc' = "ready"
      BY <1>13, <2>4, Transitions DEF KillReturns, Settle
    <3>. QED  BY <3>1
  <2>5. CASE cont = "dispose"
    BY <1>13, <2>5 DEF KillReturns, Goto
  <2>. QED  BY <1>13, <2>1, <2>2, <2>3, <2>4, <2>5 DEF KillReturns
<1>14. CASE KillConfirmed \/ KillUnconfirmed
  BY <1>13, <1>14 DEF KillConfirmed, KillUnconfirmed
<1>15. CASE UpdateSelects \/ UpdateCloses \/ UpdateReadsBackup \/ UpdateRewrites
            \/ UpdateReloads
  BY <1>15 DEF UpdateSelects, UpdateCloses, UpdateReadsBackup, UpdateRewrites,
     UpdateReloads, Recover, Settle, Goto
<1>16. CASE RestoreWrites \/ RestoreReloads \/ RestoreSelects \/ RestoreCloses
  BY <1>16 DEF RestoreWrites, RestoreReloads, RestoreSelects, RestoreCloses, Settle, Goto
<1>17. ASSUME NEW p \in Pids, Exit(p)  PROVE StageInv' /\ LocalInv'
  <2>1. held' = NoPid /\ UNCHANGED <<pc, job, cont, allow, cand, prev>>
    BY <1>17 DEF Exit
  <2>2. /\ fsm = "running" => fsm' = "crashed"
        /\ fsm # "running" => fsm' = fsm
    BY <1>17, <1>a, Transitions DEF Exit, RuntimeState
  <2>. QED  BY <2>1, <2>2
<1>18. CASE UNCHANGED <<fsm, held, pc, job, localVars>>
  BY <1>18
<1>. QED
  BY <1>3, <1>4, <1>5, <1>6, <1>7, <1>8, <1>9, <1>10, <1>11, <1>12, <1>14, <1>15,
     <1>16, <1>17, <1>18
     DEF Next, Call, Work, Outside, Die, OpenSocket, CloseSocket, vars

-----------------------------------------------------------------------------
(* The contract of VpnEngine, in the terms of this engine.                *)

Live    == \E p \in Pids : os[p] # "free"
Applied == IF InUpdate THEN prev ELSE profile
Arg     == IF pc # "ready" /\ job \in {"undoStop", "undo"} THEN NoProfile ELSE cand

Direct  == {"start", "stop", "restart", "dispose"}
Updates == {"hot", "reload", "swap", "undoStop", "undo"}

Stutters == UNCHANGED <<fsm, Live, Applied, CallInProgress, Arg, settled>>

\* What the owner sees of the engine, by the call and how far it is.
Seen ==
  /\ Live = (held # NoPid)
  /\ pc = "ready" => CallInProgress = "none" /\ Applied = profile /\ Arg = cand
  /\ pc = "disposed" => CallInProgress = "disposed" /\ Applied = profile /\ Arg = cand
  /\ pc \notin {"ready", "disposed"} =>
       /\ job \in Direct => CallInProgress = job /\ Applied = profile
       /\ job \in Updates => CallInProgress = "update" /\ Applied = prev
       /\ job \in {"undoStop", "undo"} => Arg = NoProfile
       /\ job \notin {"undoStop", "undo"} => Arg = cand
       /\ job \in Direct \union Updates

LEMMA SeenHolds == TypeInv /\ ProcInv => Seen
<1>. SUFFICES ASSUME TypeInv, ProcInv  PROVE Seen
  OBVIOUS
<1>1. Live = (held # NoPid)
  BY NoneAssumption DEF Live, ProcInv, NoOrphan, TypeInv, DataTypeOK
<1>2. pc = "ready" => CallInProgress = "none" /\ Applied = profile /\ Arg = cand
  BY DEF CallInProgress, Applied, Arg, InUpdate
<1>3. pc = "disposed" => CallInProgress = "disposed" /\ Applied = profile /\ Arg = cand
  BY DEF CallInProgress, Applied, Arg, InUpdate, TypeInv, JobOK
<1>4. ASSUME pc \notin {"ready", "disposed"}
      PROVE  /\ job \in Direct => CallInProgress = job /\ Applied = profile
             /\ job \in Updates => CallInProgress = "update" /\ Applied = prev
             /\ job \in {"undoStop", "undo"} => Arg = NoProfile
             /\ job \notin {"undoStop", "undo"} => Arg = cand
  BY <1>4 DEF CallInProgress, Applied, Arg, InUpdate, Direct, Updates
<1>5. pc \notin {"ready", "disposed"} => job \in Direct \union Updates
  BY DEF TypeInv, DataTypeOK, JobOK, PC, Cont, StartPhase, InPlace, StartJobs, StopJobs,
     Direct, Updates
<1>. QED  BY <1>1, <1>2, <1>3, <1>4, <1>5 DEF Seen

LEMMA SeenNext == (TypeInv /\ ProcInv)' => Seen'
BY SeenHolds, PTL

\* The steps of the contract.
LEMMA Begins ==
  ASSUME CallInProgress = "none", NEW c \in {"start", "stop", "restart", "update", "dispose"},
         CallInProgress' = c, Arg' \in Profile \union {NoProfile},
         c = "update" => fsm = "running",
         \/ fsm' = fsm
         \/ c = "restart" /\ fsm = "crashed" /\ fsm' = "reconnecting"
         \/ c = "restart" /\ fsm = "error" /\ fsm' = "idle",
         UNCHANGED <<Live, Applied, settled>>
  PROVE  Contract!EngineNext
BY DEF Contract!EngineNext, Contract!Begin, Contract!Refuses, Contract!Call, Live, Applied, Arg

LEMMA Progresses ==
  ASSUME CallInProgress \in {"start", "stop", "restart", "update"}, UNCHANGED CallInProgress,
         settled' = settled, fsm' = fsm \/ fsm' \in ValidTransitions[fsm] \ {"running", "crashed"},
         CallInProgress = "stop" => fsm' \in {fsm, "stopping"},
         CallInProgress = "start" /\ fsm \in {"running", "crashed"} => fsm' = fsm,
         CallInProgress \in {"start", "restart"} =>
           /\ fsm = "starting" => fsm' = "starting"
           /\ Live /\ fsm \in {"idle", "error"} => fsm' = fsm,
         Live' = Live \/ (Live' = TRUE /\ fsm = "starting" /\ fsm' = "starting"),
         Arg' = Arg \/ (CallInProgress = "update" /\ Arg' = NoProfile),
         Applied' = IF CallInProgress \in {"start", "restart"}
                         /\ fsm # "starting" /\ fsm' = "starting"
                      THEN Arg ELSE Applied
  PROVE  Contract!EngineNext
<1>1. Contract!Progress
  BY DEF Contract!Progress, Contract!Call, Contract!Successors, Contract!ValidTransitions,
     ValidTransitions, Live, Applied, Arg
<1>. QED  BY <1>1 DEF Contract!EngineNext, Contract!EngineStep

Rests(ok) ==
  /\ CallInProgress' = "none" /\ Arg' = NoProfile /\ settled' = ok
  /\ fsm' \in {"idle", "running", "crashed", "error"}
  /\ fsm' = fsm \/ fsm' \in ValidTransitions[fsm] \ {"crashed"}

LEMMA RestsReturn == \A ok : Rests(ok) => Contract!Return(ok)
<1>. SUFFICES ASSUME NEW ok, Rests(ok)  PROVE Contract!Return(ok)
  OBVIOUS
<1>1. fsm' \in Contract!Successors \intersect Contract!Resting
  <2>1. Contract!ValidTransitions = ValidTransitions
    BY DEF Contract!ValidTransitions, ValidTransitions
  <2>2. fsm' = fsm \/ fsm' \in ValidTransitions[fsm] \ {"crashed"}
    BY DEF Rests
  <2>. QED  BY <2>1, <2>2 DEF Rests, Contract!Successors, Contract!Resting
<1>2. CallInProgress' = "none" /\ Arg' = NoProfile /\ settled' = ok
  BY DEF Rests
<1>. QED  BY <1>1, <1>2 DEF Contract!Return, Arg

LEMMA StartEnds ==
  ASSUME NEW ok \in BOOLEAN, Rests(ok), CallInProgress \in {"start", "restart"}, Live' = Live,
         ok => /\ fsm = "starting" /\ fsm' = "running"
               /\ Applied' = Applied \/ (Applied \in Profile /\ Applied' = WithAuto(Applied)),
         ~ok => /\ fsm' \in {fsm, "error"} /\ Applied' = Applied
                /\ fsm = "starting" => fsm' = "error"
                /\ fsm \in {"idle", "error"} => Live /\ fsm' = fsm
  PROVE  Contract!EngineNext
<1>1. Contract!Return(ok)
  BY RestsReturn
<1>2. Contract!StartReturns(ok)
  BY <1>1 DEF Contract!StartReturns, Live, Applied
<1>. QED  BY <1>2 DEF Contract!EngineNext, Contract!EngineStep

LEMMA StopEnds ==
  ASSUME NEW ok \in BOOLEAN, Rests(ok), CallInProgress = "stop", UNCHANGED <<Live, Applied>>,
         ok => fsm' = "idle" /\ (Live => fsm = "idle"),
         ~ok => fsm' = "error" /\ Live
  PROVE  Contract!EngineNext
<1>1. Contract!Return(ok)
  BY RestsReturn
<1>2. Contract!StopReturns(ok)
  BY <1>1 DEF Contract!StopReturns, Live, Applied
<1>. QED  BY <1>2 DEF Contract!EngineNext, Contract!EngineStep

LEMMA UpdateEnds ==
  ASSUME NEW ok \in BOOLEAN, Rests(ok), CallInProgress = "update", Live' = Live,
         ok => Arg # NoProfile /\ Applied' = Arg /\ fsm' \in {"running", "crashed"},
         ~ok => Applied' = Applied /\ fsm' # "idle"
  PROVE  Contract!EngineNext
<1>1. Contract!Return(ok)
  BY RestsReturn
<1>2. Contract!UpdateReturns(ok)
  BY <1>1 DEF Contract!UpdateReturns, Live, Applied, Arg
<1>. QED  BY <1>2 DEF Contract!EngineNext, Contract!EngineStep

\* A step inside a call, and a step that settles one.
LEMMA Within ==
  ASSUME Seen, Seen', {pc, pc'} \intersect {"ready", "disposed"} = {},
         UNCHANGED <<job, cand, prev>>
  PROVE  /\ UNCHANGED <<CallInProgress, Arg>>
         /\ held' = held => Live' = Live
         /\ job \in Updates \/ profile' = profile => Applied' = Applied
         /\ job \in Direct => CallInProgress = job /\ Applied = profile /\ Applied' = profile'
         /\ job \in Updates => CallInProgress = "update"
         /\ job \in {"undoStop", "undo"} => Arg = NoProfile
         /\ job \notin {"undoStop", "undo"} => Arg = cand
<1>1. held' = held => Live' = Live
  BY DEF Seen
<1>2. /\ pc \notin {"ready", "disposed"} /\ pc' \notin {"ready", "disposed"}
      /\ job' = job /\ cand' = cand /\ prev' = prev
  OBVIOUS
<1>. QED  BY <1>1, <1>2 DEF Seen, Direct, Updates

LEMMA Returned ==
  ASSUME Seen, Seen', NEW ok, pc \notin {"ready", "disposed"}, Settle(ok), held' = held,
         fsm' \in {"idle", "running", "crashed", "error"},
         fsm' = fsm \/ fsm' \in ValidTransitions[fsm] \ {"crashed"}
  PROVE  /\ Rests(ok) /\ Live' = Live /\ Applied' = profile'
         /\ job \in Direct => CallInProgress = job /\ Applied = profile
         /\ job \in Updates => CallInProgress = "update" /\ Applied = prev
         /\ job \notin {"undoStop", "undo"} => Arg = cand
<1>1. Live' = Live
  BY DEF Seen
<1>2. CallInProgress' = "none" /\ Applied' = profile' /\ Arg' = NoProfile /\ settled' = ok
  BY DEF Seen, Settle
<1>. QED  BY <1>1, <1>2 DEF Seen, Rests

LEMMA DisposeEnds ==
  ASSUME CallInProgress = "dispose", CallInProgress' = "disposed", fsm' = "idle",
         Applied' = NoProfile, UNCHANGED <<Live, Arg, settled>>
  PROVE  Contract!EngineNext
<1>1. Contract!DisposeReturns
  BY DEF Contract!DisposeReturns, Live, Applied, Arg
<1>. QED  BY <1>1 DEF Contract!EngineNext, Contract!EngineStep

LEMMA Crashes ==
  ASSUME Live, Live' = FALSE, fsm' = TryTransition(fsm, "crashed"),
         UNCHANGED <<Applied, CallInProgress, Arg, settled>>
  PROVE  Contract!EngineNext
<1>1. Contract!TryTransition(fsm, "crashed") = TryTransition(fsm, "crashed")
  BY DEF Contract!TryTransition, TryTransition, Contract!CanTransition, CanTransition,
     Contract!ValidTransitions, ValidTransitions
<1>2. Contract!Crash
  BY <1>1 DEF Contract!Crash, Live, Applied, Arg
<1>. QED  BY <1>2 DEF Contract!EngineNext, Contract!EngineStep

\* The invariants a step of the contract is read from.
ContractInv ==
  TypeInv /\ ProcInv /\ TellInv /\ BackedInv /\ MatchInv /\ GoneInv /\ StageInv /\ LocalInv

Kept == Contract!EngineNext \/ Stutters

LEMMA CallsBegin ==
  ASSUME ContractInv, Seen, Seen', Call  PROVE Kept
<1>. USE DEF ContractInv, Direct, Updates, Kept, procVars, localVars
<1>a. /\ cand \in Profile \union {NoProfile} /\ fsm \in RuntimeState
      /\ profile \in Profile \union {NoProfile}
  BY DEF TypeInv, DataTypeOK
<1>1. ASSUME pc = "ready", held' = held, pc' \notin {"ready", "disposed"}
      PROVE  /\ CallInProgress = "none" /\ Applied = profile /\ Arg = cand /\ Live' = Live
             /\ job' \in Direct => CallInProgress' = job' /\ Applied' = profile' /\ Arg' = cand'
             /\ job' \in {"hot", "reload", "swap"}
                  => CallInProgress' = "update" /\ Applied' = prev' /\ Arg' = cand'
  <2>1. CallInProgress = "none" /\ Applied = profile /\ Arg = cand /\ Live' = Live
    BY <1>1 DEF Seen
  <2>2. /\ job' \in Direct => CallInProgress' = job' /\ Applied' = profile' /\ Arg' = cand'
        /\ job' \in {"hot", "reload", "swap"}
             => CallInProgress' = "update" /\ Applied' = prev' /\ Arg' = cand'
    BY <1>1 DEF Seen
  <2>. QED  BY <2>1, <2>2
<1>2. ASSUME NEW p \in Requests, CallStart(p)  PROVE Kept
  BY <1>2, <1>1, RequestsAssumption, Begins DEF CallStart
<1>3. ASSUME NEW p \in Requests, CallUpdateInPlace(p)  PROVE Kept
  <2>1. job' \in {"hot", "reload"} /\ pc' \in {"select", "readBackup"} /\ pc = "ready"
    BY <1>3 DEF CallUpdateInPlace, Updatable, Classify
  <2>2. fsm = "running" /\ fsm' = fsm /\ p \in Profile /\ UNCHANGED settled
        /\ prev' = profile /\ cand' = p /\ held' = held
    BY <1>3, RequestsAssumption DEF CallUpdateInPlace, Updatable
  <2>. QED  BY <2>1, <2>2, <1>1, Begins
<1>4. ASSUME NEW p \in Requests, CallUpdateFullRestart(p)  PROVE Kept
  <2>1. job' = "swap" /\ pc' = "stopEnter" /\ pc = "ready" /\ fsm = "running" /\ fsm' = fsm
    BY <1>4 DEF CallUpdateFullRestart, Updatable, RestartWith
  <2>2. p \in Profile /\ UNCHANGED settled /\ prev' = profile /\ cand' = p /\ held' = held
    BY <1>4, RequestsAssumption DEF CallUpdateFullRestart, RestartWith
  <2>. QED  BY <2>1, <2>2, <1>1, Begins
<1>5. ASSUME NEW r \in StopReason, CallStop(r)  PROVE Kept
  BY <1>5, <1>1, <1>a, Begins DEF CallStop
<1>6. ASSUME NEW r \in StopReason, CallRestart(r)  PROVE Kept
  <2>1. /\ job' = "restart" /\ pc' \in {"startEnter", "stopEnter"} /\ pc = "ready"
        /\ \/ fsm' = fsm
           \/ fsm = "crashed" /\ fsm' = "reconnecting"
           \/ fsm = "error" /\ fsm' = "idle"
    BY <1>6 DEF CallRestart, RestartWith
  <2>2. UNCHANGED <<settled, profile, held>> /\ cand' = profile
    BY <1>6 DEF CallRestart, RestartWith
  <2>. QED  BY <2>1, <2>2, <1>a, <1>1, Begins
<1>7. CASE CallDispose
  BY <1>7, <1>1, <1>a, Begins DEF CallDispose, Kill
<1>. QED  BY <1>2, <1>3, <1>4, <1>5, <1>6, <1>7 DEF Call

LEMMA StartsKeep ==
  ASSUME ContractInv, Seen, Seen',
         \/ StartRefused \/ StartKillsOld \/ StartResetsError \/ StartBegins \/ StartWrites
         \/ Spawns \/ SpawnRefused \/ SpawnErrors \/ ApiAnswers \/ ApiNeverAnswers
         \/ VersionSettles \/ StartSelects \/ StartReadsGroup \/ StartSelectsAuto
  PROVE  Kept
<1>. USE DEF ContractInv, Kept, procVars, localVars
<1>a. /\ pc \in StartPhase \union {"startEnter"} => job \in StartJobs /\ cand \in Profile
      /\ pc \in StartPhase => fsm = "starting" /\ profile = cand
      /\ pc = "spawning" => held = NoPid
  BY DEF TypeInv, JobOK, LocalsOK, TellInv, ProcInv, StartJobs, StartPhase
<1>b. /\ pc = "startEnter" => fsm \in {"idle", "running", "crashed", "error", "reconnecting"}
      /\ pc = "startEnter" /\ job \in {"swap", "undo"} => fsm = "idle" /\ held = NoPid
      /\ pc \in {"group", "startAuto"} => job \in {"start", "restart"}
  BY <1>a DEF StageInv, LocalInv, StartJobs, StartPhase
<1>c. /\ StartJobs = {"start", "restart", "swap", "undo"}
      /\ {"start", "restart"} \subseteq Direct /\ {"swap", "undo"} \subseteq Updates
  BY DEF StartJobs, Direct, Updates
<1>d. Live = (held # NoPid)
  BY DEF Seen
<1>1. ASSUME {pc, pc'} \intersect {"ready", "disposed"} = {}, UNCHANGED <<fsm, profile, held, settled>>,
             UNCHANGED <<job, cand, prev>>
      PROVE  Stutters
  BY <1>1, Within DEF Stutters
<1>2. ASSUME StartFails, pc \in StartPhase, UNCHANGED profile  PROVE Kept
  BY <1>1, <1>2 DEF StartFails, Kill, StartPhase
<1>3. ASSUME NEW p, StartSucceeds(p), pc \in StartPhase,
             p = profile \/ (job \in {"start", "restart"} /\ p = WithAuto(profile))
      PROVE  Kept
  <2>1. /\ fsm = "starting" /\ fsm' = "running" /\ profile' = p /\ held' = held
        /\ pc \notin {"ready", "disposed"} /\ profile = cand /\ profile \in Profile
        /\ job \in {"start", "restart", "swap", "undo"}
    BY <1>3, <1>a, <1>c DEF StartSucceeds, StartPhase
  <2>2. "running" \in ValidTransitions["starting"] \ {"crashed"}
    BY DEF ValidTransitions
  <2>3. CASE job \in {"start", "restart"}
    <3>1. Settle(TRUE)
      BY <1>3, <2>3 DEF StartSucceeds, StartReturns, Settle
    <3>2. Rests(TRUE) /\ Live' = Live /\ Applied' = p /\ CallInProgress = job /\ Applied = profile
      BY <2>1, <2>2, <2>3, <3>1, <1>c, Returned
    <3>. QED  BY <1>3, <2>1, <2>3, <3>2, StartEnds
  <2>4. CASE job = "swap"
    <3>1. Settle(TRUE)
      BY <1>3, <2>4 DEF StartSucceeds, StartReturns, Settle
    <3>2. Rests(TRUE) /\ Live' = Live /\ Applied' = p /\ CallInProgress = "update" /\ Arg = cand
      BY <2>1, <2>2, <2>4, <3>1, <1>c, Returned
    <3>3. p # NoProfile
      BY <1>3, <2>1, <2>4, NoneAssumption
    <3>. QED  BY <1>3, <2>1, <2>4, <3>2, <3>3, UpdateEnds
  <2>5. CASE job = "undo"
    <3>1. Settle(FALSE)
      BY <1>3, <2>5 DEF StartSucceeds, StartReturns, Settle
    <3>2. Rests(FALSE) /\ Live' = Live /\ Applied' = p /\ CallInProgress = "update" /\ Applied = prev
      BY <2>1, <2>2, <2>5, <3>1, <1>c, Returned
    <3>3. cand = prev
      BY <2>1, <2>5 DEF LocalInv
    <3>. QED  BY <1>3, <2>1, <2>5, <3>2, <3>3, UpdateEnds
  <2>. QED  BY <2>1, <2>3, <2>4, <2>5
<1>4. CASE StartRefused
  <2>1. fsm \in {"running", "crashed"} /\ job \in {"start", "restart"} /\ pc = "startEnter"
        /\ UNCHANGED <<fsm, profile, held>>
    BY <1>4, <1>a, <1>b, <1>c DEF StartRefused, Startable
  <2>2. Settle(FALSE)
    BY <1>4, <2>1 DEF StartRefused, StartReturns, Settle
  <2>3. /\ Rests(FALSE) /\ Live' = Live /\ Applied' = profile
        /\ CallInProgress = job /\ Applied = profile
    BY <2>1, <2>2, <1>c, Returned
  <2>. QED  BY <2>1, <2>3, StartEnds
<1>5. CASE StartKillsOld
  BY <1>1, <1>5 DEF StartKillsOld, Kill
<1>6. CASE StartResetsError
  <2>1. /\ pc = "startEnter" /\ pc' = pc /\ fsm = "error" /\ fsm' = "idle" /\ held = NoPid
        /\ UNCHANGED <<held, profile, settled, job, cand, prev>>
        /\ job \in {"start", "restart"}
    BY <1>6, <1>a, <1>b, <1>c DEF StartResetsError
  <2>2. /\ UNCHANGED <<CallInProgress, Arg>> /\ Live' = Live /\ Applied' = Applied
        /\ CallInProgress = job
    BY <2>1, <1>c, Within
  <2>3. "idle" \in ValidTransitions["error"] \ {"running", "crashed"}
    BY DEF ValidTransitions
  <2>. QED  BY <2>1, <2>2, <2>3, <1>d, Progresses
<1>7. CASE StartBegins
  <2>1. /\ pc = "startEnter" /\ pc' = "writing" /\ fsm \in {"idle", "reconnecting"}
        /\ fsm' = "starting" /\ held = NoPid /\ profile' = cand
        /\ UNCHANGED <<held, settled, job, cand, prev>>
        /\ job \in {"start", "restart", "swap", "undo"}
    BY <1>7, <1>a, <1>c DEF StartBegins, Startable, Goto
  <2>2. /\ UNCHANGED <<CallInProgress, Arg>> /\ Live' = Live
        /\ job \in {"start", "restart"} =>
             CallInProgress = job /\ Applied' = profile' /\ Arg = cand
        /\ job \in {"swap", "undo"} => CallInProgress = "update" /\ Applied' = Applied
    BY <2>1, <1>c, Within
  <2>3. /\ "starting" \in ValidTransitions["idle"] \ {"running", "crashed"}
        /\ "starting" \in ValidTransitions["reconnecting"] \ {"running", "crashed"}
    BY DEF ValidTransitions
  <2>4. fsm' \in ValidTransitions[fsm] \ {"running", "crashed"}
    BY <2>1, <2>3
  <2>5. CallInProgress \in {"start", "restart"} => job \in {"start", "restart"}
    BY <2>1, <2>2
  <2>6. Applied' = IF CallInProgress \in {"start", "restart"}
                        /\ fsm # "starting" /\ fsm' = "starting"
                     THEN Arg ELSE Applied
    BY <2>1, <2>2, <2>5
  <2>. QED  BY <2>1, <2>2, <2>4, <2>6, <1>d, Progresses
<1>8. CASE StartWrites
  BY <1>1, <1>2, <1>8 DEF StartWrites, Goto, StartPhase
<1>9. CASE Spawns
  <2>1. /\ pc = "spawning" /\ pc' = "probing" /\ fsm = "starting" /\ fsm' = fsm
        /\ UNCHANGED <<profile, settled, job, cand, prev>>
        /\ held' \in Pids /\ job \in {"start", "restart", "swap", "undo"}
    BY <1>9, <1>a, <1>c DEF Spawns, StartPhase, Goto
  <2>2. Live' = TRUE
    BY <2>1, NoneAssumption DEF Seen
  <2>3. /\ UNCHANGED <<CallInProgress, Arg>> /\ Applied' = Applied
        /\ CallInProgress \in {"start", "restart", "update"}
    BY <2>1, <1>c, Within
  <2>. QED  BY <2>1, <2>2, <2>3, Progresses
<1>10. CASE SpawnRefused \/ ApiNeverAnswers
  BY <1>2, <1>10 DEF SpawnRefused, ApiNeverAnswers, StartPhase
<1>11. CASE SpawnErrors
  <2>1. fsm' = fsm
    BY <1>11, <1>a, Transitions DEF SpawnErrors, StartPhase
  <2>. QED  BY <1>1, <1>11, <2>1 DEF SpawnErrors, Goto
<1>12. CASE ApiAnswers
  BY <1>1, <1>12 DEF ApiAnswers, Goto
<1>13. CASE VersionSettles
  BY <1>1, <1>3, <1>13 DEF VersionSettles, Goto, StartPhase
<1>14. CASE StartSelects
  BY <1>1, <1>2, <1>3, <1>14 DEF StartSelects, Goto, StartPhase
<1>15. CASE StartReadsGroup
  BY <1>1, <1>2, <1>15 DEF StartReadsGroup, Goto, StartPhase
<1>16. CASE StartSelectsAuto
  BY <1>2, <1>3, <1>b, <1>16 DEF StartSelectsAuto, StartPhase
<1>. QED
  BY <1>4, <1>5, <1>6, <1>7, <1>8, <1>9, <1>10, <1>11, <1>12, <1>13, <1>14, <1>15, <1>16

LEMMA StopsKeep ==
  ASSUME ContractInv, Seen, Seen',
         StopIdle \/ StopBegins \/ FailRecovery \/ KillConfirmed \/ KillUnconfirmed
  PROVE  Kept
<1>. USE DEF ContractInv, Kept, procVars, localVars
<1>a. /\ pc = "stopEnter" => job \in StopJobs
      /\ pc = "failRecovery" => job \in {"hot", "reload", "undoStop", "undo"}
      /\ pc = "killing" =>
           /\ cont \in {"startKill", "startFailed"} => job \in StartJobs
           /\ cont = "stop" => job \in StopJobs
           /\ cont = "failRecovery" => job \in {"hot", "reload", "undoStop", "undo"}
           /\ cont = "dispose" => job = "dispose"
  BY DEF TypeInv, JobOK
<1>b. /\ pc = "stopEnter" => fsm \in {"idle", "running", "crashed", "error"}
      /\ pc = "stopEnter" /\ fsm = "idle" => job \notin {"swap", "undoStop"}
      /\ pc = "failRecovery" => fsm \in {"running", "crashed", "error"}
      /\ pc = "killing" /\ cont = "startKill"
           => fsm \in {"idle", "error"} /\ job \in {"start", "restart"}
      /\ pc = "killing" /\ cont = "startFailed" => fsm = "starting"
      /\ pc = "killing" /\ cont \in {"stop", "failRecovery"}
           => fsm \in {"stopping", "crashed", "error"}
  BY DEF StageInv
<1>c. /\ StartJobs = {"start", "restart", "swap", "undo"}
      /\ StopJobs = {"stop", "restart", "swap", "undoStop"}
      /\ {"start", "restart", "stop", "dispose"} \subseteq Direct
      /\ {"hot", "reload", "swap", "undoStop", "undo"} \subseteq Updates
  BY DEF StartJobs, StopJobs, Direct, Updates
<1>d. Live = (held # NoPid)
  BY DEF Seen
<1>e. /\ ValidTransitions["running"] = {"stopping", "crashed", "reconnecting"}
      /\ ValidTransitions["starting"] = {"running", "error", "idle"}
      /\ ValidTransitions["stopping"] = {"idle", "error"}
      /\ ValidTransitions["crashed"] = {"reconnecting", "error", "idle"}
      /\ ValidTransitions["error"] = {"idle"}
  BY DEF ValidTransitions
\* A step of restart() or of an update that leaves the state of a start alone.
<1>1. ASSUME {pc, pc'} \intersect {"ready", "disposed"} = {}, held' = held, settled' = settled,
             UNCHANGED <<profile, job, cand, prev>>,
             job \in {"stop", "restart", "hot", "reload", "swap", "undoStop", "undo"},
             job \in {"stop", "restart"} => fsm \notin {"starting", "idle"} /\ fsm' # "starting",
             job = "stop" => fsm' \in {fsm, "stopping"},
             job = "restart" /\ fsm = "error" => held = NoPid \/ fsm' = fsm,
             fsm' = fsm \/ fsm' \in ValidTransitions[fsm] \ {"running", "crashed"}
      PROVE  Kept
  <2>1. UNCHANGED <<CallInProgress, Arg>> /\ Live' = Live /\ Applied' = Applied
    BY <1>1, Within
  <2>2. /\ job \in {"stop", "restart"} => CallInProgress = job
        /\ job \notin {"stop", "restart"} => CallInProgress = "update"
    BY <1>1, <1>c, Within
  <2>. QED  BY <1>1, <2>1, <2>2, <1>d, Progresses
\* The full restart is given up, or its rollback goes on.
<1>2. ASSUME {pc, pc'} \intersect {"ready", "disposed"} = {}, held' = held, settled' = settled,
             \/ job = "swap" /\ job' = "undoStop"
             \/ job = "undoStop" /\ job' = "undo",
             prev' = prev,
             fsm' = fsm \/ fsm' \in ValidTransitions[fsm] \ {"running", "crashed"}
      PROVE  Kept
  <2>1. CallInProgress = "update" /\ Applied = prev
    BY <1>2, <1>c DEF Seen
  <2>2. CallInProgress' = "update" /\ Applied' = prev' /\ Arg' = NoProfile
    BY <1>2, <1>c DEF Seen
  <2>3. Live' = Live
    BY <1>2 DEF Seen
  <2>. QED  BY <1>2, <2>1, <2>2, <2>3, Progresses
<1>3. CASE StopIdle
  <2>1. /\ pc = "stopEnter" /\ fsm = "idle" /\ job \in {"stop", "restart"} /\ StopReturns(TRUE)
        /\ UNCHANGED <<fsm, profile, held>>
    BY <1>3, <1>a, <1>b, <1>c DEF StopIdle
  <2>2. CASE job = "stop"
    <3>1. Settle(TRUE)
      BY <2>1, <2>2 DEF StopReturns
    <3>2. Rests(TRUE) /\ Live' = Live /\ Applied' = profile' /\ CallInProgress = "stop"
          /\ Applied = profile
      BY <2>1, <2>2, <3>1, <1>c, Returned
    <3>. QED  BY <2>1, <3>2, StopEnds
  <2>3. CASE job = "restart"
    <3>1. pc' = "startEnter" /\ UNCHANGED <<job, localVars>>
      BY <2>1, <2>3 DEF StopReturns, Goto
    <3>. QED  BY <2>1, <3>1, Within DEF Stutters
  <2>. QED  BY <2>1, <2>2, <2>3
<1>4. CASE StopBegins
  <2>1. fsm \in {"running", "crashed", "error"}
        /\ fsm' = (IF fsm = "running" THEN "stopping" ELSE fsm)
    BY <1>4, <1>b, Transitions DEF StopBegins
  <2>. QED  BY <1>1, <1>4, <1>a, <1>c, <1>e, <2>1 DEF StopBegins
<1>5. CASE FailRecovery
  <2>1. fsm \in {"running", "crashed", "error"}
        /\ fsm' = (IF fsm = "running" THEN "stopping" ELSE fsm)
    BY <1>5, <1>b, Transitions DEF FailRecovery
  <2>. QED  BY <1>1, <1>5, <1>a, <1>e, <2>1 DEF FailRecovery, Kill
<1>6. ASSUME NEW ok \in BOOLEAN, KillReturns(ok), pc = "killing", held' = held,
             ok = (held = NoPid)
      PROVE  Kept
  <2>1. CASE cont = "startKill" /\ ok
    BY <1>6, <2>1, Within DEF KillReturns, Goto, Stutters
  <2>2. CASE cont = "startKill" /\ ~ok
    <3>1. /\ Settle(FALSE) /\ UNCHANGED <<fsm, profile>>
          /\ fsm \in {"idle", "error"} /\ job \in {"start", "restart"}
      BY <1>6, <2>2, <1>b DEF KillReturns, StartReturns, Settle
    <3>2. /\ Rests(FALSE) /\ Live' = Live /\ Applied' = profile'
          /\ CallInProgress = job /\ Applied = profile
      BY <1>6, <3>1, <1>c, Returned
    <3>. QED  BY <1>6, <2>2, <3>1, <3>2, <1>d, StartEnds
  <2>3. CASE cont = "startFailed"
    <3>1. /\ fsm = "starting" /\ fsm' = "error" /\ StartReturns(FALSE) /\ profile' = profile
          /\ job \in {"start", "restart", "swap", "undo"}
          /\ fsm' \in ValidTransitions[fsm] \ {"running", "crashed"}
      BY <1>6, <2>3, <1>a, <1>b, <1>c, <1>e, Transitions DEF KillReturns
    <3>2. CASE job \in {"start", "restart"}
      <4>1. Settle(FALSE)
        BY <3>1, <3>2 DEF StartReturns, Settle
      <4>2. /\ Rests(FALSE) /\ Live' = Live /\ Applied' = profile'
            /\ CallInProgress = job /\ Applied = profile
        BY <1>6, <3>1, <3>2, <4>1, <1>c, Returned
      <4>. QED  BY <3>1, <3>2, <4>2, StartEnds
    <3>3. CASE job = "swap"
      BY <1>2, <1>6, <3>1, <3>3 DEF StartReturns
    <3>4. CASE job = "undo"
      BY <1>1, <1>6, <3>1, <3>4 DEF StartReturns, Goto
    <3>. QED  BY <3>1, <3>2, <3>3, <3>4
  <2>4. CASE cont = "stop"
    <3>1. /\ fsm' = (IF ok THEN "idle" ELSE "error") /\ StopReturns(ok) /\ profile' = profile
          /\ job \in {"stop", "restart", "swap", "undoStop"}
          /\ fsm \in {"stopping", "crashed", "error"}
      BY <1>6, <2>4, <1>a, <1>b, <1>c, Transitions DEF KillReturns
    <3>2. fsm' = fsm \/ fsm' \in ValidTransitions[fsm] \ {"running", "crashed"}
      BY <1>6, <3>1, <1>e
    <3>3. CASE job = "stop"
      <4>1. Settle(ok)
        BY <3>1, <3>3 DEF StopReturns
      <4>2. /\ Rests(ok) /\ Live' = Live /\ Applied' = profile'
            /\ CallInProgress = "stop" /\ Applied = profile
        BY <1>6, <3>1, <3>2, <3>3, <4>1, <1>c, Returned
      <4>. QED  BY <1>6, <3>1, <4>2, <1>d, StopEnds
    <3>4. CASE job = "restart" /\ ok
      BY <1>1, <1>6, <3>1, <3>2, <3>4 DEF StopReturns, Goto
    <3>5. CASE job = "restart" /\ ~ok
      <4>1. Settle(FALSE) /\ fsm' = "error"
        BY <1>6, <3>1, <3>5 DEF StopReturns, Settle
      <4>2. /\ Rests(FALSE) /\ Live' = Live /\ Applied' = profile'
            /\ CallInProgress = "restart" /\ Applied = profile
        BY <1>6, <3>1, <3>2, <3>5, <4>1, <1>c, Returned
      <4>. QED  BY <1>6, <3>1, <3>5, <4>1, <4>2, <1>d, StartEnds
    <3>6. CASE job = "swap" /\ ok
      BY <1>1, <1>6, <3>1, <3>2, <3>6 DEF StopReturns, Goto
    <3>7. CASE job = "swap" /\ ~ok
      BY <1>2, <1>6, <3>1, <3>2, <3>7 DEF StopReturns
    <3>8. CASE job = "undoStop" /\ ok
      BY <1>2, <1>6, <3>1, <3>2, <3>8 DEF StopReturns
    <3>9. CASE job = "undoStop" /\ ~ok
      BY <1>1, <1>6, <3>1, <3>2, <3>9 DEF StopReturns, Goto
    <3>. QED  BY <1>6, <3>1, <3>3, <3>4, <3>5, <3>6, <3>7, <3>8, <3>9
  <2>5. CASE cont = "failRecovery"
    <3>1. /\ fsm' = "error" /\ Settle(FALSE) /\ profile' = prev
          /\ job \in {"hot", "reload", "undoStop", "undo"}
          /\ fsm \in {"stopping", "crashed", "error"}
      BY <1>6, <2>5, <1>a, <1>b, Transitions DEF KillReturns
    <3>2. fsm' = fsm \/ fsm' \in ValidTransitions[fsm] \ {"crashed"}
      BY <3>1, <1>e
    <3>3. /\ Rests(FALSE) /\ Live' = Live /\ Applied' = profile'
          /\ CallInProgress = "update" /\ Applied = prev
      BY <1>6, <3>1, <3>2, <1>c, Returned
    <3>. QED  BY <3>1, <3>3, UpdateEnds
  <2>6. CASE cont = "dispose"
    <3>1. /\ fsm' = "idle" /\ profile' = NoProfile /\ pc' = "disposed" /\ job = "dispose"
          /\ UNCHANGED <<cand, prev, settled, job>>
      BY <1>6, <2>6, <1>a DEF KillReturns, Goto
    <3>2. CallInProgress = "dispose" /\ Arg = cand /\ Live' = Live
      BY <1>6, <3>1, <1>c DEF Seen
    <3>3. CallInProgress' = "disposed" /\ Arg' = cand' /\ Applied' = profile'
      BY <3>1 DEF Seen
    <3>. QED  BY <3>1, <3>2, <3>3, DisposeEnds
  <2>. QED  BY <1>6, <2>1, <2>2, <2>3, <2>4, <2>5, <2>6 DEF KillReturns
<1>7. CASE KillConfirmed
  BY <1>6, <1>7 DEF KillConfirmed
<1>8. CASE KillUnconfirmed
  BY <1>6, <1>8 DEF KillUnconfirmed
<1>. QED  BY <1>3, <1>4, <1>5, <1>7, <1>8

LEMMA UpdatesKeep ==
  ASSUME ContractInv, Seen, Seen',
         \/ UpdateSelects \/ UpdateCloses \/ UpdateReadsBackup \/ UpdateRewrites
         \/ UpdateReloads \/ RestoreWrites \/ RestoreReloads \/ RestoreSelects \/ RestoreCloses
  PROVE  Kept
<1>. USE DEF ContractInv, Kept, procVars, localVars
<1>a. /\ pc \in InPlace => /\ job \in {"hot", "reload"} /\ cand \in Profile
                           /\ profile = prev /\ fsm \in {"running", "crashed"}
      /\ {"hot", "reload"} \subseteq Updates
  BY DEF TypeInv, JobOK, LocalsOK, StageInv, MatchInv, InPlace, Updates
<1>b. pc \in InPlace /\ UNCHANGED <<fsm, held>>
  BY DEF InPlace, UpdateSelects, UpdateCloses, UpdateReadsBackup, UpdateRewrites,
     UpdateReloads, RestoreWrites, RestoreReloads, RestoreSelects, RestoreCloses
<1>1. ASSUME pc' \in InPlace \union {"failRecovery"}, UNCHANGED <<settled, job, cand, prev>>
      PROVE  Stutters
  <2>1. {pc, pc'} \intersect {"ready", "disposed"} = {}
    BY <1>1, <1>b DEF InPlace
  <2>. QED  BY <1>1, <2>1, <1>a, <1>b, Within DEF Stutters
<1>2. Recover /\ job' = job => Stutters
  BY <1>1 DEF Recover, Goto, InPlace
<1>3. ASSUME NEW ok \in BOOLEAN, Settle(ok), profile' = IF ok THEN cand ELSE profile
      PROVE  Kept
  <2>1. pc \notin {"ready", "disposed"}
    BY <1>b DEF InPlace
  <2>2. /\ Rests(ok) /\ Live' = Live /\ Applied' = profile' /\ CallInProgress = "update"
        /\ Applied = prev /\ Arg = cand
    BY <1>3, <2>1, <1>a, <1>b, Returned
  <2>3. cand # NoProfile
    BY <1>a, <1>b, NoneAssumption
  <2>. QED  BY <1>3, <2>2, <2>3, <1>a, <1>b, UpdateEnds
<1>4. CASE UpdateSelects \/ UpdateRewrites \/ UpdateReloads
  BY <1>1, <1>2, <1>4 DEF UpdateSelects, UpdateRewrites, UpdateReloads, Goto, InPlace
<1>5. CASE UpdateCloses
  BY <1>2, <1>3, <1>5 DEF UpdateCloses
<1>6. CASE UpdateReadsBackup
  BY <1>1, <1>3, <1>6 DEF UpdateReadsBackup, InPlace
<1>7. CASE RestoreWrites \/ RestoreReloads \/ RestoreSelects
  BY <1>1, <1>7 DEF RestoreWrites, RestoreReloads, RestoreSelects, Goto, InPlace
<1>8. CASE RestoreCloses
  BY <1>1, <1>3, <1>8 DEF RestoreCloses, Goto
<1>. QED  BY <1>4, <1>5, <1>6, <1>7, <1>8

LEMMA OutsideKeeps ==
  ASSUME ContractInv, Seen, Seen', Outside \/ UNCHANGED vars  PROVE Kept
<1>. USE DEF Kept, procVars, localVars
<1>1. UNCHANGED <<pc, job, cand, prev, profile>> => UNCHANGED <<CallInProgress, Applied, Arg>>
  BY DEF CallInProgress, Applied, Arg, InUpdate
<1>2. UNCHANGED held => Live' = Live
  BY DEF Seen
<1>3. ASSUME NEW p \in Pids, Exit(p)  PROVE Kept
  <2>1. Live
    BY <1>3 DEF Exit, Live
  <2>2. Live' = FALSE
    BY <1>3 DEF Exit, Seen
  <2>3. fsm' = TryTransition(fsm, "crashed")
    BY <1>3 DEF Exit, TryTransition, CanTransition, ValidTransitions
  <2>. QED  BY <1>1, <1>3, <2>1, <2>2, <2>3, Crashes DEF Exit
<1>4. CASE UNCHANGED <<fsm, held, profile, pc, job, localVars>>
  BY <1>1, <1>2, <1>4 DEF Stutters
<1>. QED  BY <1>3, <1>4 DEF Outside, Die, OpenSocket, CloseSocket, vars

\* The engine keeps the promises of VpnEngine, whatever its kernel, the disk
\* and the API do: each of its steps is one step of the contract, or one that
\* the owner does not see.
THEOREM EngineKeepsContract == Spec => ImplementsContract
<1>1. Init => BackedInv /\ MatchInv /\ GoneInv /\ StageInv /\ LocalInv
  BY DEF Init, BackedInv, MatchInv, GoneInv, StageInv, LocalInv, Alive, InPlace
<1>2. Init => Contract!EngineInit
  BY DEF Init, Contract!EngineInit, CallInProgress, InUpdate
<1>3. ContractInv /\ (TypeInv /\ ProcInv)' /\ [Next]_vars => Kept
  <2>. SUFFICES ASSUME ContractInv, (TypeInv /\ ProcInv)', [Next]_vars  PROVE Kept
    OBVIOUS
  <2>1. Seen /\ Seen'
    BY SeenHolds, SeenNext DEF ContractInv
  <2>. QED
    BY <2>1, CallsBegin, StartsKeep, StopsKeep, UpdatesKeep, OutsideKeeps DEF Next, Work
<1>4. Stutters => UNCHANGED Contract!engineVars
  BY DEF Stutters, Contract!engineVars, Live, Applied, Arg
<1>5. ContractInv /\ (TypeInv /\ ProcInv)' /\ [Next]_vars
        => [Contract!EngineNext]_(Contract!engineVars)
  BY <1>3, <1>4 DEF Kept
<1>. QED
  BY <1>1, <1>2, <1>5, Inductive, BackedInvStep, MatchInvStep, GoneInvStep, StageInvStep, PTL
     DEF Spec, ImplementsContract, Contract!EngineSpec, ContractInv

=============================================================================
