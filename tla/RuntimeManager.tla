--------------------------- MODULE RuntimeManager ---------------------------
(***************************************************************************)
(* RuntimeManager of packages/runtime: the one owner of an engine. It      *)
(* serialises what the user interface, the services and its own crash      *)
(* retries ask of the engine in a promise chain (profileUpdateTail), and   *)
(* uses lifecycleRevision to drop what a later request made obsolete.      *)
(*                                                                         *)
(* The engine is any one that keeps the contract of VpnEngine. Requests    *)
(* arrive, the kernel dies and retry timers fire at any time, also while   *)
(* an operation of the chain waits for the engine.                         *)
(***************************************************************************)
EXTENDS VpnEngine, Sequences, Naturals

CONSTANTS
  AutoReconnect,  \* options.autoReconnect; the Windows application turns it off
  MaxAttempts,    \* VPN.RECONNECT_ATTEMPTS
  MaxQueue,       \* bound: operations in the chain
  MaxSleepers     \* bound: retries waiting for their delay

ASSUME FallbackAssumption == Fallback \in [Profile -> Profile]
ASSUME NoProfileAssumption == NoProfile \notin Profile
ASSUME BoundAssumption ==
  /\ AutoReconnect \in BOOLEAN
  /\ {MaxAttempts, MaxQueue, MaxSleepers} \subseteq Nat

VARIABLES
  queue,      \* profileUpdateTail: the operations not settled, oldest first
  phase,      \* how far the oldest one is
  desired,    \* connectionDesired
  aborted,    \* reconnectAborted
  disposed,
  current,    \* currentProfile is set
  hash,       \* appliedProfileHash, as the profile it identifies
  attempts,   \* reconnectAttempts
  sleepers,   \* scheduleReconnect calls asleep with the current revision
  latest      \* history: profile of the last request, unless refused

managerVars == <<desired, aborted, disposed, current, hash, attempts,
                 sleepers, latest>>
vars == <<engineVars, queue, phase, managerVars>>

\* fresh: the revision the operation remembers is still lifecycleRevision.
Operation ==
  [op      : {"connect", "disconnect", "update", "restart", "dispose"},
   profile : Profile \union {NoProfile},
   fresh   : BOOLEAN]

Phase == {"waiting", "stopping", "stopped", "calling"}

TypeOK ==
  /\ EngineTypeOK
  /\ queue \in Seq(Operation) /\ phase \in Phase
  /\ {desired, aborted, disposed, current} \subseteq BOOLEAN
  /\ {hash, latest} \subseteq Profile \union {NoProfile}
  /\ attempts \in 0..MaxAttempts /\ sleepers \in Nat

Init ==
  /\ EngineInit
  /\ queue = <<>> /\ phase = "waiting"
  /\ desired = FALSE /\ aborted = FALSE /\ disposed = FALSE
  /\ current = FALSE /\ hash = NoProfile
  /\ attempts = 0 /\ sleepers = 0 /\ latest = NoProfile

Op(o, p) == [op |-> o, profile |-> p, fresh |-> TRUE]

Stale(q) == [i \in DOMAIN q |-> [q[i] EXCEPT !.fresh = FALSE]]

\* The chain starts an operation when the one before it has settled.
AtHead(o) ==
  /\ queue # <<>> /\ Head(queue).op = o
  /\ phase = "waiting" /\ call \in {"none", "disposed"}

\* The head remembers an older revision, or the manager is disposed.
Obsolete == ~Head(queue).fresh \/ disposed

Settles == queue' = Tail(queue) /\ phase' = "waiting"

\* The head threw: what it asked for was refused, if nobody asked since.
Throws ==
  latest' = IF \E i \in DOMAIN Tail(queue) :
                 Tail(queue)[i].op \in {"connect", "update", "disconnect"}
              THEN latest ELSE NoProfile

-----------------------------------------------------------------------------
(* Requests                                                               *)

\* Mutant of Enqueue: the newest operation runs next.
Enqueue_Overtakes(q, o, p) ==
  /\ Len(q) < MaxQueue
  /\ queue' = IF q = <<>> THEN <<Op(o, p)>>
                ELSE <<Head(q), Op(o, p)>> \o Tail(q)

Enqueue(q, o, p) ==
  /\ Len(q) < MaxQueue
  /\ queue' = Append(q, Op(o, p))

\* ++lifecycleRevision, seen by the chain and by the sleeping retries.
NewRevision(o, p) ==
  /\ Enqueue(Stale(queue), o, p)
  /\ sleepers' = 0

Connect(p) ==
  /\ call # "disposed"
  /\ desired' = TRUE /\ aborted' = FALSE /\ attempts' = 0
  /\ NewRevision("connect", p)
  /\ latest' = p
  /\ UNCHANGED <<engineVars, phase, disposed, current, hash>>

\* Mutant of Disconnect: the revision stays, and retries are not aborted.
Disconnect_OnlyStops ==
  /\ desired' = FALSE /\ attempts' = 0
  /\ Enqueue(queue, "disconnect", NoProfile)
  /\ latest' = NoProfile
  /\ UNCHANGED <<engineVars, phase, aborted, sleepers, disposed, current, hash>>

Disconnect ==
  /\ desired' = FALSE /\ aborted' = TRUE /\ attempts' = 0
  /\ NewRevision("disconnect", NoProfile)
  /\ latest' = NoProfile
  /\ UNCHANGED <<engineVars, phase, disposed, current, hash>>

UpdateProfile(p) ==
  /\ call # "disposed"
  /\ Enqueue(queue, "update", p)
  /\ latest' = p
  /\ UNCHANGED <<engineVars, phase, desired, aborted, disposed, current, hash,
                 attempts, sleepers>>

Dispose ==
  /\ ~disposed
  /\ desired' = FALSE /\ aborted' = TRUE /\ disposed' = TRUE
  /\ NewRevision("dispose", NoProfile)
  /\ latest' = NoProfile
  /\ UNCHANGED <<engineVars, phase, current, hash, attempts>>

-----------------------------------------------------------------------------
(* The chain                                                              *)

\* An obsolete operation resolves without touching the engine; a retry that
\* resolves resets the budget.
Skips ==
  /\ \/ AtHead("connect") \/ AtHead("update")
     \/ AtHead("restart")
  /\ Obsolete \/ (Head(queue).op = "restart" /\ aborted)
  /\ Settles
  /\ attempts' = IF Head(queue).op = "restart" THEN 0 ELSE attempts
  /\ UNCHANGED <<engineVars, desired, aborted, disposed, current, hash,
                 sleepers, latest>>

ConnectBegins ==
  /\ AtHead("connect") /\ ~Obsolete
  /\ IF state = "crashed"
       THEN Begin("stop", NoProfile) /\ phase' = "stopping"
       ELSE Begin("start", Head(queue).profile) /\ phase' = "calling"
  /\ UNCHANGED <<queue, managerVars>>

\* After engine.stop('crashed') the revision is checked once more.
ConnectContinues ==
  /\ phase = "stopped"
  /\ \/ /\ Obsolete /\ Settles /\ UNCHANGED engineVars
     \/ /\ ~Obsolete
        /\ Begin("start", Head(queue).profile)
        /\ phase' = "calling" /\ UNCHANGED queue
  /\ UNCHANGED managerVars

\* An update to the profile applied last is answered without the engine;
\* an engine that is not running refuses any other.
UpdateBegins ==
  /\ AtHead("update") /\ ~Obsolete
  /\ CASE hash = Head(queue).profile -> Settles /\ UNCHANGED <<engineVars, managerVars>>
       [] hash # Head(queue).profile /\ Refuses("update") ->
            /\ Settles /\ Throws
            /\ UNCHANGED <<engineVars, desired, aborted, disposed, current, hash,
                          attempts, sleepers>>
       [] OTHER ->
            /\ Begin("update", Head(queue).profile)
            /\ phase' = "calling" /\ UNCHANGED <<queue, managerVars>>

\* Mutant of RestartBegins: only disposal stops a retry that is queued.
RestartBegins_Unchecked ==
  /\ AtHead("restart") /\ ~disposed
  /\ Begin("restart", applied)
  /\ phase' = "calling"
  /\ UNCHANGED <<queue, managerVars>>

RestartBegins ==
  /\ AtHead("restart") /\ ~Obsolete /\ ~aborted
  /\ Begin("restart", applied)
  /\ phase' = "calling"
  /\ UNCHANGED <<queue, managerVars>>

DisconnectBegins ==
  /\ AtHead("disconnect") /\ call # "disposed"
  /\ Begin("stop", NoProfile)
  /\ phase' = "calling"
  /\ UNCHANGED <<queue, managerVars>>

DisposeBegins ==
  /\ AtHead("dispose") /\ call # "disposed"
  /\ Begin("dispose", NoProfile)
  /\ phase' = "calling"
  /\ UNCHANGED <<queue, managerVars>>

\* After disposal there is no engine left to stop.
DisconnectsNothing ==
  /\ AtHead("disconnect") /\ call = "disposed"
  /\ Settles /\ current' = FALSE /\ hash' = NoProfile
  /\ UNCHANGED <<engineVars, desired, aborted, disposed, attempts, sleepers, latest>>

-----------------------------------------------------------------------------
(* Answers of the engine                                                  *)

\* scheduleReconnect up to its sleep: nothing once the budget is spent.
ScheduleReconnect ==
  IF attempts < MaxAttempts
    THEN attempts' = attempts + 1 /\ sleepers' = sleepers + 1
    ELSE UNCHANGED <<attempts, sleepers>>

ConnectSettles(ok) ==
  /\ queue # <<>> /\ Head(queue).op = "connect" /\ phase = "calling"
  /\ StartReturns(ok) /\ Settles
  /\ IF ok
       THEN current' = TRUE /\ hash' = applied' /\ UNCHANGED latest
       ELSE Throws /\ UNCHANGED <<current, hash>>
  /\ UNCHANGED <<desired, aborted, disposed, attempts, sleepers>>

ConnectStopSettles(ok) ==
  /\ phase = "stopping"
  /\ StopReturns(ok)
  /\ IF ok THEN phase' = "stopped" /\ UNCHANGED <<queue, latest>>
           ELSE Settles /\ Throws
  /\ UNCHANGED <<desired, aborted, disposed, current, hash, attempts, sleepers>>

\* Mutant of UpdateSettles: the fingerprint is recorded although the engine
\* refused.
UpdateSettles_Early(ok) ==
  /\ queue # <<>> /\ Head(queue).op = "update" /\ phase = "calling"
  /\ UpdateReturns(ok) /\ Settles
  /\ hash' = Head(queue).profile
  /\ IF ok THEN current' = TRUE /\ UNCHANGED latest
           ELSE Throws /\ UNCHANGED current
  /\ UNCHANGED <<desired, aborted, disposed, attempts, sleepers>>

\* "Only advance the last-known-good profile after the engine accepted it."
UpdateSettles(ok) ==
  /\ queue # <<>> /\ Head(queue).op = "update" /\ phase = "calling"
  /\ UpdateReturns(ok) /\ Settles
  /\ IF ok
       THEN current' = TRUE /\ hash' = Head(queue).profile /\ UNCHANGED latest
       ELSE Throws /\ UNCHANGED <<current, hash>>
  /\ UNCHANGED <<desired, aborted, disposed, attempts, sleepers>>

DisconnectSettles(ok) ==
  /\ queue # <<>> /\ Head(queue).op = "disconnect" /\ phase = "calling"
  /\ StopReturns(ok) /\ Settles
  /\ IF ok THEN current' = FALSE /\ hash' = NoProfile
           ELSE UNCHANGED <<current, hash>>
  /\ UNCHANGED <<desired, aborted, disposed, attempts, sleepers, latest>>

DisposeSettles ==
  /\ phase = "calling"
  /\ DisposeReturns /\ Settles
  /\ current' = FALSE /\ hash' = NoProfile
  /\ UNCHANGED <<desired, aborted, disposed, attempts, sleepers, latest>>

\* Mutant of RestartSettles: a failed retry is not repeated.
RestartSettles_GivesUp(ok) ==
  /\ queue # <<>> /\ Head(queue).op = "restart" /\ phase = "calling"
  /\ StartReturns(ok) /\ Settles
  /\ attempts' = IF ok THEN 0 ELSE attempts
  /\ UNCHANGED <<desired, aborted, disposed, current, hash, latest, sleepers>>

\* A failed retry schedules the next one, unless a request came between.
RestartSettles(ok) ==
  /\ queue # <<>> /\ Head(queue).op = "restart" /\ phase = "calling"
  /\ StartReturns(ok) /\ Settles
  /\ CASE ok -> attempts' = 0 /\ UNCHANGED sleepers
       [] ~ok /\ ~Obsolete /\ ~aborted -> ScheduleReconnect
       [] OTHER -> UNCHANGED <<attempts, sleepers>>
  /\ UNCHANGED <<desired, aborted, disposed, current, hash, latest>>

-----------------------------------------------------------------------------
(* Crashes and retries                                                    *)

\* The 'stopped' listener, for reason crashed.
OnCrashed ==
  IF AutoReconnect /\ desired /\ ~disposed /\ ~aborted
    THEN ScheduleReconnect
    ELSE UNCHANGED <<attempts, sleepers>>

\* A kernel dies. Only an exit classified as a crash is retried: one that the
\* engine asked for, or of TERM, of KILL or with code 0, is not, in whatever
\* state the engine is (MihomoEngine.ClassifyExit).
EngineCrashes ==
  /\ Crash /\ sleepers < MaxSleepers
  /\ OnCrashed \/ UNCHANGED <<attempts, sleepers>>
  /\ UNCHANGED <<queue, phase, desired, aborted, disposed, current, hash, latest>>

\* The binary cannot be executed: 'stopped' without a process.
SpawnFails ==
  /\ call \in {"start", "restart", "update"} /\ state = "starting" /\ ~live
  /\ sleepers < MaxSleepers
  /\ OnCrashed
  /\ UNCHANGED <<engineVars, queue, phase, desired, aborted, disposed,
                 current, hash, latest>>

EngineProgresses == Progress /\ UNCHANGED <<queue, phase, managerVars>>

\* A retry wakes up: it is queued, or given up without a profile.
Wakes ==
  /\ sleepers > 0 /\ sleepers' = sleepers - 1
  /\ IF disposed \/ aborted \/ ~current
       THEN UNCHANGED queue ELSE Enqueue(queue, "restart", NoProfile)
  /\ UNCHANGED <<engineVars, phase, desired, aborted, disposed, current,
                 hash, attempts, latest>>

-----------------------------------------------------------------------------
Request ==
  \/ \E p \in Profile : Connect(p) \/ UpdateProfile(p)
  \/ Disconnect \/ Dispose

Chain ==
  \/ Skips \/ ConnectBegins \/ ConnectContinues \/ UpdateBegins
  \/ RestartBegins \/ DisconnectBegins \/ DisposeBegins \/ DisconnectsNothing

EngineAnswers ==
  \/ \E ok \in BOOLEAN :
       \/ ConnectSettles(ok) \/ ConnectStopSettles(ok) \/ UpdateSettles(ok)
       \/ DisconnectSettles(ok) \/ RestartSettles(ok)
  \/ DisposeSettles

Next ==
  \/ Request \/ Chain \/ EngineAnswers
  \/ EngineProgresses \/ EngineCrashes \/ SpawnFails \/ Wakes

Spec == Init /\ [][Next]_vars

\* The chain runs in microtasks, timers fire (strongly fair only because of
\* the bound MaxQueue, which the code has not), and every call of the engine
\* settles (MihomoEngine's CallsReturn).
FairSpec ==
  /\ Spec
  /\ WF_vars(Chain) /\ SF_vars(Wakes)
  /\ WF_vars(EngineProgresses) /\ SF_vars(EngineAnswers)

-----------------------------------------------------------------------------
(* Properties                                                             *)

\* No start and no restart is issued for a user who has disconnected, nor
\* after disposal, however late the operation or retry gets its turn.
StartsOnlyIfDesired ==
  [][call = "none" /\ call' \in {"start", "restart"} => desired /\ ~disposed]_vars

\* The fingerprint that suppresses repeated updates is the one of the
\* profile a running engine works with.
HashIsApplied == state = "running" /\ call = "none" => hash = applied

\* Requests take effect in their order: once the chain is empty, a running
\* engine works with the last profile asked for, unless that was refused.
LatestRequestWins ==
  queue = <<>> /\ state = "running" /\ latest # NoProfile =>
    applied \in {latest, Fallback[latest]}

\* A disconnect without a later connect ends with the engine down.
DisconnectHolds ==
  (<>[]~desired) => <>[](state \notin {"starting", "running", "reconnecting"})

\* A retry once scheduled (by an exit classified as a crash, a failed spawn or
\* a failed retry) is not lost: the engine runs again, the budget is
\* spent, a connect took over, which resets the count of attempts, or there
\* is no profile left to retry with.
CrashIsRetried ==
  sleepers > 0 ~>
    state = "running" \/ attempts \in {0, MaxAttempts} \/ ~current

=============================================================================
