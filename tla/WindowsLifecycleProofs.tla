----------------------- MODULE WindowsLifecycleProofs -----------------------
(***************************************************************************)
(* Safety of the lifecycle on Windows, for any profiles, any recovery      *)
(* budget and a chain of any length: what its manager promises, what a     *)
(* disconnect promises as long as none comes while an earlier one still    *)
(* waits for the engine, and that recovery has one owner, one attempt at a *)
(* time and, as long as no setting changes, always something pending.      *)
(***************************************************************************)
EXTENDS WindowsLifecycle, RuntimeManagerProofs

\* A connect whose epoch is current and a resume that was not superseded
\* both belong to a user who has not disconnected since.
EpochInv == connecting.fresh \/ resuming => intent # "down"

FinalInv == DisconnectIsFinal /\ EpochInv

-----------------------------------------------------------------------------
\* The steps of the chain and of the engine leave connectionDesired alone.
LEMMA ChainKeepsDesire ==
  ASSUME Skips \/ ConnectBegins \/ ConnectContinues \/ UpdateBegins
           \/ DisconnectBegins \/ DisconnectsNothing \/ DisposeBegins
  PROVE  UNCHANGED <<desired, disposed>>
  BY DEF Skips, ConnectBegins, ConnectContinues, UpdateBegins, DisconnectBegins,
         DisconnectsNothing, DisposeBegins, managerVars

LEMMA EngineKeepsDesire ==
  ASSUME NEW ok \in BOOLEAN,
         \/ ConnectSettles(ok) \/ ConnectStopSettles(ok) \/ UpdateSettles(ok)
         \/ DisconnectSettles(ok) \/ DisposeSettles
         \/ EngineProgresses \/ EngineCrashes
  PROVE  UNCHANGED <<desired, disposed>>
  BY DEF ConnectSettles, ConnectStopSettles, UpdateSettles, DisconnectSettles,
         DisposeSettles, EngineProgresses, EngineCrashes, managerVars

\* The services of the lifecycle that touch neither the lock nor the intent.
LEMMA Undisturbed ==
  ASSUME FinalInv, UNCHANGED <<connecting, resuming, intent, desired, disposed>>
  PROVE  FinalInv'
  BY DEF FinalInv, DisconnectIsFinal, EpochInv, Wanted

\* A connect that ends, or a resume that takes its place, keeps the epochs.
LEMMA Ended ==
  ASSUME FinalInv, UNCHANGED <<intent, desired, disposed>>,
         \/ connecting' = Free /\ UNCHANGED resuming
         \/ connecting' = Preparing /\ resuming' = FALSE /\ (resuming \/ Wanted)
         \/ connecting' = connecting /\ resuming' = FALSE
  PROVE  FinalInv'
  BY DEF FinalInv, DisconnectIsFinal, EpochInv, Wanted, Free, Preparing

-----------------------------------------------------------------------------
LEMMA FinalInit == LifecycleInit => FinalInv
  BY DEF LifecycleInit, Init, Free, FinalInv, DisconnectIsFinal, EpochInv, Wanted

LEMMA CommandsKeepFinal ==
  ASSUME ~MayDisconnectAgain, FinalInv, Commands
  PROVE  FinalInv'
<1>1. CASE UserConnects
  <2>1. /\ connecting' = Preparing /\ resuming' = FALSE /\ intent' # "down"
        /\ UNCHANGED <<desired, disposed>>
    BY <1>1 DEF UserConnects, TakesLock, vars, managerVars
  <2>. QED  BY <2>1 DEF FinalInv, DisconnectIsFinal, EpochInv, Preparing
<1>2. CASE UserDisconnects
  <2>1. connecting' = [connecting EXCEPT !.fresh = FALSE] /\ resuming' = FALSE
    BY <1>2 DEF UserDisconnects, Supersedes
  <2>2. ~desired'
    BY <1>2 DEF UserDisconnects, Disconnect, vars, managerVars
  <2>3. ~[connecting EXCEPT !.fresh = FALSE].fresh
    OBVIOUS
  <2>. QED  BY <2>1, <2>2, <2>3 DEF FinalInv, DisconnectIsFinal, EpochInv, Wanted
<1>3. CASE ProfileChanges
  <2>1. UNCHANGED <<connecting, resuming, intent, desired, disposed>>
    BY <1>3 DEF ProfileChanges, UpdateProfile, serviceVars
  <2>. QED  BY <2>1, Undisturbed
<1>4. CASE Resumes
  <2>1. Wanted /\ desired' = FALSE /\ UNCHANGED <<connecting, intent>>
    BY <1>4 DEF Resumes, Disconnect
  <2>. QED  BY <2>1 DEF FinalInv, DisconnectIsFinal, EpochInv, Wanted
<1>5. CASE Quit
  <2>1. desired' = FALSE /\ UNCHANGED <<connecting, resuming, intent>>
    BY <1>5 DEF Quit, Dispose, serviceVars
  <2>. QED  BY <2>1 DEF FinalInv, DisconnectIsFinal, EpochInv, Wanted
<1>. QED  BY <1>1, <1>2, <1>3, <1>4, <1>5 DEF Commands

LEMMA PreparationKeepsFinal ==
  ASSUME FinalInv, Preparation \/ RecoveryFires
  PROVE  FinalInv'
<1>1. CASE PreparationFails
  <2>1. connecting' = Free /\ UNCHANGED <<resuming, intent, desired, disposed>>
    BY <1>1 DEF PreparationFails, vars, managerVars
  <2>. QED  BY <2>1, Ended
<1>2. CASE Prepared /\ Superseded
  <2>1. connecting' = Free /\ UNCHANGED <<resuming, intent, desired, disposed>>
    BY <1>2 DEF Prepared, vars, managerVars
  <2>. QED  BY <2>1, Ended
<1>3. CASE Prepared /\ ~Superseded
  <2>1. intent # "down"
    BY <1>3 DEF Superseded, FinalInv, EpochInv
  <2>2. intent' # "down"
    BY <1>3, <2>1 DEF Prepared
  <2>. QED  BY <2>2 DEF FinalInv, DisconnectIsFinal, EpochInv
<1>4. CASE RecoveryFires
  <2>1. UNCHANGED <<intent, desired, disposed>>
    BY <1>4 DEF RecoveryFires, vars, managerVars
  <2>2. \/ UNCHANGED <<connecting, resuming>>
        \/ connecting' = Preparing /\ resuming' = FALSE /\ Wanted
    BY <1>4 DEF RecoveryFires, TakesLock
  <2>. QED  BY <2>1, <2>2, Undisturbed, Ended
<1>. QED  BY <1>1, <1>2, <1>3, <1>4 DEF Preparation

LEMMA ChainKeepsFinal ==
  ASSUME FinalInv, ChainMoves
  PROVE  FinalInv'
<1>1. UNCHANGED <<desired, disposed>>
  BY ChainKeepsDesire DEF ChainMoves, ConnectDropped, ConnectProceeds, UpdateProceeds,
     DisconnectProceeds, DisconnectAnsweredByNobody, DisposeProceeds
<1>2. CASE ConnectDropped
  BY <1>1, <1>2, Ended DEF ConnectDropped, Settled
<1>3. CASE ConnectProceeds \/ UpdateProceeds \/ DisconnectProceeds \/ DisposeProceeds
  BY <1>1, <1>3, Undisturbed DEF ConnectProceeds, UpdateProceeds, DisconnectProceeds,
     DisposeProceeds, serviceVars
<1>4. CASE DisconnectAnsweredByNobody
  BY <1>1, <1>4, Ended DEF DisconnectAnsweredByNobody, Continues, TakesLock
<1>. QED  BY <1>2, <1>3, <1>4 DEF ChainMoves

LEMMA AnswersKeepFinal ==
  ASSUME FinalInv, Answers \/ EngineMoves
  PROVE  FinalInv'
<1>1. CASE ConnectStopped \/ EngineMoves
  <2>1. UNCHANGED <<desired, disposed>>
    BY <1>1, EngineKeepsDesire DEF ConnectStopped, EngineMoves
  <2>. QED  BY <1>1, <2>1, Undisturbed DEF ConnectStopped, EngineMoves, serviceVars
<1>2. ASSUME NEW ok \in BOOLEAN, ConnectAnswered(ok)
      PROVE  FinalInv'
  <2>1. UNCHANGED <<desired, disposed>>
    BY <1>2, EngineKeepsDesire DEF ConnectAnswered
  <2>. QED  BY <1>2, <2>1, Ended DEF ConnectAnswered, Settled
<1>3. ASSUME NEW ok \in BOOLEAN, DisconnectAnswered(ok)
      PROVE  FinalInv'
  <2>1. UNCHANGED <<desired, disposed>>
    BY <1>3, EngineKeepsDesire DEF DisconnectAnswered
  <2>. QED  BY <1>3, <2>1, Ended DEF DisconnectAnswered, Continues, TakesLock
<1>4. ASSUME NEW ok \in BOOLEAN, UpdateAnswered(ok)
      PROVE  FinalInv'
  <2>1. UNCHANGED <<desired, disposed>>
    BY <1>4, EngineKeepsDesire DEF UpdateAnswered
  <2>. QED  BY <1>4, <2>1, Undisturbed DEF UpdateAnswered, serviceVars
<1>. QED  BY <1>1, <1>2, <1>3, <1>4 DEF Answers

-----------------------------------------------------------------------------
\* After a disconnect the connection is not wanted again until the user asks
\* for it: no connect, resume, recovery or retry that was under way in
\* RuntimeServiceImpl or RecoveryCoordinator can override it.
THEOREM DisconnectWins ==
  ASSUME ~MayDisconnectAgain
  PROVE  LifecycleSpec => []DisconnectIsFinal
<1>1. LifecycleInit => FinalInv
  BY FinalInit
<1>2. FinalInv /\ [LifecycleNext]_lifecycleVars => FinalInv'
  <2>1. CASE UNCHANGED lifecycleVars
    BY <2>1, Undisturbed DEF lifecycleVars, serviceVars, vars, managerVars
  <2>2. CASE LifecycleNext
    BY <2>2, CommandsKeepFinal, PreparationKeepsFinal, ChainKeepsFinal, AnswersKeepFinal
    DEF LifecycleNext
  <2>. QED  BY <2>1, <2>2
<1>3. FinalInv => DisconnectIsFinal
  BY DEF FinalInv
<1>. QED  BY <1>1, <1>2, <1>3, PTL DEF LifecycleSpec

-----------------------------------------------------------------------------
(* The manager of the lifecycle                                           *)

\* Whoever acts on the manager makes it do steps of its own, or none.
LEMMA LifecycleStepsManager == [LifecycleNext]_lifecycleVars => [Next]_vars
<1>. SUFFICES ASSUME [LifecycleNext]_lifecycleVars, ~UNCHANGED vars  PROVE Next
  OBVIOUS
<1>1. CASE Commands
  <2>1. Request
    BY <1>1 DEF Commands, UserConnects, UserDisconnects, ProfileChanges, Resumes, Quit, Request
  <2>. QED  BY <2>1 DEF Next
<1>2. CASE Preparation \/ RecoveryFires
  <2>1. Request
    BY <1>2 DEF Preparation, PreparationFails, Prepared, RecoveryFires, Request
  <2>. QED  BY <2>1 DEF Next
<1>3. CASE ChainMoves
  <2>1. Chain
    BY <1>3 DEF ChainMoves, ConnectDropped, ConnectProceeds, UpdateProceeds,
       DisconnectProceeds, DisconnectAnsweredByNobody, DisposeProceeds, Chain
  <2>. QED  BY <2>1 DEF Next
<1>4. CASE Answers
  <2>1. EngineAnswers
    BY <1>4 DEF Answers, ConnectStopped, ConnectAnswered, DisconnectAnswered,
       UpdateAnswered, EngineAnswers
  <2>. QED  BY <2>1 DEF Next
<1>5. CASE EngineMoves
  BY <1>5 DEF EngineMoves, EngineAnswers, Next
<1>6. CASE UNCHANGED lifecycleVars
  BY <1>6 DEF lifecycleVars
<1>. QED  BY <1>1, <1>2, <1>3, <1>4, <1>5, <1>6 DEF LifecycleNext

LEMMA LifecycleManagerInv == LifecycleSpec => [](DesiredInv /\ ManagerInv)
<1>1. LifecycleInit => DesiredInv /\ ManagerInv
  BY DesiredInit, HashInit, LatestInit DEF LifecycleInit, ManagerInv, DesiredInv
<1>2. DesiredInv /\ ManagerInv /\ [LifecycleNext]_lifecycleVars => (DesiredInv /\ ManagerInv)'
  <2>1. AutoReconnect = FALSE
    BY LifecycleAssumption, BoundAssumption
  <2>. QED  BY <2>1, LifecycleStepsManager, ManagerStep
<1>. QED  BY <1>1, <1>2, PTL DEF LifecycleSpec

\* The service, the power monitor and the recovery together drive the manager
\* only as it can be driven, so all that is proved of it holds here.
THEOREM LifecycleImplementsManager == LifecycleSpec => Spec
<1>1. LifecycleInit => Init
  BY DEF LifecycleInit
<1>. QED  BY <1>1, LifecycleStepsManager, PTL DEF LifecycleSpec, Spec

\* On Windows too the requests take effect in their order, and the fingerprint
\* that suppresses an update is the running engine's (RuntimeManager.ts:63-90).
THEOREM LifecycleKeepsOrder == LifecycleSpec => [](LatestRequestWins /\ HashIsApplied)
<1>1. DesiredInv /\ ManagerInv => LatestRequestWins /\ HashIsApplied
  BY DEF ManagerInv, LatestInv, HashInv, HashIsApplied
<1>. QED  BY <1>1, LifecycleManagerInv, PTL

-----------------------------------------------------------------------------
(* One recovery at a time                                                 *)

\* A coordinator in good order: a timer or a connect of its own belongs to a
\* cycle, there is one of them at a time, and exhaustion ends the cycle.
InOrder(c) ==
  /\ c \in Coordinator
  /\ c.timer \/ c.owns => c.recovering
  /\ ~(c.timer /\ c.owns)
  /\ c.exhausted => ~c.recovering

\* Pending: nothing to recover, or a timer runs.
AtRest(c) == ~c.owns /\ (c.recovering => c.timer)

LEMMA ResetInOrder ==
  ASSUME NEW c \in Coordinator
  PROVE  /\ InOrder(Reset(c)) /\ AtRest(Reset(c)) /\ ~Reset(c).recovering
         /\ Reset(c).exhausted = c.exhausted
<1>1. Reset(c) = [c EXCEPT !.recovering = FALSE, !.timer = FALSE, !.attempts = 0, !.owns = FALSE]
  BY DEF Reset
<1>2. Reset(c) \in Coordinator
  <2>1. 0 \in 0..MaxRecovery
    BY LifecycleAssumption
  <2>. QED  BY <1>1, <2>1 DEF Coordinator
<1>3. /\ Reset(c).recovering = FALSE /\ Reset(c).timer = FALSE /\ Reset(c).owns = FALSE
      /\ Reset(c).exhausted = c.exhausted
  BY <1>1 DEF Coordinator
<1>. QED  BY <1>2, <1>3 DEF InOrder, AtRest

LEMMA AttemptInOrder ==
  ASSUME NEW c \in Coordinator, c.recovering, ~c.timer, ~c.owns, ~c.exhausted
  PROVE  InOrder(Attempt(c)) /\ AtRest(Attempt(c))
<1>1. CASE ~Wanted
  BY <1>1, ResetInOrder DEF Attempt
<1>2. CASE Wanted /\ c.attempts < MaxRecovery
  <2>. DEFINE next == [c EXCEPT !.timer = TRUE, !.attempts = @ + 1]
  <2>1. Attempt(c) = next
    BY <1>2 DEF Attempt
  <2>2. c.attempts + 1 \in 0..MaxRecovery
    BY <1>2, LifecycleAssumption DEF Coordinator
  <2>3. next \in Coordinator
    BY <2>2 DEF Coordinator
  <2>4. /\ next.timer = TRUE /\ next.recovering = c.recovering
        /\ next.owns = c.owns /\ next.exhausted = c.exhausted
    BY DEF Coordinator
  <2>. HIDE DEF next
  <2>. QED  BY <2>1, <2>3, <2>4 DEF InOrder, AtRest
<1>3. CASE Wanted /\ ~(c.attempts < MaxRecovery)
  <2>1. Attempt(c) = Reset([c EXCEPT !.exhausted = TRUE])
    BY <1>3 DEF Attempt
  <2>2. [c EXCEPT !.exhausted = TRUE] \in Coordinator
    BY DEF Coordinator
  <2>. QED  BY <2>1, <2>2, ResetInOrder
<1>. QED  BY <1>1, <1>2, <1>3

\* What a state the engine announces may do to the coordinator: nothing, or
\* leave it at rest; nothing once disposed, and an end of the cycle when the
\* connection is not wanted any more.
LEMMA HearsInOrder ==
  ASSUME NEW c, InOrder(c), NEW s
  PROVE  /\ InOrder(Hears(c, s))
         /\ Hears(c, s) = c \/ AtRest(Hears(c, s))
         /\ disposed => Hears(c, s) = c
         /\ ~disposed /\ (~desired \/ s = "running") => ~Hears(c, s).recovering
<1>. c \in Coordinator
  BY DEF InOrder
<1>1. CASE disposed
  <2>1. Hears(c, s) = c
    BY <1>1 DEF Hears, Wanted
  <2>. QED  BY <1>1, <2>1
<1>2. CASE ~disposed /\ (~desired \/ s = "running")
  <2>1. Hears(c, s) = Reset([c EXCEPT !.exhausted = FALSE])
    BY <1>2 DEF Hears, Wanted
  <2>2. [c EXCEPT !.exhausted = FALSE] \in Coordinator
    BY DEF Coordinator
  <2>. QED  BY <1>2, <2>1, <2>2, ResetInOrder
<1>3. CASE /\ Wanted /\ s # "running" /\ s \in {"error", "crashed"}
           /\ ~c.exhausted /\ ~c.recovering
  <2>. DEFINE begun == [c EXCEPT !.recovering = TRUE]
  <2>1. Hears(c, s) = Attempt(begun)
    BY <1>3 DEF Hears, Wanted
  <2>2. /\ begun \in Coordinator /\ begun.recovering = TRUE
        /\ begun.timer = c.timer /\ begun.owns = c.owns /\ begun.exhausted = c.exhausted
    BY DEF Coordinator
  <2>3. ~c.timer /\ ~c.owns
    BY <1>3 DEF InOrder
  <2>. HIDE DEF begun
  <2>. QED  BY <1>3, <2>1, <2>2, <2>3, AttemptInOrder DEF Wanted
<1>4. CASE /\ Wanted /\ s # "running"
           /\ ~(s \in {"error", "crashed"} /\ ~c.exhausted /\ ~c.recovering)
  <2>1. Hears(c, s) = c
    BY <1>4 DEF Hears, Wanted
  <2>. QED  BY <1>4, <2>1 DEF Wanted
<1>. QED  BY <1>1, <1>2, <1>3, <1>4 DEF Wanted

LEMMA ResolvedInOrder ==
  ASSUME NEW c, InOrder(c)
  PROVE  /\ InOrder(Resolved(c)) /\ ~Resolved(c).owns
         /\ Resolved(c).recovering = c.recovering /\ Resolved(c).timer = c.timer
<1>1. c \in Coordinator
  BY DEF InOrder
<1>2. /\ Resolved(c) \in Coordinator /\ Resolved(c).owns = FALSE
      /\ Resolved(c).recovering = c.recovering /\ Resolved(c).timer = c.timer
      /\ Resolved(c).exhausted = c.exhausted
  BY <1>1 DEF Resolved, Coordinator
<1>. QED  BY <1>2 DEF InOrder

\* A rejected connect of the coordinator leaves it at rest while the
\* connection is wanted; any other leaves it as it was.
LEMMA RejectedInOrder ==
  ASSUME NEW c, InOrder(c)
  PROVE  /\ InOrder(Rejected(c)) /\ ~Rejected(c).owns
         /\ AtRest(Rejected(c)) \/ Rejected(c) = Resolved(c)
         /\ c.owns /\ Wanted => AtRest(Rejected(c))
<1>1. CASE c.owns /\ c.recovering /\ Wanted
  <2>1. Rejected(c) = Attempt(Resolved(c))
    BY <1>1 DEF Rejected, Resolved
  <2>2. ~c.timer /\ ~c.exhausted
    BY <1>1 DEF InOrder
  <2>3. Resolved(c) \in Coordinator /\ Resolved(c).exhausted = c.exhausted
    BY DEF Resolved, InOrder, Coordinator
  <2>. QED  BY <1>1, <2>1, <2>2, <2>3, ResolvedInOrder, AttemptInOrder DEF AtRest
<1>2. CASE ~(c.owns /\ c.recovering /\ Wanted)
  <2>1. Rejected(c) = Resolved(c)
    BY <1>2 DEF Rejected, Resolved
  <2>2. ~(c.owns /\ Wanted)
    BY <1>2 DEF InOrder
  <2>. QED  BY <2>1, <2>2, ResolvedInOrder
<1>. QED  BY <1>1, <1>2

\* The timer fires and the coordinator calls connect().
Fired == [recovery EXCEPT !.timer = FALSE, !.owns = TRUE]

LEMMA FiredInOrder ==
  ASSUME InOrder(recovery), recovery.timer
  PROVE  InOrder(Fired) /\ Fired.owns /\ Fired.recovering
<1>1. /\ Fired \in Coordinator /\ Fired.timer = FALSE /\ Fired.owns = TRUE
      /\ Fired.recovering = recovery.recovering /\ Fired.exhausted = recovery.exhausted
  BY DEF Fired, InOrder, Coordinator
<1>. QED  BY <1>1 DEF InOrder

LEMMA InOrderInit == LifecycleInit => InOrder(recovery)
BY LifecycleAssumption DEF LifecycleInit, InOrder, Coordinator

LEMMA InOrderStep ==
  ASSUME InOrder(recovery), [LifecycleNext]_lifecycleVars
  PROVE  InOrder(recovery)'
<1>. DEFINE r == recovery'
<1>a. InOrder(Heard) /\ InOrder(HeardStopping) /\ \A ok : InOrder(HeardStopped(ok))
  BY HearsInOrder DEF Heard, HeardStopping, HeardStopped
<1>b. recovery \in Coordinator
  BY DEF InOrder
<1>1. CASE Commands
  <2>1. r = recovery \/ r = Reset(recovery)
    BY <1>1 DEF Commands, UserConnects, UserDisconnects, ProfileChanges, Resumes, Quit
  <2>. QED  BY <1>b, <2>1, ResetInOrder
<1>2. CASE Preparation
  <2>1. r \in {recovery, Rejected(recovery), Resolved(recovery)}
    BY <1>2 DEF Preparation, PreparationFails, Prepared
  <2>. QED  BY <2>1, RejectedInOrder, ResolvedInOrder
<1>3. CASE RecoveryFires
  <2>1. recovery.timer /\ r \in {Reset(recovery), Rejected(Fired), Fired}
    BY <1>3 DEF RecoveryFires, Fired
  <2>. QED  BY <1>b, <2>1, ResetInOrder, FiredInOrder, RejectedInOrder
<1>4. CASE ChainMoves
  <2>1. r \in {recovery, Resolved(recovery), HeardStopping}
    BY <1>4 DEF ChainMoves, ConnectDropped, ConnectProceeds, UpdateProceeds,
       DisconnectProceeds, DisconnectAnsweredByNobody, DisposeProceeds
  <2>. QED  BY <1>a, <2>1, ResolvedInOrder
<1>5. CASE Answers \/ EngineMoves
  <2>1. \/ r \in {Heard, Resolved(Heard), Rejected(Heard)}
        \/ \E ok \in BOOLEAN : r \in {HeardStopped(ok), Rejected(HeardStopped(ok))}
    BY <1>5 DEF Answers, ConnectStopped, ConnectAnswered, DisconnectAnswered,
       UpdateAnswered, EngineMoves
  <2>. QED  BY <1>a, <2>1, ResolvedInOrder, RejectedInOrder
<1>6. CASE UNCHANGED lifecycleVars
  BY <1>6 DEF lifecycleVars, InOrder
<1>. QED  BY <1>1, <1>2, <1>3, <1>4, <1>5, <1>6 DEF LifecycleNext

\* RecoveryCoordinator.ts:76, 103-104: recovery has one owner and one attempt
\* at a time, and no failure starts a cycle after a spent budget.
THEOREM RecoveryIsSingle == LifecycleSpec => []OneRecoveryAtATime
<1>1. InOrder(recovery) => OneRecoveryAtATime
  BY DEF InOrder, OneRecoveryAtATime
<1>2. InOrder(recovery) /\ [LifecycleNext]_lifecycleVars => InOrder(recovery)'
  BY InOrderStep
<1>. QED  BY <1>1, <1>2, InOrderInit, PTL DEF LifecycleSpec

-----------------------------------------------------------------------------
(* While no setting changes: the shape of the chain                       *)

\* connectLock is held by the one connect of the chain, which is its newest
\* operation while the connection is wanted; a resume waits without the lock.
ShapeInv ==
  /\ connecting \in ConnectLock
  /\ \A i \in 1..Len(queue) :
       /\ queue[i].op \in {"connect", "disconnect", "dispose"}
       /\ queue[i].op = "connect" => connecting.phase = "managed"
       /\ queue[i].op = "dispose" => disposed
  /\ \A i, j \in 1..Len(queue) : queue[i].op = "connect" /\ queue[j].op = "connect" => i = j
  /\ call \in {"dispose", "disposed"} => disposed
  /\ desired /\ ~disposed /\ queue # <<>> => queue[Len(queue)].op = "connect"
  /\ resuming => connecting.phase = "free"

LEMMA ShapeInit == LifecycleInit => ShapeInv
BY DEF LifecycleInit, Init, EngineInit, Free, ConnectLock, ShapeInv

\* Steps that leave the chain alone.
LEMMA ShapeStays ==
  ASSUME ShapeInv, UNCHANGED <<queue, desired, disposed>>,
         connecting' \in ConnectLock, resuming' => connecting'.phase = "free",
         connecting'.phase = connecting.phase \/ connecting.phase # "managed",
         call' \in {"dispose", "disposed"} => disposed
  PROVE  ShapeInv'
BY DEF ShapeInv

\* Steps that take the head off the chain.
LEMMA ShapeSettles ==
  ASSUME ChainInv, ShapeInv, queue # <<>>, Settles, UNCHANGED <<desired, disposed>>,
         connecting' \in ConnectLock, resuming' => connecting'.phase = "free",
         \/ connecting'.phase = connecting.phase
         \/ connecting.phase # "managed"
         \/ Head(queue).op = "connect",
         call' \in {"dispose", "disposed"} => disposed
  PROVE  ShapeInv'
<1>1. /\ queue \in Seq(Operation) /\ Len(queue) \in Nat \ {0} /\ queue' \in Seq(Operation)
      /\ Head(queue) = queue[1] /\ Len(queue') = Len(queue) - 1
      /\ \A i \in 1..Len(queue') : queue'[i] = queue[i + 1]
  <2>1. queue \in Seq(Operation) /\ queue' = Tail(queue)
    BY DEF ChainInv, Settles
  <2>2. Len(queue) \in Nat \ {0} /\ Len(queue') = Len(queue) - 1
    BY <2>1
  <2>. QED  BY <2>1, <2>2, HeadSettled
<1>2. \A i \in 1..Len(queue') : i + 1 \in 1..Len(queue) /\ i + 1 # 1
  BY <1>1
<1>3. queue' # <<>> => queue'[Len(queue')] = queue[Len(queue)]
  BY <1>1
<1>4. ASSUME NEW i \in 1..Len(queue')
      PROVE  /\ queue'[i].op \in {"connect", "disconnect", "dispose"}
             /\ queue'[i].op = "connect" => connecting'.phase = "managed"
             /\ queue'[i].op = "dispose" => disposed'
  <2>1. i + 1 \in 1..Len(queue) /\ i + 1 # 1 /\ queue'[i] = queue[i + 1] /\ 1 \in 1..Len(queue)
    BY <1>1, <1>2
  <2>. QED  BY <1>1, <2>1 DEF ShapeInv
<1>5. ASSUME NEW i \in 1..Len(queue'), NEW j \in 1..Len(queue'),
             queue'[i].op = "connect", queue'[j].op = "connect"
      PROVE  i = j
  <2>1. i + 1 = j + 1
    BY <1>1, <1>2, <1>5 DEF ShapeInv
  <2>. QED  BY <2>1
<1>6. desired' /\ ~disposed' /\ queue' # <<>> => queue'[Len(queue')].op = "connect"
  BY <1>3 DEF ShapeInv
<1>. QED  BY <1>4, <1>5, <1>6 DEF ShapeInv

\* Requests that start a new revision.
LEMMA ShapeGrows ==
  ASSUME ChainInv, ShapeInv, NEW o \in {"connect", "disconnect", "dispose"},
         NEW p \in Profile \union {NoProfile}, NewRevision(o, p), UNCHANGED call,
         connecting' \in ConnectLock, resuming' => connecting'.phase = "free",
         IF o = "connect"
           THEN connecting.phase # "managed" /\ connecting'.phase = "managed"
           ELSE connecting'.phase = connecting.phase /\ ~desired',
         disposed => disposed', o = "dispose" => disposed'
  PROVE  ShapeInv'
<1>1. queue \in Seq(Operation) /\ Enqueue(Stale(queue), o, p)
  BY DEF ChainInv, NewRevision
<1>2. PICK q : /\ queue' = Append(q, Op(o, p))
               /\ q \in Seq(Operation) /\ Len(q) = Len(queue)
               /\ \A i \in 1..Len(queue) :
                    q[i].op = queue[i].op /\ q[i].profile = queue[i].profile
  BY <1>1, Enqueued
<1>3. Op(o, p) \in Operation /\ Op(o, p).op = o
  BY DEF Op, Operation
<1>4. /\ queue' # <<>> /\ Len(queue) \in Nat /\ Len(queue') = Len(queue) + 1
      /\ \A i \in 1..Len(queue) : queue'[i].op = queue[i].op
      /\ queue'[Len(queue')].op = o
      /\ \A i \in 1..Len(queue') : i \in 1..Len(queue) \/ i = Len(queue')
  <2>1. Len(queue) \in Nat
    BY <1>1
  <2>. QED  BY <1>2, <1>3, <2>1, Appended
<1>5. ASSUME NEW i \in 1..Len(queue')
      PROVE  /\ queue'[i].op \in {"connect", "disconnect", "dispose"}
             /\ queue'[i].op = "connect" => connecting'.phase = "managed"
             /\ queue'[i].op = "dispose" => disposed'
  BY <1>4 DEF ShapeInv
<1>6. ASSUME NEW i \in 1..Len(queue'), NEW j \in 1..Len(queue'),
             queue'[i].op = "connect", queue'[j].op = "connect"
      PROVE  i = j
  BY <1>4, <1>6 DEF ShapeInv
<1>. QED  BY <1>4, <1>5, <1>6 DEF ShapeInv

\* What taking and leaving the lock makes of it.
LEMMA Locks ==
  /\ Free \in ConnectLock /\ Free.phase = "free"
  /\ Preparing \in ConnectLock /\ Preparing.phase = "preparing" /\ Preparing.fresh
  /\ \A c \in ConnectLock :
       /\ [c EXCEPT !.fresh = FALSE] \in ConnectLock
       /\ [c EXCEPT !.fresh = FALSE].phase = c.phase
       /\ [c EXCEPT !.phase = "managed"] \in ConnectLock
       /\ [c EXCEPT !.phase = "managed"].phase = "managed"
BY DEF Free, Preparing, ConnectLock

LEMMA ShapeCommands ==
  ASSUME ~MayUpdate, ChainInv, ShapeInv, Commands \/ Preparation \/ RecoveryFires
  PROVE  ShapeInv'
<1>. connecting \in ConnectLock /\ NoProfile \in Profile \union {NoProfile}
  BY DEF ShapeInv
<1>1. CASE UserConnects \/ RecoveryFires
  <2>1. \/ UNCHANGED <<connecting, resuming>>
        \/ ~Locked /\ connecting' = Preparing /\ resuming' = FALSE
    BY <1>1 DEF UserConnects, RecoveryFires, TakesLock
  <2>2. UNCHANGED <<queue, desired, disposed, call>>
    BY <1>1 DEF UserConnects, RecoveryFires, vars, managerVars, engineVars
  <2>. QED  BY <2>1, <2>2, Locks, ShapeStays DEF ShapeInv, Locked
<1>2. CASE UserDisconnects
  <2>1. connecting' = [connecting EXCEPT !.fresh = FALSE] /\ resuming' = FALSE
    BY <1>2 DEF UserDisconnects, Supersedes
  <2>2. CASE Disconnect
    <3>1. /\ NewRevision("disconnect", NoProfile) /\ ~desired' /\ disposed' = disposed
          /\ UNCHANGED call
      BY <2>2 DEF Disconnect, engineVars
    <3>2. connecting' \in ConnectLock /\ connecting'.phase = connecting.phase /\ ~resuming'
      BY <2>1, Locks
    <3>. QED  BY <3>1, <3>2, ShapeGrows
  <2>3. CASE UNCHANGED vars
    BY <2>1, <2>3, Locks, ShapeStays DEF vars, managerVars, engineVars, ShapeInv
  <2>. QED  BY <1>2, <2>2, <2>3 DEF UserDisconnects
<1>3. CASE ProfileChanges
  BY <1>3 DEF ProfileChanges
<1>4. CASE Resumes
  <2>1. /\ NewRevision("disconnect", NoProfile) /\ ~desired' /\ disposed' = disposed
        /\ UNCHANGED <<call, connecting>> /\ connecting.phase = "free"
    BY <1>4 DEF Resumes, Locked, Disconnect, engineVars
  <2>. QED  BY <2>1, ShapeGrows
<1>5. CASE Quit
  <2>1. Dispose /\ UNCHANGED <<connecting, resuming>>
    BY <1>5 DEF Quit, serviceVars
  <2>. QED  BY <2>1, ShapeGrows DEF Dispose, engineVars, ShapeInv
<1>6. CASE PreparationFails \/ (Prepared /\ Superseded)
  <2>1. /\ connecting.phase = "preparing" /\ connecting' = Free /\ UNCHANGED resuming
        /\ UNCHANGED <<queue, desired, disposed, call>>
    BY <1>6 DEF PreparationFails, Prepared, vars, managerVars, engineVars
  <2>. QED  BY <2>1, Locks, ShapeStays DEF ShapeInv
<1>7. CASE Prepared /\ ~Superseded
  <2>1. PICK p \in Profile : Connect(p)
    BY <1>7 DEF Prepared
  <2>2. /\ connecting.phase = "preparing" /\ connecting' = [connecting EXCEPT !.phase = "managed"]
        /\ UNCHANGED resuming
    BY <1>7 DEF Prepared
  <2>3. NewRevision("connect", p) /\ UNCHANGED <<call, disposed>>
    BY <2>1 DEF Connect, engineVars
  <2>4. /\ connecting' \in ConnectLock /\ connecting'.phase = "managed" /\ ~resuming'
    BY <2>2, Locks DEF ShapeInv
  <2>. QED  BY <2>2, <2>3, <2>4, ShapeGrows
<1>. QED  BY <1>1, <1>2, <1>3, <1>4, <1>5, <1>6, <1>7 DEF Commands, Preparation

\* The head of the chain is one of its operations.
LEMMA HeadShape ==
  ASSUME ChainInv, ShapeInv, queue # <<>>
  PROVE  /\ Head(queue).op \in {"connect", "disconnect", "dispose"}
         /\ Head(queue).op = "connect" => connecting.phase = "managed"
         /\ Head(queue).op = "dispose" => disposed
<1>1. Head(queue) = queue[1] /\ 1 \in 1..Len(queue)
  BY HeadSettled DEF ChainInv
<1>. QED  BY <1>1 DEF ShapeInv

LEMMA ShapeChain ==
  ASSUME ChainInv, ShapeInv, ChainMoves
  PROVE  ShapeInv'
<1>. connecting \in ConnectLock
  BY DEF ShapeInv
<1>1. CASE ConnectDropped
  <2>1. /\ queue # <<>> /\ Head(queue).op = "connect" /\ Settles
        /\ UNCHANGED <<engineVars, desired, disposed>>
    BY <1>1 DEF ConnectDropped, Skips, AtHead, ConnectContinues, managerVars, ChainInv, Begin,
       Obsolete
  <2>2. connecting' = Free /\ UNCHANGED resuming
    BY <1>1 DEF ConnectDropped, Settled
  <2>. QED  BY <2>1, <2>2, Locks, ShapeSettles DEF ShapeInv, engineVars
<1>2. CASE ConnectProceeds \/ DisconnectProceeds
  <2>1. /\ UNCHANGED <<queue, desired, disposed, connecting, resuming>>
        /\ call' \in {"start", "stop"}
    BY <1>2 DEF ConnectProceeds, DisconnectProceeds, ConnectBegins, ConnectContinues,
       DisconnectBegins, Begin, managerVars, serviceVars, Obsolete
  <2>. QED  BY <2>1, ShapeStays DEF ShapeInv
<1>3. CASE UpdateProceeds
  BY <1>3, HeadShape DEF UpdateProceeds, UpdateBegins, Skips, AtHead
<1>4. CASE DisconnectAnsweredByNobody
  <2>1. /\ queue # <<>> /\ Settles /\ UNCHANGED <<engineVars, desired, disposed>>
    BY <1>4 DEF DisconnectAnsweredByNobody, DisconnectsNothing, AtHead
  <2>2. \/ resuming /\ connecting' = Preparing /\ resuming' = FALSE
        \/ connecting' = connecting /\ resuming' = FALSE
    BY <1>4 DEF DisconnectAnsweredByNobody, Continues, TakesLock
  <2>. QED  BY <2>1, <2>2, Locks, ShapeSettles DEF ShapeInv, engineVars
<1>5. CASE DisposeProceeds
  <2>1. /\ queue # <<>> /\ Head(queue).op = "dispose"
        /\ UNCHANGED <<queue, desired, disposed, connecting, resuming>>
    BY <1>5 DEF DisposeProceeds, DisposeBegins, AtHead, managerVars, serviceVars
  <2>. QED  BY <2>1, HeadShape, ShapeStays DEF ShapeInv
<1>. QED  BY <1>1, <1>2, <1>3, <1>4, <1>5 DEF ChainMoves

LEMMA ShapeAnswers ==
  ASSUME ChainInv, ShapeInv, Answers \/ EngineMoves
  PROVE  ShapeInv'
<1>. connecting \in ConnectLock
  BY DEF ShapeInv
<1>1. ASSUME NEW ok \in BOOLEAN, ConnectAnswered(ok)  PROVE ShapeInv'
  <2>1. /\ queue # <<>> /\ Head(queue).op = "connect" /\ Settles /\ call' = "none"
        /\ UNCHANGED <<desired, disposed>>
    BY <1>1 DEF ConnectAnswered, ConnectSettles, ConnectStopSettles, StartReturns, StopReturns,
       Return, ChainInv
  <2>2. connecting' = Free /\ UNCHANGED resuming
    BY <1>1 DEF ConnectAnswered, Settled
  <2>. QED  BY <2>1, <2>2, Locks, ShapeSettles DEF ShapeInv
<1>2. CASE ConnectStopped
  <2>1. UNCHANGED <<queue, desired, disposed, connecting, resuming>> /\ call' = "none"
    BY <1>2 DEF ConnectStopped, ConnectStopSettles, StopReturns, Return, serviceVars
  <2>. QED  BY <2>1, ShapeStays DEF ShapeInv
<1>3. ASSUME NEW ok \in BOOLEAN, DisconnectAnswered(ok)  PROVE ShapeInv'
  <2>1. /\ queue # <<>> /\ Settles /\ call' = "none" /\ UNCHANGED <<desired, disposed>>
    BY <1>3 DEF DisconnectAnswered, DisconnectSettles, StopReturns, Return
  <2>2. \/ resuming /\ connecting' = Preparing /\ resuming' = FALSE
        \/ connecting' = connecting /\ resuming' = FALSE
    BY <1>3 DEF DisconnectAnswered, Continues, TakesLock
  <2>. QED  BY <2>1, <2>2, Locks, ShapeSettles DEF ShapeInv
<1>4. ASSUME NEW ok \in BOOLEAN, UpdateAnswered(ok)  PROVE ShapeInv'
  BY <1>4, HeadShape DEF UpdateAnswered, UpdateSettles
<1>5. CASE EngineMoves /\ ~DisposeSettles
  <2>1. UNCHANGED <<queue, desired, disposed, call, connecting, resuming>>
    BY <1>5 DEF EngineMoves, EngineProgresses, EngineCrashes, Progress, Crash, managerVars,
       serviceVars
  <2>. QED  BY <2>1, ShapeStays DEF ShapeInv
<1>6. CASE EngineMoves /\ DisposeSettles
  <2>1. /\ queue # <<>> /\ Settles /\ UNCHANGED <<desired, disposed, connecting, resuming>>
        /\ call = "dispose"
    BY <1>6 DEF EngineMoves, DisposeSettles, DisposeReturns, serviceVars, ChainInv
  <2>. QED  BY <2>1, ShapeSettles DEF ShapeInv
<1>. QED  BY <1>1, <1>2, <1>3, <1>4, <1>5, <1>6 DEF Answers

LEMMA ShapeStep ==
  ASSUME ~MayUpdate, ChainInv, ShapeInv, [LifecycleNext]_lifecycleVars
  PROVE  ShapeInv'
<1>1. CASE UNCHANGED lifecycleVars
  BY <1>1 DEF lifecycleVars, vars, managerVars, engineVars, serviceVars, ShapeInv
<1>2. CASE LifecycleNext
  BY <1>2, ShapeCommands, ShapeChain, ShapeAnswers DEF LifecycleNext
<1>. QED  BY <1>1, <1>2


-----------------------------------------------------------------------------
(* While no setting changes: something is pending                         *)

Failed == state \in {"error", "crashed"}

\* The connect of the coordinator still prepares: nothing else is under way,
\* or a disconnect has come that will end it.
PreparesOwned ==
  /\ connecting.phase = "preparing" /\ call = "none" /\ Failed
  /\ \/ desired /\ connecting.fresh /\ queue = <<>>
     \/ ~desired /\ queue # <<>> /\ Head(queue).op = "disconnect" /\ phase = "waiting"

\* The connect of the coordinator is the head of the chain, alone in it or
\* before a disconnect, and its engine will say how it went.
ConnectsOwned ==
  /\ connecting.phase = "managed" /\ queue # <<>> /\ Head(queue).op = "connect"
  /\ desired => Len(queue) = 1
  /\ ~desired => Len(queue) > 1 /\ queue[2].op = "disconnect"
  /\ phase \in {"waiting", "stopped"} => desired /\ call = "none"
  /\ phase = "waiting" => Failed
  /\ phase = "stopping" => state = "crashed" /\ call = "stop"
  /\ phase = "stopped" => state = "idle" /\ ~live
  /\ phase = "calling" =>
       /\ call = "start" /\ state \in {"error", "idle", "starting"}
       /\ state = "idle" => ~live

\* The user disconnected while the connect of the coordinator was failing:
\* the cycle is over as soon as that disconnect gets its turn.
Orphaned ==
  /\ ~desired /\ queue # <<>> /\ Head(queue).op = "disconnect"
  /\ phase = "waiting" /\ call = "none" /\ state = "error"

PendingInv ==
  \/ AtRest(recovery)
  \/ recovery.owns /\ (PreparesOwned \/ ConnectsOwned)
  \/ ~recovery.owns /\ Orphaned

DisposedInv == disposed => ~recovery.recovering

\* What the steps of the lifecycle keep besides.
ContextInv == ManagerInv /\ ShapeInv /\ InOrder(recovery) /\ DisposedInv

LEMMA PendingInit == LifecycleInit => PendingInv /\ DisposedInv
BY DEF LifecycleInit, PendingInv, DisposedInv, AtRest

\* What a coordinator at rest hears, and how its connects end, leaves it so.
LEMMA AtRestStays ==
  ASSUME NEW c, InOrder(c), AtRest(c)
  PROVE  AtRest(Resolved(c)) /\ AtRest(Rejected(c)) /\ \A s : AtRest(Hears(c, s))
<1>1. AtRest(Resolved(c))
  BY ResolvedInOrder DEF AtRest
<1>. QED  BY <1>1, RejectedInOrder, HearsInOrder

\* A cycle that is over is over: neither is there a timer nor a connect.
LEMMA OverAtRest ==
  ASSUME NEW c, InOrder(c), ~c.recovering
  PROVE  AtRest(c) /\ ~Resolved(c).recovering /\ ~Rejected(c).recovering
<1>1. ~c.owns /\ AtRest(c) /\ ~Resolved(c).recovering
  BY ResolvedInOrder DEF InOrder, AtRest
<1>2. Rejected(c) = Resolved(c)
  BY <1>1 DEF Rejected, Resolved
<1>. QED  BY <1>1, <1>2

\* What the coordinator hears of one step.
LEMMA HeardInOrder ==
  ASSUME InOrder(recovery), NEW r,
         r \in {Heard, HeardStopping} \/ \E ok \in BOOLEAN : r = HeardStopped(ok)
  PROVE  /\ InOrder(r)
         /\ r = recovery \/ AtRest(r)
         /\ disposed => r = recovery
<1>1. r = recovery \/ \E s : r = Hears(recovery, s)
  BY DEF Heard, HeardStopping, HeardStopped
<1>. QED  BY <1>1, HearsInOrder

LEMMA DisposedStep ==
  ASSUME InOrder(recovery), DisposedInv, [LifecycleNext]_lifecycleVars
  PROVE  DisposedInv'
<1>1. CASE Quit
  BY <1>1, ResetInOrder DEF Quit, DisposedInv, InOrder
<1>. SUFFICES ASSUME ~Quit, disposed'  PROVE ~recovery'.recovering
  BY <1>1 DEF DisposedInv
<1>2. disposed /\ ~recovery.recovering /\ ~recovery.timer
  <2>1. disposed' = disposed
    <3>1. CASE Commands
      BY <3>1 DEF Commands, UserConnects, UserDisconnects, ProfileChanges, Resumes, Disconnect,
         UpdateProfile, vars, managerVars
    <3>2. CASE Preparation \/ RecoveryFires
      BY <3>2 DEF Preparation, PreparationFails, Prepared, RecoveryFires, Connect, vars,
         managerVars
    <3>3. CASE ChainMoves
      BY <3>3, ChainKeepsDesire DEF ChainMoves, ConnectDropped, ConnectProceeds, UpdateProceeds,
         DisconnectProceeds, DisconnectAnsweredByNobody, DisposeProceeds
    <3>4. CASE Answers \/ EngineMoves
      BY <3>4, EngineKeepsDesire DEF Answers, ConnectStopped, ConnectAnswered, DisconnectAnswered,
         UpdateAnswered, EngineMoves
    <3>5. CASE UNCHANGED lifecycleVars
      BY <3>5 DEF lifecycleVars, vars, managerVars
    <3>. QED  BY <3>1, <3>2, <3>3, <3>4, <3>5 DEF LifecycleNext
  <2>. QED  BY <2>1 DEF DisposedInv, InOrder
<1>3. CASE Commands
  BY <1>2, <1>3 DEF Commands, UserConnects, UserDisconnects, ProfileChanges, Resumes
<1>4. CASE Preparation
  <2>1. recovery' \in {recovery, Rejected(recovery), Resolved(recovery)}
    BY <1>4 DEF Preparation, PreparationFails, Prepared
  <2>. QED  BY <1>2, <2>1, OverAtRest
<1>5. CASE RecoveryFires
  BY <1>2, <1>5 DEF RecoveryFires
<1>6. CASE ChainMoves
  <2>1. recovery' \in {recovery, Resolved(recovery), HeardStopping}
    BY <1>6 DEF ChainMoves, ConnectDropped, ConnectProceeds, UpdateProceeds,
       DisconnectProceeds, DisconnectAnsweredByNobody, DisposeProceeds
  <2>. QED  BY <1>2, <2>1, OverAtRest, HeardInOrder
<1>7. CASE Answers \/ EngineMoves
  <2>1. \E r : /\ r = Heard \/ \E ok \in BOOLEAN : r = HeardStopped(ok)
               /\ recovery' \in {r, Resolved(r), Rejected(r)}
    BY <1>7 DEF Answers, ConnectStopped, ConnectAnswered, DisconnectAnswered,
       UpdateAnswered, EngineMoves
  <2>. QED  BY <1>2, <2>1, OverAtRest, HeardInOrder
<1>8. CASE UNCHANGED lifecycleVars
  BY <1>2, <1>8 DEF lifecycleVars
<1>. QED  BY <1>3, <1>4, <1>5, <1>6, <1>7, <1>8 DEF LifecycleNext

\* An event of the loop finds no disconnect whose turn it is.
LEMMA AtEvents ==
  ASSUME NextEvent
  PROVE  /\ ~Orphaned
         /\ PreparesOwned => desired /\ connecting.fresh /\ queue = <<>>
         /\ ConnectsOwned => phase \notin {"waiting", "stopped"}
BY DEF NextEvent, Orphaned, PreparesOwned, ConnectsOwned

\* A connect of the coordinator is wanted by a user who is still there.
LEMMA OwnedIsUp ==
  ASSUME InOrder(recovery), DisposedInv, recovery.owns
  PROVE  recovery.recovering /\ ~recovery.timer /\ ~disposed
BY DEF InOrder, DisposedInv

\* While the connection is wanted and nobody holds the lock, the chain rests.
LEMMA Unlocked ==
  ASSUME ManagerInv, ShapeInv, Wanted, ~Locked
  PROVE  queue = <<>> /\ phase = "waiting" /\ call = "none"
<1>1. queue = <<>>
  <2>1. ASSUME queue # <<>>  PROVE FALSE
    <3>1. queue \in Seq(Operation) /\ Len(queue) \in 1..Len(queue)
      BY <2>1 DEF ManagerInv, ChainInv
    <3>. QED  BY <2>1, <3>1 DEF ShapeInv, Wanted, Locked
  <2>. QED  BY <2>1
<1>2. phase = "waiting"
  BY <1>1 DEF ManagerInv, ChainInv
<1>3. call \in Call \union {"none", "disposed"} /\ call \notin Call
  BY <1>2 DEF ManagerInv, LatestInv, CallInv
<1>4. call # "disposed"
  BY DEF ShapeInv, Wanted
<1>. QED  BY <1>1, <1>2, <1>3, <1>4

\* The requests of the user, of the power monitor and of the exit.
LEMMA PendingCommands ==
  ASSUME ~MayUpdate, ContextInv, PendingInv, Commands
  PROVE  PendingInv'
<1>1. CASE UserConnects \/ Resumes
  <2>1. ~Locked /\ NextEvent /\ recovery' = recovery
    BY <1>1 DEF UserConnects, Resumes
  <2>2. AtRest(recovery)
    BY <2>1, AtEvents DEF PendingInv, PreparesOwned, ConnectsOwned, Locked
  <2>. QED  BY <2>1, <2>2 DEF PendingInv
<1>2. CASE UserDisconnects
  <2>1. /\ NextEvent /\ recovery' = recovery
        /\ connecting' = [connecting EXCEPT !.fresh = FALSE]
    BY <1>2 DEF UserDisconnects, Supersedes
  <2>2. connecting'.phase = connecting.phase
    BY <2>1, Locks DEF ContextInv, ShapeInv
  <2>3. CASE AtRest(recovery)
    BY <2>1, <2>3 DEF PendingInv
  <2>4. ASSUME UNCHANGED vars, recovery.owns, ConnectsOwned  PROVE PendingInv'
    <3>1. UNCHANGED <<queue, phase, desired, state, live, call>>
      BY <2>4 DEF vars, managerVars, engineVars
    <3>2. ConnectsOwned'
      BY <2>2, <2>4, <3>1 DEF ConnectsOwned, Failed
    <3>. QED  BY <2>1, <2>4, <3>2 DEF PendingInv
  <2>5. ASSUME Disconnect
        PROVE  /\ desired' = FALSE /\ UNCHANGED <<state, live, call, phase>>
               /\ \E q \in Seq(Operation) :
                    /\ queue' = Append(q, Op("disconnect", NoProfile))
                    /\ Len(q) = Len(queue)
                    /\ \A i \in 1..Len(queue) : q[i].op = queue[i].op
    <3>1. Enqueue(Stale(queue), "disconnect", NoProfile) /\ queue \in Seq(Operation)
      BY <2>5 DEF Disconnect, NewRevision, ContextInv, ManagerInv, ChainInv
    <3>2. desired' = FALSE /\ UNCHANGED <<state, live, call, phase>>
      BY <2>5 DEF Disconnect, engineVars
    <3>. QED  BY <3>1, <3>2, Enqueued
  <2>6. Op("disconnect", NoProfile) \in Operation /\ Op("disconnect", NoProfile).op = "disconnect"
    BY OpType
  <2>7. CASE recovery.owns /\ PreparesOwned
    <3>1. queue = <<>>
      BY <2>1, <2>7, AtEvents
    <3>2. Disconnect
      BY <1>2, <3>1 DEF UserDisconnects, Disconnecting
    <3>3. phase = "waiting"
      BY <3>1 DEF ContextInv, ManagerInv, ChainInv
    <3>4. PICK q \in Seq(Operation) :
            queue' = Append(q, Op("disconnect", NoProfile)) /\ Len(q) = Len(queue)
      BY <2>5, <3>2
    <3>5. q = <<>>
      BY <3>1, <3>4
    <3>6. queue' # <<>> /\ Head(queue').op = "disconnect"
      BY <2>6, <3>4, <3>5
    <3>7. PreparesOwned'
      BY <2>2, <2>5, <2>7, <3>2, <3>3, <3>6 DEF PreparesOwned, Failed
    <3>. QED  BY <2>1, <2>7, <3>7 DEF PendingInv
  <2>8. CASE recovery.owns /\ ConnectsOwned /\ Disconnect
    <3>1. phase \notin {"waiting", "stopped"}
      BY <2>1, <2>8, AtEvents
    <3>2. PICK q \in Seq(Operation) :
            /\ queue' = Append(q, Op("disconnect", NoProfile)) /\ Len(q) = Len(queue)
            /\ \A i \in 1..Len(queue) : q[i].op = queue[i].op
      BY <2>5, <2>8
    <3>3. queue \in Seq(Operation) /\ queue # <<>> /\ Head(queue) = queue[1]
          /\ Len(queue) \in Nat \ {0}
      BY <2>8, HeadSettled DEF ConnectsOwned, ContextInv, ManagerInv, ChainInv
    <3>4. queue' # <<>> /\ Len(queue') = Len(queue) + 1 /\ Head(queue') = queue'[1]
      BY <2>6, <3>2, <3>3
    <3>5. queue'[1].op = queue[1].op
      BY <2>6, <3>2, <3>3, Appended
    <3>6. queue'[2].op = "disconnect"
      <4>0. /\ queue'[Len(q) + 1] = Op("disconnect", NoProfile)
            /\ \A i \in 1..Len(q) : queue'[i] = q[i]
        BY <2>6, <3>2, Appended
      <4>1. CASE Len(queue) = 1
        BY <2>6, <3>2, <4>0, <4>1
      <4>2. CASE Len(queue) > 1
        <5>1. queue[2].op = "disconnect"
          BY <2>8, <4>2 DEF ConnectsOwned
        <5>2. 2 \in 1..Len(queue)
          BY <3>3, <4>2
        <5>3. queue'[2] = q[2] /\ q[2].op = queue[2].op
          BY <3>2, <4>0, <5>2
        <5>. QED  BY <5>1, <5>3
      <4>3. \A n \in Nat \ {0} : n = 1 \/ n > 1
        OBVIOUS
      <4>4. Len(queue) = 1 \/ Len(queue) > 1
        BY <3>3, <4>3
      <4>. QED  BY <4>1, <4>2, <4>4
    <3>7. ConnectsOwned'
      BY <2>2, <2>5, <2>8, <3>1, <3>3, <3>4, <3>5, <3>6 DEF ConnectsOwned
    <3>. QED  BY <2>1, <2>8, <3>7 DEF PendingInv
  <2>. QED  BY <1>2, <2>1, <2>3, <2>4, <2>7, <2>8, AtEvents DEF PendingInv, UserDisconnects
<1>3. CASE ProfileChanges
  BY <1>3 DEF ProfileChanges
<1>4. CASE Quit
  BY <1>4, ResetInOrder DEF Quit, PendingInv, ContextInv, InOrder
<1>. QED  BY <1>1, <1>2, <1>3, <1>4 DEF Commands

\* The connect that prepares, and the recovery timer.
LEMMA PendingPreparation ==
  ASSUME ContextInv, PendingInv, Preparation \/ RecoveryFires
  PROVE  PendingInv'
<1>. InOrder(recovery) /\ DisposedInv
  BY DEF ContextInv
<1>1. CASE PreparationFails
  <2>1. connecting.phase = "preparing" /\ NextEvent /\ recovery' = Rejected(recovery)
    BY <1>1 DEF PreparationFails
  <2>2. CASE AtRest(recovery)
    BY <2>1, <2>2, AtRestStays DEF PendingInv
  <2>3. CASE recovery.owns
    <3>1. PreparesOwned /\ desired
      BY <2>1, <2>3, AtEvents DEF PendingInv, AtRest, ConnectsOwned
    <3>2. Wanted
      BY <2>3, <3>1, OwnedIsUp DEF Wanted
    <3>. QED  BY <2>1, <2>3, <3>2, RejectedInOrder DEF PendingInv
  <2>. QED  BY <2>1, <2>2, <2>3, AtEvents DEF PendingInv
<1>2. CASE Prepared
  <2>1. /\ connecting.phase = "preparing" /\ NextEvent
        /\ Superseded => recovery' = Resolved(recovery)
        /\ ~Superseded => recovery' = recovery
    BY <1>2 DEF Prepared
  <2>2. CASE AtRest(recovery)
    BY <2>1, <2>2, AtRestStays DEF PendingInv
  <2>3. CASE recovery.owns
    <3>1. PreparesOwned /\ desired /\ connecting.fresh /\ queue = <<>> /\ call = "none"
      BY <2>1, <2>3, AtEvents DEF PendingInv, AtRest, ConnectsOwned, PreparesOwned
    <3>2. ~Superseded
      BY <3>1 DEF Superseded
    <3>3. PICK p \in Profile : Connect(p)
      BY <1>2, <3>2 DEF Prepared
    <3>4. /\ desired' = TRUE /\ UNCHANGED <<state, call, phase>> /\ phase = "waiting"
      BY <3>1, <3>3 DEF Connect, engineVars, ContextInv, ManagerInv, ChainInv
    <3>5. connecting'.phase = "managed"
      BY <1>2, <3>2, Locks DEF Prepared, ContextInv, ShapeInv
    <3>6. PICK q : queue' = Append(q, Op("connect", p)) /\ q \in Seq(Operation) /\ Len(q) = Len(queue)
      BY <3>3, Enqueued DEF Connect, NewRevision, ContextInv, ManagerInv, ChainInv
    <3>7. q = <<>>
      BY <3>1, <3>6
    <3>8. Op("connect", p) \in Operation /\ Op("connect", p).op = "connect"
      BY OpType
    <3>9. queue' # <<>> /\ Len(queue') = 1 /\ Head(queue').op = "connect"
      BY <3>6, <3>7, <3>8
    <3>10. ConnectsOwned'
      BY <3>1, <3>4, <3>5, <3>9 DEF ConnectsOwned, PreparesOwned, Failed
    <3>. QED  BY <2>1, <2>3, <3>2, <3>10 DEF PendingInv
  <2>. QED  BY <2>1, <2>2, <2>3, AtEvents DEF PendingInv
<1>3. CASE RecoveryFires
  <2>1. recovery.timer /\ ~recovery.owns /\ NextEvent /\ UNCHANGED vars
    BY <1>3 DEF RecoveryFires, InOrder
  <2>2. InOrder(Fired) /\ Fired.owns
    BY <2>1, FiredInOrder
  <2>3. CASE ~Wanted \/ state \notin {"error", "crashed"}
    <3>1. recovery' = Reset(recovery)
      BY <1>3, <2>3 DEF RecoveryFires
    <3>. QED  BY <3>1, ResetInOrder DEF PendingInv, InOrder
  <2>4. CASE Wanted /\ state \in {"error", "crashed"} /\ Locked
    <3>1. recovery' = Rejected(Fired)
      BY <1>3, <2>4 DEF RecoveryFires, Fired
    <3>. QED  BY <2>2, <2>4, <3>1, RejectedInOrder DEF PendingInv
  <2>5. CASE Wanted /\ state \in {"error", "crashed"} /\ ~Locked
    <3>1. recovery' = Fired /\ connecting' = Preparing
      BY <1>3, <2>5 DEF RecoveryFires, Fired, TakesLock
    <3>2. queue = <<>> /\ phase = "waiting" /\ call = "none"
      BY <2>5, Unlocked DEF ContextInv
    <3>3. PreparesOwned'
      BY <2>1, <2>5, <3>1, <3>2, Locks
         DEF PreparesOwned, Failed, Wanted, vars, managerVars, engineVars
    <3>. QED  BY <2>2, <3>1, <3>3 DEF PendingInv
  <2>. QED  BY <2>3, <2>4, <2>5
<1>. QED  BY <1>1, <1>2, <1>3 DEF Preparation

\* The steps of the chain.
LEMMA PendingChain ==
  ASSUME ContextInv, PendingInv, ChainMoves
  PROVE  PendingInv'
<1>. InOrder(recovery) /\ DisposedInv
  BY DEF ContextInv
<1>0. /\ InOrder(HeardStopping)
      /\ HeardStopping = recovery \/ AtRest(HeardStopping)
      /\ AtRest(recovery) => AtRest(HeardStopping)
  <2>1. InOrder(HeardStopping) /\ (HeardStopping = recovery \/ AtRest(HeardStopping))
    BY HeardInOrder
  <2>. QED  BY <2>1
<1>1. CASE ConnectDropped
  <2>1. recovery' = Resolved(recovery)
    BY <1>1 DEF ConnectDropped
  <2>2. CASE AtRest(recovery)
    BY <2>1, <2>2, AtRestStays DEF PendingInv
  <2>3. /\ Head(queue).op = "connect" /\ phase \in {"waiting", "stopped"} /\ Obsolete
    BY <1>1 DEF ConnectDropped, Skips, AtHead, ConnectContinues, ContextInv, ManagerInv, ChainInv
  <2>4. ~(recovery.owns /\ ConnectsOwned)
    <3>1. SUFFICES ASSUME recovery.owns, ConnectsOwned  PROVE FALSE
      OBVIOUS
    <3>2. Len(queue) = 1 /\ queue # <<>>
      BY <2>3, <3>1 DEF ConnectsOwned
    <3>3. Head(queue) = queue[Len(queue)]
      BY <3>2 DEF ContextInv, ManagerInv, ChainInv
    <3>4. Head(queue).fresh
      BY <3>2, <3>3 DEF ContextInv, ManagerInv, LatestInv, NewestInv
    <3>. QED  BY <2>3, <3>1, <3>4, OwnedIsUp DEF Obsolete
  <2>5. ~PreparesOwned /\ ~Orphaned
    <3>1. queue # <<>>
      BY <1>1 DEF ConnectDropped, Skips, AtHead, ConnectContinues, ContextInv, ManagerInv, ChainInv
    <3>. QED  BY <2>3, <3>1 DEF PreparesOwned, Orphaned
  <2>. QED  BY <2>2, <2>4, <2>5 DEF PendingInv
<1>2. CASE ConnectProceeds /\ ConnectBegins
  <2>1. /\ queue # <<>> /\ Head(queue).op = "connect" /\ phase = "waiting"
        /\ UNCHANGED <<queue, desired, connecting, live>>
        /\ IF state = "crashed" THEN Begin("stop", NoProfile) /\ phase' = "stopping"
                                ELSE Begin("start", Head(queue).profile) /\ phase' = "calling"
    BY <1>2 DEF ConnectProceeds, ConnectBegins, AtHead, managerVars, serviceVars, Begin
  <2>2. recovery' \in {recovery, HeardStopping}
    BY <1>2, <2>1 DEF ConnectProceeds, ConnectContinues
  <2>3. CASE AtRest(recovery) \/ recovery' # recovery
    BY <1>0, <2>2, <2>3 DEF PendingInv
  <2>4. CASE recovery.owns /\ recovery' = recovery
    <3>1. ConnectsOwned
      BY <2>1, <2>4 DEF PendingInv, AtRest, PreparesOwned
    <3>2. UNCHANGED state
      BY <2>1 DEF Begin
    <3>3. desired /\ Failed /\ Len(queue) = 1 /\ connecting.phase = "managed"
      BY <2>1, <3>1 DEF ConnectsOwned
    <3>4. \/ state = "crashed" /\ call' = "stop" /\ phase' = "stopping"
          \/ state = "error" /\ call' = "start" /\ phase' = "calling"
      BY <2>1, <3>3 DEF Begin, Failed
    <3>5. ConnectsOwned'
      BY <2>1, <3>2, <3>3, <3>4 DEF ConnectsOwned
    <3>. QED  BY <2>4, <3>5 DEF PendingInv
  <2>. QED  BY <2>1, <2>3, <2>4 DEF PendingInv, Orphaned
<1>3. CASE ConnectProceeds /\ ~ConnectBegins
  <2>1. /\ phase = "stopped" /\ Begin("start", Head(queue).profile) /\ phase' = "calling"
        /\ UNCHANGED <<queue, desired, connecting, recovery, live>>
    BY <1>3 DEF ConnectProceeds, ConnectContinues, managerVars, serviceVars, Begin
  <2>2. CASE AtRest(recovery)
    BY <2>1, <2>2 DEF PendingInv
  <2>3. CASE recovery.owns
    <3>1. ConnectsOwned
      <4>1. queue # <<>> /\ Head(queue).op = "connect"
        BY <2>1 DEF ContextInv, ManagerInv, ChainInv
      <4>. QED  BY <2>3, <4>1 DEF PendingInv, AtRest, PreparesOwned
    <3>2. /\ desired /\ state = "idle" /\ ~live /\ Len(queue) = 1
          /\ queue # <<>> /\ Head(queue).op = "connect" /\ connecting.phase = "managed"
      BY <2>1, <3>1 DEF ConnectsOwned
    <3>3. state' = state /\ call' = "start"
      BY <2>1 DEF Begin
    <3>4. ConnectsOwned'
      BY <2>1, <3>2, <3>3 DEF ConnectsOwned
    <3>. QED  BY <2>1, <2>3, <3>4 DEF PendingInv
  <2>. QED  BY <2>1, <2>2, <2>3 DEF PendingInv, Orphaned
<1>4. CASE UpdateProceeds
  <2>1. queue # <<>> /\ Head(queue).op = "update"
    BY <1>4 DEF UpdateProceeds, UpdateBegins, Skips, AtHead
  <2>. QED  BY <2>1, HeadShape DEF ContextInv, ManagerInv
<1>5. CASE DisconnectProceeds
  <2>1. recovery' = HeardStopping /\ queue # <<>> /\ Head(queue).op = "disconnect"
    BY <1>5 DEF DisconnectProceeds, DisconnectBegins, AtHead
  <2>2. CASE AtRest(recovery)
    BY <1>0, <2>1, <2>2 DEF PendingInv
  <2>3. ASSUME ~desired, Failed  PROVE AtRest(recovery')
    <3>1. HeardStopping = Hears(recovery, state)
      BY <2>3 DEF HeardStopping, Failed
    <3>2. ~HeardStopping.recovering
      BY <2>3, <3>1, HearsInOrder DEF DisposedInv
    <3>. QED  BY <1>0, <2>1, <3>2, OverAtRest
  <2>4. CASE recovery.owns /\ PreparesOwned
    BY <2>1, <2>3, <2>4 DEF PendingInv, PreparesOwned
  <2>5. CASE Orphaned
    BY <2>1, <2>3, <2>5 DEF PendingInv, Orphaned, Failed
  <2>6. ~ConnectsOwned
    BY <2>1 DEF ConnectsOwned
  <2>. QED  BY <2>2, <2>4, <2>5, <2>6 DEF PendingInv
<1>6. CASE DisconnectAnsweredByNobody
  <2>1. call = "disposed" /\ queue # <<>> /\ Head(queue).op = "disconnect" /\ recovery' = recovery
    BY <1>6 DEF DisconnectAnsweredByNobody, DisconnectsNothing, AtHead
  <2>. QED  BY <2>1 DEF PendingInv, PreparesOwned, ConnectsOwned, Orphaned
<1>7. CASE DisposeProceeds
  <2>1. queue # <<>> /\ Head(queue).op = "dispose" /\ recovery' = recovery
    BY <1>7 DEF DisposeProceeds, DisposeBegins, AtHead
  <2>. QED  BY <2>1 DEF PendingInv, PreparesOwned, ConnectsOwned, Orphaned
<1>. QED  BY <1>1, <1>2, <1>3, <1>4, <1>5, <1>6, <1>7 DEF ChainMoves

\* The answers of the engine.
LEMMA PendingAnswers ==
  ASSUME ContextInv, PendingInv, Answers
  PROVE  PendingInv'
<1>. InOrder(recovery) /\ DisposedInv
  BY DEF ContextInv
<1>0. /\ InOrder(Heard)
      /\ Heard = recovery \/ AtRest(Heard)
      /\ \A ok \in BOOLEAN :
           InOrder(HeardStopped(ok)) /\ (HeardStopped(ok) = recovery \/ AtRest(HeardStopped(ok)))
  <2>1. InOrder(Heard) /\ (Heard = recovery \/ AtRest(Heard))
    BY HeardInOrder
  <2>2. ASSUME NEW ok \in BOOLEAN
        PROVE  /\ InOrder(HeardStopped(ok))
               /\ HeardStopped(ok) = recovery \/ AtRest(HeardStopped(ok))
    BY HeardInOrder
  <2>. QED  BY <2>1, <2>2
<1>1. CASE ConnectStopped
  <2>1. /\ NextEvent /\ phase = "stopping" /\ phase' = "stopped" /\ recovery' = Heard
        /\ StopReturns(TRUE) /\ UNCHANGED <<queue, desired, connecting>>
    BY <1>1 DEF ConnectStopped, ConnectStopSettles, serviceVars
  <2>2. CASE AtRest(Heard)
    BY <2>1, <2>2 DEF PendingInv
  <2>3. CASE Heard = recovery /\ recovery.owns
    <3>1. queue # <<>> /\ Head(queue).op = "connect"
      BY <2>1 DEF ContextInv, ManagerInv, ChainInv
    <3>2. ConnectsOwned
      BY <2>1, <2>3, <3>1 DEF PendingInv, AtRest, PreparesOwned
    <3>3. state = "crashed" /\ connecting.phase = "managed"
      BY <2>1, <3>2 DEF ConnectsOwned
    <3>4. state' = "idle" /\ ~live' /\ call' = "none"
      BY <2>1, <3>3 DEF StopReturns, Return
    <3>5. desired
      <4>1. Heard = Hears(recovery, state')
        BY <3>3, <3>4 DEF Heard
      <4>2. ~desired => ~Heard.recovering
        BY <2>3, <4>1, OwnedIsUp, HearsInOrder
      <4>. QED  BY <2>3, <4>2, OwnedIsUp
    <3>6. Len(queue) = 1
      BY <3>2, <3>5 DEF ConnectsOwned
    <3>7. ConnectsOwned'
      BY <2>1, <3>1, <3>3, <3>4, <3>5, <3>6 DEF ConnectsOwned
    <3>. QED  BY <2>1, <2>3, <3>7 DEF PendingInv
  <2>4. CASE Heard = recovery /\ ~recovery.owns
    BY <2>1, <2>4, AtEvents DEF PendingInv
  <2>. QED  BY <1>0, <2>2, <2>3, <2>4
<1>2. ASSUME NEW ok \in BOOLEAN, ConnectAnswered(ok), ConnectSettles(ok)  PROVE PendingInv'
  <2>1. /\ NextEvent /\ phase = "calling" /\ queue # <<>> /\ Head(queue).op = "connect"
        /\ StartReturns(ok) /\ Settles /\ desired' = desired /\ disposed' = disposed
    BY <1>2 DEF ConnectAnswered, ConnectSettles
  <2>2. recovery' = IF ok THEN Resolved(Heard) ELSE Rejected(Heard)
    BY <1>2, <2>1 DEF ConnectAnswered, ConnectStopSettles
  <2>3. CASE AtRest(Heard)
    <3>1. AtRest(Resolved(Heard)) /\ AtRest(Rejected(Heard))
      BY <1>0, <2>3, AtRestStays
    <3>2. AtRest(recovery')
      BY <2>2, <3>1
    <3>. QED  BY <3>2 DEF PendingInv
  <2>4. CASE Heard = recovery /\ ~recovery.owns
    <3>1. AtRest(recovery)
      BY <2>1, <2>4, AtEvents DEF PendingInv
    <3>. QED  BY <2>3, <2>4, <3>1
  <2>5. CASE Heard = recovery /\ recovery.owns
    <3>1. ConnectsOwned /\ ~disposed /\ recovery.recovering /\ ~recovery.timer
      BY <2>1, <2>5, AtEvents, OwnedIsUp DEF PendingInv, AtRest
    <3>2. /\ state \in {"error", "idle", "starting"} /\ (state = "idle" => ~live)
          /\ ~desired => Len(queue) > 1 /\ queue[2].op = "disconnect"
      BY <2>1, <3>1 DEF ConnectsOwned
    <3>3. state' # state => desired /\ state' # "running"
      <4>1. ASSUME state' # state  PROVE Heard = Hears(recovery, state')
        BY <4>1 DEF Heard
      <4>. QED  BY <2>5, <3>1, <4>1, HearsInOrder
    <3>4. ~ok
      BY <2>1, <3>3 DEF StartReturns
    <3>5. CASE desired
      <4>1. Wanted
        BY <3>1, <3>5 DEF Wanted
      <4>. QED  BY <2>2, <2>5, <3>4, <4>1, RejectedInOrder DEF PendingInv
    <3>6. CASE ~desired
      <4>1. state = "error" /\ state' = "error"
        BY <2>1, <3>2, <3>3, <3>4, <3>6 DEF StartReturns
      <4>2. queue' = Tail(queue) /\ phase' = "waiting" /\ call' = "none"
        BY <2>1 DEF Settles, StartReturns, Return
      <4>3. queue' # <<>> /\ Head(queue').op = "disconnect"
        <5>. DEFINE t == Tail(queue)
        <5>1. queue \in Seq(Operation) /\ Len(queue) > 1 /\ queue[2].op = "disconnect"
          BY <3>2, <3>6 DEF ContextInv, ManagerInv, ChainInv
        <5>2. t \in Seq(Operation) /\ Len(t) = Len(queue) - 1
          BY <2>1, <5>1
        <5>3. \A i \in 1..Len(t) : t[i] = queue[i + 1]
          BY <2>1, <5>1, HeadSettled
        <5>4. queue' = t
          BY <4>2
        <5>. HIDE DEF t
        <5>5. Len(queue) - 1 > 0
          BY <5>1
        <5>6. t # <<>> /\ Head(t) = t[1] /\ 1 \in 1..Len(t)
          BY <5>2, <5>5
        <5>7. t[1] = queue[2]
          BY <5>3, <5>6
        <5>. QED  BY <5>1, <5>4, <5>6, <5>7
      <4>4. Orphaned'
        BY <2>1, <3>6, <4>1, <4>2, <4>3 DEF Orphaned
      <4>5. ~recovery'.owns
        BY <2>2, <2>5, <3>4, RejectedInOrder
      <4>. QED  BY <4>4, <4>5 DEF PendingInv
    <3>. QED  BY <3>5, <3>6
  <2>. QED  BY <1>0, <2>3, <2>4, <2>5
<1>3. ASSUME ConnectAnswered(FALSE), ConnectStopSettles(FALSE)  PROVE PendingInv'
  <2>. DEFINE h == HeardStopped(FALSE)
  <2>1. /\ NextEvent /\ phase = "stopping" /\ recovery' = Rejected(h) /\ h = Hears(recovery, "error")
    BY <1>3 DEF ConnectAnswered, ConnectSettles, ConnectStopSettles, HeardStopped
  <2>2. InOrder(h) /\ (h = recovery \/ AtRest(h))
    BY <1>0
  <2>. HIDE DEF h
  <2>3. CASE AtRest(h)
    BY <2>1, <2>2, <2>3, AtRestStays DEF PendingInv
  <2>4. CASE h = recovery /\ ~recovery.owns
    <3>1. AtRest(recovery)
      BY <2>1, <2>4, AtEvents DEF PendingInv
    <3>. QED  BY <2>3, <2>4, <3>1
  <2>5. CASE h = recovery /\ recovery.owns
    <3>1. ~disposed /\ recovery.recovering
      BY <2>5, OwnedIsUp
    <3>2. desired
      BY <2>1, <2>5, <3>1, HearsInOrder
    <3>. QED  BY <2>1, <2>5, <3>1, <3>2, RejectedInOrder DEF PendingInv, Wanted
  <2>. QED  BY <2>2, <2>3, <2>4, <2>5
<1>4. ASSUME NEW ok \in BOOLEAN, DisconnectAnswered(ok)  PROVE PendingInv'
  <2>1. /\ queue # <<>> /\ Head(queue).op = "disconnect" /\ phase = "calling"
        /\ recovery' = HeardStopped(ok)
    BY <1>4 DEF DisconnectAnswered, DisconnectSettles
  <2>2. AtRest(recovery)
    BY <2>1 DEF PendingInv, PreparesOwned, ConnectsOwned, Orphaned
  <2>. QED  BY <1>0, <2>1, <2>2 DEF PendingInv
<1>5. ASSUME NEW ok \in BOOLEAN, UpdateAnswered(ok)  PROVE PendingInv'
  <2>1. queue # <<>> /\ Head(queue).op = "update"
    BY <1>5 DEF UpdateAnswered, UpdateSettles
  <2>. QED  BY <2>1, HeadShape DEF ContextInv, ManagerInv
<1>6. ASSUME NEW ok \in BOOLEAN, ConnectAnswered(ok)  PROVE PendingInv'
  <2>1. ConnectSettles(ok) \/ (~ok /\ ConnectStopSettles(ok))
    BY <1>6 DEF ConnectAnswered
  <2>. QED  BY <1>2, <1>3, <1>6, <2>1
<1>. QED  BY <1>1, <1>4, <1>5, <1>6 DEF Answers

\* The engine at work.
LEMMA PendingEngine ==
  ASSUME ContextInv, PendingInv, EngineMoves
  PROVE  PendingInv'
<1>. InOrder(recovery) /\ DisposedInv
  BY DEF ContextInv
<1>0. /\ NextEvent /\ recovery' = Heard /\ connecting' = connecting
      /\ InOrder(Heard)
      /\ Heard = recovery \/ AtRest(Heard)
  BY HeardInOrder DEF EngineMoves, serviceVars
<1>1. CASE AtRest(Heard)
  BY <1>0, <1>1 DEF PendingInv
<1>2. CASE Heard = recovery /\ ~recovery.owns
  BY <1>0, <1>2, AtEvents DEF PendingInv
<1>3. CASE Heard = recovery /\ recovery.owns
  <2>1. ~disposed
    BY <1>3, OwnedIsUp
  <2>2. ~DisposeSettles
    BY <2>1 DEF DisposeSettles, DisposeReturns, ContextInv, ShapeInv
  <2>3. /\ Progress \/ Crash
        /\ UNCHANGED <<queue, phase, desired, call>>
    BY <1>0, <2>2 DEF EngineMoves, EngineProgresses, EngineCrashes, Progress, Crash, managerVars
  <2>4. CASE PreparesOwned
    <3>1. Crash
      BY <2>3, <2>4 DEF PreparesOwned, Progress, Call
    <3>2. state \in {"error", "crashed"} /\ state' \in {"error", "crashed"}
      BY <2>4, <3>1 DEF PreparesOwned, Failed, Crash, TryTransition
    <3>3. PreparesOwned'
      BY <1>0, <2>3, <2>4, <3>2 DEF PreparesOwned, Failed
    <3>. QED  BY <1>0, <1>3, <3>3 DEF PendingInv
  <2>5. CASE ConnectsOwned
    <3>1. phase \notin {"waiting", "stopped"}
      BY <1>0, <2>5, AtEvents
    <3>2. CASE phase = "stopping"
      <4>1. state = "crashed" /\ call = "stop"
        BY <2>5, <3>2 DEF ConnectsOwned
      <4>2. state' = "crashed"
        BY <2>3, <4>1
           DEF Progress, Crash, TryTransition, CanTransition, Successors, ValidTransitions
      <4>3. ConnectsOwned'
        BY <1>0, <2>3, <2>5, <3>2, <4>1, <4>2 DEF ConnectsOwned
      <4>. QED  BY <1>0, <1>3, <4>3 DEF PendingInv
    <3>3. CASE phase = "calling"
      <4>1. /\ call = "start" /\ state \in {"error", "idle", "starting"}
            /\ state = "idle" => ~live
        BY <2>5, <3>3 DEF ConnectsOwned
      <4>2. state' \in {"error", "idle", "starting"} /\ (state' = "idle" => ~live')
        <5>1. CASE Crash
          BY <4>1, <5>1 DEF Crash, TryTransition, CanTransition, ValidTransitions
        <5>2. CASE Progress
          <6>1. CASE state = "starting"
            BY <4>1, <5>2, <6>1 DEF Progress
          <6>2. CASE state # "starting" /\ live
            BY <4>1, <5>2, <6>2 DEF Progress
          <6>3. CASE state # "starting" /\ ~live
            <7>1. state' \in {"error", "idle", "starting"}
              BY <4>1, <5>2, <6>3 DEF Progress, Successors, ValidTransitions
            <7>2. ~live'
              BY <5>2, <6>3 DEF Progress
            <7>. QED  BY <7>1, <7>2
          <6>. QED  BY <6>1, <6>2, <6>3
        <5>. QED  BY <2>3, <5>1, <5>2
      <4>3. ConnectsOwned'
        BY <1>0, <2>3, <2>5, <3>3, <4>1, <4>2 DEF ConnectsOwned
      <4>. QED  BY <1>0, <1>3, <4>3 DEF PendingInv
    <3>4. phase \in Phase
      BY DEF ContextInv, ManagerInv, ChainInv
    <3>. QED  BY <3>1, <3>2, <3>3, <3>4 DEF Phase
  <2>. QED  BY <1>3, <2>4, <2>5 DEF PendingInv, AtRest
<1>. QED  BY <1>0, <1>1, <1>2, <1>3

LEMMA PendingStep ==
  ASSUME ~MayUpdate, ContextInv, PendingInv, [LifecycleNext]_lifecycleVars
  PROVE  PendingInv'
<1>1. CASE UNCHANGED lifecycleVars
  BY <1>1 DEF lifecycleVars, serviceVars, vars, managerVars, engineVars, PendingInv, AtRest,
     PreparesOwned, ConnectsOwned, Orphaned, Failed
<1>. QED  BY <1>1, PendingCommands, PendingPreparation, PendingChain, PendingAnswers,
             PendingEngine DEF LifecycleNext

\* RecoveryCoordinator.ts:88 ("already in a recovery cycle"): as long as no
\* setting changes while connected, the flag that keeps failures from starting
\* a second cycle is only set while the first one has something pending, so
\* that no failure is left to nobody.
THEOREM RecoveryStaysPending ==
  ASSUME ~MayUpdate
  PROVE  LifecycleSpec => []RecoveryIsPending
<1>. DEFINE Inv == ShapeInv /\ InOrder(recovery) /\ DisposedInv /\ PendingInv
<1>1. LifecycleInit => Inv
  BY ShapeInit, InOrderInit, PendingInit
<1>2. /\ Inv /\ (DesiredInv /\ ManagerInv) /\ (DesiredInv /\ ManagerInv)'
      /\ [LifecycleNext]_lifecycleVars
      => Inv'
  <2>. SUFFICES ASSUME Inv, ManagerInv, [LifecycleNext]_lifecycleVars  PROVE Inv'
    OBVIOUS
  <2>1. ContextInv /\ ChainInv
    BY DEF ContextInv, ManagerInv
  <2>2. ShapeInv'
    BY <2>1, ShapeStep
  <2>3. InOrder(recovery)'
    BY InOrderStep
  <2>4. DisposedInv'
    BY DisposedStep
  <2>5. PendingInv'
    BY <2>1, PendingStep
  <2>. QED  BY <2>2, <2>3, <2>4, <2>5
<1>3. Inv => RecoveryIsPending
  BY DEF PendingInv, AtRest, Orphaned, RecoveryIsPending, Wanted
<1>. QED  BY <1>1, <1>2, <1>3, LifecycleManagerInv, PTL DEF LifecycleSpec

-----------------------------------------------------------------------------
(* Types                                                                   *)

\* What the service and its listener remember; the coordinator's own type is
\* part of its good order.
ServiceTypes ==
  /\ connecting \in ConnectLock
  /\ {resuming, proxy} \subseteq BOOLEAN
  /\ intent \in {"down", "asked", "up"}

LEMMA ServiceTypesInit == LifecycleInit => ServiceTypes
<1>1. Free \in ConnectLock
  BY DEF Free, ConnectLock
<1>. QED  BY <1>1 DEF LifecycleInit, ServiceTypes

LEMMA ServiceTypesStep ==
  ASSUME ServiceTypes, [LifecycleNext]_lifecycleVars
  PROVE  ServiceTypes'
<1>1. Free \in ConnectLock /\ Preparing \in ConnectLock
      /\ [connecting EXCEPT !.fresh = FALSE] \in ConnectLock
      /\ [connecting EXCEPT !.phase = "managed"] \in ConnectLock
  BY DEF ServiceTypes, Free, Preparing, ConnectLock
<1>2. SetsProxy => proxy' \in BOOLEAN
  BY DEF ServiceTypes, SetsProxy
<1>3. CASE Commands
  BY <1>1, <1>3 DEF Commands, UserConnects, UserDisconnects, ProfileChanges, Resumes,
     Quit, TakesLock, Supersedes, ServiceTypes, serviceVars
<1>4. CASE Preparation
  BY <1>1, <1>4 DEF Preparation, PreparationFails, Prepared, ServiceTypes
<1>5. CASE RecoveryFires
  BY <1>1, <1>5 DEF RecoveryFires, TakesLock, ServiceTypes
<1>6. CASE ChainMoves
  BY <1>1, <1>6 DEF ChainMoves, ConnectDropped, ConnectProceeds, UpdateProceeds,
     DisconnectProceeds, DisconnectAnsweredByNobody, DisposeProceeds, Settled,
     Continues, TakesLock, ServiceTypes, serviceVars
<1>7. CASE Answers
  BY <1>1, <1>2, <1>7 DEF Answers, ConnectStopped, ConnectAnswered, DisconnectAnswered,
     UpdateAnswered, Settled, Continues, TakesLock, ServiceTypes, serviceVars
<1>8. CASE EngineMoves
  BY <1>2, <1>8 DEF EngineMoves, ServiceTypes, serviceVars
<1>9. CASE UNCHANGED lifecycleVars
  BY <1>9 DEF lifecycleVars, serviceVars, ServiceTypes
<1>. QED  BY <1>3, <1>4, <1>5, <1>6, <1>7, <1>8, <1>9 DEF LifecycleNext

\* RuntimeServiceImpl.ts and RecoveryCoordinator.ts: whatever the user, the power
\* monitor, the recovery and the engine do, all that the service, the coordinator,
\* the manager and the engine hold is what they are declared to hold; a recovery
\* never counts past its budget.
THEOREM LifecycleIsTyped == LifecycleSpec => []LifecycleTypeOK
<1>1. LifecycleSpec => []TypeOK
  BY ManagerIsTyped, LifecycleImplementsManager, PTL
<1>2. LifecycleSpec => []InOrder(recovery)
  <2>1. InOrder(recovery) /\ [LifecycleNext]_lifecycleVars => InOrder(recovery)'
    BY InOrderStep
  <2>. QED  BY <2>1, InOrderInit, PTL DEF LifecycleSpec
<1>3. LifecycleSpec => []ServiceTypes
  <2>1. ServiceTypes /\ [LifecycleNext]_lifecycleVars => ServiceTypes'
    BY ServiceTypesStep
  <2>. QED  BY <2>1, ServiceTypesInit, PTL DEF LifecycleSpec
<1>4. TypeOK /\ InOrder(recovery) /\ ServiceTypes => LifecycleTypeOK
  BY DEF InOrder, ServiceTypes, LifecycleTypeOK
<1>. QED  BY <1>1, <1>2, <1>3, <1>4, PTL

=============================================================================
