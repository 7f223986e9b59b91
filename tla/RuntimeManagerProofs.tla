------------------------ MODULE RuntimeManagerProofs ------------------------
(***************************************************************************)
(* Safety of the manager for any profiles, any engine that keeps the       *)
(* contract, any retry budget and a chain of any length up to MaxQueue.    *)
(***************************************************************************)
EXTENDS RuntimeManager, SequenceTheorems, TLAPS

\* What is in the chain, and which operation a phase belongs to.
ChainInv ==
  /\ queue \in Seq(Operation) /\ phase \in Phase /\ sleepers \in Nat
  /\ phase # "waiting" => queue # <<>>
  /\ phase \in {"stopping", "stopped"} => Head(queue).op = "connect"

\* An operation that may start the engine and is not obsolete, and a retry
\* that sleeps, both belong to a user who is still connected.
WantedInv ==
  /\ \A i \in 1..Len(queue) :
       queue[i].fresh /\ queue[i].op \in {"connect", "restart"} => desired
  /\ sleepers > 0 => desired

DesiredInv == ChainInv /\ WantedInv

-----------------------------------------------------------------------------
\* A new revision makes every operation of the chain obsolete and changes
\* nothing else of it.
LEMMA StaleChain ==
  ASSUME NEW q \in Seq(Operation)
  PROVE  /\ Stale(q) \in Seq(Operation)
         /\ Len(Stale(q)) = Len(q)
         /\ \A i \in 1..Len(q) : /\ Stale(q)[i].fresh = FALSE
                                 /\ Stale(q)[i].op = q[i].op
                                 /\ Stale(q)[i].profile = q[i].profile
<1>0. ASSUME NEW r \in Operation
      PROVE  /\ [r EXCEPT !.fresh = FALSE] \in Operation
             /\ [r EXCEPT !.fresh = FALSE].fresh = FALSE
             /\ [r EXCEPT !.fresh = FALSE].op = r.op
             /\ [r EXCEPT !.fresh = FALSE].profile = r.profile
  BY DEF Operation
<1>1. \A i \in 1..Len(q) : /\ [q[i] EXCEPT !.fresh = FALSE] \in Operation
                           /\ [q[i] EXCEPT !.fresh = FALSE].fresh = FALSE
                           /\ [q[i] EXCEPT !.fresh = FALSE].op = q[i].op
                           /\ [q[i] EXCEPT !.fresh = FALSE].profile = q[i].profile
  BY <1>0
<1>2. DOMAIN q = 1..Len(q) /\ Len(q) \in Nat
  OBVIOUS
<1>3. Stale(q) \in [1..Len(q) -> Operation]
  BY <1>1, <1>2 DEF Stale
<1>4. Stale(q) \in Seq(Operation) /\ Len(Stale(q)) = Len(q)
  BY <1>2, <1>3
<1>5. \A i \in 1..Len(q) : Stale(q)[i] = [q[i] EXCEPT !.fresh = FALSE]
  BY <1>2 DEF Stale
<1>. QED  BY <1>1, <1>4, <1>5

\* Appending to the chain keeps its head and its other operations.
LEMMA Appended ==
  ASSUME NEW q \in Seq(Operation), NEW o \in Operation
  PROVE  /\ Append(q, o) \in Seq(Operation)
         /\ Append(q, o) # <<>>
         /\ q # <<>> => Head(Append(q, o)) = Head(q)
         /\ Len(Append(q, o)) = Len(q) + 1
         /\ \A i \in 1..Len(q) : Append(q, o)[i] = q[i]
         /\ Append(q, o)[Len(q) + 1] = o
BY AppendProperties, HeadTailAppend

\* However it joins the chain, an operation is appended, and those before it
\* lose at most their revision.
LEMMA Enqueued ==
  ASSUME queue \in Seq(Operation), NEW o, NEW p,
         Enqueue(queue, o, p) \/ Enqueue(Stale(queue), o, p)
  PROVE  \E q : /\ queue' = Append(q, Op(o, p))
                /\ q \in Seq(Operation) /\ Len(q) = Len(queue)
                /\ \A i \in 1..Len(queue) :
                     q[i].op = queue[i].op /\ q[i].profile = queue[i].profile
<1>1. CASE Enqueue(queue, o, p)
  BY <1>1 DEF Enqueue
<1>2. CASE Enqueue(Stale(queue), o, p)
  <2>. DEFINE st == Stale(queue)
  <2>1. /\ st \in Seq(Operation) /\ Len(st) = Len(queue)
        /\ \A i \in 1..Len(queue) :
             st[i].op = queue[i].op /\ st[i].profile = queue[i].profile
    BY StaleChain
  <2>2. queue' = Append(st, Op(o, p))
    BY <1>2 DEF Enqueue
  <2>. HIDE DEF st
  <2>. QED  BY <2>1, <2>2
<1>. QED  BY <1>1, <1>2

\* What remains of the chain when its head has settled.
LEMMA HeadSettled ==
  ASSUME NEW q \in Seq(Operation), q # <<>>
  PROVE  /\ Tail(q) \in Seq(Operation)
         /\ Head(q) = q[1] /\ 1 \in 1..Len(q)
         /\ \A i \in 1..Len(Tail(q)) : Tail(q)[i] = q[i + 1] /\ i + 1 \in 1..Len(q)
OBVIOUS

LEMMA OpType ==
  ASSUME NEW o \in {"connect", "disconnect", "update", "restart", "dispose"},
         NEW p \in Profile \union {NoProfile}
  PROVE  /\ Op(o, p) \in Operation
         /\ Op(o, p).op = o /\ Op(o, p).fresh = TRUE
BY DEF Op, Operation

-----------------------------------------------------------------------------
LEMMA DesiredInit == Init => DesiredInv
BY DEF Init, DesiredInv, ChainInv, WantedInv, Phase

\* A step that only takes the head off the chain, or leaves the chain, and
\* wakes nobody keeps the invariant.
LEMMA ChainShrinks ==
  ASSUME DesiredInv, desired' = desired, sleepers' = sleepers,
         \/ queue' = queue /\ phase' = phase
         \/ queue # <<>> /\ Settles
  PROVE  DesiredInv'
<1>1. CASE queue' = queue /\ phase' = phase
  BY <1>1 DEF DesiredInv, ChainInv, WantedInv
<1>2. CASE queue # <<>> /\ Settles
  <2>1. ChainInv'
    BY <1>2, HeadSettled DEF DesiredInv, ChainInv, Settles, Phase
  <2>2. \A i \in 1..Len(queue') : \E j \in 1..Len(queue) : queue'[i] = queue[j]
    BY <1>2, HeadSettled DEF DesiredInv, ChainInv, Settles
  <2>3. WantedInv'
    BY <2>2 DEF DesiredInv, WantedInv
  <2>. QED  BY <2>1, <2>3 DEF DesiredInv
<1>. QED  BY <1>1, <1>2

\* A request that starts a new revision: what it enqueues is wanted, and
\* nothing else counts any more.
LEMMA RevisionWanted ==
  ASSUME DesiredInv, phase' = phase,
         NEW o \in {"connect", "disconnect", "dispose"},
         NEW p \in Profile \union {NoProfile},
         NewRevision(o, p), o = "connect" => desired'
  PROVE  DesiredInv'
<1>. DEFINE q == Stale(queue)
<1>1. /\ q \in Seq(Operation) /\ Len(q) = Len(queue)
      /\ \A i \in 1..Len(queue) : q[i].fresh = FALSE /\ q[i].op = queue[i].op
  BY StaleChain DEF DesiredInv, ChainInv
<1>2. queue' = Append(q, Op(o, p)) /\ sleepers' = 0
  BY DEF NewRevision, Enqueue
<1>3. Op(o, p) \in Operation /\ Op(o, p).op = o
  BY DEF Op, Operation
<1>. HIDE DEF q
<1>4. ChainInv'
  <2>1. queue' \in Seq(Operation) /\ queue' # <<>>
    BY <1>1, <1>2, <1>3, Appended
  <2>2. ASSUME phase \in {"stopping", "stopped"}  PROVE Head(queue').op = "connect"
    <3>1. queue # <<>> /\ Head(queue).op = "connect"
      BY <2>2 DEF DesiredInv, ChainInv
    <3>2. 1 \in 1..Len(queue) /\ Head(queue) = queue[1]
      BY <3>1, HeadSettled DEF DesiredInv, ChainInv
    <3>3. q # <<>> /\ Head(q) = q[1]
      BY <1>1, <3>2
    <3>4. Head(queue') = Head(q)
      BY <1>1, <1>2, <1>3, <3>3, Appended
    <3>. QED  BY <1>1, <3>1, <3>2, <3>3, <3>4
  <2>. QED  BY <1>2, <2>1, <2>2 DEF DesiredInv, ChainInv
<1>5. ASSUME NEW i \in 1..Len(queue'), queue'[i].fresh,
             queue'[i].op \in {"connect", "restart"}
      PROVE  desired'
  <2>1. i \in 1..Len(q) \/ i = Len(q) + 1
    BY <1>1, <1>2, <1>3, Appended
  <2>2. CASE i \in 1..Len(q)
    <3>1. queue'[i] = q[i]
      BY <1>1, <1>2, <1>3, <2>2, Appended
    <3>. QED  BY <1>1, <1>5, <2>2, <3>1
  <2>3. CASE i = Len(q) + 1
    <3>1. queue'[i] = Op(o, p)
      BY <1>1, <1>2, <1>3, <2>3, Appended
    <3>. QED  BY <1>3, <1>5, <3>1
  <2>. QED  BY <2>1, <2>2, <2>3
<1>. QED  BY <1>2, <1>4, <1>5 DEF DesiredInv, WantedInv

\* An operation of the current revision joins the chain; a retry only while
\* the connection is wanted.
LEMMA JoinsWanted ==
  ASSUME DesiredInv, phase' = phase, desired' = desired,
         NEW o \in {"update", "restart"}, NEW p \in Profile \union {NoProfile},
         Enqueue(queue, o, p), sleepers' \in Nat, sleepers' <= sleepers,
         o = "restart" => sleepers > 0
  PROVE  DesiredInv'
<1>1. queue' = Append(queue, Op(o, p)) /\ queue \in Seq(Operation)
  BY DEF Enqueue, DesiredInv, ChainInv
<1>2. Op(o, p) \in Operation /\ Op(o, p).op = o
  BY OpType, ZenonT(40)
<1>3. ChainInv'
  BY <1>1, <1>2, Appended DEF DesiredInv, ChainInv
<1>4. ASSUME NEW i \in 1..Len(queue'), queue'[i].fresh,
             queue'[i].op \in {"connect", "restart"}
      PROVE  desired'
  <2>1. i \in 1..Len(queue) \/ i = Len(queue) + 1
    BY <1>1, <1>2, Appended
  <2>2. CASE i \in 1..Len(queue)
    <3>1. queue'[i] = queue[i]
      BY <1>1, <1>2, <2>2, Appended
    <3>. QED  BY <1>4, <2>2, <3>1 DEF DesiredInv, WantedInv
  <2>3. CASE i = Len(queue) + 1
    <3>1. queue'[i] = Op(o, p)
      BY <1>1, <1>2, <2>3, Appended
    <3>. QED  BY <1>2, <1>4, <3>1 DEF DesiredInv, WantedInv
  <2>. QED  BY <2>1, <2>2, <2>3
<1>5. sleepers' > 0 => desired'
  BY DEF DesiredInv, ChainInv, WantedInv
<1>. QED  BY <1>3, <1>4, <1>5 DEF DesiredInv, WantedInv

\* A retry is scheduled only while the connection is wanted.
LEMMA RetryWanted ==
  ASSUME DesiredInv, desired' = desired,
         \/ queue' = queue /\ phase' = phase
         \/ queue # <<>> /\ Settles,
         desired /\ ScheduleReconnect
  PROVE  DesiredInv'
<1>1. sleepers' \in Nat
  BY DEF ScheduleReconnect, DesiredInv, ChainInv
<1>2. CASE queue' = queue /\ phase' = phase
  BY <1>1, <1>2 DEF DesiredInv, ChainInv, WantedInv
<1>3. CASE queue # <<>> /\ Settles
  <2>1. ChainInv'
    BY <1>1, <1>3, HeadSettled DEF DesiredInv, ChainInv, Settles, Phase
  <2>. QED  BY <2>1 DEF DesiredInv, WantedInv
<1>. QED  BY <1>2, <1>3

\* The head of the chain begins a call of the engine, or a stop before one.
LEMMA HeadBegins ==
  ASSUME DesiredInv, queue' = queue, desired' = desired, sleepers' = sleepers,
         queue # <<>>,
         \/ phase' = "calling"
         \/ phase' \in {"stopping", "stopped"} /\ Head(queue).op = "connect"
  PROVE  DesiredInv'
BY DEF DesiredInv, ChainInv, WantedInv, Phase

LEMMA DesiredStep == DesiredInv /\ [Next]_vars => DesiredInv'
<1>. SUFFICES ASSUME DesiredInv, [Next]_vars  PROVE DesiredInv'
  OBVIOUS
<1>1. ASSUME NEW p \in Profile, Connect(p)  PROVE DesiredInv'
  BY <1>1, RevisionWanted DEF Connect
<1>2. ASSUME NEW p \in Profile, UpdateProfile(p)  PROVE DesiredInv'
  BY <1>2, JoinsWanted DEF UpdateProfile, DesiredInv, ChainInv
<1>3. CASE Disconnect
  BY <1>3, RevisionWanted DEF Disconnect
<1>4. CASE Dispose
  BY <1>4, RevisionWanted DEF Dispose
<1>5. CASE Skips
  BY <1>5, ChainShrinks DEF Skips, AtHead
<1>6. CASE ConnectBegins
  BY <1>6, HeadBegins DEF ConnectBegins, AtHead, managerVars
<1>7. CASE ConnectContinues
  <2>1. queue # <<>> /\ Head(queue).op = "connect"
    BY <1>7 DEF ConnectContinues, DesiredInv, ChainInv
  <2>. QED  BY <1>7, <2>1, HeadBegins, ChainShrinks DEF ConnectContinues, managerVars
<1>8. CASE UpdateBegins
  BY <1>8, HeadBegins, ChainShrinks DEF UpdateBegins, AtHead, managerVars
<1>9. CASE RestartBegins
  BY <1>9, HeadBegins DEF RestartBegins, AtHead, managerVars
<1>10. CASE DisconnectBegins
  BY <1>10, HeadBegins DEF DisconnectBegins, AtHead, managerVars
<1>11. CASE DisposeBegins
  BY <1>11, HeadBegins DEF DisposeBegins, AtHead, managerVars
<1>12. CASE DisconnectsNothing
  BY <1>12, ChainShrinks DEF DisconnectsNothing, AtHead
<1>13. ASSUME NEW ok \in BOOLEAN, ConnectSettles(ok)  PROVE DesiredInv'
  BY <1>13, ChainShrinks DEF ConnectSettles
<1>14. ASSUME NEW ok \in BOOLEAN, ConnectStopSettles(ok)  PROVE DesiredInv'
  <2>1. queue # <<>> /\ Head(queue).op = "connect"
    BY <1>14 DEF ConnectStopSettles, DesiredInv, ChainInv
  <2>. QED  BY <1>14, <2>1, HeadBegins, ChainShrinks DEF ConnectStopSettles
<1>15. ASSUME NEW ok \in BOOLEAN, UpdateSettles(ok)  PROVE DesiredInv'
  BY <1>15, ChainShrinks DEF UpdateSettles
<1>16. ASSUME NEW ok \in BOOLEAN, DisconnectSettles(ok)  PROVE DesiredInv'
  BY <1>16, ChainShrinks DEF DisconnectSettles
<1>17. ASSUME NEW ok \in BOOLEAN, RestartSettles(ok)  PROVE DesiredInv'
  <2>1. queue # <<>> /\ Settles /\ desired' = desired
        /\ Head(queue).op = "restart"
    BY <1>17 DEF RestartSettles
  <2>2. CASE sleepers' = sleepers
    BY <2>1, <2>2, ChainShrinks
  <2>3. CASE sleepers' # sleepers
    <3>1. ~Obsolete /\ ScheduleReconnect
      BY <1>17, <2>3 DEF RestartSettles
    <3>2. Head(queue) = queue[1] /\ 1 \in 1..Len(queue)
      BY <2>1, HeadSettled DEF DesiredInv, ChainInv
    <3>3. desired
      BY <2>1, <3>1, <3>2 DEF Obsolete, DesiredInv, WantedInv
    <3>. QED  BY <2>1, <3>1, <3>3, RetryWanted
  <2>. QED  BY <2>2, <2>3
<1>18. CASE DisposeSettles
  <2>1. queue # <<>>
    BY <1>18 DEF DisposeSettles, DesiredInv, ChainInv
  <2>. QED  BY <1>18, <2>1, ChainShrinks DEF DisposeSettles
<1>19. CASE EngineProgresses
  BY <1>19, ChainShrinks DEF EngineProgresses, managerVars
<1>20. CASE EngineCrashes
  BY <1>20, ChainShrinks, RetryWanted DEF EngineCrashes, OnCrashed
<1>21. CASE SpawnFails
  BY <1>21, ChainShrinks, RetryWanted DEF SpawnFails, OnCrashed
<1>22. CASE Wakes
  <2>1. sleepers \in Nat /\ sleepers > 0 /\ sleepers' = sleepers - 1
    BY <1>22 DEF Wakes, DesiredInv, ChainInv
  <2>2. sleepers' \in Nat /\ sleepers' <= sleepers
    BY <2>1
  <2>3. CASE UNCHANGED queue
    BY <1>22, <2>1, <2>2, <2>3 DEF Wakes, DesiredInv, ChainInv, WantedInv
  <2>4. CASE Enqueue(queue, "restart", NoProfile)
    BY <1>22, <2>1, <2>2, <2>4, JoinsWanted DEF Wakes
  <2>. QED  BY <1>22, <2>3, <2>4 DEF Wakes
<1>23. CASE UNCHANGED vars
  BY <1>23, ChainShrinks DEF vars, managerVars
<1>. QED
  BY <1>1, <1>2, <1>3, <1>4, <1>5, <1>6, <1>7, <1>8, <1>9, <1>10, <1>11, <1>12,
     <1>13, <1>14, <1>15, <1>16, <1>17, <1>18, <1>19, <1>20, <1>21, <1>22, <1>23
     DEF Next, Request, Chain, EngineAnswers

\* The step that begins a start or a restart belongs to an operation that is
\* not obsolete, and so to a user who is still connected.
LEMMA StartWanted ==
  DesiredInv /\ [Next]_vars =>
    (call = "none" /\ call' \in {"start", "restart"} => desired /\ ~disposed)
<1>. SUFFICES ASSUME DesiredInv, [Next]_vars, call = "none",
                     call' \in {"start", "restart"}
              PROVE  desired /\ ~disposed
  OBVIOUS
<1>1. ConnectBegins \/ ConnectContinues \/ RestartBegins
  BY DEF Next, Request, Chain, EngineAnswers, vars, engineVars, Connect,
     UpdateProfile, Disconnect, Dispose, Skips, UpdateBegins, Begin,
     DisconnectBegins, DisposeBegins, DisconnectsNothing, ConnectSettles,
     ConnectStopSettles, UpdateSettles, DisconnectSettles, RestartSettles,
     DisposeSettles, DisposeReturns, StartReturns, StopReturns, UpdateReturns,
     Return, EngineProgresses, Progress, EngineCrashes, Crash, SpawnFails, Wakes,
     Call
<1>2. /\ queue # <<>> /\ ~Obsolete
      /\ Head(queue).op \in {"connect", "restart"}
  BY <1>1 DEF ConnectBegins, ConnectContinues, RestartBegins, AtHead, DesiredInv,
     ChainInv, engineVars
<1>3. Head(queue) = queue[1] /\ 1 \in 1..Len(queue)
  BY <1>2, HeadSettled DEF DesiredInv, ChainInv
<1>. QED  BY <1>2, <1>3 DEF Obsolete, DesiredInv, WantedInv

\* RuntimeManager.ts:55-58, 165: no start or restart of the engine is issued
\* for a user who has disconnected, nor after disposal, whatever queues up.
THEOREM OnlyWantedStarts == Spec => StartsOnlyIfDesired
<1>1. DesiredInv /\ [Next]_vars =>
        [call = "none" /\ call' \in {"start", "restart"} => desired /\ ~disposed]_vars
  BY StartWanted
<1>. QED  BY <1>1, DesiredInit, DesiredStep, PTL DEF Spec, StartsOnlyIfDesired

-----------------------------------------------------------------------------
\* Without retries nothing restarts the engine behind the manager's back.
NoRetries ==
  /\ queue \in Seq(Operation) /\ sleepers = 0 /\ call # "restart"
  /\ \A i \in 1..Len(queue) : queue[i].op # "restart"

\* The fingerprint follows the engine: while it runs, and during an update,
\* which changes the profile only when it returns.
HashInv ==
  /\ state = "running" \/ call = "update" => hash = applied
  /\ call = "update" => arg \in {Head(queue).profile, NoProfile}
  /\ call = "update" => phase = "calling" /\ queue # <<>>
  /\ call = "disposed" => state = "idle"

LEMMA HashInit == Init => NoRetries /\ HashInv
BY DEF Init, EngineInit, NoRetries, HashInv

\* A request only adds to the chain: what runs now is left alone.
LEMMA RequestsOnlyAdd ==
  ASSUME NoRetries, HashInv, UNCHANGED <<engineVars, phase, hash>>,
         NEW o \in {"connect", "disconnect", "update", "dispose"},
         NEW p \in Profile \union {NoProfile}, sleepers' = 0,
         Enqueue(queue, o, p) \/ Enqueue(Stale(queue), o, p)
  PROVE  NoRetries' /\ HashInv'
<1>1. PICK q : /\ queue' = Append(q, Op(o, p))
               /\ q \in Seq(Operation) /\ Len(q) = Len(queue)
               /\ \A i \in 1..Len(queue) :
                    q[i].op = queue[i].op /\ q[i].profile = queue[i].profile
  BY Enqueued DEF NoRetries
<1>2. Op(o, p) \in Operation /\ Op(o, p).op = o
  BY DEF Op, Operation
<1>3. queue' \in Seq(Operation)
  BY <1>1, <1>2, Appended
<1>4. ASSUME NEW i \in 1..Len(queue')  PROVE queue'[i].op # "restart"
  <2>1. i \in 1..Len(q) \/ i = Len(q) + 1
    BY <1>1, <1>2, Appended
  <2>2. CASE i \in 1..Len(q)
    <3>1. queue'[i] = q[i]
      BY <1>1, <1>2, <2>2, Appended
    <3>. QED  BY <1>1, <2>2, <3>1 DEF NoRetries
  <2>3. CASE i = Len(q) + 1
    <3>1. queue'[i] = Op(o, p)
      BY <1>1, <1>2, <2>3, Appended
    <3>. QED  BY <1>2, <3>1
  <2>. QED  BY <2>1, <2>2, <2>3
<1>5. NoRetries'
  BY <1>3, <1>4 DEF NoRetries, engineVars
<1>6. ASSUME queue # <<>>
      PROVE  queue' # <<>> /\ Head(queue').profile = Head(queue).profile
  <2>1. 1 \in 1..Len(queue) /\ Head(queue) = queue[1]
    BY <1>6, HeadSettled DEF NoRetries
  <2>2. q # <<>> /\ Head(q) = q[1]
    BY <1>1, <2>1
  <2>3. queue' # <<>> /\ Head(queue') = Head(q)
    BY <1>1, <1>2, <2>2, Appended
  <2>. QED  BY <1>1, <2>1, <2>2, <2>3
<1>7. HashInv'
  BY <1>6 DEF HashInv, engineVars
<1>. QED  BY <1>5, <1>7

\* Taking the head off the chain adds no retry to it.
LEMMA SettlesAddsNothing ==
  ASSUME NoRetries, queue # <<>>, Settles, sleepers' = sleepers, call' # "restart"
  PROVE  NoRetries'
BY HeadSettled DEF NoRetries, Settles

LEMMA HeadIsNoRetry == NoRetries /\ queue # <<>> => Head(queue).op # "restart"
BY HeadSettled DEF NoRetries

LEMMA HashStep ==
  AutoReconnect = FALSE /\ NoRetries /\ HashInv /\ [Next]_vars
    => NoRetries' /\ HashInv'
<1>. SUFFICES ASSUME AutoReconnect = FALSE, NoRetries, HashInv, [Next]_vars
              PROVE  NoRetries' /\ HashInv'
  OBVIOUS
<1>a. sleepers = 0 /\ queue \in Seq(Operation) /\ call # "restart"
  BY DEF NoRetries
<1>1. ASSUME NEW p \in Profile, Connect(p)  PROVE NoRetries' /\ HashInv'
  BY <1>1, RequestsOnlyAdd DEF Connect, NewRevision
<1>2. ASSUME NEW p \in Profile, UpdateProfile(p)  PROVE NoRetries' /\ HashInv'
  BY <1>2, <1>a, RequestsOnlyAdd DEF UpdateProfile
<1>3. CASE Disconnect
  BY <1>3, RequestsOnlyAdd DEF Disconnect, NewRevision
<1>4. CASE Dispose
  BY <1>4, RequestsOnlyAdd DEF Dispose, NewRevision
<1>5. CASE Skips
  BY <1>5, <1>a, SettlesAddsNothing
     DEF Skips, AtHead, HashInv, Settles, engineVars
<1>6. CASE ConnectBegins
  BY <1>6 DEF ConnectBegins, AtHead, Begin, HashInv, NoRetries, managerVars
<1>7. CASE ConnectContinues
  <2>1. CASE Obsolete /\ Settles /\ UNCHANGED <<engineVars, managerVars>> /\ queue = <<>>
    BY <2>1, <1>7 DEF ConnectContinues, HashInv, NoRetries, engineVars, managerVars, Settles
  <2>2. CASE Settles /\ UNCHANGED <<engineVars, managerVars>> /\ queue # <<>>
    BY <2>2, <1>7, <1>a, SettlesAddsNothing
       DEF ConnectContinues, HashInv, Settles, engineVars, managerVars
  <2>3. CASE Begin("start", Head(queue).profile) /\ UNCHANGED <<queue, managerVars>>
    BY <2>3 DEF Begin, HashInv, NoRetries, managerVars
  <2>. QED  BY <1>7, <2>1, <2>2, <2>3 DEF ConnectContinues
<1>8. CASE UpdateBegins
  <2>1. CASE Settles /\ UNCHANGED engineVars
    BY <1>8, <2>1, <1>a, SettlesAddsNothing
       DEF UpdateBegins, AtHead, HashInv, Settles, engineVars, managerVars
  <2>2. CASE Begin("update", Head(queue).profile) /\ phase' = "calling"
             /\ UNCHANGED <<queue, managerVars>>
    BY <1>8, <2>2 DEF UpdateBegins, AtHead, Begin, Refuses, HashInv, NoRetries, managerVars
  <2>. QED  BY <1>8, <2>1, <2>2 DEF UpdateBegins
<1>9. CASE RestartBegins
  BY <1>9, HeadIsNoRetry DEF RestartBegins, AtHead
<1>10. CASE DisconnectBegins
  BY <1>10 DEF DisconnectBegins, AtHead, Begin, HashInv, NoRetries, managerVars
<1>11. CASE DisposeBegins
  BY <1>11 DEF DisposeBegins, AtHead, Begin, HashInv, NoRetries, managerVars
<1>12. CASE DisconnectsNothing
  BY <1>12, <1>a, SettlesAddsNothing
     DEF DisconnectsNothing, AtHead, HashInv, Settles, engineVars
<1>13. ASSUME NEW ok \in BOOLEAN, ConnectSettles(ok)  PROVE NoRetries' /\ HashInv'
  <2>1. call' = "none" /\ NoRetries'
    BY <1>13, SettlesAddsNothing DEF ConnectSettles, StartReturns, Return
  <2>2. CASE ok
    BY <1>13, <2>1, <2>2 DEF ConnectSettles, HashInv
  <2>3. CASE ~ok
    BY <1>13, <2>1, <2>3 DEF ConnectSettles, StartReturns, Return, HashInv
  <2>. QED  BY <2>1, <2>2, <2>3
<1>14. ASSUME NEW ok \in BOOLEAN, ConnectStopSettles(ok)  PROVE NoRetries' /\ HashInv'
  <2>1. call' = "none" /\ state' # "running"
    BY <1>14 DEF ConnectStopSettles, StopReturns, Return
  <2>2. CASE queue' = queue
    BY <1>14, <2>1, <2>2 DEF ConnectStopSettles, NoRetries, HashInv
  <2>3. CASE Settles /\ queue # <<>>
    BY <1>14, <2>1, <2>3, SettlesAddsNothing DEF ConnectStopSettles, HashInv
  <2>4. CASE Settles /\ queue = <<>>
    BY <1>14, <2>1, <2>4 DEF ConnectStopSettles, Settles, NoRetries, HashInv
  <2>. QED  BY <1>14, <2>2, <2>3, <2>4 DEF ConnectStopSettles
<1>15. ASSUME NEW ok \in BOOLEAN, UpdateSettles(ok)  PROVE NoRetries' /\ HashInv'
  <2>1. call' = "none" /\ NoRetries'
    BY <1>15, SettlesAddsNothing DEF UpdateSettles, UpdateReturns, Return
  <2>2. hash' = applied'
    BY <1>15 DEF UpdateSettles, UpdateReturns, HashInv
  <2>. QED  BY <2>1, <2>2 DEF HashInv
<1>16. ASSUME NEW ok \in BOOLEAN, DisconnectSettles(ok)  PROVE NoRetries' /\ HashInv'
  <2>1. call' = "none" /\ state' # "running"
    BY <1>16 DEF DisconnectSettles, StopReturns, Return
  <2>. QED  BY <1>16, <2>1, SettlesAddsNothing DEF DisconnectSettles, HashInv
<1>17. ASSUME NEW ok \in BOOLEAN, RestartSettles(ok)  PROVE NoRetries' /\ HashInv'
  BY <1>17, HeadIsNoRetry DEF RestartSettles
<1>18. CASE DisposeSettles
  <2>1. call' = "disposed" /\ state' = "idle"
    BY <1>18 DEF DisposeSettles, DisposeReturns
  <2>2. HashInv'
    BY <2>1 DEF HashInv
  <2>3. CASE queue # <<>>
    BY <1>18, <2>1, <2>2, <2>3, SettlesAddsNothing DEF DisposeSettles
  <2>4. CASE queue = <<>>
    BY <1>18, <2>1, <2>2, <2>4 DEF DisposeSettles, Settles, NoRetries
  <2>. QED  BY <2>3, <2>4
<1>19. CASE EngineProgresses
  <2>1. UNCHANGED <<queue, phase, managerVars, call>> /\ Progress
    BY <1>19 DEF EngineProgresses, Progress
  <2>2. NoRetries'
    BY <2>1 DEF NoRetries, managerVars
  <2>3. /\ state' = "running" => state = "running" /\ applied' = applied
        /\ call = "update" => applied' = applied /\ arg' \in {arg, NoProfile}
        /\ call # "disposed"
    BY <2>1 DEF Progress, Call
  <2>. QED  BY <2>1, <2>2, <2>3 DEF HashInv, managerVars
<1>20. CASE EngineCrashes
  <2>1. state' = "running" => state = "running"
    BY <1>20 DEF EngineCrashes, Crash, TryTransition
  <2>2. state = "idle" => state' = "idle"
    BY <1>20 DEF EngineCrashes, Crash, TryTransition, CanTransition, ValidTransitions
  <2>. QED  BY <1>20, <2>1, <2>2 DEF EngineCrashes, Crash, OnCrashed, HashInv, NoRetries
<1>21. CASE SpawnFails
  BY <1>21 DEF SpawnFails, OnCrashed, HashInv, NoRetries, engineVars
<1>22. CASE Wakes
  BY <1>22, <1>a DEF Wakes
<1>23. CASE UNCHANGED vars
  BY <1>23 DEF vars, engineVars, managerVars, HashInv, NoRetries
<1>. QED
  BY <1>1, <1>2, <1>3, <1>4, <1>5, <1>6, <1>7, <1>8, <1>9, <1>10, <1>11, <1>12,
     <1>13, <1>14, <1>15, <1>16, <1>17, <1>18, <1>19, <1>20, <1>21, <1>22, <1>23
     DEF Next, Request, Chain, EngineAnswers

\* RuntimeManager.ts:63, 86-90: as Windows creates the manager, the
\* fingerprint that suppresses an update is the running engine's.
THEOREM HashFollowsEngine == AutoReconnect = FALSE => (Spec => []HashIsApplied)
<1>. SUFFICES ASSUME AutoReconnect = FALSE  PROVE Spec => []HashIsApplied
  OBVIOUS
<1>1. NoRetries /\ HashInv => HashIsApplied
  BY DEF HashInv, HashIsApplied
<1>2. NoRetries /\ HashInv /\ [Next]_vars => (NoRetries /\ HashInv)'
  BY HashStep
<1>. QED  BY <1>1, <1>2, HashInit, PTL DEF Spec

-----------------------------------------------------------------------------
\* The newest operation of the chain is of the current revision, and the last
\* request is its profile, unless that was refused meanwhile.
NewestInv ==
  queue # <<>> =>
    /\ queue[Len(queue)].fresh
    /\ latest # NoProfile => queue[Len(queue)].profile = latest

\* A manager that is disposed has an engine that is, or is about to be.
GoneInv ==
  disposed => call = "disposed" \/ \E i \in 1..Len(queue) : queue[i].op = "dispose"

\* The engine rests between calls, and a start that got going works with the
\* profile of the operation that called it.
CallInv ==
  /\ state \in RuntimeState /\ call \in Call \union {"none", "disposed"}
  /\ call = "none" => state \in Resting
  /\ call \in Call => phase \in {"stopping", "calling"}
  /\ call = "start" =>
       /\ queue # <<>> /\ arg = Head(queue).profile
       /\ state = "starting" => applied = arg

LatestInv == NewestInv /\ GoneInv /\ CallInv /\ LatestRequestWins

\* All that is known of a manager without retries.
ManagerInv == ChainInv /\ NoRetries /\ HashInv /\ LatestInv

LEMMA LatestInit == Init => LatestInv
BY DEF Init, EngineInit, LatestInv, NewestInv, GoneInv, CallInv, LatestRequestWins,
   Resting, RuntimeState, Call

\* The operation taken off the chain leaves the newest one, if there is one.
LEMMA TakenOff ==
  ASSUME ChainInv, NewestInv, GoneInv, queue # <<>>, Settles,
         latest' \in {latest, NoProfile}, disposed' = disposed,
         call = "disposed" => call' = "disposed"
  PROVE  /\ NewestInv'
         /\ Head(queue).op # "dispose" \/ call' = "disposed" => GoneInv'
         /\ queue' = <<>> =>
              /\ Head(queue) = queue[Len(queue)] /\ Head(queue).fresh
              /\ latest # NoProfile => Head(queue).profile = latest
         /\ queue' = <<>> /\ disposed /\ Head(queue).op # "dispose" => call = "disposed"
<1>1. /\ queue \in Seq(Operation) /\ Len(queue) \in Nat \ {0}
      /\ Head(queue) = queue[1] /\ queue' \in Seq(Operation)
      /\ Len(queue') = Len(queue) - 1
      /\ \A i \in 1..Len(queue') : queue'[i] = queue[i + 1]
  <2>1. queue \in Seq(Operation) /\ queue' = Tail(queue)
    BY DEF ChainInv, Settles
  <2>2. Len(queue) \in Nat \ {0}
    BY <2>1
  <2>3. Head(queue) = queue[1] /\ queue' \in Seq(Operation)
    BY <2>1, HeadSettled
  <2>4. Len(queue') = Len(queue) - 1
    BY <2>1
  <2>5. \A i \in 1..Len(queue') : queue'[i] = queue[i + 1]
    BY <2>1, HeadSettled
  <2>. QED  BY <2>1, <2>2, <2>3, <2>4, <2>5
<1>2. queue' # <<>> => queue'[Len(queue')] = queue[Len(queue)]
  BY <1>1
<1>3. queue' = <<>> => Len(queue) = 1
  BY <1>1
<1>4. NewestInv'
  BY <1>2 DEF NewestInv
<1>5. ASSUME Head(queue).op # "dispose" \/ call' = "disposed"  PROVE GoneInv'
  <2>1. CASE call' = "disposed"
    BY <2>1 DEF GoneInv
  <2>2. CASE ~disposed
    BY <2>2 DEF GoneInv
  <2>3. CASE disposed /\ call # "disposed" /\ Head(queue).op # "dispose"
    <3>1. PICK i \in 1..Len(queue) : queue[i].op = "dispose"
      BY <2>3 DEF GoneInv
    <3>2. i # 1
      BY <1>1, <2>3, <3>1
    <3>3. i - 1 \in 1..Len(queue') /\ queue'[i - 1] = queue[i]
      BY <1>1, <3>2
    <3>. QED  BY <3>1, <3>3 DEF GoneInv
  <2>. QED  BY <1>5, <2>1, <2>2, <2>3
<1>6. ASSUME queue' = <<>>
      PROVE  /\ Head(queue) = queue[Len(queue)] /\ Head(queue).fresh
             /\ latest # NoProfile => Head(queue).profile = latest
  <2>1. Head(queue) = queue[Len(queue)]
    BY <1>1, <1>3, <1>6
  <2>. QED  BY <2>1 DEF NewestInv
<1>7. ASSUME queue' = <<>>, disposed, Head(queue).op # "dispose"
      PROVE  call = "disposed"
  <2>1. Len(queue) = 1 /\ queue[1].op # "dispose"
    BY <1>1, <1>3, <1>7
  <2>. QED  BY <1>7, <2>1 DEF GoneInv
<1>. QED  BY <1>4, <1>5, <1>6, <1>7

\* A request becomes the newest operation; the others keep their places.
LEMMA RequestIsNewest ==
  ASSUME ManagerInv, UNCHANGED <<engineVars, phase>>,
         NEW o \in {"connect", "disconnect", "update", "dispose"},
         NEW p \in Profile \union {NoProfile}, latest' = p,
         disposed' => disposed \/ o = "dispose",
         Enqueue(queue, o, p) \/ Enqueue(Stale(queue), o, p)
  PROVE  LatestInv'
<1>1. PICK q : /\ queue' = Append(q, Op(o, p))
               /\ q \in Seq(Operation) /\ Len(q) = Len(queue)
               /\ \A i \in 1..Len(queue) :
                    q[i].op = queue[i].op /\ q[i].profile = queue[i].profile
  BY Enqueued DEF ManagerInv, NoRetries
<1>2. /\ Op(o, p) \in Operation /\ Op(o, p).op = o
      /\ Op(o, p).profile = p /\ Op(o, p).fresh
  BY DEF Op, Operation
<1>3. /\ queue' # <<>> /\ Len(queue') = Len(queue) + 1 /\ queue'[Len(queue')] = Op(o, p)
      /\ \A i \in 1..Len(queue) : queue'[i] = q[i]
      /\ Len(queue) \in Nat /\ Len(queue') \in 1..Len(queue')
  <2>1. Len(queue) \in Nat
    BY DEF ManagerInv, NoRetries
  <2>. QED  BY <1>1, <1>2, <2>1, Appended
<1>4. NewestInv'
  BY <1>2, <1>3 DEF NewestInv
<1>5. GoneInv'
  <2>1. CASE o = "dispose"
    BY <1>2, <1>3, <2>1 DEF GoneInv
  <2>2. CASE o # "dispose" /\ disposed
    <3>1. CASE call = "disposed"
      BY <3>1 DEF GoneInv, engineVars
    <3>2. CASE call # "disposed"
      <4>1. PICK i \in 1..Len(queue) : queue[i].op = "dispose"
        BY <2>2, <3>2 DEF ManagerInv, LatestInv, GoneInv
      <4>2. i \in 1..Len(queue') /\ queue'[i].op = "dispose"
        BY <1>1, <1>3, <4>1
      <4>. QED  BY <4>2 DEF GoneInv
    <3>. QED  BY <3>1, <3>2
  <2>. QED  BY <2>1, <2>2 DEF GoneInv
<1>6. ASSUME queue # <<>>
      PROVE  Head(queue').profile = Head(queue).profile
  <2>1. 1 \in 1..Len(queue) /\ Head(queue) = queue[1]
    BY <1>6, HeadSettled DEF ManagerInv, NoRetries
  <2>2. q # <<>> /\ Head(q) = q[1]
    BY <1>1, <2>1
  <2>3. Head(queue') = Head(q)
    BY <1>1, <1>2, <2>2, Appended
  <2>. QED  BY <1>1, <2>1, <2>2, <2>3
<1>7. CallInv'
  BY <1>3, <1>6 DEF ManagerInv, LatestInv, CallInv, engineVars
<1>8. LatestRequestWins'
  BY <1>3 DEF LatestRequestWins
<1>. QED  BY <1>4, <1>5, <1>7, <1>8 DEF LatestInv

\* The head begins a call of the engine: the chain stays as it is.
LEMMA CallBegins ==
  ASSUME ManagerInv, queue # <<>>, NEW c \in Call \ {"restart"}, NEW p, Begin(c, p),
         c = "start" => p = Head(queue).profile,
         phase' \in {"stopping", "calling"}, UNCHANGED <<queue, disposed, latest>>
  PROVE  LatestInv'
<1>1. call = "none" /\ call' = c /\ state' = state /\ arg' = p /\ applied' = applied
  BY DEF Begin, Call
<1>2. state # "starting"
  BY <1>1 DEF ManagerInv, LatestInv, CallInv, Resting
<1>3. NewestInv' /\ GoneInv' /\ LatestRequestWins'
  BY <1>1 DEF ManagerInv, LatestInv, NewestInv, GoneInv, LatestRequestWins, Call
<1>4. CallInv'
  BY <1>1, <1>2 DEF ManagerInv, LatestInv, CallInv, Call
<1>. QED  BY <1>3, <1>4 DEF LatestInv

\* The head settles; what is left to show is where the engine is then.
LEMMA HeadEnds ==
  ASSUME ManagerInv, queue # <<>>, Settles, UNCHANGED disposed,
         latest' \in {latest, NoProfile},
         call' \in {"none", "disposed"}, call = "disposed" => call' = "disposed",
         Head(queue).op # "dispose" \/ call' = "disposed",
         state' \in RuntimeState, call' = "none" => state' \in Resting,
         queue' = <<>> /\ state' = "running" /\ latest' # NoProfile =>
           applied' \in {Head(queue).profile, Fallback[Head(queue).profile]}
  PROVE  LatestInv'
<1>1. NewestInv' /\ GoneInv'
  BY TakenOff DEF ManagerInv, LatestInv
<1>2. CallInv'
  BY DEF CallInv, Call
<1>3. LatestRequestWins'
  <2>1. SUFFICES ASSUME queue' = <<>>, state' = "running", latest' # NoProfile
                 PROVE  applied' \in {latest', Fallback[latest']}
    BY DEF LatestRequestWins
  <2>2. latest' = latest /\ Head(queue).profile = latest
    BY <2>1, TakenOff DEF ManagerInv, LatestInv
  <2>. QED  BY <2>1, <2>2
<1>. QED  BY <1>1, <1>2, <1>3 DEF LatestInv

\* A head that throws while nothing follows it leaves no request to keep.
LEMMA ThrowsForgets ==
  ASSUME ManagerInv, queue # <<>>, Settles, Throws
  PROVE  latest' \in {latest, NoProfile} /\ (queue' = <<>> => latest' = NoProfile)
BY DEF Throws, Settles

\* An obsolete head leaves the chain empty only once the engine is disposed.
LEMMA ObsoleteEnds ==
  ASSUME ManagerInv, queue # <<>>, Settles, Obsolete, Head(queue).op # "dispose",
         call \in {"none", "disposed"}, UNCHANGED <<engineVars, disposed, latest>>
  PROVE  LatestInv'
<1>1. queue' = <<>> => state' # "running"
  <2>1. SUFFICES ASSUME queue' = <<>>  PROVE state' # "running"
    OBVIOUS
  <2>2. call = "disposed"
    BY <2>1, TakenOff DEF ManagerInv, LatestInv, Obsolete, engineVars
  <2>. QED  BY <2>2 DEF ManagerInv, HashInv, engineVars
<1>2. state' \in RuntimeState /\ (call' = "none" => state' \in Resting)
  BY DEF ManagerInv, LatestInv, CallInv, engineVars
<1>. QED  BY <1>1, <1>2, HeadEnds DEF engineVars

LEMMA RequestsKeepLatest ==
  ASSUME ManagerInv, Request
  PROVE  LatestInv'
<1>1. ASSUME NEW p \in Profile, Connect(p)  PROVE LatestInv'
  BY <1>1, RequestIsNewest DEF Connect, NewRevision
<1>2. ASSUME NEW p \in Profile, UpdateProfile(p)  PROVE LatestInv'
  BY <1>2, RequestIsNewest DEF UpdateProfile
<1>3. CASE Disconnect
  BY <1>3, RequestIsNewest DEF Disconnect, NewRevision
<1>4. CASE Dispose
  BY <1>4, RequestIsNewest DEF Dispose, NewRevision
<1>. QED  BY <1>1, <1>2, <1>3, <1>4 DEF Request

LEMMA ChainKeepsLatest ==
  ASSUME ManagerInv, Chain
  PROVE  LatestInv'
<1>1. CASE Skips
  <2>1. queue # <<>> /\ Head(queue).op # "restart"
    BY <1>1, HeadIsNoRetry DEF Skips, AtHead, ManagerInv
  <2>. QED  BY <1>1, <2>1, ObsoleteEnds DEF Skips, AtHead
<1>2. CASE ConnectBegins
  BY <1>2, CallBegins DEF ConnectBegins, AtHead, managerVars, Call
<1>3. CASE ConnectContinues
  <2>1. queue # <<>> /\ Head(queue).op = "connect" /\ phase = "stopped"
    BY <1>3 DEF ConnectContinues, ManagerInv, ChainInv
  <2>2. CASE Obsolete /\ Settles /\ UNCHANGED <<engineVars, managerVars>>
    <3>1. call \in {"none", "disposed"}
      BY <2>1 DEF ManagerInv, LatestInv, CallInv
    <3>. QED  BY <2>1, <2>2, <3>1, ObsoleteEnds DEF managerVars
  <2>3. CASE Begin("start", Head(queue).profile) /\ phase' = "calling"
             /\ UNCHANGED <<queue, managerVars>>
    BY <2>1, <2>3, CallBegins DEF managerVars, Call
  <2>. QED  BY <1>3, <2>2, <2>3 DEF ConnectContinues
<1>4. CASE UpdateBegins
  <2>1. queue # <<>> /\ Head(queue).op = "update" /\ call \in {"none", "disposed"}
    BY <1>4 DEF UpdateBegins, AtHead
  <2>2. state \in RuntimeState /\ (call = "none" => state \in Resting)
    BY DEF ManagerInv, LatestInv, CallInv
  <2>3. CASE hash = Head(queue).profile
    <3>1. Settles /\ UNCHANGED <<engineVars, managerVars>>
      BY <1>4, <2>3 DEF UpdateBegins
    <3>2. state = "running" => applied = Head(queue).profile
      BY <2>3 DEF ManagerInv, HashInv
    <3>. QED  BY <2>1, <2>2, <3>1, <3>2, HeadEnds DEF engineVars, managerVars
  <2>4. CASE hash # Head(queue).profile /\ Refuses("update")
    <3>1. Settles /\ Throws /\ UNCHANGED <<engineVars, disposed>>
      BY <1>4, <2>4 DEF UpdateBegins
    <3>. QED  BY <2>1, <2>2, <3>1, ThrowsForgets, HeadEnds DEF engineVars
  <2>5. CASE hash # Head(queue).profile /\ ~Refuses("update")
    <3>1. /\ Begin("update", Head(queue).profile) /\ phase' = "calling"
          /\ UNCHANGED <<queue, managerVars>>
      BY <1>4, <2>5 DEF UpdateBegins
    <3>. QED  BY <2>1, <3>1, CallBegins DEF managerVars, Call
  <2>. QED  BY <2>3, <2>4, <2>5
<1>5. CASE RestartBegins
  BY <1>5, HeadIsNoRetry DEF RestartBegins, AtHead, ManagerInv
<1>6. CASE DisconnectBegins
  BY <1>6, CallBegins DEF DisconnectBegins, AtHead, managerVars, Call
<1>7. CASE DisposeBegins
  BY <1>7, CallBegins DEF DisposeBegins, AtHead, managerVars, Call
<1>8. CASE DisconnectsNothing
  <2>1. call = "disposed" /\ state = "idle"
    BY <1>8 DEF DisconnectsNothing, ManagerInv, HashInv
  <2>. QED  BY <1>8, <2>1, HeadEnds DEF DisconnectsNothing, AtHead, engineVars, RuntimeState
<1>. QED  BY <1>1, <1>2, <1>3, <1>4, <1>5, <1>6, <1>7, <1>8 DEF Chain

LEMMA AnswersKeepLatest ==
  ASSUME ManagerInv, EngineAnswers
  PROVE  LatestInv'
<1>1. ASSUME NEW ok \in BOOLEAN, ConnectSettles(ok)  PROVE LatestInv'
  <2>1. /\ queue # <<>> /\ Settles /\ Head(queue).op = "connect" /\ UNCHANGED disposed
        /\ call' = "none" /\ state' \in Resting /\ state' \in RuntimeState /\ call \in {"start", "restart"}
    BY <1>1 DEF ConnectSettles, StartReturns, Return, Resting, RuntimeState
  <2>2. CASE ok
    <3>1. latest' = latest /\ state = "starting" /\ applied' \in {applied, Fallback[applied]}
      BY <1>1, <2>2 DEF ConnectSettles, StartReturns
    <3>2. applied = Head(queue).profile
      BY <2>1, <3>1 DEF ManagerInv, NoRetries, LatestInv, CallInv
    <3>. QED  BY <2>1, <3>1, <3>2, HeadEnds
  <2>3. CASE ~ok
    <3>1. Throws
      BY <1>1, <2>3 DEF ConnectSettles
    <3>. QED  BY <2>1, <3>1, ThrowsForgets, HeadEnds
  <2>. QED  BY <2>2, <2>3
<1>2. ASSUME NEW ok \in BOOLEAN, ConnectStopSettles(ok)  PROVE LatestInv'
  <2>1. /\ queue # <<>> /\ Head(queue).op = "connect" /\ UNCHANGED disposed
        /\ call' = "none" /\ state' \in Resting /\ state' \in RuntimeState /\ call = "stop" /\ state' # "running"
    BY <1>2 DEF ConnectStopSettles, StopReturns, Return, ManagerInv, ChainInv, Resting,
       RuntimeState
  <2>2. CASE ok
    <3>1. UNCHANGED <<queue, latest>>
      BY <1>2, <2>2 DEF ConnectStopSettles
    <3>. QED
      BY <2>1, <3>1 DEF ManagerInv, LatestInv, NewestInv, GoneInv, CallInv,
         LatestRequestWins, Call
  <2>3. CASE ~ok
    <3>1. Settles /\ Throws
      BY <1>2, <2>3 DEF ConnectStopSettles
    <3>. QED  BY <2>1, <3>1, ThrowsForgets, HeadEnds
  <2>. QED  BY <2>2, <2>3
<1>3. ASSUME NEW ok \in BOOLEAN, UpdateSettles(ok)  PROVE LatestInv'
  <2>1. /\ queue # <<>> /\ Settles /\ Head(queue).op = "update" /\ UNCHANGED disposed
        /\ call' = "none" /\ state' \in Resting /\ state' \in RuntimeState /\ call = "update"
    BY <1>3 DEF UpdateSettles, UpdateReturns, Return, Resting, RuntimeState
  <2>2. CASE ok
    <3>1. latest' = latest /\ arg # NoProfile /\ applied' = arg
      BY <1>3, <2>2 DEF UpdateSettles, UpdateReturns
    <3>2. arg = Head(queue).profile
      BY <2>1, <3>1 DEF ManagerInv, HashInv
    <3>. QED  BY <2>1, <3>1, <3>2, HeadEnds
  <2>3. CASE ~ok
    <3>1. Throws
      BY <1>3, <2>3 DEF UpdateSettles
    <3>. QED  BY <2>1, <3>1, ThrowsForgets, HeadEnds
  <2>. QED  BY <2>2, <2>3
<1>4. ASSUME NEW ok \in BOOLEAN, DisconnectSettles(ok)  PROVE LatestInv'
  <2>1. /\ queue # <<>> /\ Settles /\ Head(queue).op = "disconnect" /\ latest' = latest
        /\ UNCHANGED disposed
        /\ call' = "none" /\ state' \in Resting /\ state' \in RuntimeState /\ call = "stop" /\ state' # "running"
    BY <1>4 DEF DisconnectSettles, StopReturns, Return, Resting, RuntimeState
  <2>. QED  BY <2>1, HeadEnds
<1>5. ASSUME NEW ok \in BOOLEAN, RestartSettles(ok)  PROVE LatestInv'
  BY <1>5, HeadIsNoRetry DEF RestartSettles, ManagerInv
<1>6. CASE DisposeSettles
  <2>1. /\ queue # <<>> /\ Settles /\ latest' = latest /\ UNCHANGED disposed
        /\ call' = "disposed" /\ state' = "idle" /\ state' \in RuntimeState
    BY <1>6 DEF DisposeSettles, DisposeReturns, ManagerInv, ChainInv, RuntimeState
  <2>. QED  BY <2>1, HeadEnds
<1>. QED  BY <1>1, <1>2, <1>3, <1>4, <1>5, <1>6 DEF EngineAnswers

LEMMA EngineKeepsLatest ==
  ASSUME ManagerInv, EngineProgresses \/ EngineCrashes \/ SpawnFails \/ Wakes
  PROVE  LatestInv'
<1>1. UNCHANGED <<queue, phase, latest, disposed>>
  BY DEF EngineProgresses, EngineCrashes, SpawnFails, Wakes, ManagerInv, NoRetries, managerVars
<1>2. call' = call
  BY DEF EngineProgresses, EngineCrashes, SpawnFails, Wakes, Progress, Crash, engineVars
<1>3. NewestInv' /\ GoneInv'
  BY <1>1, <1>2 DEF ManagerInv, LatestInv, NewestInv, GoneInv
<1>4. CASE EngineProgresses
  <2>1. /\ state' = "running" => state = "running"
        /\ call = "start" => /\ arg' = arg
                             /\ state = "starting" => applied' = applied
                             /\ state # "starting" /\ state' = "starting" => applied' = arg
    BY <1>4 DEF EngineProgresses, Progress
  <2>2. call \in Call /\ phase # "waiting"
    BY <1>4 DEF EngineProgresses, Progress, ManagerInv, LatestInv, CallInv
  <2>3. queue # <<>>
    BY <2>2 DEF ManagerInv, ChainInv
  <2>4. state' \in RuntimeState
    <3>1. state \in RuntimeState /\ state' \in Successors
      BY <1>4 DEF EngineProgresses, Progress, ManagerInv, LatestInv, CallInv
    <3>. QED  BY <3>1 DEF Successors, ValidTransitions, RuntimeState
  <2>5. CallInv'
    BY <1>1, <1>2, <2>1, <2>2, <2>3, <2>4 DEF ManagerInv, LatestInv, CallInv, Call
  <2>6. LatestRequestWins'
    BY <1>1, <2>3 DEF LatestRequestWins
  <2>. QED  BY <1>3, <2>5, <2>6 DEF LatestInv
<1>5. CASE EngineCrashes
  <2>1. UNCHANGED <<applied, arg>> /\ (state' = state \/ (state = "running" /\ state' = "crashed"))
    BY <1>5 DEF EngineCrashes, Crash, TryTransition, CanTransition, ValidTransitions,
       RuntimeState, ManagerInv, LatestInv, CallInv
  <2>2. state' \in RuntimeState
    BY <2>1 DEF RuntimeState, ManagerInv, LatestInv, CallInv
  <2>. QED  BY <1>1, <1>2, <1>3, <2>1, <2>2 DEF ManagerInv, LatestInv, CallInv,
               LatestRequestWins, Resting
<1>6. CASE SpawnFails \/ Wakes
  <2>1. UNCHANGED engineVars
    BY <1>6 DEF SpawnFails, Wakes
  <2>. QED  BY <1>1, <1>2, <1>3, <2>1 DEF ManagerInv, LatestInv, CallInv,
               LatestRequestWins, engineVars
<1>. QED  BY <1>4, <1>5, <1>6

LEMMA ManagerStep ==
  ASSUME AutoReconnect = FALSE, DesiredInv, ManagerInv, [Next]_vars
  PROVE  DesiredInv' /\ ManagerInv'
<1>1. DesiredInv'
  BY DesiredStep
<1>2. NoRetries' /\ HashInv'
  BY HashStep DEF ManagerInv
<1>3. LatestInv'
  <2>1. CASE UNCHANGED vars
    BY <2>1 DEF vars, engineVars, managerVars, ManagerInv, LatestInv, NewestInv, GoneInv,
       CallInv, LatestRequestWins
  <2>2. CASE Next
    BY <2>2, RequestsKeepLatest, ChainKeepsLatest, AnswersKeepLatest, EngineKeepsLatest
    DEF Next
  <2>. QED  BY <2>1, <2>2
<1>. QED  BY <1>1, <1>2, <1>3 DEF ManagerInv, DesiredInv

\* RuntimeManager.ts:70-75, 165-168: as Windows creates the manager, requests
\* take effect in their order: once the chain is empty a running engine works
\* with the last profile asked for, unless that was refused.
THEOREM RequestsTakeEffectInOrder ==
  AutoReconnect = FALSE => (Spec => []LatestRequestWins)
<1>. SUFFICES ASSUME AutoReconnect = FALSE  PROVE Spec => []LatestRequestWins
  OBVIOUS
<1>1. Init => DesiredInv /\ ManagerInv
  BY DesiredInit, HashInit, LatestInit DEF ManagerInv, DesiredInv
<1>2. DesiredInv /\ ManagerInv /\ [Next]_vars => DesiredInv' /\ ManagerInv'
  BY ManagerStep
<1>3. ManagerInv => LatestRequestWins
  BY DEF ManagerInv, LatestInv
<1>. QED  BY <1>1, <1>2, <1>3, PTL DEF Spec

-----------------------------------------------------------------------------
(* Types, and that no engine is started without a profile *)

\* What waits in the chain knows its profile, or finds one at the engine; a
\* manager whose chain holds a disposal is disposed.
OpsInv ==
  \A i \in 1..Len(queue) :
    /\ queue[i].op \in {"connect", "update"} => queue[i].profile \in Profile
    /\ queue[i].op = "restart" => applied \in Profile \/ disposed
    /\ queue[i].op = "dispose" => disposed

\* A start has a profile, and an engine that starts or runs works with one.
CallHasProfile ==
  /\ call \in {"start", "restart"} => arg \in Profile
  /\ call = "update" => applied \in Profile
  /\ state \in {"starting", "running"} => applied \in Profile

ProfileKnown ==
  /\ current => applied \in Profile
  /\ call = "dispose" => disposed

ManagerTypes ==
  /\ {desired, aborted, disposed, current} \subseteq BOOLEAN
  /\ {hash, latest} \subseteq Profile \union {NoProfile}
  /\ attempts \in 0..MaxAttempts /\ sleepers \in Nat

TypedInv ==
  /\ EngineTypeOK /\ ManagerTypes
  /\ OpsInv /\ CallHasProfile /\ ProfileKnown

LEMMA TypedInit == Init => TypedInv
<1>. SUFFICES ASSUME Init  PROVE TypedInv
  OBVIOUS
<1>1. EngineTypeOK
  BY DEF Init, EngineInit, EngineTypeOK, RuntimeState
<1>2. ManagerTypes
  <2>1. desired = FALSE /\ aborted = FALSE /\ disposed = FALSE /\ current = FALSE
        /\ hash = NoProfile /\ latest = NoProfile /\ attempts = 0 /\ sleepers = 0
    BY DEF Init
  <2>2. 0 \in 0 .. MaxAttempts
    BY BoundAssumption
  <2>. QED  BY <2>1, <2>2 DEF ManagerTypes
<1>4. OpsInv /\ CallHasProfile /\ ProfileKnown
  BY DEF Init, EngineInit, OpsInv, CallHasProfile, ProfileKnown
<1>. QED  BY <1>1, <1>2, <1>4 DEF TypedInv

-----------------------------------------------------------------------------
\* The engine, whatever step it takes, stays typed and keeps a profile until it
\* is disposed.
LEMMA BeginTyped ==
  ASSUME EngineTypeOK, CallHasProfile, NEW c \in Call, NEW p \in Profile \union {NoProfile},
         Begin(c, p), c \in {"start", "restart"} => p \in Profile
  PROVE  EngineTypeOK' /\ CallHasProfile' /\ applied' = applied /\ call' = c
<1>1. /\ call' = c /\ arg' = p /\ UNCHANGED <<live, applied, settled>>
      /\ c = "update" => state = "running"
      /\ state' = state \/ state' \in {"reconnecting", "idle"}
  BY DEF Begin, Refuses
<1>2. EngineTypeOK'
  BY <1>1 DEF EngineTypeOK, RuntimeState
<1>3. CallHasProfile'
  BY <1>1 DEF CallHasProfile, Call
<1>. QED  BY <1>1, <1>2, <1>3

LEMMA SuccessorsTyped ==
  ASSUME state \in RuntimeState
  PROVE  Successors \subseteq RuntimeState
  BY DEF Successors, RuntimeState, ValidTransitions

\* A step of the engine that leaves it typed, with its profile, and whatever it
\* was asked either under way or over.
StaysTyped ==
  /\ EngineTypeOK' /\ CallHasProfile'
  /\ applied \in Profile => applied' \in Profile \/ DisposeReturns
  /\ call' \in {call, "none", "disposed"}

LEMMA EngineTyped ==
  ASSUME EngineTypeOK, CallHasProfile, EngineStep
  PROVE  StaysTyped
<1>0. /\ Successors \subseteq RuntimeState
      /\ \A p \in Profile : Fallback[p] \in Profile
  BY SuccessorsTyped, FallbackAssumption DEF EngineTypeOK
<1>1. ASSUME NEW ok \in BOOLEAN, StartReturns(ok)  PROVE StaysTyped
  <2>1. /\ call' = "none" /\ arg' = NoProfile /\ settled' = ok /\ live' = live
        /\ state' \in Successors
    BY <1>1 DEF StartReturns, Return
  <2>2. CASE ok
    <3>1. state = "starting" /\ applied' \in {applied, Fallback[applied]}
      BY <1>1, <2>2 DEF StartReturns
    <3>2. applied' \in Profile
      BY <1>0, <3>1 DEF CallHasProfile
    <3>. QED  BY <1>0, <2>1, <3>2 DEF StaysTyped, EngineTypeOK, CallHasProfile, Call
  <2>3. CASE ~ ok
    <3>1. state' \in {state, "error"} /\ applied' = applied
      BY <1>1, <2>3 DEF StartReturns
    <3>. QED  BY <1>0, <2>1, <3>1 DEF StaysTyped, EngineTypeOK, CallHasProfile, Call
  <2>. QED  BY <2>2, <2>3
<1>2. ASSUME NEW ok \in BOOLEAN, StopReturns(ok)  PROVE StaysTyped
  <2>1. /\ call' = "none" /\ arg' = NoProfile /\ settled' = ok /\ live' = live
        /\ applied' = applied /\ state' \in {"idle", "error"}
    BY <1>2 DEF StopReturns, Return
  <2>. QED  BY <2>1 DEF StaysTyped, EngineTypeOK, CallHasProfile, Call, RuntimeState
<1>3. ASSUME NEW ok \in BOOLEAN, UpdateReturns(ok)  PROVE StaysTyped
  <2>1. /\ call' = "none" /\ arg' = NoProfile /\ settled' = ok /\ live' = live
        /\ state' \in Successors /\ call = "update"
    BY <1>3 DEF UpdateReturns, Return
  <2>2. applied' \in Profile
    <3>1. IF ok THEN arg # NoProfile /\ applied' = arg ELSE applied' = applied
      BY <1>3 DEF UpdateReturns
    <3>. QED  BY <2>1, <3>1 DEF EngineTypeOK, CallHasProfile
  <2>. QED  BY <1>0, <2>1, <2>2 DEF StaysTyped, EngineTypeOK, CallHasProfile, Call
<1>4. CASE Progress
  <2>1. /\ call \in Call /\ call' = call /\ settled' = settled
        /\ state' \in Successors /\ (state' = "running" => state = "running")
        /\ arg' \in {arg, IF call = "update" THEN NoProfile ELSE arg}
        /\ applied' = IF call \in {"start", "restart"} /\ state # "starting" /\ state' = "starting"
                        THEN arg ELSE applied
    BY <1>4 DEF Progress
  <2>2. live' \in BOOLEAN
    BY <1>4 DEF Progress, EngineTypeOK
  <2>3. /\ call = "stop" => state' # "starting" \/ state = "starting"
        /\ call = "dispose" => state' = state
    BY <1>4 DEF Progress
  <2>4. EngineTypeOK'
    BY <1>0, <2>1, <2>2 DEF EngineTypeOK, CallHasProfile
  <2>5. applied \in Profile => applied' \in Profile
    BY <2>1 DEF CallHasProfile
  <2>6. CallHasProfile'
    <3>1. call \in {"start", "restart"} => arg' \in Profile
      BY <2>1 DEF CallHasProfile
    <3>2. state' = "running" => applied' \in Profile
      BY <2>1, <2>5 DEF CallHasProfile
    <3>3. state' = "starting" => applied' \in Profile
      BY <2>1, <2>3, <2>5 DEF CallHasProfile, Call
    <3>. QED  BY <2>1, <2>5, <3>1, <3>2, <3>3 DEF CallHasProfile
  <2>. QED  BY <2>1, <2>4, <2>5, <2>6 DEF StaysTyped
<1>5. CASE DisposeReturns
  <2>1. /\ call' = "disposed" /\ state' = "idle" /\ applied' = NoProfile
        /\ UNCHANGED <<live, arg, settled>>
    BY <1>5 DEF DisposeReturns
  <2>. QED  BY <1>5, <2>1 DEF StaysTyped, EngineTypeOK, CallHasProfile, Call, RuntimeState
<1>6. CASE Crash
  <2>1. /\ live' = FALSE /\ UNCHANGED <<applied, call, arg, settled>>
        /\ state' \in {state, "crashed"}
    BY <1>6 DEF Crash, TryTransition
  <2>2. state' \in RuntimeState
    BY <2>1 DEF EngineTypeOK, RuntimeState
  <2>. QED  BY <2>1, <2>2 DEF StaysTyped, EngineTypeOK, CallHasProfile
<1>7. (\E ok \in BOOLEAN : StartReturns(ok) \/ StopReturns(ok) \/ UpdateReturns(ok))
      \/ Progress \/ DisposeReturns \/ Crash
  BY DEF EngineStep
<1>8. CASE \E ok \in BOOLEAN : StartReturns(ok) \/ StopReturns(ok) \/ UpdateReturns(ok)
  <2>1. PICK ok \in BOOLEAN : StartReturns(ok) \/ StopReturns(ok) \/ UpdateReturns(ok)
    BY <1>8
  <2>. QED  BY <2>1, <1>1, <1>2, <1>3
<1>. QED  BY <1>4, <1>5, <1>6, <1>7, <1>8

-----------------------------------------------------------------------------
\* The chain and the retries: what they know of the profile.
LEMMA OpsTakenOff ==
  ASSUME queue \in Seq(Operation), OpsInv,
         queue' = queue \/ (queue # <<>> /\ Settles),
         applied \in Profile => applied' \in Profile \/ disposed,
         disposed => disposed'
  PROVE  OpsInv'
<1>1. \A i \in 1..Len(queue') : \E j \in 1..Len(queue) : queue'[i] = queue[j]
  <2>1. CASE queue' = queue
    BY <2>1
  <2>2. CASE queue # <<>> /\ Settles
    BY <2>2, HeadSettled DEF Settles
  <2>. QED  BY <2>1, <2>2
<1>. QED  BY <1>1 DEF OpsInv

LEMMA OpsJoined ==
  ASSUME queue \in Seq(Operation), OpsInv,
         NEW o \in {"connect", "disconnect", "update", "restart", "dispose"},
         NEW p \in Profile \union {NoProfile},
         Enqueue(queue, o, p) \/ Enqueue(Stale(queue), o, p),
         applied' = applied, disposed => disposed',
         o \in {"connect", "update"} => p \in Profile,
         o = "restart" => applied \in Profile,
         o = "dispose" => disposed'
  PROVE  OpsInv'
<1>1. PICK q : /\ queue' = Append(q, Op(o, p))
               /\ q \in Seq(Operation) /\ Len(q) = Len(queue)
               /\ \A i \in 1..Len(queue) :
                    q[i].op = queue[i].op /\ q[i].profile = queue[i].profile
  BY Enqueued
<1>2. /\ Op(o, p) \in Operation
      /\ Op(o, p).op = o /\ Op(o, p).profile = p
  BY DEF Op, Operation
<1>3. ASSUME NEW i \in 1..Len(queue')
      PROVE  /\ queue'[i].op \in {"connect", "update"} => queue'[i].profile \in Profile
             /\ queue'[i].op = "restart" => applied \in Profile \/ disposed
             /\ queue'[i].op = "dispose" => disposed'
  <2>1. i \in 1..Len(q) \/ i = Len(q) + 1
    BY <1>1, <1>2, Appended
  <2>2. CASE i \in 1..Len(q)
    <3>1. queue'[i] = q[i]
      BY <1>1, <1>2, <2>2, Appended
    <3>2. /\ queue'[i].op = queue[i].op /\ queue'[i].profile = queue[i].profile
          /\ i \in 1..Len(queue)
      BY <1>1, <2>2, <3>1
    <3>. QED  BY <3>2 DEF OpsInv
  <2>3. CASE i = Len(q) + 1
    <3>1. queue'[i] = Op(o, p)
      BY <1>1, <1>2, <2>3, Appended
    <3>. QED  BY <1>2, <3>1
  <2>. QED  BY <2>1, <2>2, <2>3
<1>. QED  BY <1>3 DEF OpsInv

\* What the head of the chain knows of its profile.
LEMMA HeadKnows ==
  ASSUME queue \in Seq(Operation), OpsInv, queue # <<>>
  PROVE  /\ Head(queue).op \in {"connect", "update"} => Head(queue).profile \in Profile
         /\ Head(queue).op = "restart" => applied \in Profile \/ disposed
         /\ Head(queue).op = "dispose" => disposed
         /\ Head(queue).profile \in Profile \union {NoProfile}
<1>1. /\ Head(queue) = queue[1] /\ 1 \in 1..Len(queue)
      /\ queue[1] \in Operation
  BY HeadSettled
<1>. QED  BY <1>1 DEF OpsInv, Operation

LEMMA NoAttempts == 0 \in 0..MaxAttempts
BY BoundAssumption

\* A retry counts up to the budget.
LEMMA RetryTyped ==
  ASSUME attempts \in 0..MaxAttempts, sleepers \in Nat,
         ScheduleReconnect \/ UNCHANGED <<attempts, sleepers>>
  PROVE  attempts' \in 0..MaxAttempts /\ sleepers' \in Nat
BY BoundAssumption DEF ScheduleReconnect

LEMMA ThrowsTyped ==
  ASSUME latest \in Profile \union {NoProfile}, Throws
  PROVE  latest' \in Profile \union {NoProfile}
BY DEF Throws

\* Nothing of the engine changes.
LEMMA EngineKept ==
  ASSUME EngineTypeOK, CallHasProfile, UNCHANGED engineVars
  PROVE  EngineTypeOK' /\ CallHasProfile' /\ applied' = applied /\ call' = call
BY DEF EngineTypeOK, CallHasProfile, engineVars

-----------------------------------------------------------------------------
LEMMA RequestTyped ==
  ASSUME TypedInv, ChainInv, Request
  PROVE  TypedInv'
<1>0. /\ EngineTypeOK /\ ManagerTypes /\ OpsInv /\ CallHasProfile /\ ProfileKnown
      /\ queue \in Seq(Operation)
      /\ NoProfile \in Profile \union {NoProfile}
  BY DEF TypedInv, ChainInv
<1>1. ASSUME NEW p \in Profile, Connect(p)  PROVE TypedInv'
  <2>1. EngineTypeOK' /\ CallHasProfile' /\ applied' = applied /\ call' = call
    BY <1>0, <1>1, EngineKept DEF Connect
  <2>2. ManagerTypes'
    BY <1>0, <1>1, NoAttempts DEF ManagerTypes, Connect, NewRevision
  <2>3. OpsInv'
    BY <1>0, <1>1, <2>1, OpsJoined DEF Connect, NewRevision
  <2>. QED  BY <1>0, <1>1, <2>1, <2>2, <2>3 DEF TypedInv, ProfileKnown, Connect
<1>2. ASSUME NEW p \in Profile, UpdateProfile(p)  PROVE TypedInv'
  <2>1. EngineTypeOK' /\ CallHasProfile' /\ applied' = applied /\ call' = call
    BY <1>0, <1>2, EngineKept DEF UpdateProfile
  <2>2. ManagerTypes'
    BY <1>0, <1>2 DEF ManagerTypes, UpdateProfile
  <2>3. OpsInv'
    BY <1>0, <1>2, <2>1, OpsJoined DEF UpdateProfile
  <2>. QED  BY <1>0, <1>2, <2>1, <2>2, <2>3 DEF TypedInv, ProfileKnown, UpdateProfile
<1>3. CASE Disconnect
  <2>1. EngineTypeOK' /\ CallHasProfile' /\ applied' = applied /\ call' = call
    BY <1>0, <1>3, EngineKept DEF Disconnect
  <2>2. ManagerTypes'
    BY <1>0, <1>3, NoAttempts DEF ManagerTypes, Disconnect, NewRevision
  <2>3. OpsInv'
    BY <1>0, <1>3, <2>1, OpsJoined DEF Disconnect, NewRevision
  <2>. QED  BY <1>0, <1>3, <2>1, <2>2, <2>3 DEF TypedInv, ProfileKnown, Disconnect
<1>4. CASE Dispose
  <2>1. EngineTypeOK' /\ CallHasProfile' /\ applied' = applied /\ call' = call
    BY <1>0, <1>4, EngineKept DEF Dispose
  <2>2. ManagerTypes'
    BY <1>0, <1>4, NoAttempts DEF ManagerTypes, Dispose, NewRevision
  <2>3. OpsInv'
    BY <1>0, <1>4, <2>1, OpsJoined DEF Dispose, NewRevision
  <2>. QED  BY <1>0, <1>4, <2>1, <2>2, <2>3 DEF TypedInv, ProfileKnown, Dispose
<1>. QED  BY <1>1, <1>2, <1>3, <1>4 DEF Request

-----------------------------------------------------------------------------
\* A call the chain makes of the engine is one with a profile, if it needs one.
LEMMA CallTyped ==
  ASSUME TypedInv, ChainInv, UNCHANGED managerVars, queue' = queue,
         NEW c \in Call, NEW p \in Profile \union {NoProfile}, Begin(c, p),
         c \in {"start", "restart"} => p \in Profile,
         c = "dispose" => disposed
  PROVE  TypedInv'
<1>1. EngineTypeOK' /\ CallHasProfile' /\ applied' = applied /\ call' = c
  BY BeginTyped DEF TypedInv
<1>2. ManagerTypes' /\ OpsInv'
  BY <1>1 DEF TypedInv, ManagerTypes, OpsInv, managerVars
<1>3. ProfileKnown'
  BY <1>1 DEF TypedInv, ProfileKnown, managerVars
<1>. QED  BY <1>1, <1>2, <1>3 DEF TypedInv

LEMMA ChainTyped ==
  ASSUME TypedInv, ChainInv, Chain
  PROVE  TypedInv'
<1>0. /\ EngineTypeOK /\ ManagerTypes /\ OpsInv /\ CallHasProfile /\ ProfileKnown
      /\ queue \in Seq(Operation)
      /\ NoProfile \in Profile \union {NoProfile}
  BY DEF TypedInv, ChainInv
<1>1. CASE Skips
  <2>1. EngineTypeOK' /\ CallHasProfile' /\ applied' = applied /\ call' = call
    BY <1>0, <1>1, EngineKept DEF Skips
  <2>2. ManagerTypes'
    BY <1>0, <1>1, NoAttempts DEF ManagerTypes, Skips
  <2>3. OpsInv'
    BY <1>0, <1>1, <2>1, OpsTakenOff DEF Skips, AtHead
  <2>. QED  BY <1>0, <1>1, <2>1, <2>2, <2>3 DEF TypedInv, ProfileKnown, Skips
<1>2. CASE ConnectBegins
  <2>1. Head(queue).profile \in Profile
    BY <1>0, <1>2, HeadKnows DEF ConnectBegins, AtHead
  <2>2. \/ Begin("stop", NoProfile)
        \/ Begin("start", Head(queue).profile)
    BY <1>2 DEF ConnectBegins
  <2>. QED  BY <1>0, <1>2, <2>1, <2>2, CallTyped DEF ConnectBegins, Call
<1>3. CASE ConnectContinues
  <2>1. queue # <<>> /\ Head(queue).op = "connect"
    BY <1>3 DEF ConnectContinues, ChainInv
  <2>2. Head(queue).profile \in Profile
    BY <1>0, <2>1, HeadKnows
  <2>3. CASE Settles /\ UNCHANGED engineVars
    <3>1. EngineTypeOK' /\ CallHasProfile' /\ applied' = applied /\ call' = call
      BY <1>0, <2>3, EngineKept
    <3>2. OpsInv'
      BY <1>0, <1>3, <2>1, <2>3, <3>1, OpsTakenOff DEF ConnectContinues, managerVars
    <3>. QED  BY <1>0, <1>3, <3>1, <3>2 DEF TypedInv, ManagerTypes, ProfileKnown,
                ConnectContinues, managerVars
  <2>4. CASE Begin("start", Head(queue).profile) /\ queue' = queue
    BY <1>3, <2>2, <2>4, CallTyped DEF ConnectContinues, Call
  <2>. QED  BY <1>3, <2>3, <2>4 DEF ConnectContinues
<1>4. CASE UpdateBegins
  <2>1. queue # <<>> /\ Head(queue).op = "update"
    BY <1>4 DEF UpdateBegins, AtHead
  <2>2. CASE Begin("update", Head(queue).profile) /\ queue' = queue /\ UNCHANGED managerVars
    BY <1>0, <2>1, <2>2, HeadKnows, CallTyped DEF Call
  <2>3. CASE /\ Settles /\ (Throws \/ latest' = latest)
             /\ UNCHANGED <<engineVars, desired, aborted, disposed, current, hash,
                            attempts, sleepers>>
    <3>1. EngineTypeOK' /\ CallHasProfile' /\ applied' = applied /\ call' = call
      BY <1>0, <2>3, EngineKept
    <3>2. OpsInv'
      BY <1>0, <2>1, <2>3, <3>1, OpsTakenOff
    <3>3. latest' \in Profile \union {NoProfile}
      BY <1>0, <2>3, ThrowsTyped DEF ManagerTypes
    <3>. QED  BY <1>0, <2>3, <3>1, <3>2, <3>3 DEF TypedInv, ManagerTypes, ProfileKnown
  <2>4. \/ Begin("update", Head(queue).profile) /\ queue' = queue /\ UNCHANGED managerVars
        \/ /\ Settles /\ (Throws \/ latest' = latest)
           /\ UNCHANGED <<engineVars, desired, aborted, disposed, current, hash,
                          attempts, sleepers>>
    BY <1>4 DEF UpdateBegins, managerVars
  <2>. QED  BY <2>2, <2>3, <2>4
<1>5. CASE RestartBegins
  <2>1. applied \in Profile
    BY <1>0, <1>5, HeadKnows DEF RestartBegins, AtHead, Obsolete
  <2>. QED  BY <1>5, <2>1, CallTyped DEF RestartBegins, Call
<1>6. CASE DisconnectBegins
  BY <1>0, <1>6, CallTyped DEF DisconnectBegins, Call
<1>7. CASE DisposeBegins
  <2>1. disposed
    BY <1>0, <1>7, HeadKnows DEF DisposeBegins, AtHead
  <2>. QED  BY <1>0, <1>7, <2>1, CallTyped DEF DisposeBegins, Call
<1>8. CASE DisconnectsNothing
  <2>1. EngineTypeOK' /\ CallHasProfile' /\ applied' = applied /\ call' = call
    BY <1>0, <1>8, EngineKept DEF DisconnectsNothing
  <2>2. ManagerTypes'
    BY <1>0, <1>8 DEF ManagerTypes, DisconnectsNothing
  <2>3. OpsInv'
    BY <1>0, <1>8, <2>1, OpsTakenOff DEF DisconnectsNothing, AtHead
  <2>. QED  BY <1>0, <1>8, <2>1, <2>2, <2>3 DEF TypedInv, ProfileKnown, DisconnectsNothing
<1>. QED  BY <1>1, <1>2, <1>3, <1>4, <1>5, <1>6, <1>7, <1>8 DEF Chain

-----------------------------------------------------------------------------
\* A step of the engine, whether or not it is the answer the head waits for.
LEMMA EngineStepTyped ==
  ASSUME TypedInv, ChainInv, EngineStep, disposed' = disposed,
         queue' = queue \/ (queue # <<>> /\ Settles)
  PROVE  /\ EngineTypeOK' /\ CallHasProfile' /\ OpsInv'
         /\ call' = "dispose" => disposed'
         /\ applied \in Profile /\ call' # "disposed" => applied' \in Profile
<1>1. StaysTyped
  BY EngineTyped DEF TypedInv
<1>2. DisposeReturns => disposed /\ call' = "disposed"
  BY DEF DisposeReturns, TypedInv, ProfileKnown
<1>3. OpsInv'
  BY <1>1, <1>2, OpsTakenOff DEF TypedInv, ChainInv, StaysTyped
<1>4. call' = "dispose" => disposed'
  BY <1>1 DEF StaysTyped, TypedInv, ProfileKnown
<1>. QED  BY <1>1, <1>2, <1>3, <1>4 DEF StaysTyped

LEMMA AnswersTyped ==
  ASSUME TypedInv, ChainInv, EngineAnswers
  PROVE  TypedInv'
<1>0. /\ EngineTypeOK /\ ManagerTypes /\ OpsInv /\ CallHasProfile /\ ProfileKnown
      /\ queue \in Seq(Operation)
  BY DEF TypedInv, ChainInv
<1>. DEFINE Moved == /\ EngineTypeOK' /\ CallHasProfile' /\ OpsInv'
                     /\ call' = "dispose" => disposed'
                     /\ applied \in Profile /\ call' # "disposed" => applied' \in Profile
<1>1. ASSUME NEW ok \in BOOLEAN, ConnectSettles(ok)  PROVE TypedInv'
  <2>1. StartReturns(ok) /\ queue # <<>> /\ Settles /\ UNCHANGED <<desired, aborted, disposed, attempts, sleepers>>
    BY <1>1 DEF ConnectSettles
  <2>2. Moved
    BY <2>1, EngineStepTyped DEF EngineStep
  <2>3. call' = "none" /\ (ok => state' = "running")
    BY <2>1 DEF StartReturns, Return
  <2>4. ok => applied' \in Profile
    BY <2>2, <2>3 DEF CallHasProfile
  <2>5. current' \in BOOLEAN /\ hash' \in Profile \union {NoProfile} /\ (current' => applied' \in Profile)
    BY <1>0, <1>1, <2>2, <2>3, <2>4 DEF ConnectSettles, ManagerTypes, ProfileKnown
  <2>6. latest' \in Profile \union {NoProfile}
    BY <1>0, <1>1, ThrowsTyped DEF ConnectSettles, ManagerTypes
  <2>7. ManagerTypes'
    BY <1>0, <2>1, <2>5, <2>6 DEF ManagerTypes
  <2>. QED  BY <2>2, <2>5, <2>7 DEF TypedInv, ProfileKnown
<1>2. ASSUME NEW ok \in BOOLEAN, ConnectStopSettles(ok)  PROVE TypedInv'
  <2>1. /\ StopReturns(ok) /\ queue # <<>> /\ (queue' = queue \/ Settles)
        /\ UNCHANGED <<desired, aborted, disposed, current, hash, attempts, sleepers>>
    BY <1>2 DEF ConnectStopSettles, ChainInv
  <2>2. Moved
    BY <2>1, EngineStepTyped DEF EngineStep
  <2>3. call' = "none"
    BY <2>1 DEF StopReturns, Return
  <2>6. latest' \in Profile \union {NoProfile}
    BY <1>0, <1>2, ThrowsTyped DEF ConnectStopSettles, ManagerTypes
  <2>7. ManagerTypes'
    BY <1>0, <2>1, <2>6 DEF ManagerTypes
  <2>. QED  BY <1>0, <2>1, <2>2, <2>3, <2>7 DEF TypedInv, ProfileKnown
<1>3. ASSUME NEW ok \in BOOLEAN, UpdateSettles(ok)  PROVE TypedInv'
  <2>1. UpdateReturns(ok) /\ queue # <<>> /\ Settles /\ UNCHANGED <<desired, aborted, disposed, attempts, sleepers>>
    BY <1>3 DEF UpdateSettles
  <2>2. Moved
    BY <2>1, EngineStepTyped DEF EngineStep
  <2>3. call' = "none" /\ (ok => applied' = arg /\ arg # NoProfile)
    BY <2>1 DEF UpdateReturns, Return
  <2>4. ok => applied' \in Profile
    BY <1>0, <2>3 DEF EngineTypeOK
  <2>5. current' \in BOOLEAN /\ hash' \in Profile \union {NoProfile} /\ (current' => applied' \in Profile)
    BY <1>0, <1>3, <2>2, <2>3, <2>4, HeadKnows DEF UpdateSettles, ManagerTypes, ProfileKnown
  <2>6. latest' \in Profile \union {NoProfile}
    BY <1>0, <1>3, ThrowsTyped DEF UpdateSettles, ManagerTypes
  <2>7. ManagerTypes'
    BY <1>0, <2>1, <2>5, <2>6 DEF ManagerTypes
  <2>. QED  BY <2>2, <2>5, <2>7 DEF TypedInv, ProfileKnown
<1>4. ASSUME NEW ok \in BOOLEAN, DisconnectSettles(ok)  PROVE TypedInv'
  <2>1. StopReturns(ok) /\ queue # <<>> /\ Settles /\ UNCHANGED <<desired, aborted, disposed, attempts, sleepers, latest>>
    BY <1>4 DEF DisconnectSettles
  <2>2. Moved
    BY <2>1, EngineStepTyped DEF EngineStep
  <2>3. call' = "none"
    BY <2>1 DEF StopReturns, Return
  <2>5. current' \in BOOLEAN /\ hash' \in Profile \union {NoProfile} /\ (current' => current)
    BY <1>0, <1>4 DEF DisconnectSettles, ManagerTypes
  <2>7. ManagerTypes'
    BY <1>0, <2>1, <2>5 DEF ManagerTypes
  <2>. QED  BY <1>0, <2>2, <2>3, <2>5, <2>7 DEF TypedInv, ProfileKnown
<1>5. ASSUME NEW ok \in BOOLEAN, RestartSettles(ok)  PROVE TypedInv'
  <2>1. StartReturns(ok) /\ queue # <<>> /\ Settles /\ UNCHANGED <<desired, aborted, disposed, current, hash, latest>>
    BY <1>5 DEF RestartSettles
  <2>2. Moved
    BY <2>1, EngineStepTyped DEF EngineStep
  <2>3. call' = "none"
    BY <2>1 DEF StartReturns, Return
  <2>4. attempts' \in 0..MaxAttempts /\ sleepers' \in Nat
    <3>1. \/ attempts' = 0 /\ sleepers' = sleepers
          \/ ScheduleReconnect
          \/ UNCHANGED <<attempts, sleepers>>
      BY <1>5 DEF RestartSettles
    <3>. QED  BY <1>0, <3>1, RetryTyped, NoAttempts DEF ManagerTypes
  <2>7. ManagerTypes'
    BY <1>0, <2>1, <2>4 DEF ManagerTypes
  <2>. QED  BY <1>0, <2>1, <2>2, <2>3, <2>7 DEF TypedInv, ProfileKnown
<1>6. CASE DisposeSettles
  <2>1. DisposeReturns /\ queue # <<>> /\ Settles /\ ~current' /\ hash' = NoProfile
        /\ UNCHANGED <<desired, aborted, disposed, attempts, sleepers, latest>>
    BY <1>6 DEF DisposeSettles, ChainInv
  <2>2. Moved
    BY <2>1, EngineStepTyped DEF EngineStep
  <2>3. current' \in BOOLEAN
    BY <1>6 DEF DisposeSettles
  <2>7. ManagerTypes'
    BY <1>0, <2>1, <2>3 DEF ManagerTypes
  <2>. QED  BY <2>1, <2>2, <2>7 DEF TypedInv, ProfileKnown
<1>. QED  BY <1>1, <1>2, <1>3, <1>4, <1>5, <1>6 DEF EngineAnswers

-----------------------------------------------------------------------------
LEMMA OthersTyped ==
  ASSUME TypedInv, ChainInv, EngineProgresses \/ EngineCrashes \/ SpawnFails \/ Wakes
  PROVE  TypedInv'
<1>0. /\ EngineTypeOK /\ ManagerTypes /\ OpsInv /\ CallHasProfile /\ ProfileKnown
      /\ queue \in Seq(Operation)
      /\ NoProfile \in Profile \union {NoProfile}
  BY DEF TypedInv, ChainInv
<1>1. CASE EngineProgresses
  <2>1. Progress /\ queue' = queue /\ UNCHANGED managerVars
    BY <1>1 DEF EngineProgresses
  <2>2. call' # "disposed"
    BY <2>1 DEF Progress, Call
  <2>3. ManagerTypes'
    BY <1>0, <2>1 DEF ManagerTypes, managerVars
  <2>. QED  BY <1>0, <2>1, <2>2, <2>3, EngineStepTyped
            DEF EngineStep, TypedInv, ProfileKnown, managerVars
<1>2. CASE EngineCrashes
  <2>1. /\ Crash /\ queue' = queue /\ UNCHANGED <<desired, aborted, disposed, current, hash, latest>>
        /\ ScheduleReconnect \/ UNCHANGED <<attempts, sleepers>>
    BY <1>2 DEF EngineCrashes, OnCrashed
  <2>2. applied' = applied
    BY <2>1 DEF Crash
  <2>3. ManagerTypes'
    BY <1>0, <2>1, RetryTyped DEF ManagerTypes
  <2>. QED  BY <1>0, <2>1, <2>2, <2>3, EngineStepTyped DEF EngineStep, TypedInv, ProfileKnown
<1>3. CASE SpawnFails
  <2>1. /\ UNCHANGED <<engineVars, queue, desired, aborted, disposed, current, hash, latest>>
        /\ ScheduleReconnect \/ UNCHANGED <<attempts, sleepers>>
    BY <1>3 DEF SpawnFails, OnCrashed
  <2>2. EngineTypeOK' /\ CallHasProfile' /\ applied' = applied /\ call' = call
    BY <1>0, <2>1, EngineKept
  <2>3. ManagerTypes'
    BY <1>0, <2>1, RetryTyped DEF ManagerTypes
  <2>4. OpsInv'
    BY <1>0, <2>1, <2>2 DEF OpsInv
  <2>. QED  BY <1>0, <2>1, <2>2, <2>3, <2>4 DEF TypedInv, ProfileKnown
<1>4. CASE Wakes
  <2>1. /\ UNCHANGED <<engineVars, desired, aborted, disposed, current, hash, attempts, latest>>
        /\ sleepers > 0 /\ sleepers' = sleepers - 1
        /\ \/ queue' = queue
           \/ current /\ Enqueue(queue, "restart", NoProfile)
    BY <1>4 DEF Wakes
  <2>2. EngineTypeOK' /\ CallHasProfile' /\ applied' = applied /\ call' = call
    BY <1>0, <2>1, EngineKept
  <2>3. ManagerTypes'
    BY <1>0, <2>1 DEF ManagerTypes
  <2>4. OpsInv'
    <3>1. CASE queue' = queue
      BY <1>0, <2>1, <2>2, <3>1 DEF OpsInv
    <3>2. CASE current /\ Enqueue(queue, "restart", NoProfile)
      BY <1>0, <2>1, <2>2, <3>2, OpsJoined DEF ProfileKnown
    <3>. QED  BY <2>1, <3>1, <3>2
  <2>. QED  BY <1>0, <2>1, <2>2, <2>3, <2>4 DEF TypedInv, ProfileKnown
<1>. QED  BY <1>1, <1>2, <1>3, <1>4

LEMMA TypedStep == TypedInv /\ DesiredInv /\ [Next]_vars => TypedInv'
<1>. SUFFICES ASSUME TypedInv, DesiredInv, [Next]_vars  PROVE TypedInv'
  OBVIOUS
<1>1. ChainInv
  BY DEF DesiredInv
<1>2. CASE UNCHANGED vars
  BY <1>2 DEF TypedInv, EngineTypeOK, ManagerTypes, OpsInv, CallHasProfile,
     ProfileKnown, vars, engineVars, managerVars
<1>3. CASE Next
  BY <1>1, <1>3, RequestTyped, ChainTyped, AnswersTyped, OthersTyped DEF Next
<1>. QED  BY <1>2, <1>3

\* RuntimeManager.ts:11-34, 44-62: what the manager, its chain and the engine it owns
\* hold is what they are declared to hold. That a retry has a profile to restart
\* with (:163-170) is part of the argument: the profile of an engine is forgotten
\* only when it is disposed, and nothing is restarted after that.
THEOREM ManagerIsTyped == Spec => []TypeOK
<1>1. Init => TypedInv /\ DesiredInv
  BY TypedInit, DesiredInit
<1>2. TypedInv /\ DesiredInv /\ [Next]_vars => TypedInv' /\ DesiredInv'
  BY TypedStep, DesiredStep
<1>3. TypedInv /\ DesiredInv => TypeOK
  BY DEF TypedInv, DesiredInv, ChainInv, ManagerTypes, TypeOK
<1>. QED  BY <1>1, <1>2, <1>3, PTL DEF Spec

=============================================================================
