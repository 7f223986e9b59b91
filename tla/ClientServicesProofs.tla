------------------------ MODULE ClientServicesProofs ------------------------
(***************************************************************************)
(* What the services of the client that keep nothing on disk promise, each *)
(* for any number of requests, nodes, servers, operations and starts: the  *)
(* bounds that TLC needs are constants here like any other.                *)
(***************************************************************************)
EXTENDS HealthMonitor, Sessions, NodeBalancer, VpnStore, AndroidBridge, RoutingPolicy,
        FiniteSetTheorems, SequenceTheorems, TLAPS

-----------------------------------------------------------------------------
(* The health monitor *)

Verdict == [of : Nat, ok : BOOLEAN]

HealthTypeOK ==
  /\ ticking \in BOOLEAN /\ settling \in BOOLEAN
  /\ generation \in Nat /\ checks \in SUBSET Nat
  /\ retry \in Nat \union {NoRetry}
  /\ verdict \in Verdict \union {NoVerdict}

\* A check under way is of the present start or of an earlier one, and of an
\* earlier one once the monitor is stopped.
ChecksAreOfAStart ==
  \A g \in checks : g <= generation /\ (g = generation => ticking)

HealthInv == HealthTypeOK /\ ChecksAreOfAStart /\ VerdictIsFresh

LEMMA HealthInvInit ==
  ASSUME HealthInit
  PROVE  HealthInv
  BY HealthAssumption
  DEF HealthInit, HealthInv, HealthTypeOK, ChecksAreOfAStart, VerdictIsFresh

LEMMA HealthInvStep ==
  ASSUME HealthInv, [HealthNext]_healthVars
  PROVE  HealthInv'
<1>. USE HealthAssumption DEF HealthInv, HealthTypeOK, ChecksAreOfAStart, VerdictIsFresh
<1>1. CASE MonitorStarts
  <2>1. retry = NoRetry /\ verdict = NoVerdict
    BY <1>1 DEF MonitorStarts
  <2>2. /\ ticking' = TRUE /\ settling' = TRUE /\ UNCHANGED <<retry, verdict>>
        /\ generation' = generation + 1 /\ checks' = checks \union {generation + 1}
    BY <1>1 DEF MonitorStarts, Checking
  <2>3. HealthTypeOK'
    BY <2>1, <2>2
  <2>4. ChecksAreOfAStart'
    BY <2>1, <2>2
  <2>5. VerdictIsFresh'
    BY <2>1, <2>2
  <2>. HIDE DEF HealthTypeOK, ChecksAreOfAStart, VerdictIsFresh
  <2>. QED  BY <2>3, <2>4, <2>5
<1>2. CASE MonitorStops
  <2>1. /\ ticking' = FALSE /\ settling' = FALSE /\ retry' = NoRetry /\ verdict' = NoVerdict
        /\ generation' = generation + 1 /\ UNCHANGED checks
    BY <1>2 DEF MonitorStops
  <2>2. HealthTypeOK'
    <3>1. generation' \in Nat /\ checks' \in SUBSET Nat
      BY <2>1
    <3>. QED  BY <2>1, <3>1
  <2>3. ChecksAreOfAStart'
    BY <2>1
  <2>4. VerdictIsFresh'
    BY <2>1
  <2>. HIDE DEF HealthTypeOK, ChecksAreOfAStart, VerdictIsFresh
  <2>. QED  BY <2>2, <2>3, <2>4
<1>3. CASE Ticks
  BY <1>3 DEF Ticks, Checking
<1>4. CASE TrafficSeen
  BY <1>4 DEF TrafficSeen
<1>5. CASE RetryFires
  BY <1>5 DEF RetryFires, Checking
<1>6. CASE Settles
  BY <1>6 DEF Settles
<1>7. ASSUME NEW g \in checks, NEW ok \in BOOLEAN, CheckEnds(g, ok)
      PROVE  HealthInv'
  <2>1. CASE Outlived(g)
    BY <1>7, <2>1 DEF CheckEnds
  <2>2. CASE ~Outlived(g)
    <3>1. g = generation /\ ticking
      BY <2>2 DEF Outlived
    <3>2. /\ verdict' = [of |-> g, ok |-> ok] /\ verdict' \in Verdict
          /\ retry' \in {g, retry} /\ settling' \in BOOLEAN
          /\ checks' \subseteq checks /\ UNCHANGED <<ticking, generation>>
      BY <1>7, <2>2 DEF CheckEnds, Verdict
    <3>. QED  BY <3>1, <3>2
  <2>. QED  BY <2>1, <2>2
<1>8. CASE UNCHANGED healthVars
  BY <1>8 DEF healthVars
<1>. QED  BY <1>1, <1>2, <1>3, <1>4, <1>5, <1>6, <1>7, <1>8 DEF HealthNext

\* The health the interface shows was found by a check of the start that runs
\* now, however slow the checks of earlier kernels are and however often the
\* engine stops and starts the monitor (HealthMonitor.ts:56-68, 119).
THEOREM HealthIsOfThisStart == HealthSpec => []VerdictIsFresh
<1>1. HealthInv => VerdictIsFresh
  BY DEF HealthInv
<1>. QED  BY HealthInvInit, HealthInvStep, <1>1, PTL DEF HealthSpec

-----------------------------------------------------------------------------
(* The session *)

\* A server that rotates its refresh tokens is one whose client shares a
\* refresh: the provider's. Of a cabinet whose server rotates too, TLC finds
\* the session lost.
OnlyProvidersRotate == \A s \in Setups : s.rotates => s.client = "api"

Tokens == [access : Nat, refresh : Nat]

SessionTypeOK ==
  /\ setup \in Setups /\ (setup.rotates => Shared)
  /\ tokens \in Tokens \union {NoTokens} /\ issued \in Nat
  /\ reqs \in [Reqs -> [at : {"idle", "sent", "waiting", "again"}, access : Nat]]
  /\ asked \subseteq [by : Reqs, with : Nat]

\* Of the requests for new tokens under way the first is the only one, when it
\* is shared.
OneRefresh == Shared => \A a, b \in asked : a = b

\* The session goes on: the server takes the refresh token that is stored and
\* every request for new tokens carries, and a retry carries a token that has
\* not expired.
SessionGoesOn ==
  /\ tokens # NoTokens /\ tokens.refresh \in usable
  /\ \A a \in asked : a.with = tokens.refresh
  /\ \A r \in Reqs : At(r, "again") => reqs[r].access \in live

SessionInv == SessionTypeOK /\ OneRefresh /\ (~excused => SessionGoesOn)

LEMMA NewTokens ==
  ASSUME NEW a \in Nat, NEW r \in Nat
  PROVE  /\ [access |-> a, refresh |-> r] \in Tokens
         /\ [access |-> a, refresh |-> r] # NoTokens
  BY SessionsAssumption DEF Tokens

LEMMA SessionInvInit ==
  ASSUME OnlyProvidersRotate, SessionInit
  PROVE  SessionInv
<1>1. tokens \in Tokens /\ tokens # NoTokens
  BY NewTokens DEF SessionInit
<1>2. SessionTypeOK
  <2>1. setup \in Setups /\ (setup.rotates => Shared)
    BY DEF SessionInit, OnlyProvidersRotate, Shared
  <2>2. reqs \in [Reqs -> [at : {"idle", "sent", "waiting", "again"}, access : Nat]]
    BY DEF SessionInit
  <2>. QED  BY <1>1, <2>1, <2>2 DEF SessionInit, SessionTypeOK
<1>3. OneRefresh
  BY DEF SessionInit, OneRefresh
<1>4. SessionGoesOn
  BY <1>1 DEF SessionInit, SessionGoesOn, At
<1>. QED  BY <1>2, <1>3, <1>4 DEF SessionInv

\* A request moves to a place where it does not retry.
LEMMA RequestMoves ==
  ASSUME SessionInv, NEW r \in Reqs, NEW at \in {"idle", "sent", "waiting"},
         NEW access \in Nat, reqs' = [reqs EXCEPT ![r] = [at |-> at, access |-> access]]
  PROVE  /\ reqs' \in [Reqs -> [at : {"idle", "sent", "waiting", "again"}, access : Nat]]
         /\ \A q \in Reqs : At(q, "again")' => At(q, "again") /\ reqs'[q] = reqs[q]
<1>. USE DEF SessionInv, SessionTypeOK
<1>1. ASSUME NEW q \in Reqs, At(q, "again")'
      PROVE  At(q, "again") /\ reqs'[q] = reqs[q]
  <2>1. reqs'[q].at = "again"
    BY <1>1 DEF At
  <2>2. q # r
    BY <2>1
  <2>3. reqs'[q] = reqs[q]
    BY <2>2
  <2>. QED  BY <2>1, <2>3 DEF At
<1>. QED  BY <1>1

LEMMA GoesMoves ==
  ASSUME SessionInv, NEW r \in Reqs, NEW at \in {"idle", "sent", "waiting"}, reqs' = Goes(r, at)
  PROVE  /\ reqs' \in [Reqs -> [at : {"idle", "sent", "waiting", "again"}, access : Nat]]
         /\ \A q \in Reqs : At(q, "again")' => At(q, "again") /\ reqs'[q] = reqs[q]
<1>1. /\ reqs[r] \in [at : {"idle", "sent", "waiting", "again"}, access : Nat]
      /\ reqs[r].access \in Nat
  BY DEF SessionInv, SessionTypeOK
<1>2. reqs' = [reqs EXCEPT ![r] = [reqs[r] EXCEPT !.at = at]]
  BY DEF Goes
<1>3. [reqs[r] EXCEPT !.at = at] = [at |-> at, access |-> reqs[r].access]
  BY <1>1
<1>4. reqs' = [reqs EXCEPT ![r] = [at |-> at, access |-> reqs[r].access]]
  BY <1>2, <1>3
<1>. QED  BY <1>1, <1>4, RequestMoves

LEMMA SessionUndisturbed ==
  ASSUME SessionGoesOn, UNCHANGED <<tokens, usable, live>>,
         \A q \in Reqs : At(q, "again")' => At(q, "again") /\ reqs'[q] = reqs[q],
         \A a \in asked' : a \in asked \/ a.with = tokens.refresh
  PROVE  SessionGoesOn'
  BY DEF SessionGoesOn

LEMMA RequestsKeepSession ==
  ASSUME SessionInv, NEW r \in Reqs,
         Sends(r) \/ Answers(r) \/ Forbidden(r) \/ Refused(r) \/ RefusedAgain(r)
  PROVE  SessionInv'
<1>. USE DEF server, SessionInv, SessionTypeOK
<1>1. CASE Sends(r)
  <2>1. tokens.access \in Nat
    BY <1>1 DEF Sends, Tokens
  <2>2. /\ reqs' = [reqs EXCEPT ![r] = [at |-> "sent", access |-> tokens.access]]
        /\ UNCHANGED <<setup, tokens, server, asked, excused>>
    BY <1>1 DEF Sends
  <2>3. SessionTypeOK'
    BY <2>1, <2>2, RequestMoves DEF Shared
  <2>4. SessionGoesOn => SessionGoesOn'
    BY <2>1, <2>2, RequestMoves, SessionUndisturbed
  <2>. QED  BY <2>2, <2>3, <2>4 DEF OneRefresh, Shared
<1>2. CASE Answers(r) \/ Forbidden(r)
  <2>1. /\ reqs' = Goes(r, "idle") /\ tokens' \in {tokens, NoTokens}
        /\ ~excused' => ~excused /\ UNCHANGED tokens
        /\ UNCHANGED <<setup, server, asked>>
    BY <1>2 DEF Answers, Forbidden
  <2>2. SessionTypeOK'
    BY <2>1, GoesMoves DEF Shared
  <2>3. ~excused' /\ SessionGoesOn => SessionGoesOn'
    BY <2>1, GoesMoves, SessionUndisturbed
  <2>. QED  BY <2>1, <2>2, <2>3 DEF OneRefresh, Shared
<1>3. CASE Refused(r)
  <2>1. UNCHANGED <<setup, tokens, server, excused>>
    BY <1>3 DEF Refused
  <2>2. reqs' = Goes(r, "idle") \/ reqs' = Goes(r, "waiting")
    BY <1>3 DEF Refused
  <2>3. \/ asked' = asked
        \/ /\ tokens # NoTokens /\ (Shared => asked = {})
           /\ asked' = asked \union {[by |-> r, with |-> tokens.refresh]}
    BY <1>3 DEF Refused
  <2>4. asked' \subseteq [by : Reqs, with : Nat]
    BY <2>3 DEF Tokens
  <2>5. SessionTypeOK'
    BY <2>1, <2>2, <2>4, GoesMoves DEF Shared
  <2>6. OneRefresh'
    BY <2>1, <2>3 DEF OneRefresh, Shared
  <2>7. SessionGoesOn => SessionGoesOn'
    BY <2>1, <2>2, <2>3, GoesMoves, SessionUndisturbed
  <2>. QED  BY <2>1, <2>5, <2>6, <2>7
<1>4. CASE RefusedAgain(r)
  <2>1. /\ reqs' = Goes(r, "idle") /\ tokens' \in {tokens, NoTokens}
        /\ UNCHANGED <<setup, server, asked, excused>>
    BY <1>4 DEF RefusedAgain
  <2>2. SessionTypeOK'
    BY <2>1, GoesMoves DEF Shared
  <2>3. ~SessionGoesOn
    BY <1>4 DEF RefusedAgain, SessionGoesOn
  <2>. QED  BY <2>1, <2>2, <2>3 DEF OneRefresh, Shared
<1>. QED  BY <1>1, <1>2, <1>3, <1>4

\* The requests that waited for an answer leave for one place.
LEMMA WaitingMove ==
  ASSUME SessionInv, NEW a, NEW new \in Nat, NEW at \in {"idle", "again"},
         reqs' = [r \in Reqs |-> IF r \in Waiting(a) THEN [at |-> at, access |-> new] ELSE reqs[r]]
  PROVE  /\ reqs' \in [Reqs -> [at : {"idle", "sent", "waiting", "again"}, access : Nat]]
         /\ \A r \in Reqs : \/ reqs'[r] = [at |-> at, access |-> new]
                            \/ reqs'[r] = reqs[r]
  BY DEF SessionInv, SessionTypeOK

LEMMA RefreshKeepsSession ==
  ASSUME SessionInv, NEW a \in asked, Refreshes(a)
  PROVE  SessionInv'
<1>. DEFINE new == issued + 1
<1>. USE DEF SessionInv
<1>1. new \in Nat /\ a.with \in Nat
  BY DEF SessionTypeOK
<1>2. reqs' = [r \in Reqs |-> IF r \in Waiting(a) THEN [at |-> "again", access |-> new] ELSE reqs[r]]
  BY DEF Refreshes, Resent
<1>3. tokens' = [access |-> new, refresh |-> IF setup.rotates THEN new ELSE a.with]
  BY DEF Refreshes
<1>4. /\ asked' = asked \ {a} /\ issued' = new /\ live' = live \union {new}
      /\ usable' = IF setup.rotates THEN (usable \ {a.with}) \union {new} ELSE usable
      /\ a.with \in usable /\ UNCHANGED <<setup, excused>>
  BY DEF Refreshes, Issues
<1>5. tokens' \in Tokens /\ tokens' # NoTokens
  BY <1>1, <1>3, NewTokens
<1>6. SessionTypeOK'
  BY <1>1, <1>2, <1>4, <1>5, WaitingMove DEF SessionTypeOK, Shared
<1>7. OneRefresh'
  BY <1>4 DEF OneRefresh, Shared
<1>8. ASSUME SessionGoesOn
      PROVE  SessionGoesOn'
  <2>1. tokens'.refresh = (IF setup.rotates THEN new ELSE a.with) /\ tokens'.refresh \in usable'
    BY <1>3, <1>4
  <2>2. ASSUME NEW b \in asked'
        PROVE  b.with = tokens'.refresh
    <3>1. CASE setup.rotates
      BY <1>4, <2>2, <3>1 DEF SessionTypeOK, OneRefresh
    <3>2. CASE ~setup.rotates
      BY <1>4, <1>8, <2>1, <2>2, <3>2 DEF SessionGoesOn
    <3>. QED  BY <3>1, <3>2
  <2>3. ASSUME NEW r \in Reqs, reqs'[r].at = "again"
        PROVE  reqs'[r].access \in live'
    <3>1. CASE reqs'[r] = [at |-> "again", access |-> new]
      BY <1>4, <3>1
    <3>2. CASE reqs'[r] = reqs[r]
      BY <1>4, <1>8, <2>3, <3>2 DEF SessionGoesOn, At
    <3>. QED  BY <1>1, <1>2, <3>1, <3>2, WaitingMove
  <2>. QED  BY <1>5, <2>1, <2>2, <2>3 DEF SessionGoesOn, At
<1>. QED  BY <1>4, <1>6, <1>7, <1>8

LEMMA GivingUpKeepsTypes ==
  ASSUME SessionInv, NEW a \in asked, NEW ends \in BOOLEAN, GivesUp(a, ends),
         issued' \in Nat
  PROVE  SessionTypeOK' /\ OneRefresh'
<1>. USE DEF SessionInv, SessionTypeOK
<1>1. reqs' \in [Reqs -> [at : {"idle", "sent", "waiting", "again"}, access : Nat]]
  <2>1. \A r \in Reqs : [reqs[r] EXCEPT !.at = "idle"]
                          \in [at : {"idle", "sent", "waiting", "again"}, access : Nat]
    OBVIOUS
  <2>. QED  BY <2>1 DEF GivesUp
<1>2. asked' \subseteq asked /\ tokens' \in {tokens, NoTokens} /\ UNCHANGED setup
  BY DEF GivesUp
<1>. QED  BY <1>1, <1>2 DEF OneRefresh, Shared

LEMMA OthersKeepSession ==
  ASSUME SessionInv,
         \/ \E a \in asked : RefreshRefused(a) \/ RefreshLost(a)
         \/ SignsOut \/ Expires
  PROVE  SessionInv'
<1>. USE DEF SessionInv, server
<1>1. ASSUME NEW a \in asked, RefreshRefused(a)
      PROVE  SessionInv'
  <2>1. SessionTypeOK' /\ OneRefresh'
    BY <1>1, GivingUpKeepsTypes DEF RefreshRefused, SessionTypeOK
  <2>2. a.with \notin usable /\ UNCHANGED excused
    BY <1>1 DEF RefreshRefused
  <2>3. ~SessionGoesOn
    BY <2>2 DEF SessionGoesOn
  <2>. QED  BY <2>1, <2>2, <2>3
<1>2. ASSUME NEW a \in asked, RefreshLost(a)
      PROVE  SessionInv'
  <2>1. issued' \in Nat
    BY <1>2 DEF RefreshLost, Issues, SessionTypeOK
  <2>2. GivesUp(a, EndsWhenLost) /\ EndsWhenLost \in BOOLEAN /\ excused'
    BY <1>2 DEF RefreshLost, EndsWhenLost
  <2>. QED  BY <2>1, <2>2, GivingUpKeepsTypes
<1>3. CASE SignsOut
  <2>1. tokens' = NoTokens /\ excused' = TRUE /\ UNCHANGED <<setup, issued, reqs, asked>>
    BY <1>3 DEF SignsOut
  <2>. QED  BY <2>1 DEF SessionTypeOK, OneRefresh, Shared
<1>4. CASE Expires
  <2>1. /\ UNCHANGED <<setup, tokens, issued, usable, reqs, asked>>
        /\ excused' = (excused \/ \E r \in Reqs : At(r, "again"))
    BY <1>4 DEF Expires
  <2>2. SessionTypeOK' /\ OneRefresh'
    BY <2>1 DEF SessionTypeOK, OneRefresh, Shared
  <2>3. ~excused' => ~excused /\ \A r \in Reqs : ~At(r, "again")
    BY <2>1
  <2>4. ~excused' => SessionGoesOn'
    BY <2>1, <2>3 DEF SessionGoesOn, At
  <2>. QED  BY <2>2, <2>4
<1>. QED  BY <1>1, <1>2, <1>3, <1>4

\* Any number of requests that find the access token expired at the same time
\* leave the user signed in, whatever the order of their answers; of a server
\* that rotates its refresh tokens, thanks to the one refresh that RefreshLock
\* shares (RefreshLock.ts:8-18, refresh.interceptor.ts:38-65,
\* CabinetClient.ts:280-322).
THEOREM SessionOutlivesExpiry ==
  ASSUME OnlyProvidersRotate
  PROVE  SessionSpec => []SessionIsKept
<1>1. SessionInit => SessionInv
  BY SessionInvInit
<1>2. SessionInv /\ [SessionNext]_sessionVars => SessionInv'
  <2>. SUFFICES ASSUME SessionInv, [SessionNext]_sessionVars
                PROVE  SessionInv'
    OBVIOUS
  <2>1. CASE UNCHANGED sessionVars
    BY <2>1 DEF sessionVars, server, SessionInv, SessionTypeOK, OneRefresh, SessionGoesOn,
       Shared, At
  <2>. QED  BY <2>1, RequestsKeepSession, RefreshKeepsSession, OthersKeepSession DEF SessionNext
<1>3. SessionInv => SessionIsKept
  BY DEF SessionInv, SessionGoesOn, SessionIsKept
<1>. QED  BY <1>1, <1>2, <1>3, PTL DEF SessionSpec

-----------------------------------------------------------------------------
(* The node balancer *)

\* A timer probes only while the balancer is on.
TimerIsOn == probing # {} => balancerOn

\* A timer that a step starts, and a best node that it chooses.
Quiet ==
  /\ probing' # {} => balancerOn'
  /\ best' # best => balancerOn /\ sample'[best'].ok

LEMMA RoundsChooseNothing ==
  ASSUME NEW names, RoundBegins(names)
  PROVE  UNCHANGED best
  BY DEF RoundBegins, probeVars

LEMMA StartsWhenOn ==
  ASSUME NEW names, BalancerStarts(names)
  PROVE  Quiet
<1>1. CASE Startable
  BY <1>1, RoundsChooseNothing DEF BalancerStarts, Startable, Quiet
<1>2. CASE ~Startable
  BY <1>2 DEF BalancerStarts, probeVars, Quiet
<1>. QED  BY <1>1, <1>2

LEMMA BalancerStep ==
  ASSUME TimerIsOn, BalancerNext
  PROVE  Quiet
<1>. USE DEF TimerIsOn
<1>1. CASE BalancerEnabled
  BY <1>1, StartsWhenOn DEF BalancerEnabled, probeVars, Quiet
<1>2. CASE BalancerDisabled
  BY <1>2 DEF BalancerDisabled, probeVars, Quiet
<1>3. CASE ProbesAsked
  BY <1>3, RoundsChooseNothing DEF ProbesAsked, probeVars, Quiet
<1>4. CASE NamesCome
  BY <1>4, RoundsChooseNothing, StartsWhenOn DEF NamesCome, Quiet
<1>5. CASE ProbesTick
  BY <1>5, RoundsChooseNothing DEF ProbesTick, callVars, Quiet
<1>6. ASSUME NEW r \in rounds, RoundEnds(r)
      PROVE  Quiet
  <2>1. UNCHANGED <<balancerOn, probing>>
    BY <1>6 DEF RoundEnds, callVars
  <2>2. best' # best => balancerOn /\ best' \in Available(r.names, sample')
    BY <1>6 DEF RoundEnds
  <2>. QED  BY <2>1, <2>2 DEF Available, Quiet
<1>7. CASE NodesChange
  BY <1>7 DEF NodesChange, probeVars, Quiet
<1>. QED  BY <1>1, <1>2, <1>3, <1>4, <1>5, <1>6, <1>7 DEF BalancerNext

\* Once the balancer is off, no enabling that waited for the names starts its
\* timer again and no round under way chooses a node; while it is on, only a
\* node that answered in the round that ends is chosen (NodeBalancer.ts:45-60,
\* 101-103, 139-142).
THEOREM BalancerIsQuiet == BalancerSpec => BalancesOnlyWhenOn
<1>1. BalancerInit => TimerIsOn
  BY DEF BalancerInit, TimerIsOn
<1>2. TimerIsOn /\ [BalancerNext]_balancerVars => TimerIsOn'
  BY BalancerStep DEF TimerIsOn, Quiet, balancerVars
<1>3. TimerIsOn /\ [BalancerNext]_balancerVars => [Quiet]_balancerVars
  BY BalancerStep
<1>. QED  BY <1>1, <1>2, <1>3, PTL DEF BalancerSpec, BalancesOnlyWhenOn, Quiet

-----------------------------------------------------------------------------
(* The store of the pages *)

\* Whatever a running core refuses of setProxy(), and however late the polls
\* are, a server the pages show is the last one whose selection did not throw or
\* the one a poll found the core to use (bridge.ts:376).
THEOREM StoreClaimsNothingRejected == StoreSpec => []NoRejectedClaim
<1>1. StoreInit => NoRejectedClaim
  BY DEF StoreInit, NoRejectedClaim
<1>2. NoRejectedClaim /\ [StoreNext]_pagesVars => NoRejectedClaim'
  <2>. SUFFICES ASSUME NoRejectedClaim, [StoreNext]_pagesVars
                PROVE  NoRejectedClaim'
    OBVIOUS
  <2>1. CASE StoreConnects \/ Compiles \/ ConnectReturns \/ StoreDisconnects
    BY <2>1 DEF NoRejectedClaim, proxyVars, StoreConnects, Compiles, ConnectReturns, StoreDisconnects
  <2>2. CASE \E p \in Targets : StoreSelects(p)
    BY <2>2 DEF NoRejectedClaim, proxyVars, StoreSelects
  <2>3. CASE CoreSelects \/ SelectionReturns
    BY <2>3 DEF NoRejectedClaim, proxyVars, CoreSelects, SelectionReturns
  <2>4. CASE ServiceConnects \/ ServiceFails \/ ServiceReconnects
    BY <2>4 DEF NoRejectedClaim, proxyVars, ServiceConnects, ServiceFails, ServiceReconnects
  <2>5. CASE StatusPolled \/ ProxyPolled
    BY <2>5 DEF NoRejectedClaim, proxyVars, StatusPolled, ProxyPolled
  <2>6. CASE UNCHANGED pagesVars
    BY <2>6 DEF NoRejectedClaim, proxyVars, pagesVars
  <2>. QED  BY <2>1, <2>2, <2>3, <2>4, <2>5, <2>6 DEF StoreNext
<1>. QED  BY <1>1, <1>2, PTL DEF StoreSpec

-----------------------------------------------------------------------------
(* The bridge *)

\* A mode, or none: that one is chosen, the proofs below do not need.
AMode == Modes \union {NoMode}

Intent == [kind : {"start", "stop", "reconnect"}, mode : AMode]

BridgeTypeOK ==
  /\ state \in {"disconnected", "connecting", "connected", "error"}
  /\ run \in AMode /\ cache \in AMode /\ currentMode \in AMode /\ vpnMode \in AMode
  /\ settled \in BOOLEAN /\ off \in BOOLEAN /\ behind \in BOOLEAN
  /\ intents \in Seq(Intent)
  /\ ops \in [Ops -> BridgeOp \union {NoOp}]

\* Of a user who has disconnected nothing is under way that starts the VPN: an
\* operation that reconnects has not yet seen whether a tunnel runs, pages that
\* start have not yet found the settings to connect by.
OffInv ==
  off => /\ state = "disconnected"
         /\ \A n \in DOMAIN intents : intents[n].kind = "stop"
         /\ \A o \in Ops :
              ops[o] = NoOp \/ ops[o].at \in {"launch", "settings", "saved", "status"}

\* What an operation waits for tells who asked for it and that the settings
\* are read.
OpsInv ==
  \A o \in Ops : ops[o] # NoOp =>
    /\ ops[o].at \in {"settings", "saved"} => ops[o].by \in {"mode", "setting"}
    /\ ops[o].at \in {"saved", "nodes"} => settled

\* The mode chosen last is the last one to be saved.
LastIsSaved ==
  (\E o \in Ops : Awaits(o, "saved") /\ ops[o].arg # currentMode) =>
    \E q \in Ops : Awaits(q, "saved") /\ ops[q].arg = currentMode

\* The settings have the mode chosen last, or get it.
SavedOrSaving ==
  settled /\ vpnMode # currentMode => \E q \in Ops : Awaits(q, "saved") /\ ops[q].arg = currentMode

\* A change of the mode that has not yet seen whether a tunnel runs.
Changing(o) == ops[o] # NoOp /\ ops[o].by = "mode" /\ ops[o].at \in {"saved", "status"}

\* A tunnel in another mode than the one chosen last is about to be stopped.
OrStopped ==
  state \in Started /\ run # Wanted =>
    \/ \E o \in Ops : Changing(o)
    \/ \E n \in DOMAIN intents : intents[n].kind = "stop"

ModeInv ==
  /\ OpsInv /\ LastIsSaved
  /\ state = "connected" => cache = run
  /\ ~behind => SavedOrSaving /\ ~Older(Wanted) /\ OrStopped

BridgeInv == BridgeTypeOK /\ OffInv /\ ModeInv

\* Operations are records of their kind, and none of them is NoOp.
LEMMA OpIs ==
  ASSUME NEW by \in {"user", "mode", "setting", "other"},
         NEW at \in {"launch", "settings", "saved", "status", "restore", "state", "nodes"},
         NEW arg \in AMode
  PROVE  /\ Op(by, at, arg) \in BridgeOp /\ Op(by, at, arg) # NoOp
         /\ Op(by, at, arg).by = by /\ Op(by, at, arg).at = at /\ Op(by, at, arg).arg = arg
  BY BridgeAssumption DEF Op, BridgeOp, AMode

LEMMA BridgeInvInit ==
  ASSUME BridgeInit
  PROVE  BridgeInv
<1>1. BridgeTypeOK
  <2>1. /\ run \in AMode /\ cache \in AMode /\ currentMode \in AMode /\ vpnMode \in AMode
        /\ intents \in Seq(Intent)
    BY BridgeAssumption DEF BridgeInit, AMode
  <2>2. ops \in [Ops -> BridgeOp \union {NoOp}]
    BY DEF BridgeInit
  <2>3. settled \in BOOLEAN /\ off \in BOOLEAN /\ behind \in BOOLEAN
    BY DEF BridgeInit
  <2>4. state \in {"disconnected", "connecting", "connected", "error"}
    BY DEF BridgeInit
  <2>. QED  BY <2>1, <2>2, <2>3, <2>4 DEF BridgeTypeOK
<1>2. OffInv
  BY DEF BridgeInit, OffInv
<1>3. /\ state = "disconnected" /\ intents = <<>> /\ ~settled
      /\ \A o \in Ops : ops[o] = NoOp
  BY DEF BridgeInit
<1>4. ModeInv
  BY <1>3 DEF ModeInv, OpsInv, LastIsSaved, SavedOrSaving, OrStopped, Older, Awaits, Started
<1>. QED  BY <1>1, <1>2, <1>4 DEF BridgeInv

LEMMA OpGoesOn ==
  ASSUME NEW op \in BridgeOp,
         NEW at \in {"settings", "saved", "status", "restore", "state", "nodes"}
  PROVE  LET next == [op EXCEPT !.at = at] IN
         /\ next \in BridgeOp /\ next # NoOp
         /\ next.at = at /\ next.by = op.by /\ next.arg = op.arg
  BY BridgeAssumption DEF BridgeOp, AMode

LEMMA OpCompiles ==
  ASSUME NEW op \in BridgeOp, NEW arg \in AMode
  PROVE  LET next == [op EXCEPT !.at = "nodes", !.arg = arg] IN
         next \in BridgeOp /\ next.at = "nodes" /\ next.arg = arg
  BY DEF BridgeOp, AMode

\* A command is posted behind those on their way.
LEMMA Posted ==
  ASSUME BridgeTypeOK, NEW kind \in {"start", "stop", "reconnect"},
         NEW mode \in AMode, Posts(kind, mode)
  PROVE  /\ intents' \in Seq(Intent) /\ Len(intents') = Len(intents) + 1
         /\ DOMAIN intents' = 1..(Len(intents) + 1) /\ Len(intents) \in Nat
         /\ DOMAIN intents = 1..Len(intents)
         /\ \A n \in DOMAIN intents : intents'[n] = intents[n]
         /\ intents'[Len(intents) + 1] = [kind |-> kind, mode |-> mode]
<1>1. [kind |-> kind, mode |-> mode] \in Intent /\ intents \in Seq(Intent)
  BY DEF Intent, BridgeTypeOK
<1>. QED  BY <1>1 DEF Posts

\* The first command is delivered, the others move up.
LEMMA Delivered ==
  ASSUME BridgeTypeOK, NEW kind, Delivers(kind)
  PROVE  /\ intents' \in Seq(Intent) /\ Head(intents) = intents[1] /\ Head(intents) \in Intent
         /\ 1 \in DOMAIN intents /\ Head(intents).kind = kind
         /\ \A n \in DOMAIN intents' : n + 1 \in DOMAIN intents /\ intents'[n] = intents[n + 1]
         /\ \A n \in DOMAIN intents : n # 1 => n - 1 \in DOMAIN intents' /\ intents'[n - 1] = intents[n]
  BY DEF BridgeTypeOK, Delivers

\* One operation moves, or ends.
LEMMA OneMoves ==
  ASSUME BridgeTypeOK, NEW o \in Ops, NEW op \in BridgeOp \union {NoOp}, MovesTo(o, op)
  PROVE  /\ ops' \in [Ops -> BridgeOp \union {NoOp}]
         /\ ops'[o] = op /\ \A q \in Ops : q # o => ops'[q] = ops[q]
  BY DEF BridgeTypeOK, MovesTo

\* An operation under way is a record, and goes on as another or ends.
LEMMA AwaitsIs ==
  ASSUME BridgeTypeOK, NEW o \in Ops, NEW at, Awaits(o, at)
  PROVE  ops[o] \in BridgeOp /\ ops[o].arg \in AMode /\ ops[o].at = at
  BY DEF BridgeTypeOK, Awaits, BridgeOp, AMode

\* A new operation, or the next step of one, that may be under way now.
Fits(op) ==
  /\ op.at = "settings" => op.by \in {"mode", "setting"}
  /\ op.at # "saved"
  /\ op.at = "nodes" => settled /\ op.arg = currentMode

\* The steps that leave the service, the mode and what is saved alone: every
\* operation stays, ends or fits, and every command stays or is not older.
LEMMA StepsAside ==
  ASSUME BridgeInv, UNCHANGED <<nativeVars, rendererVars>>,
         ops' \in [Ops -> BridgeOp \union {NoOp}], intents' \in Seq(Intent),
         off' \in BOOLEAN, behind' \in BOOLEAN, OffInv',
         \A q \in Ops : \/ ops'[q] = ops[q]
                        \/ ~Awaits(q, "saved") /\ (ops'[q] = NoOp \/ Fits(ops'[q])),
         \A n \in DOMAIN intents : n \in DOMAIN intents' /\ intents'[n] = intents[n],
         ~behind' =>
           /\ ~behind
           /\ \A n \in DOMAIN intents' :
                n \in DOMAIN intents \/ (intents'[n].kind = "start" => intents'[n].mode = Wanted)
           /\ \/ \A q \in Ops : Changing(q) => ops'[q] = ops[q]
              \/ \E n \in DOMAIN intents' : intents'[n].kind = "stop"
  PROVE  BridgeInv'
<1>. USE DEF nativeVars, rendererVars
<1>1. BridgeTypeOK'
  BY DEF BridgeInv, BridgeTypeOK
<1>2. Wanted' = Wanted
  BY DEF Wanted
<1>3. OpsInv'
  BY DEF BridgeInv, ModeInv, OpsInv, Fits
<1>4. \A q \in Ops : Awaits(q, "saved")' <=> Awaits(q, "saved")
  BY DEF Awaits, Fits
<1>5. \A q \in Ops : Awaits(q, "saved") => ops'[q] = ops[q]
  OBVIOUS
<1>6. LastIsSaved'
  BY <1>4, <1>5 DEF BridgeInv, ModeInv, LastIsSaved
<1>7. ASSUME ~behind'
      PROVE  SavedOrSaving' /\ ~Older(Wanted)' /\ OrStopped'
  <2>1. SavedOrSaving /\ ~Older(Wanted) /\ OrStopped
    BY <1>7 DEF BridgeInv, ModeInv
  <2>2. SavedOrSaving'
    BY <1>4, <1>5, <2>1 DEF SavedOrSaving
  <2>3. ~Older(Wanted)'
    BY <1>2, <1>7, <2>1 DEF Older, Fits, Awaits, BridgeInv, ModeInv, OpsInv, Wanted
  <2>4. OrStopped'
    BY <1>2, <1>7, <2>1 DEF OrStopped, Changing
  <2>. QED  BY <2>2, <2>3, <2>4
<1>. QED  BY <1>1, <1>3, <1>6, <1>7 DEF BridgeInv, ModeInv

\* The same of one operation that begins, goes on or ends, with no command.
LEMMA OpAside ==
  ASSUME BridgeInv, NEW o \in Ops, NEW op \in BridgeOp \union {NoOp}, MovesTo(o, op),
         UNCHANGED <<nativeVars, rendererVars, intents>>,
         off' \in BOOLEAN, behind' \in BOOLEAN,
         ~Awaits(o, "saved"), op = NoOp \/ Fits(op),
         off' => off /\ (op = NoOp \/ op.at \in {"launch", "settings", "saved", "status"}),
         ~behind' => ~behind /\ ~Changing(o)
  PROVE  BridgeInv'
<1>1. /\ ops' \in [Ops -> BridgeOp \union {NoOp}]
      /\ ops'[o] = op /\ \A q \in Ops : q # o => ops'[q] = ops[q]
  BY OneMoves DEF BridgeInv
<1>2. OffInv'
  BY <1>1 DEF BridgeInv, OffInv, nativeVars
<1>3. intents' \in Seq(Intent)
  BY DEF BridgeInv, BridgeTypeOK
<1>4. \A q \in Ops : \/ ops'[q] = ops[q]
                     \/ ~Awaits(q, "saved") /\ (ops'[q] = NoOp \/ Fits(ops'[q]))
  BY <1>1
<1>5. ~behind' => \A q \in Ops : Changing(q) => ops'[q] = ops[q]
  BY <1>1
<1>. QED  BY <1>1, <1>2, <1>3, <1>4, <1>5, StepsAside

\* The same of a command, posted by one operation that goes on or ends, or by
\* nobody.
LEMMA PostAside ==
  ASSUME BridgeInv, NEW kind \in {"start", "stop", "reconnect"}, NEW mode \in AMode,
         Posts(kind, mode), UNCHANGED <<nativeVars, rendererVars>>,
         ops' \in [Ops -> BridgeOp \union {NoOp}],
         \A q \in Ops : \/ ops'[q] = ops[q]
                        \/ ~Awaits(q, "saved") /\ (ops'[q] = NoOp \/ Fits(ops'[q])),
         off' \in BOOLEAN, behind' \in BOOLEAN,
         off' => off /\ kind = "stop" /\ UNCHANGED ops,
         ~behind' =>
           /\ ~behind
           /\ kind = "start" => mode = Wanted
           /\ kind # "stop" => \A q \in Ops : Changing(q) => ops'[q] = ops[q]
  PROVE  BridgeInv'
<1>. DEFINE last == Len(intents) + 1
<1>1. /\ intents' \in Seq(Intent) /\ DOMAIN intents' = 1..last /\ Len(intents) \in Nat
      /\ DOMAIN intents = 1..Len(intents)
      /\ \A n \in DOMAIN intents : intents'[n] = intents[n]
      /\ intents'[last] = [kind |-> kind, mode |-> mode]
  BY Posted DEF BridgeInv
<1>2. /\ \A n \in DOMAIN intents : n \in DOMAIN intents' /\ intents'[n] = intents[n]
      /\ \A n \in DOMAIN intents' : n \in DOMAIN intents \/ n = last
      /\ intents'[last].kind = kind /\ intents'[last].mode = mode /\ last \in DOMAIN intents'
  BY <1>1
<1>. HIDE DEF last
<1>3. OffInv'
  BY <1>2 DEF BridgeInv, OffInv, nativeVars
<1>. QED  BY <1>1, <1>2, <1>3, StepsAside

LEMMA UserOps ==
  ASSUME BridgeInv, NEW o \in Ops,
         \/ UserConnects(o) \/ Reapplies(o) \/ Bootstraps(o)
         \/ \E m \in Modes : ModeChanges(o, m) \/ ModeIsPatched(o, m)
  PROVE  BridgeInv'
<1>. USE DEF AMode
<1>1. behind \in BOOLEAN /\ off \in BOOLEAN
  BY DEF BridgeInv, BridgeTypeOK
<1>2. CASE UserConnects(o)
  <2>1. /\ ops[o] = NoOp /\ MovesTo(o, Op("user", "restore", NoMode)) /\ off' = FALSE
        /\ UNCHANGED <<nativeVars, rendererVars, intents, behind>>
    BY <1>2 DEF UserConnects, Begins
  <2>2. /\ Op("user", "restore", NoMode) \in BridgeOp
        /\ Op("user", "restore", NoMode).at = "restore"
    BY OpIs
  <2>. QED  BY <1>1, <2>1, <2>2, OpAside DEF Awaits, Changing, Fits
<1>3. CASE Reapplies(o)
  BY <1>1, <1>3, OpIs, OpAside DEF Reapplies, Begins, Awaits, Changing, Fits
<1>5. CASE Bootstraps(o)
  <2>1. NoMode \in AMode
    OBVIOUS
  <2>2. /\ Op("other", "launch", NoMode) \in BridgeOp
        /\ Op("other", "launch", NoMode).at = "launch"
    BY <2>1, OpIs
  <2>. QED  BY <1>1, <1>5, <2>2, OpAside DEF Bootstraps, Begins, Awaits, Changing, Fits
<1>4. ASSUME NEW m \in Modes, ModeChanges(o, m) \/ ModeIsPatched(o, m)
      PROVE  BridgeInv'
  <2>1. PICK by \in {"mode", "setting"} :
             /\ ops[o] = NoOp /\ MovesTo(o, Op(by, "settings", m))
             /\ UNCHANGED <<nativeVars, rendererVars, intents, off, behind>>
    BY <1>4 DEF ModeChanges, ModeIsPatched, Begins
  <2>2. m \in AMode
    OBVIOUS
  <2>3. Op(by, "settings", m) \in BridgeOp /\ Op(by, "settings", m).by = by
        /\ Op(by, "settings", m).at = "settings"
    BY <2>2, OpIs
  <2>. QED  BY <1>1, <2>1, <2>3, OpAside DEF Awaits, Changing, Fits
<1>. QED  BY <1>2, <1>3, <1>4, <1>5

\* A step that throws, of an operation that does not save a mode.
LEMMA ThrowsAside ==
  ASSUME BridgeInv, NEW o \in Ops, Throws(o), ops[o] # NoOp, ~Awaits(o, "saved")
  PROVE  BridgeInv'
<1>1. /\ MovesTo(o, NoOp) /\ UNCHANGED <<nativeVars, rendererVars, intents, off>>
      /\ behind' = (behind \/ Chooses(o))
  BY DEF Throws, Done
<1>2. off' \in BOOLEAN /\ behind' \in BOOLEAN /\ (~behind' => ~behind /\ ~Changing(o))
  BY <1>1 DEF BridgeInv, BridgeTypeOK, Changing, Chooses
<1>. QED  BY <1>1, <1>2, OpAside

LEMMA ReconnectSteps ==
  ASSUME BridgeInv, NEW o \in Ops,
         Launches(o) \/ StatusRead(o) \/ Restores(o) \/ StateIsRead(o) \/ EngineIsStarted(o)
  PROVE  BridgeInv'
<1>. DEFINE goes(at) == [ops[o] EXCEPT !.at = at]
<1>1. ASSUME NEW at, Awaits(o, at)
      PROVE  /\ ops[o] \in BridgeOp /\ ops[o] # NoOp /\ ops[o].at = at /\ ops[o].arg \in AMode
             /\ off => at \in {"launch", "settings", "saved", "status"}
             /\ goes("restore") \in BridgeOp /\ goes("restore").at = "restore"
             /\ goes("state") \in BridgeOp /\ goes("state").at = "state"
             /\ Changing(o) => at \in {"saved", "status"}
  <2>1. ops[o] \in BridgeOp /\ ops[o] # NoOp /\ ops[o].at = at /\ ops[o].arg \in AMode
    BY <1>1, AwaitsIs DEF BridgeInv, Awaits
  <2>2. off => at \in {"launch", "settings", "saved", "status"}
    BY <2>1 DEF BridgeInv, OffInv
  <2>3. goes("restore") \in BridgeOp /\ goes("restore").at = "restore"
    BY <2>1, OpGoesOn
  <2>4. goes("state") \in BridgeOp /\ goes("state").at = "state"
    BY <2>1, OpGoesOn
  <2>. QED  BY <2>1, <2>2, <2>3, <2>4 DEF Changing
<1>. HIDE DEF goes
<1>2. behind \in BOOLEAN /\ off \in BOOLEAN
  BY DEF BridgeInv, BridgeTypeOK
<1>8. CASE Launches(o)
  <2>1. Awaits(o, "launch") /\ UNCHANGED <<nativeVars, rendererVars, intents, behind>>
    BY <1>8 DEF Launches
  <2>2. ~Changing(o) /\ ~Awaits(o, "saved")
    BY <1>1, <2>1 DEF Awaits
  <2>3. CASE MovesTo(o, NoOp) /\ UNCHANGED off
    BY <1>2, <2>1, <2>2, <2>3, OpAside
  <2>4. CASE MovesTo(o, goes("restore")) /\ off' = FALSE
    <3>1. goes("restore") \in BridgeOp /\ Fits(goes("restore"))
      BY <1>1, <2>1 DEF Fits
    <3>. QED  BY <1>2, <2>1, <2>2, <2>4, <3>1, OpAside
  <2>. QED  BY <1>8, <2>3, <2>4 DEF Launches, goes, Done
<1>3. CASE StatusRead(o) /\ state = "connected"
  <2>1. /\ Awaits(o, "status") /\ Posts("stop", NoMode) /\ MovesTo(o, goes("restore"))
        /\ UNCHANGED <<nativeVars, rendererVars, off, behind>>
    BY <1>3 DEF StatusRead, goes
  <2>2. ~off
    BY <1>3 DEF BridgeInv, OffInv
  <2>3. goes("restore") \in BridgeOp /\ goes("restore").at = "restore"
    BY <1>1, <2>1
  <2>4. /\ ops' \in [Ops -> BridgeOp \union {NoOp}] /\ ops'[o] = goes("restore")
        /\ \A q \in Ops : q # o => ops'[q] = ops[q]
    BY <2>1, <2>3, OneMoves DEF BridgeInv
  <2>5. Fits(goes("restore")) /\ ~Awaits(o, "saved") /\ NoMode \in AMode
    BY <2>1, <2>3 DEF Fits, Awaits, AMode
  <2>. QED  BY <1>2, <2>1, <2>2, <2>4, <2>5, PostAside
<1>4. CASE StatusRead(o) /\ state # "connected"
  <2>1. /\ Awaits(o, "status") /\ MovesTo(o, NoOp) /\ behind' = (behind \/ ops[o].by = "mode")
        /\ UNCHANGED <<nativeVars, rendererVars, intents, off>>
    BY <1>4 DEF StatusRead, Done
  <2>. QED  BY <1>2, <2>1, OpAside DEF Awaits, Changing
<1>5. CASE Restores(o)
  <2>1. Awaits(o, "restore")
    BY <1>5 DEF Restores
  <2>2. ~off /\ ~Changing(o) /\ ~Awaits(o, "saved") /\ ops[o] # NoOp
    BY <1>1, <2>1 DEF Awaits
  <2>3. CASE Throws(o)
    BY <2>2, <2>3, ThrowsAside
  <2>4. CASE Posts("reconnect", NoMode) /\ Done(o) /\ UNCHANGED <<nativeVars, rendererVars, off, behind>>
    <3>1. /\ ops' \in [Ops -> BridgeOp \union {NoOp}] /\ ops'[o] = NoOp
          /\ \A q \in Ops : q # o => ops'[q] = ops[q]
      BY <2>4, OneMoves DEF BridgeInv, Done
    <3>2. NoMode \in AMode
      BY DEF AMode
    <3>. QED  BY <1>2, <2>2, <2>4, <3>1, <3>2, PostAside
  <2>5. CASE MovesTo(o, goes("state")) /\ UNCHANGED <<nativeVars, rendererVars, intents, off, behind>>
    <3>1. goes("state") \in BridgeOp /\ Fits(goes("state"))
      BY <1>1, <2>1 DEF Fits
    <3>. QED  BY <1>2, <2>2, <2>5, <3>1, OpAside
  <2>. QED  BY <1>5, <2>3, <2>4, <2>5 DEF Restores, goes
<1>6. CASE StateIsRead(o)
  <2>1. /\ Awaits(o, "state") /\ settled
        /\ MovesTo(o, [ops[o] EXCEPT !.at = "nodes", !.arg = currentMode])
        /\ UNCHANGED <<nativeVars, rendererVars, intents, off, behind>>
    BY <1>6 DEF StateIsRead
  <2>2. ~off /\ ~Changing(o) /\ ~Awaits(o, "saved") /\ ops[o] \in BridgeOp
    BY <1>1, <2>1 DEF Awaits
  <2>3. currentMode \in AMode
    BY DEF BridgeInv, BridgeTypeOK
  <2>4. /\ [ops[o] EXCEPT !.at = "nodes", !.arg = currentMode] \in BridgeOp
        /\ Fits([ops[o] EXCEPT !.at = "nodes", !.arg = currentMode])
    BY <2>1, <2>2, <2>3, OpCompiles DEF Fits
  <2>. QED  BY <1>2, <2>1, <2>2, <2>4, OpAside
<1>7. CASE EngineIsStarted(o)
  <2>1. Awaits(o, "nodes")
    BY <1>7 DEF EngineIsStarted
  <2>2. ~off /\ ~Changing(o) /\ ~Awaits(o, "saved") /\ ops[o] # NoOp /\ ops[o].arg \in AMode
    BY <1>1, <2>1 DEF Awaits
  <2>3. CASE Throws(o)
    BY <2>2, <2>3, ThrowsAside
  <2>4. CASE Posts("start", ops[o].arg) /\ Done(o) /\ UNCHANGED <<nativeVars, rendererVars, off, behind>>
    <3>1. /\ ops' \in [Ops -> BridgeOp \union {NoOp}] /\ ops'[o] = NoOp
          /\ \A q \in Ops : q # o => ops'[q] = ops[q]
      BY <2>4, OneMoves DEF BridgeInv, Done
    <3>2. ~behind => ops[o].arg = Wanted
      BY <2>1 DEF BridgeInv, ModeInv, Older
    <3>. QED  BY <1>2, <2>2, <2>4, <3>1, <3>2, PostAside
  <2>. QED  BY <1>7, <2>3, <2>4 DEF EngineIsStarted
<1>. QED  BY <1>3, <1>4, <1>5, <1>6, <1>7, <1>8

LEMMA CommandsAside ==
  ASSUME BridgeInv, UserDisconnects \/ Roams \/ TileClicked \/ AlwaysOnStarts
  PROVE  BridgeInv'
<1>1. /\ behind \in BOOLEAN /\ off \in BOOLEAN /\ cache \in AMode /\ NoMode \in AMode
      /\ ops \in [Ops -> BridgeOp \union {NoOp}]
  BY DEF BridgeInv, BridgeTypeOK, AMode
<1>2. CASE UserDisconnects
  BY <1>1, <1>2, PostAside DEF UserDisconnects
<1>3. CASE Roams
  <2>1. ~off
    BY <1>3 DEF Roams, BridgeInv, OffInv
  <2>. QED  BY <1>1, <1>3, <2>1, PostAside DEF Roams
<1>4. CASE TileClicked
  <2>1. CASE state \in Started
    BY <1>1, <1>4, <2>1, PostAside DEF TileClicked
  <2>2. CASE state \notin Started
    BY <1>1, <1>4, <2>2, PostAside DEF TileClicked, StartsCached
  <2>. QED  BY <2>1, <2>2
<1>5. CASE AlwaysOnStarts
  BY <1>1, <1>5, PostAside DEF AlwaysOnStarts, StartsCached
<1>. QED  BY <1>2, <1>3, <1>4, <1>5

\* A change of the mode: the choice, which an older configuration may outrun.
LEMMA ModeSetKeepsBridge ==
  ASSUME BridgeInv, NEW o \in Ops, ModeIsSet(o)
  PROVE  BridgeInv'
<1>. DEFINE saving == [ops[o] EXCEPT !.at = "saved"]
<1>1. /\ ops[o] \in BridgeOp /\ ops[o] # NoOp /\ ops[o].at = "settings" /\ ops[o].arg \in AMode
      /\ settled /\ currentMode' = ops[o].arg /\ MovesTo(o, saving)
      /\ behind' = (behind \/ ops[o].by = "setting" \/ Older(ops[o].arg))
      /\ UNCHANGED <<nativeVars, vpnMode, settled, intents, off>>
  BY AwaitsIs DEF ModeIsSet, Awaits, BridgeInv
<1>2. /\ saving \in BridgeOp /\ saving # NoOp /\ saving.at = "saved" /\ saving.by = ops[o].by
      /\ saving.arg = currentMode' /\ ops[o].by \in {"mode", "setting"}
  <2>1. ops[o].by \in {"mode", "setting"}
    BY <1>1 DEF BridgeInv, ModeInv, OpsInv
  <2>2. /\ saving \in BridgeOp /\ saving # NoOp
        /\ saving.at = "saved" /\ saving.by = ops[o].by /\ saving.arg = ops[o].arg
    BY <1>1, OpGoesOn
  <2>. QED  BY <1>1, <2>1, <2>2
<1>. HIDE DEF saving
<1>3. /\ ops' \in [Ops -> BridgeOp \union {NoOp}] /\ ops'[o] = saving
      /\ \A q \in Ops : q # o => ops'[q] = ops[q]
  BY <1>1, <1>2, OneMoves DEF BridgeInv
<1>4. BridgeTypeOK'
  <2>1. behind' \in BOOLEAN
    BY <1>1 DEF BridgeInv, BridgeTypeOK, Older
  <2>. QED  BY <1>1, <1>3, <2>1 DEF BridgeInv, BridgeTypeOK, nativeVars
<1>5. OffInv'
  BY <1>1, <1>2, <1>3 DEF BridgeInv, OffInv, nativeVars
<1>6. OpsInv'
  BY <1>1, <1>2, <1>3 DEF BridgeInv, ModeInv, OpsInv
<1>7. \E q \in Ops : Awaits(q, "saved")' /\ ops'[q].arg = currentMode'
  BY <1>2, <1>3 DEF Awaits
<1>8. LastIsSaved' /\ SavedOrSaving'
  BY <1>7 DEF LastIsSaved, SavedOrSaving
<1>9. ~behind' => OrStopped'
  <2>1. ~behind' => saving.by = "mode"
    BY <1>1, <1>2
  <2>. QED  BY <1>2, <1>3, <2>1 DEF OrStopped, Changing
<1>10. ~behind' => ~Older(Wanted)'
  BY <1>1, <1>2, <1>3 DEF Older, Awaits, Wanted
<1>. QED  BY <1>1, <1>4, <1>5, <1>6, <1>8, <1>9, <1>10 DEF BridgeInv, ModeInv, nativeVars

\* The choice is saved, or not.
LEMMA ModeSavedKeepsBridge ==
  ASSUME BridgeInv, NEW o \in Ops, ModeIsSaved(o)
  PROVE  BridgeInv'
<1>. DEFINE reads == [ops[o] EXCEPT !.at = "status"]
<1>1. /\ ops[o] \in BridgeOp /\ ops[o] # NoOp /\ ops[o].at = "saved" /\ ops[o].arg \in AMode
      /\ ops[o].by \in {"mode", "setting"} /\ settled
  BY AwaitsIs DEF ModeIsSaved, Awaits, BridgeInv, ModeInv, OpsInv
<1>2. reads \in BridgeOp /\ reads # NoOp /\ reads.at = "status" /\ reads.by = ops[o].by
  BY <1>1, OpGoesOn
<1>3. PICK op \in {NoOp, reads} :
         /\ MovesTo(o, op) /\ UNCHANGED <<nativeVars, currentMode, settled, intents, off>>
         /\ \/ vpnMode' = ops[o].arg /\ behind' = behind
               /\ op = IF ops[o].by = "mode" THEN reads ELSE NoOp
            \/ vpnMode' = vpnMode /\ behind' = TRUE
  <2>1. CASE Throws(o)
    BY <1>1, <1>2, <2>1 DEF Throws, Done, rendererVars, Chooses
  <2>2. CASE /\ vpnMode' = ops[o].arg
             /\ MovesTo(o, IF ops[o].by = "mode" THEN reads ELSE NoOp)
             /\ UNCHANGED <<nativeVars, currentMode, settled, intents, off, behind>>
    BY <2>2
  <2>. QED  BY <2>1, <2>2 DEF ModeIsSaved
<1>. HIDE DEF reads
<1>4. /\ ops' \in [Ops -> BridgeOp \union {NoOp}] /\ ops'[o] = op
      /\ \A q \in Ops : q # o => ops'[q] = ops[q]
  BY <1>2, <1>3, OneMoves DEF BridgeInv
<1>5. \A q \in Ops : Awaits(q, "saved")' <=> q # o /\ Awaits(q, "saved")
  BY <1>2, <1>3, <1>4 DEF Awaits
<1>6. BridgeTypeOK'
  <2>1. behind' \in BOOLEAN /\ vpnMode' \in AMode
    BY <1>1, <1>3 DEF BridgeInv, BridgeTypeOK
  <2>. QED  BY <1>1, <1>3, <1>4, <2>1 DEF BridgeInv, BridgeTypeOK, nativeVars
<1>7. OffInv'
  BY <1>2, <1>3, <1>4 DEF BridgeInv, OffInv, nativeVars
<1>8. OpsInv'
  BY <1>1, <1>2, <1>3, <1>4 DEF BridgeInv, ModeInv, OpsInv
<1>9. ~behind' => OrStopped'
  <2>1. SUFFICES ASSUME ~behind'
                 PROVE  OrStopped'
    OBVIOUS
  <2>2. /\ ~behind /\ Wanted' = Wanted
        /\ op = IF ops[o].by = "mode" THEN reads ELSE NoOp
    <3>1. behind' = behind /\ op = IF ops[o].by = "mode" THEN reads ELSE NoOp
      BY <1>3, <2>1
    <3>2. Wanted' = Wanted
      BY <1>1, <1>3 DEF Wanted
    <3>. QED  BY <2>1, <3>1, <3>2
  <2>3. CASE ops[o].by = "mode"
    <3>1. Changing(o)'
      BY <1>2, <1>4, <2>2, <2>3 DEF Changing
    <3>. QED  BY <3>1 DEF OrStopped
  <2>4. CASE ops[o].by = "setting"
    <3>1. OrStopped /\ \A q \in Ops : Changing(q) => Changing(q)'
      BY <1>4, <2>2, <2>4 DEF BridgeInv, ModeInv, Changing
    <3>. QED  BY <1>3, <2>2, <3>1 DEF OrStopped, nativeVars
  <2>. QED  BY <1>1, <2>3, <2>4
<1>10. ~behind' => ~Older(Wanted)'
  <2>1. Wanted' = Wanted
    BY <1>1, <1>3 DEF Wanted
  <2>2. ~behind' => ~Older(Wanted)
    BY <1>3 DEF BridgeInv, ModeInv
  <2>. QED  BY <1>2, <1>3, <1>4, <2>1, <2>2 DEF Older, Awaits
<1>11. LastIsSaved' /\ (~behind' => SavedOrSaving')
  <2>1. CASE ops[o].arg = currentMode
    <3>1. \A q \in Ops : Awaits(q, "saved") => ops[q].arg = currentMode
      BY <2>1 DEF ModeIsSaved
    <3>2. LastIsSaved'
      BY <1>3, <1>4, <1>5, <3>1 DEF LastIsSaved
    <3>3. ~behind' => SavedOrSaving'
      BY <1>3, <2>1 DEF SavedOrSaving
    <3>. QED  BY <3>2, <3>3
  <2>2. CASE ops[o].arg # currentMode
    <3>1. PICK q \in Ops : Awaits(q, "saved") /\ ops[q].arg = currentMode
      BY <1>1, <2>2 DEF BridgeInv, ModeInv, LastIsSaved, Awaits
    <3>2. Awaits(q, "saved")' /\ ops'[q].arg = currentMode'
      BY <1>3, <1>4, <1>5, <2>2, <3>1
    <3>. QED  BY <3>2 DEF LastIsSaved, SavedOrSaving
  <2>. QED  BY <2>1, <2>2
<1>12. state' = "connected" => cache' = run'
  BY <1>3 DEF BridgeInv, ModeInv, nativeVars
<1>. QED  BY <1>6, <1>7, <1>8, <1>9, <1>10, <1>11, <1>12 DEF BridgeInv, ModeInv

LEMMA ProfileAppliedKeepsBridge ==
  ASSUME BridgeInv, NEW m \in Modes, ProfileApplied(m)
  PROVE  BridgeInv'
<1>. USE DEF nativeVars
<1>1. /\ settled /\ vpnMode' = m /\ behind'
      /\ UNCHANGED <<state, run, cache, killSwitch, currentMode, settled, intents, ops, off>>
  BY DEF ProfileApplied
<1>2. BridgeTypeOK'
  <2>1. vpnMode' \in AMode /\ behind' \in BOOLEAN
    BY <1>1 DEF ProfileApplied, AMode
  <2>. QED  BY <1>1, <2>1 DEF BridgeInv, BridgeTypeOK
<1>3. OffInv'
  BY <1>1 DEF BridgeInv, OffInv
<1>4. OpsInv' /\ LastIsSaved' /\ (state' = "connected" => cache' = run')
  BY <1>1 DEF BridgeInv, ModeInv, OpsInv, LastIsSaved, Awaits
<1>. QED  BY <1>1, <1>2, <1>3, <1>4 DEF BridgeInv, ModeInv

\* Nothing is saved or compiled before the settings are read.
LEMMA SettingsLoadKeepsBridge ==
  ASSUME BridgeInv, SettingsLoad
  PROVE  BridgeInv'
<1>. USE DEF nativeVars
<1>1. /\ ~settled /\ settled' /\ (currentMode' = vpnMode \/ currentMode' = currentMode)
      /\ settled' \in BOOLEAN /\ behind' \in BOOLEAN
      /\ (~behind' => ~behind /\ currentMode' = vpnMode)
      /\ UNCHANGED <<state, run, cache, killSwitch, vpnMode, intents, ops, off>>
  <2>1. /\ ~settled /\ settled' = TRUE /\ behind \in BOOLEAN
        /\ UNCHANGED <<state, run, cache, killSwitch, vpnMode, intents, ops, off>>
    BY DEF SettingsLoad, BridgeInv, BridgeTypeOK
  <2>2. CASE currentMode' = vpnMode /\ behind' = behind
    BY <2>1, <2>2
  <2>3. CASE currentMode' = currentMode /\ behind' = TRUE
    BY <2>1, <2>3
  <2>. QED  BY <2>2, <2>3 DEF SettingsLoad
<1>2. BridgeTypeOK'
  BY <1>1 DEF BridgeInv, BridgeTypeOK
<1>3. OffInv'
  BY <1>1 DEF BridgeInv, OffInv
<1>4. \A q \in Ops : ~Awaits(q, "saved") /\ (Awaits(q, "saved")' <=> Awaits(q, "saved"))
  BY <1>1 DEF BridgeInv, ModeInv, OpsInv, Awaits
<1>5. OpsInv' /\ LastIsSaved' /\ (state' = "connected" => cache' = run')
  BY <1>1, <1>4 DEF BridgeInv, ModeInv, OpsInv, LastIsSaved
<1>6. ASSUME ~behind'
      PROVE  SavedOrSaving' /\ ~Older(Wanted)' /\ OrStopped'
  <2>1. Wanted' = Wanted /\ vpnMode' = currentMode'
    BY <1>1, <1>6 DEF Wanted
  <2>2. ~Older(Wanted) /\ OrStopped
    BY <1>1, <1>6 DEF BridgeInv, ModeInv
  <2>. QED  BY <1>1, <2>1, <2>2 DEF SavedOrSaving, Older, OrStopped, Awaits, Changing
<1>. QED  BY <1>2, <1>3, <1>5, <1>6 DEF BridgeInv, ModeInv

\* What a command leaves alone, and what is left of it.
LEMMA DeliversAside ==
  ASSUME BridgeInv, NEW kind, Delivers(kind)
  PROVE  /\ OpsInv' /\ LastIsSaved' /\ (SavedOrSaving => SavedOrSaving')
         /\ Wanted' = Wanted /\ (~Older(Wanted) => ~Older(Wanted)')
         /\ intents' \in Seq(Intent)
         /\ UNCHANGED <<cache, killSwitch, currentMode, vpnMode, settled, ops>>
<1>1. UNCHANGED <<cache, killSwitch, currentMode, vpnMode, settled, ops>>
  BY DEF Delivers, rendererVars
<1>2. /\ intents' \in Seq(Intent)
      /\ \A n \in DOMAIN intents' : n + 1 \in DOMAIN intents /\ intents'[n] = intents[n + 1]
  BY Delivered DEF BridgeInv
<1>3. OpsInv' /\ LastIsSaved' /\ (SavedOrSaving => SavedOrSaving')
  BY <1>1 DEF BridgeInv, ModeInv, OpsInv, LastIsSaved, SavedOrSaving, Awaits
<1>4. Wanted' = Wanted
  BY <1>1 DEF Wanted
<1>5. ~Older(Wanted) => ~Older(Wanted)'
  BY <1>1, <1>2, <1>4 DEF Older, Awaits
<1>. QED  BY <1>1, <1>2, <1>3, <1>4, <1>5

LEMMA DeliversStartKeepsBridge ==
  ASSUME BridgeInv, DeliversStart
  PROVE  BridgeInv'
<1>1. Delivers("start") /\ UNCHANGED <<off, behind>>
  BY DEF DeliversStart
<1>2. /\ OpsInv' /\ LastIsSaved' /\ (SavedOrSaving => SavedOrSaving')
      /\ Wanted' = Wanted /\ (~Older(Wanted) => ~Older(Wanted)')
      /\ intents' \in Seq(Intent)
      /\ UNCHANGED <<cache, killSwitch, currentMode, vpnMode, settled, ops>>
  BY <1>1, DeliversAside
<1>3. /\ Head(intents) = intents[1] /\ Head(intents) \in Intent /\ 1 \in DOMAIN intents
      /\ intents[1].kind = "start"
      /\ \A n \in DOMAIN intents : n # 1 => n - 1 \in DOMAIN intents' /\ intents'[n - 1] = intents[n]
  BY <1>1, Delivered DEF BridgeInv
<1>4. ~off
  BY <1>3 DEF BridgeInv, OffInv
<1>5. run' \in AMode
  BY <1>3 DEF DeliversStart, BridgeInv, BridgeTypeOK, Intent
<1>6. BridgeTypeOK'
  <2>1. state' \in {"disconnected", "connecting", "connected", "error"}
    BY DEF DeliversStart, BridgeInv, BridgeTypeOK
  <2>. QED  BY <1>1, <1>2, <1>5, <2>1 DEF BridgeInv, BridgeTypeOK
<1>7. OffInv'
  BY <1>1, <1>4 DEF OffInv
<1>8. state' = "connected" => cache' = run'
  BY <1>2 DEF DeliversStart, BridgeInv, ModeInv
<1>9. ASSUME ~behind'
      PROVE  OrStopped'
  <2>1. ~Older(Wanted) /\ OrStopped
    BY <1>1, <1>9 DEF BridgeInv, ModeInv
  <2>2. CASE state \in Started
    <3>1. UNCHANGED <<state, run>>
      BY <2>2 DEF DeliversStart
    <3>. QED  BY <1>2, <1>3, <2>1, <3>1 DEF OrStopped, Changing
  <2>3. CASE state \notin Started
    <3>1. run' = Wanted
      BY <1>3, <2>1, <2>3 DEF DeliversStart, Older
    <3>. QED  BY <1>2, <3>1 DEF OrStopped
  <2>. QED  BY <2>2, <2>3
<1>. QED  BY <1>1, <1>2, <1>6, <1>7, <1>8, <1>9 DEF BridgeInv, ModeInv

LEMMA DeliversStopKeepsBridge ==
  ASSUME BridgeInv, DeliversStop
  PROVE  BridgeInv'
<1>1. /\ Delivers("stop") /\ state' = "disconnected" /\ UNCHANGED <<run, behind>>
      /\ off' = (off \/ (intents' = <<>> /\ \A o \in Ops : ops[o] = NoOp))
  BY DEF DeliversStop
<1>2. /\ OpsInv' /\ LastIsSaved' /\ (SavedOrSaving => SavedOrSaving')
      /\ Wanted' = Wanted /\ (~Older(Wanted) => ~Older(Wanted)')
      /\ intents' \in Seq(Intent)
      /\ UNCHANGED <<cache, killSwitch, currentMode, vpnMode, settled, ops>>
  BY <1>1, DeliversAside
<1>3. \A n \in DOMAIN intents' : n + 1 \in DOMAIN intents /\ intents'[n] = intents[n + 1]
  BY <1>1, Delivered DEF BridgeInv
<1>4. off' \in BOOLEAN
  BY <1>1 DEF BridgeInv, BridgeTypeOK
<1>5. BridgeTypeOK'
  BY <1>1, <1>2, <1>4 DEF BridgeInv, BridgeTypeOK
<1>6. OffInv'
  <2>1. CASE off
    BY <1>1, <1>2, <1>3, <2>1 DEF BridgeInv, OffInv
  <2>2. CASE intents' = <<>> /\ \A o \in Ops : ops[o] = NoOp
    BY <1>1, <1>2, <2>2 DEF OffInv
  <2>. QED  BY <1>1, <2>1, <2>2 DEF OffInv
<1>7. OrStopped' /\ ~(state' = "connected")
  BY <1>1 DEF OrStopped, Started
<1>. QED  BY <1>1, <1>2, <1>5, <1>6, <1>7 DEF BridgeInv, ModeInv

LEMMA DeliversReconnectKeepsBridge ==
  ASSUME BridgeInv, DeliversReconnect
  PROVE  BridgeInv'
<1>1. Delivers("reconnect") /\ UNCHANGED off
  BY DEF DeliversReconnect
<1>2. /\ OpsInv' /\ LastIsSaved' /\ (SavedOrSaving => SavedOrSaving')
      /\ Wanted' = Wanted /\ (~Older(Wanted) => ~Older(Wanted)')
      /\ intents' \in Seq(Intent)
      /\ UNCHANGED <<cache, killSwitch, currentMode, vpnMode, settled, ops>>
  BY <1>1, DeliversAside
<1>3. /\ 1 \in DOMAIN intents /\ intents[1].kind = "reconnect"
      /\ \A n \in DOMAIN intents : n # 1 => n - 1 \in DOMAIN intents' /\ intents'[n - 1] = intents[n]
  BY <1>1, Delivered DEF BridgeInv
<1>4. ~off
  BY <1>3 DEF BridgeInv, OffInv
<1>5. run' \in AMode /\ behind' \in BOOLEAN
  BY DEF DeliversReconnect, BridgeInv, BridgeTypeOK
<1>6. BridgeTypeOK'
  <2>1. state' \in {"disconnected", "connecting", "connected", "error"}
    BY DEF DeliversReconnect, BridgeInv, BridgeTypeOK
  <2>. QED  BY <1>1, <1>2, <1>5, <2>1 DEF BridgeInv, BridgeTypeOK
<1>7. OffInv'
  BY <1>1, <1>4 DEF OffInv
<1>8. state' = "connected" => cache' = run'
  BY <1>2 DEF DeliversReconnect, BridgeInv, ModeInv
<1>9. ASSUME ~behind'
      PROVE  ~behind /\ OrStopped'
  <2>1. ~behind
    BY <1>9 DEF DeliversReconnect
  <2>2. OrStopped
    BY <2>1 DEF BridgeInv, ModeInv
  <2>3. CASE cache = NoMode
    <3>1. UNCHANGED <<state, run>>
      BY <2>3 DEF DeliversReconnect
    <3>. QED  BY <1>2, <1>3, <2>1, <2>2, <3>1 DEF OrStopped, Changing
  <2>4. CASE cache # NoMode
    <3>1. run' = Wanted
      BY <1>9, <2>4 DEF DeliversReconnect
    <3>. QED  BY <1>2, <2>1, <3>1 DEF OrStopped
  <2>. QED  BY <2>3, <2>4
<1>. QED  BY <1>2, <1>6, <1>7, <1>8, <1>9 DEF BridgeInv, ModeInv

\* The core runs the mode chosen last, and nothing older is on its way.
LEMMA CoreConnectsKeepsBridge ==
  ASSUME BridgeInv, CoreConnects
  PROVE  BridgeInv'
<1>1. /\ state = "connecting" /\ state' = "connected" /\ cache' = run
      /\ behind' = (behind /\ ~(run = currentMode /\ vpnMode = currentMode /\ ~Older(run)))
      /\ UNCHANGED <<run, killSwitch, currentMode, vpnMode, settled, intents, ops, off>>
  BY DEF CoreConnects, rendererVars
<1>2. ~off
  BY <1>1 DEF BridgeInv, OffInv
<1>3. behind' \in BOOLEAN
  BY <1>1 DEF BridgeInv, BridgeTypeOK
<1>4. BridgeTypeOK'
  BY <1>1, <1>3 DEF BridgeInv, BridgeTypeOK
<1>5. OffInv'
  BY <1>1, <1>2 DEF OffInv
<1>6. OpsInv' /\ LastIsSaved' /\ cache' = run'
  BY <1>1 DEF BridgeInv, ModeInv, OpsInv, LastIsSaved, Awaits
<1>7. ASSUME ~behind'
      PROVE  SavedOrSaving' /\ ~Older(Wanted)' /\ OrStopped'
  <2>1. Wanted' = Wanted
    BY <1>1 DEF Wanted
  <2>2. CASE behind
    <3>1. run = Wanted /\ vpnMode = currentMode /\ ~Older(run)
      BY <1>1, <1>7, <2>2 DEF Wanted
    <3>. QED  BY <1>1, <2>1, <3>1 DEF SavedOrSaving, Older, OrStopped, Awaits
  <2>3. CASE ~behind
    <3>1. SavedOrSaving /\ ~Older(Wanted) /\ OrStopped
      BY <2>3 DEF BridgeInv, ModeInv
    <3>. QED  BY <1>1, <2>1, <3>1 DEF SavedOrSaving, Older, OrStopped, Awaits, Changing, Started
  <2>. QED  BY <2>2, <2>3
<1>. QED  BY <1>4, <1>5, <1>6, <1>7 DEF BridgeInv, ModeInv

\* The core fails, or the step changes nothing.
LEMMA CoreRefusesKeepsBridge ==
  ASSUME BridgeInv, CoreRefuses \/ UNCHANGED bridgeVars
  PROVE  BridgeInv'
<1>. USE DEF nativeVars, rendererVars
<1>1. /\ UNCHANGED <<run, cache, currentMode, vpnMode, settled, intents, ops, off, behind>>
      /\ state' = state \/ (state' = "error" /\ state = "connecting")
  BY DEF CoreRefuses, bridgeVars
<1>2. BridgeTypeOK'
  BY <1>1 DEF BridgeInv, BridgeTypeOK
<1>3. OffInv'
  BY <1>1 DEF BridgeInv, OffInv
<1>4. /\ OpsInv' /\ LastIsSaved' /\ (state' = "connected" => cache' = run')
      /\ Wanted' = Wanted
  BY <1>1 DEF BridgeInv, ModeInv, OpsInv, LastIsSaved, Awaits, Wanted
<1>5. ASSUME ~behind'
      PROVE  SavedOrSaving' /\ ~Older(Wanted)' /\ OrStopped'
  <2>1. SavedOrSaving /\ ~Older(Wanted) /\ OrStopped
    BY <1>1, <1>5 DEF BridgeInv, ModeInv
  <2>. QED  BY <1>1, <1>4, <2>1 DEF SavedOrSaving, Older, OrStopped, Awaits, Changing, Started
<1>. QED  BY <1>2, <1>3, <1>4, <1>5 DEF BridgeInv, ModeInv

\* A renderer that starts again has no operation, and wants what was saved.
LEMMA RendererAnew ==
  ASSUME BridgeInv, RendererStarts
  PROVE  /\ OpsInv' /\ LastIsSaved' /\ SavedOrSaving' /\ Wanted' = vpnMode
         /\ currentMode' \in AMode /\ settled' = FALSE /\ vpnMode' = vpnMode
         /\ ops' \in [Ops -> BridgeOp \union {NoOp}]
         /\ \A o \in Ops : ops'[o] = NoOp /\ ~Changing(o)' /\ ~Awaits(o, "nodes")'
<1>1. /\ settled' = FALSE /\ currentMode' = DefaultMode /\ vpnMode' = vpnMode
      /\ ops' = [o \in Ops |-> NoOp]
  BY DEF RendererStarts
<1>2. \A o \in Ops : ops'[o] = NoOp
  BY <1>1
<1>3. currentMode' \in AMode
  BY <1>1, BridgeAssumption DEF AMode
<1>4. OpsInv' /\ LastIsSaved' /\ SavedOrSaving' /\ Wanted' = vpnMode
  BY <1>1, <1>2 DEF OpsInv, LastIsSaved, SavedOrSaving, Wanted, Awaits
<1>5. \A o \in Ops : ~Changing(o)' /\ ~Awaits(o, "nodes")'
  BY <1>2 DEF Changing, Awaits
<1>. QED  BY <1>1, <1>2, <1>3, <1>4, <1>5

\* Without a change under way the mode chosen last is the one saved.
LEMMA WantedIsSaved ==
  ASSUME BridgeInv, ~behind, ~ModeUnderWay
  PROVE  Wanted = vpnMode /\ \A o \in Ops : ~Changing(o)
<1>1. \A o \in Ops : ~Changing(o) /\ ~Awaits(o, "saved")
  BY DEF ModeUnderWay, Chooses, BridgeInv, ModeInv, OpsInv, Changing, Awaits
<1>2. SavedOrSaving
  BY DEF BridgeInv, ModeInv
<1>. QED  BY <1>1, <1>2 DEF SavedOrSaving, Wanted

LEMMA ReloadsKeepsBridge ==
  ASSUME BridgeInv, Reloads
  PROVE  BridgeInv'
<1>1. /\ RendererStarts /\ behind' = (behind \/ ModeUnderWay)
      /\ UNCHANGED <<state, run, cache, killSwitch, intents, off>>
  BY DEF Reloads, nativeVars
<1>2. /\ OpsInv' /\ LastIsSaved' /\ SavedOrSaving' /\ Wanted' = vpnMode
      /\ currentMode' \in AMode /\ settled' = FALSE /\ vpnMode' = vpnMode
      /\ ops' \in [Ops -> BridgeOp \union {NoOp}]
      /\ \A o \in Ops : ops'[o] = NoOp /\ ~Changing(o)' /\ ~Awaits(o, "nodes")'
  BY <1>1, RendererAnew
<1>3. behind' \in BOOLEAN /\ settled' \in BOOLEAN
  BY <1>1, <1>2 DEF BridgeInv, BridgeTypeOK, ModeUnderWay, Chooses
<1>4. BridgeTypeOK'
  BY <1>1, <1>2, <1>3 DEF BridgeInv, BridgeTypeOK
<1>5. OffInv'
  BY <1>1, <1>2 DEF BridgeInv, OffInv
<1>6. ASSUME ~behind'
      PROVE  ~Older(Wanted)' /\ OrStopped'
  <2>1. Wanted' = Wanted /\ \A o \in Ops : ~Changing(o)
    BY <1>1, <1>2, <1>6, WantedIsSaved
  <2>2. ~Older(Wanted) /\ OrStopped
    BY <1>1, <1>6 DEF BridgeInv, ModeInv
  <2>. QED  BY <1>1, <1>2, <2>1, <2>2 DEF Older, OrStopped
<1>. QED  BY <1>1, <1>2, <1>4, <1>5, <1>6 DEF BridgeInv, ModeInv

\* What starts again from the cache after the process died was connected.
LEMMA ProcessDiesKeepsBridge ==
  ASSUME BridgeInv, ProcessDies
  PROVE  BridgeInv'
<1>. DEFINE again == <<[kind |-> "start", mode |-> cache]>>
<1>1. /\ RendererStarts /\ state' = "disconnected"
      /\ intents' = <<>> \/ (state # "disconnected" /\ cache # NoMode /\ intents' = again)
      /\ behind' = (behind \/ ModeUnderWay \/ intents # <<>> \/ state \in {"connecting", "error"})
      /\ UNCHANGED <<run, cache, killSwitch, off>>
  BY DEF ProcessDies
<1>2. /\ OpsInv' /\ LastIsSaved' /\ SavedOrSaving' /\ Wanted' = vpnMode
      /\ currentMode' \in AMode /\ settled' = FALSE /\ vpnMode' = vpnMode
      /\ ops' \in [Ops -> BridgeOp \union {NoOp}]
      /\ \A o \in Ops : ops'[o] = NoOp /\ ~Changing(o)' /\ ~Awaits(o, "nodes")'
  BY <1>1, RendererAnew
<1>3. behind' \in BOOLEAN /\ settled' \in BOOLEAN
  BY <1>1, <1>2 DEF BridgeInv, BridgeTypeOK, ModeUnderWay, Chooses
<1>4. /\ again \in Seq(Intent) /\ <<>> \in Seq(Intent)
      /\ \A n \in DOMAIN again : again[n].kind = "start" /\ again[n].mode = cache
  BY DEF BridgeInv, BridgeTypeOK, Intent
<1>5. /\ intents' \in Seq(Intent)
      /\ \A n \in DOMAIN intents' :
           intents'[n].kind = "start" /\ intents'[n].mode = cache /\ state # "disconnected"
  <2>1. CASE intents' = <<>>
    BY <1>4, <2>1
  <2>2. CASE state # "disconnected" /\ intents' = again
    BY <1>4, <2>2
  <2>. QED  BY <1>1, <2>1, <2>2
<1>. HIDE DEF again
<1>6. BridgeTypeOK'
  BY <1>1, <1>2, <1>3, <1>5 DEF BridgeInv, BridgeTypeOK
<1>7. OffInv'
  BY <1>1, <1>2, <1>5 DEF BridgeInv, OffInv
<1>8. ASSUME ~behind'
      PROVE  ~Older(Wanted)' /\ OrStopped'
  <2>1. Wanted' = Wanted /\ \A o \in Ops : ~Changing(o)
    BY <1>1, <1>2, <1>8, WantedIsSaved
  <2>2. OrStopped /\ intents = <<>> /\ state \notin {"connecting", "error"}
    BY <1>1, <1>8 DEF BridgeInv, ModeInv
  <2>3. state = "connected" => cache = Wanted
    BY <2>1, <2>2 DEF OrStopped, Started, BridgeInv, ModeInv
  <2>4. \A n \in DOMAIN intents' : intents'[n].mode = Wanted'
    BY <1>5, <2>1, <2>2, <2>3 DEF BridgeInv, BridgeTypeOK
  <2>. QED  BY <1>1, <1>2, <2>4 DEF Older, OrStopped, Started
<1>9. ~(state' = "connected")
  BY <1>1
<1>. QED  BY <1>2, <1>6, <1>7, <1>8, <1>9 DEF BridgeInv, ModeInv

\* A device that boots runs what connected last, which need not be what the
\* settings have.
LEMMA BootStartsKeepsBridge ==
  ASSUME BridgeInv, BootStarts
  PROVE  BridgeInv'
<1>1. /\ RendererStarts /\ state' = "disconnected" /\ off' = FALSE
      /\ intents' = <<[kind |-> "start", mode |-> cache]>>
      /\ behind' = (behind \/ ModeUnderWay \/ cache # vpnMode)
      /\ UNCHANGED <<run, cache, killSwitch>>
  BY DEF BootStarts
<1>2. /\ OpsInv' /\ LastIsSaved' /\ SavedOrSaving' /\ Wanted' = vpnMode
      /\ currentMode' \in AMode /\ settled' = FALSE /\ vpnMode' = vpnMode
      /\ ops' \in [Ops -> BridgeOp \union {NoOp}]
      /\ \A o \in Ops : ~Awaits(o, "nodes")'
  BY <1>1, RendererAnew
<1>3. behind' \in BOOLEAN /\ settled' \in BOOLEAN
  BY <1>1, <1>2 DEF BridgeInv, BridgeTypeOK, ModeUnderWay, Chooses
<1>4. /\ intents' \in Seq(Intent)
      /\ \A n \in DOMAIN intents' : intents'[n].mode = cache
  BY <1>1 DEF BridgeInv, BridgeTypeOK, Intent
<1>5. BridgeTypeOK'
  BY <1>1, <1>2, <1>3, <1>4 DEF BridgeInv, BridgeTypeOK
<1>6. OffInv' /\ OrStopped' /\ ~(state' = "connected")
  BY <1>1 DEF OffInv, OrStopped, Started
<1>7. ~behind' => ~Older(Wanted)'
  BY <1>1, <1>2, <1>4 DEF Older
<1>. QED  BY <1>2, <1>5, <1>6, <1>7 DEF BridgeInv, ModeInv

LEMMA BridgeInvStep ==
  ASSUME BridgeInv, [BridgeNext]_bridgeVars
  PROVE  BridgeInv'
<1>1. CASE \E o \in Ops : \/ UserConnects(o) \/ Reapplies(o) \/ Bootstraps(o)
                          \/ \E m \in Modes : ModeChanges(o, m) \/ ModeIsPatched(o, m)
  BY <1>1, UserOps
<1>2. CASE \E o \in Ops : OpSteps(o)
  BY <1>2, ModeSetKeepsBridge, ModeSavedKeepsBridge, ReconnectSteps DEF OpSteps
<1>3. CASE \E m \in Modes : ProfileApplied(m)
  BY <1>3, ProfileAppliedKeepsBridge
<1>4. CASE UserDisconnects \/ Roams \/ TileClicked \/ AlwaysOnStarts
  BY <1>4, CommandsAside
<1>5. CASE ServiceSteps
  BY <1>5, DeliversStartKeepsBridge, DeliversStopKeepsBridge, DeliversReconnectKeepsBridge,
     CoreConnectsKeepsBridge, CoreRefusesKeepsBridge DEF ServiceSteps
<1>6. CASE SettingsLoad \/ Reloads \/ ProcessDies \/ BootStarts \/ UNCHANGED bridgeVars
  BY <1>6, SettingsLoadKeepsBridge, ReloadsKeepsBridge, ProcessDiesKeepsBridge,
     BootStartsKeepsBridge, CoreRefusesKeepsBridge
<1>. QED  BY <1>1, <1>2, <1>3, <1>4, <1>5, <1>6 DEF BridgeNext

LEMMA BridgeInvHolds == BridgeSpec => []BridgeInv
<1>1. BridgeInit => BridgeInv
  BY BridgeInvInit
<1>2. BridgeInv /\ [BridgeNext]_bridgeVars => BridgeInv'
  BY BridgeInvStep
<1>. QED  BY <1>1, <1>2, PTL DEF BridgeSpec

\* A disconnect of the user is undone by the user or by what the user has
\* turned on (auto-connect, the boot receiver, Always-on) and by nothing else,
\* whatever operations, reloads and deaths of the process come in between.
THEOREM BridgeStaysOff == BridgeSpec => []OffStaysOff
<1>1. BridgeInv => OffStaysOff
  BY DEF BridgeInv, OffInv, OffStaysOff, Started
<1>. QED  BY <1>1, BridgeInvHolds, PTL

\* A mode that was changed reaches the tunnel: a calm tunnel runs it, unless
\* the change found no tunnel, failed, came as a patch of the settings, or an
\* older configuration outran it.
THEOREM ModeReachesTunnel == BridgeSpec => []ModeTakesEffect
<1>1. BridgeInv => ModeTakesEffect
  <2>1. SUFFICES ASSUME BridgeInv, Calm, state = "connected", run # currentMode, ~behind
                 PROVE  FALSE
    BY DEF ModeTakesEffect, BridgeInv, BridgeTypeOK
  <2>2. OrStopped
    BY <2>1 DEF BridgeInv, ModeInv
  <2>. QED  BY <2>1, <2>2 DEF OrStopped, Calm, Wanted, Started, Changing
<1>. QED  BY <1>1, BridgeInvHolds, PTL


-----------------------------------------------------------------------------
(* The routing policy: least numbers, and the rule that decides *)

\* A set of numbers that is not empty has a least one: of the intervals from 0 to
\* them, one holds no other.
LEMMA LeastNumber ==
  ASSUME NEW S, S \subseteq Nat, S # {}
  PROVE  \E n \in S : \A m \in S : n <= m
<1>. DEFINE Below == {0 .. n : n \in S}
<1>1. \A n \in S : 0 .. n \in SUBSET Nat /\ IsFiniteSet(0 .. n)
  BY FS_Interval
<1>2. Below \subseteq FiniteSubsetsOf(Nat) /\ Below # {}
  BY <1>1 DEF FiniteSubsetsOf
<1>3. \E x \in Below : \A y \in Below : ~ (<<y, x>> \in StrictSubsetOrdering(Nat))
  <2>. HIDE DEF Below
  <2>. QED  BY <1>2, FS_StrictSubsetOrderingWellFounded, WFMin
<1>4. PICK n \in S : \A m \in S : ~ (<<0 .. m, 0 .. n>> \in StrictSubsetOrdering(Nat))
  BY <1>3
<1>5. ASSUME NEW m \in S, ~ (n <= m)  PROVE FALSE
  <2>1. n \in Nat /\ m \in Nat /\ m < n
    BY <1>5
  <2>2. 0 .. m \subseteq 0 .. n /\ n \in 0 .. n /\ n \notin 0 .. m
    BY <2>1
  <2>3. 0 .. m \in SUBSET Nat /\ 0 .. n \in SUBSET Nat /\ 0 .. m # 0 .. n
    BY <2>1, <2>2
  <2>4. <<0 .. m, 0 .. n>> \in StrictSubsetOrdering(Nat)
    BY <2>2, <2>3 DEF StrictSubsetOrdering
  <2>. QED  BY <1>4, <2>4
<1>. QED  BY <1>4, <1>5

\* Of rules, one has the least place.
LEMMA FirstRule ==
  ASSUME NEW rules, \A r \in rules : r.at \in Nat, rules # {}
  PROVE  \E r \in rules : \A other \in rules : r.at <= other.at
<1>. DEFINE Places == {r.at : r \in rules}
<1>1. Places \subseteq Nat /\ Places # {}
  OBVIOUS
<1>2. PICK n \in Places : \A m \in Places : n <= m
  <2>. HIDE DEF Places
  <2>. QED  BY <1>1, LeastNumber
<1>. QED  BY <1>2

\* The least of a set of numbers.
LEMMA MinIs ==
  ASSUME NEW S, S \subseteq Nat, S # {}
  PROVE  Min(S) \in S /\ \A m \in S : Min(S) <= m
  BY LeastNumber DEF Min

\* What the kernel decides: the default, or what a matching rule of the least place says.
LEMMA DecisionIs ==
  ASSUME NEW config, NEW c, \A r \in config.rules : r.at \in Nat
  PROVE  \/ /\ \A r \in config.rules : ~ Matches(r, c)
            /\ Decision(config, c) = config.default
         \/ \E r \in config.rules :
              /\ Matches(r, c) /\ Decision(config, c) = r.action
              /\ \A other \in config.rules : Matches(other, c) => r.at <= other.at
<1>. DEFINE matching == {r \in config.rules : Matches(r, c)}
<1>1. CASE matching = {}
  BY <1>1 DEF Decision
<1>2. CASE matching # {}
  <2>1. \E r \in matching : \A other \in matching : r.at <= other.at
    <3>1. \A r \in matching : r.at \in Nat
      OBVIOUS
    <3>. HIDE DEF matching
    <3>. QED  BY <1>2, <3>1, FirstRule
  <2>2. Decision(config, c) =
          (CHOOSE r \in matching : \A other \in matching : r.at <= other.at).action
    BY <1>2 DEF Decision
  <2>. QED  BY <2>1, <2>2
<1>. QED  BY <1>1, <1>2

-----------------------------------------------------------------------------
(* The optimizer *)

LEMMA OptimizedKeepsOnly ==
  ASSUME NEW rules  PROVE Optimized(rules) \subseteq rules
  BY DEF Optimized

\* A rule that is not for one name has one that says the same, no later, in what is left.
LEMMA OptimizedKeeps ==
  ASSUME NEW rules, \A r \in rules : r.at \in Nat, NEW r \in rules, r.type # "domain"
  PROVE  \E kept \in Optimized(rules) :
           /\ kept.type = r.type /\ kept.value = r.value /\ kept.action = r.action
           /\ kept.at <= r.at
<1>. DEFINE same == {s \in rules : s.type = r.type /\ s.value = r.value /\ s.action = r.action}
<1>1. PICK kept \in same : \A other \in same : kept.at <= other.at
  <2>1. same # {} /\ \A s \in same : s.at \in Nat
    OBVIOUS
  <2>. HIDE DEF same
  <2>. QED  BY <2>1, FirstRule
<1>2. kept \in Optimized(rules)
  <2>1. ~ \E other \in rules : /\ other.type = kept.type /\ other.value = kept.value
                               /\ other.action = kept.action /\ other.at < kept.at
    BY <1>1
  <2>. QED  BY <1>1, <2>1 DEF Optimized
<1>. QED  BY <1>1, <1>2

-----------------------------------------------------------------------------
(* What a mode's policy is made of *)

OwnEntry == [domain : Sites, exact : BOOLEAN, action : Actions]

RoutingTypeOK ==
  /\ platform \in {"windows", "android"} /\ vpnRoute \in Routes
  /\ ownRules \in Seq(OwnEntry) /\ enabled \in SUBSET Scenarios
  /\ rkn \in BOOLEAN /\ unknownSites \in SUBSET Lists /\ loaded \in BOOLEAN

\* The page keeps one base scenario at a time, and the list to what it allows.
OneBase == \A s, t \in enabled \intersect DOMAIN DefaultOf : s = t

RoutingInv ==
  RoutingTypeOK /\ OneBase /\ Len(ownRules) <= MaxRules /\ (rkn => platform = "android")

\* So few rules of the user and applications that none leaves its band.
FewEntries == Earlier + MaxRules <= 151 /\ EarlierApps <= 40

\* The i-th rule of the user, as the policy has it.
OwnRule(i) ==
  Rule(IF ownRules[i].exact THEN "domain" ELSE "domain_suffix", ownRules[i].domain,
       ownRules[i].action, BasePriority + Earlier + i - 1, 1)

\* A rule of a scenario for one of the lists.
OfScenario(r) ==
  /\ r.type \in {"bundled", "geosite"} /\ r.value \in Lists
  /\ r.at \in Nat /\ 802 <= r.at /\ r.at <= 10001

OfSplitList(r) ==
  /\ platform = "windows" /\ vpnRoute = "split"
  /\ r.type = "process_name" /\ r.action = "proxy" /\ r.at \in 0 .. 200

LEMMA ScenarioRules ==
  ASSUME NEW s \in Scenarios, NEW r \in RulesOf(s)
  PROVE  r = PrivateDirect \/ r = CountryDirect \/ OfScenario(r)
<1>. USE DEF OfScenario, Lists, Bundled, Category, Rule, RulesOf
<1>1. CASE s = "roscomvpn-default"
  BY <1>1 DEF RoscomVPNDefault, CuratedDirect, Messengers
<1>2. CASE s = "smart-russia-bypass"
  BY <1>2 DEF SmartRussiaBypass, CuratedDirect, Messengers
<1>3. CASE s = "smart-global"
  BY <1>3 DEF SmartGlobal
<1>4. CASE s = "ad-block"
  BY <1>4 DEF AdBlock
<1>5. CASE s = "gaming-direct"
  BY <1>5 DEF Gaming
<1>6. CASE s = "ai-services"
  BY <1>6 DEF AIServices
<1>7. CASE s = "streaming"
  BY <1>7 DEF Streaming
<1>8. CASE s = "runetfreedom-bypass"
  BY <1>8 DEF RunetFreedomBypass
<1>. HIDE DEF OfScenario, Lists, Bundled, Category, Rule, RulesOf
<1>. QED
  BY <1>1, <1>2, <1>3, <1>4, <1>5, <1>6, <1>7, <1>8 DEF Scenarios

LEMMA LocalAndCountry ==
  /\ PrivateDirect.type = "bundled" /\ PrivateDirect.value = "private"
  /\ PrivateDirect.action = "direct" /\ PrivateDirect.at = 402
  /\ CountryDirect.type = "bundled" /\ CountryDirect.value = "country"
  /\ CountryDirect.action = "direct" /\ CountryDirect.at = 10002
  BY DEF PrivateDirect, CountryDirect, Bundled, Rule

\* The base scenarios know the local network, and so do the mode's own two.
LEMMA BasesKnowTheLocal ==
  ASSUME NEW s \in DOMAIN DefaultOf
  PROVE  PrivateDirect \in RulesOf(s)
  BY DEF DefaultOf, RulesOf, RoscomVPNDefault, SmartRussiaBypass, SmartGlobal

LEMMA OwnAre ==
  ASSUME RoutingInv, FewEntries
  PROVE  /\ Own = {OwnRule(i) : i \in DOMAIN ownRules}
         /\ \A i \in DOMAIN ownRules :
              /\ ownRules[i] \in OwnEntry /\ i \in Nat
              /\ OwnRule(i).type = (IF ownRules[i].exact THEN "domain" ELSE "domain_suffix")
              /\ OwnRule(i).value = ownRules[i].domain
              /\ OwnRule(i).action = ownRules[i].action
              /\ OwnRule(i).at = 4 * (49 + Earlier + i) + 1
              /\ OwnRule(i).at \in 201 .. 801
<1>1. Own = {OwnRule(i) : i \in DOMAIN ownRules}
  BY DEF Own, OwnRule
<1>2. ASSUME NEW i \in DOMAIN ownRules
      PROVE  /\ ownRules[i] \in OwnEntry /\ i \in Nat
             /\ OwnRule(i).type = (IF ownRules[i].exact THEN "domain" ELSE "domain_suffix")
             /\ OwnRule(i).value = ownRules[i].domain
             /\ OwnRule(i).action = ownRules[i].action
             /\ OwnRule(i).at = 4 * (49 + Earlier + i) + 1
             /\ OwnRule(i).at \in 201 .. 801
  <2>1. /\ ownRules[i] \in OwnEntry /\ i \in Nat /\ 1 <= i /\ i <= MaxRules
        /\ Earlier \in Nat /\ MaxRules \in Nat
    <3>1. ownRules \in Seq(OwnEntry) /\ Len(ownRules) <= MaxRules
      BY DEF RoutingInv, RoutingTypeOK
    <3>. QED  BY <3>1, RoutingAssumption
  <2>2. /\ OwnRule(i).type = (IF ownRules[i].exact THEN "domain" ELSE "domain_suffix")
        /\ OwnRule(i).value = ownRules[i].domain
        /\ OwnRule(i).action = ownRules[i].action
        /\ OwnRule(i).at = 4 * (50 + Earlier + i - 1) + 1
    BY DEF OwnRule, Rule, BasePriority
  <2>3. OwnRule(i).at = 4 * (49 + Earlier + i) + 1 /\ OwnRule(i).at \in 201 .. 801
    BY <2>1, <2>2 DEF FewEntries
  <2>. QED  BY <2>1, <2>2, <2>3
<1>. QED  BY <1>1, <1>2

LEMMA ActiveAre ==
  ASSUME RoutingInv  PROVE Active \subseteq Scenarios
  BY DEF RoutingInv, RoutingTypeOK, Active, Scenarios, Routes

\* What a mode composes, when no scenario is dropped.
LEMMA ComposedHas ==
  ASSUME NEW scenarios, ~ {"smart-global", "smart-russia-bypass"} \subseteq scenarios
  PROVE  /\ Composed(scenarios).rules = Own \union UNION {RulesOf(s) : s \in scenarios}
         /\ Composed(scenarios).default =
              IF \E s \in scenarios \intersect DOMAIN DefaultOf : DefaultOf[s] = "proxy"
              THEN "proxy" ELSE "direct"
<1>1. (IF "smart-global" \in scenarios THEN scenarios \ {"smart-russia-bypass"}
       ELSE scenarios) = scenarios
  OBVIOUS
<1>. QED  BY <1>1 DEF Composed

\* What the policy of a mode is made of.
LEMMA ForModeIs ==
  ASSUME RoutingInv, FewEntries
  PROVE  /\ \A r \in ForMode.rules :
              \/ OfSplitList(r) \/ r \in Own \/ r = PrivateDirect
              \/ \E s \in Active : r \in RulesOf(s)
         /\ platform = "windows" /\ vpnRoute = "split" => \E r \in ForMode.rules : OfSplitList(r)
         /\ Own \subseteq ForMode.rules
         /\ PrivateDirect \in ForMode.rules \/ ForMode.default = "direct"
         /\ \A s \in Active : RulesOf(s) \subseteq ForMode.rules
         /\ ForMode.default = ByDefault
<1>. DEFINE Goal ==
        /\ \A r \in ForMode.rules :
              \/ OfSplitList(r) \/ r \in Own \/ r = PrivateDirect
              \/ \E s \in Active : r \in RulesOf(s)
        /\ platform = "windows" /\ vpnRoute = "split" => \E r \in ForMode.rules : OfSplitList(r)
        /\ Own \subseteq ForMode.rules
        /\ PrivateDirect \in ForMode.rules \/ ForMode.default = "direct"
        /\ \A s \in Active : RulesOf(s) \subseteq ForMode.rules
        /\ ForMode.default = ByDefault
<1>0. /\ ownRules = <<>> => Own = {}
      /\ \A d, p : Minimal(d, p).rules = p \union Own \union {PrivateDirect} /\ Minimal(d, p).default = d
      /\ Legacy.rules = {PrivateDirect} \union
             (IF vpnRoute = "split" THEN {OfProcesses("listed", 0)} ELSE {})
      /\ Legacy.default = IF vpnRoute \in {"split", "blocked"} THEN "direct" ELSE "proxy"
  BY DEF Own, Minimal, Legacy
<1>1. CASE vpnRoute = "full"
  <2>1. /\ Active = {} /\ ByDefault = "proxy"
        /\ ForMode = IF ownRules = <<>> THEN Legacy ELSE Minimal("proxy", {})
    BY <1>1 DEF Active, ByDefault, ForMode
  <2>2. ForMode.rules = Own \union {PrivateDirect} /\ ForMode.default = "proxy"
    BY <1>0, <1>1, <2>1
  <2>. QED  BY <1>1, <2>1, <2>2
<1>2. CASE vpnRoute = "split" /\ platform = "android"
  <2>1. Active = {} /\ ByDefault = "proxy" /\ ForMode = Minimal("proxy", {})
    BY <1>2 DEF Active, ByDefault, ForMode
  <2>2. ForMode.rules = Own \union {PrivateDirect} /\ ForMode.default = "proxy"
    BY <1>0, <2>1
  <2>. QED  BY <1>2, <2>1, <2>2
<1>3. CASE vpnRoute = "split" /\ platform = "windows"
  <2>1. /\ Active = {} /\ ByDefault = "direct"
        /\ ForMode = IF ownRules = <<>> THEN Legacy
                     ELSE Minimal("direct", {OfProcesses("listed", 10 + EarlierApps)})
    BY <1>3 DEF Active, ByDefault, ForMode
  <2>2. OfSplitList(OfProcesses("listed", 0)) /\ OfSplitList(OfProcesses("listed", 10 + EarlierApps))
    BY <1>3, RoutingAssumption DEF OfSplitList, OfProcesses, Rule, FewEntries
  <2>3. \E p \in {OfProcesses("listed", 0), OfProcesses("listed", 10 + EarlierApps)} :
          ForMode.rules = {p} \union Own \union {PrivateDirect} /\ ForMode.default = "direct"
    BY <1>0, <1>3, <2>1
  <2>. QED  BY <1>3, <2>1, <2>2, <2>3
<1>4. CASE vpnRoute = "bypass"
  <2>1. Active = {"roscomvpn-default"} /\ ByDefault = "proxy" /\ ForMode = Composed(Active)
    BY <1>4 DEF Active, ByDefault, ForMode
  <2>2. /\ ForMode.rules = Own \union UNION {RulesOf(s) : s \in Active}
        /\ ForMode.default = "proxy"
    BY <2>1, ComposedHas DEF DefaultOf
  <2>3. PrivateDirect \in ForMode.rules
    BY <2>1, <2>2, BasesKnowTheLocal DEF DefaultOf
  <2>. QED  BY <1>4, <2>1, <2>2, <2>3
<1>5. CASE vpnRoute = "blocked"
  <2>1. /\ Active = {"smart-russia-bypass", "ai-services"} /\ ByDefault = "direct"
        /\ ForMode = Composed(Active)
    BY <1>5 DEF Active, ByDefault, ForMode
  <2>2. ~ \E s \in Active \intersect DOMAIN DefaultOf : DefaultOf[s] = "proxy"
    BY <2>1 DEF DefaultOf
  <2>3. /\ ForMode.rules = Own \union UNION {RulesOf(s) : s \in Active}
        /\ ForMode.default = "direct"
    <3>1. ~ {"smart-global", "smart-russia-bypass"} \subseteq Active
      BY <2>1
    <3>. QED  BY <2>1, <2>2, <3>1, ComposedHas
  <2>. QED  BY <1>5, <2>1, <2>3
<1>6. CASE vpnRoute = "custom" /\ enabled = {}
  <2>1. /\ Active = {} /\ ByDefault = "proxy"
        /\ ForMode = IF ownRules = <<>> THEN Legacy ELSE Minimal("proxy", {})
    BY <1>6 DEF Active, ByDefault, ForMode
  <2>2. ForMode.rules = Own \union {PrivateDirect} /\ ForMode.default = "proxy"
    BY <1>0, <1>6, <2>1
  <2>. QED  BY <1>6, <2>1, <2>2
<1>7. CASE vpnRoute = "custom" /\ enabled # {}
  <2>1. Active = enabled /\ ForMode = Composed(Active)
    BY <1>7 DEF Active, ForMode
  <2>2. ~ {"smart-global", "smart-russia-bypass"} \subseteq Active
    BY <2>1 DEF RoutingInv, OneBase, DefaultOf
  <2>3. /\ ForMode.rules = Own \union UNION {RulesOf(s) : s \in Active}
        /\ ForMode.default =
              IF \E s \in Active \intersect DOMAIN DefaultOf : DefaultOf[s] = "proxy"
              THEN "proxy" ELSE "direct"
    BY <2>1, <2>2, ComposedHas
  <2>4. ForMode.default = ByDefault
    <3>1. (\E s \in enabled \intersect DOMAIN DefaultOf : DefaultOf[s] = "proxy")
            <=> enabled \intersect {"roscomvpn-default", "smart-global"} # {}
      BY DEF DefaultOf
    <3>. QED  BY <1>7, <2>1, <2>3, <3>1 DEF ByDefault
  <2>5. PrivateDirect \in ForMode.rules \/ ForMode.default = "direct"
    BY <2>3, BasesKnowTheLocal
  <2>. QED  BY <1>7, <2>1, <2>3, <2>4, <2>5
<1>. QED
  BY <1>1, <1>2, <1>3, <1>4, <1>5, <1>6, <1>7 DEF RoutingInv, RoutingTypeOK, Routes

-----------------------------------------------------------------------------
(* What is compiled *)

\* The user's rules that a connection is about.
About(c) ==
  {i \in DOMAIN ownRules : \/ c.name = ownRules[i].domain
                           \/ /\ ~ownRules[i].exact /\ c.name \in Sites
                              /\ Under(c.name, ownRules[i].domain)}

Missing(r) == r.type = "geosite" /\ r.value \in unknownSites

OfNodes(r) == platform = "android" /\ r.type = "node" /\ r.action = "direct" /\ r.at = 0

OfList(r) ==
  platform = "android" /\ rkn /\ r.type = "rule_set" /\ r.action = "proxy" /\ r.at = 1

\* A rule of a list or of the country by one of the scenarios that have a say.
OfActive(r) == \E s \in Active : r \in RulesOf(s)

LEMMA ExtrasAre ==
  /\ \A r \in Extras : OfNodes(r) \/ OfList(r)
  /\ platform = "android" => \E r \in Extras : OfNodes(r)
  /\ platform = "android" /\ rkn => \E r \in Extras : OfList(r)
<1>. DEFINE node == Rule("node", "node", "direct", 0, 0)
             list == Rule("rule_set", "rkn", "proxy", 0, 1)
<1>1. /\ node.type = "node" /\ node.action = "direct" /\ node.at = 0
      /\ list.type = "rule_set" /\ list.action = "proxy" /\ list.at = 1
  BY DEF Rule
<1>2. Extras = IF platform = "android" THEN {node} \union (IF rkn THEN {list} ELSE {})
               ELSE {}
  BY DEF Extras
<1>. HIDE DEF node, list
<1>3. platform = "android" => OfNodes(node) /\ (rkn => OfList(list))
  BY <1>1 DEF OfNodes, OfList
<1>4. CASE platform = "android" /\ rkn
  BY <1>2, <1>3, <1>4
<1>5. CASE platform = "android" /\ ~ rkn
  BY <1>2, <1>3, <1>5
<1>6. CASE platform # "android"
  BY <1>2, <1>6
<1>. QED  BY <1>4, <1>5, <1>6

LEMMA CompiledIs ==
  /\ Compiled.rules = Extras \union {r \in Optimized(ForMode.rules) : ~ Missing(r)}
  /\ Compiled.default = ForMode.default
  BY DEF Compiled, Missing

\* Every rule of a mode's policy, with its place.
LEMMA ForModePlaces ==
  ASSUME RoutingInv, FewEntries, NEW r \in ForMode.rules
  PROVE  /\ r.at \in Nat
         /\ \/ OfSplitList(r) \/ r \in Own \/ r = PrivateDirect
            \/ OfActive(r) /\ (r = CountryDirect \/ OfScenario(r))
<1>1. CASE OfSplitList(r)
  BY <1>1 DEF OfSplitList
<1>2. CASE r \in Own
  <2>1. r.at \in 201 .. 801
    BY <1>2, OwnAre
  <2>. QED  BY <1>2, <2>1
<1>3. CASE r = PrivateDirect
  BY <1>3, LocalAndCountry
<1>4. ASSUME NEW s \in Active, r \in RulesOf(s), r # PrivateDirect
      PROVE  r.at \in Nat /\ OfActive(r) /\ (r = CountryDirect \/ OfScenario(r))
  <2>1. OfActive(r) /\ s \in Scenarios
    BY <1>4, ActiveAre DEF OfActive
  <2>2. r = CountryDirect \/ OfScenario(r)
    BY <1>4, <2>1, ScenarioRules
  <2>3. r = CountryDirect => r.at \in Nat
    BY LocalAndCountry
  <2>4. OfScenario(r) => r.at \in Nat
    BY DEF OfScenario
  <2>. QED  BY <2>1, <2>2, <2>3, <2>4
<1>5. OfSplitList(r) \/ r \in Own \/ r = PrivateDirect \/ \E s \in Active : r \in RulesOf(s)
  BY ForModeIs
<1>. QED  BY <1>1, <1>2, <1>3, <1>4, <1>5

LEMMA Places ==
  ASSUME RoutingInv, FewEntries
  PROVE  (\A r \in ForMode.rules : r.at \in Nat) /\ (\A r \in Compiled.rules : r.at \in Nat)
<1>1. \A r \in ForMode.rules : r.at \in Nat
  BY ForModePlaces
<1>2. \A r \in Extras : r.at \in Nat
  BY ExtrasAre DEF OfNodes, OfList
<1>. QED  BY <1>1, <1>2, CompiledIs, OptimizedKeepsOnly

-----------------------------------------------------------------------------
(* What a rule that matches is of *)

LEMMA MatchesIs ==
  ASSUME NEW r, NEW c
  PROVE  /\ r.type = "node" => (Matches(r, c) <=> c.to = "server")
         /\ r.type = "rule_set" => (Matches(r, c) <=> c.onRkn)
         /\ r.type = "process_name" => (Matches(r, c) <=> c.listed)
         /\ r.type = "domain" => (Matches(r, c) <=> c.name = r.value)
         /\ r.type = "domain_suffix" =>
              (Matches(r, c) <=> c.name # "elsewhere" /\ Under(c.name, r.value))
         /\ OfScenario(r) => (Matches(r, c) <=> r.value \in c.in)
<1>1. CASE r.type = "node"
  BY <1>1 DEF Matches, OfScenario
<1>3. CASE r.type = "rule_set"
  BY <1>3 DEF Matches, OfScenario
<1>4. CASE r.type = "process_name"
  BY <1>4 DEF Matches, OfScenario
<1>5. CASE r.type = "domain"
  BY <1>5 DEF Matches, OfScenario
<1>6. CASE r.type = "domain_suffix"
  BY <1>6 DEF Matches, OfScenario
<1>2. OfScenario(r) => (Matches(r, c) <=> r.value \in c.in)
  <2>. SUFFICES ASSUME OfScenario(r)  PROVE Matches(r, c) <=> r.value \in c.in
    OBVIOUS
  <2>1. /\ r.type # "domain" /\ r.type # "domain_suffix" /\ r.type # "process_name"
        /\ r.type # "node" /\ r.type # "rule_set"
        /\ r.value # "private" /\ r.value # "country"
    BY DEF OfScenario, Lists
  <2>. QED  BY <2>1 DEF Matches
<1>. QED  BY <1>1, <1>2, <1>3, <1>4, <1>5, <1>6

LEMMA LocalAndCountryMatch ==
  ASSUME NEW c
  PROVE  /\ Matches(PrivateDirect, c) <=> c.to = "private"
         /\ Matches(CountryDirect, c) <=> c.fromRussia
  BY LocalAndCountry DEF Matches

\* A rule of the user matches the connections it is about.
LEMMA OwnMatches ==
  ASSUME RoutingInv, FewEntries, NEW c \in Connection, NEW i \in DOMAIN ownRules
  PROVE  Matches(OwnRule(i), c) <=> i \in About(c)
<1>1. /\ ownRules[i] \in OwnEntry /\ OwnRule(i).value = ownRules[i].domain
      /\ OwnRule(i).type = (IF ownRules[i].exact THEN "domain" ELSE "domain_suffix")
  BY OwnAre
<1>2. c.name \in Sites \union {"elsewhere"} /\ ownRules[i].domain \in Sites
      /\ ownRules[i].exact \in BOOLEAN
  BY <1>1 DEF Connection, OwnEntry
<1>3. CASE ownRules[i].exact
  BY <1>1, <1>2, <1>3, MatchesIs DEF About
<1>4. CASE ~ ownRules[i].exact
  <2>1. Matches(OwnRule(i), c) <=> c.name # "elsewhere" /\ Under(c.name, ownRules[i].domain)
    BY <1>1, <1>4, MatchesIs
  <2>2. i \in About(c) <=> \/ c.name = ownRules[i].domain
                           \/ c.name \in Sites /\ Under(c.name, ownRules[i].domain)
    BY <1>4 DEF About
  <2>. QED  BY <1>2, <2>1, <2>2 DEF Sites, Under
<1>. QED  BY <1>3, <1>4

\* What the scenarios say of a connection by its name, and by its country.
SaidByName(c) == Said(c, TRUE)

SaidByCountry(c) == Said(c, FALSE)

LEMMA SaidIs ==
  ASSUME NEW c, NEW action
  PROVE  /\ action \in SaidByName(c) <=>
              \E r : /\ OfActive(r) /\ r # CountryDirect
                     /\ ~ Missing(r) /\ Matches(r, c) /\ r.action = action
         /\ action \in SaidByCountry(c) <=>
              \E r : /\ OfActive(r) /\ r = CountryDirect
                     /\ ~ Missing(r) /\ Matches(r, c) /\ r.action = action
  BY DEF SaidByName, SaidByCountry, Said, OfActive, Missing

\* A compiled rule that matches a connection is of one of the layers.
LEMMA CompiledRules ==
  ASSUME RoutingInv, FewEntries, NEW c \in Connection,
         NEW r \in Compiled.rules, Matches(r, c)
  PROVE  \/ OfNodes(r) /\ c.to = "server"
         \/ OfList(r) /\ c.onRkn
         \/ OfSplitList(r) /\ c.listed
         \/ \E i \in About(c) : r = OwnRule(i)
         \/ r = PrivateDirect /\ c.to = "private"
         \/ OfScenario(r) /\ r.action \in SaidByName(c) /\ c.in # {}
         \/ r = CountryDirect /\ r.action \in SaidByCountry(c)
<1>1. CASE r \in Extras
  <2>1. CASE OfNodes(r)
    <3>1. r.type = "node"
      BY <2>1 DEF OfNodes
    <3>. QED  BY <2>1, <3>1, MatchesIs
  <2>2. CASE OfList(r)
    <3>1. r.type = "rule_set"
      BY <2>2 DEF OfList
    <3>. QED  BY <2>2, <3>1, MatchesIs
  <2>. QED  BY <1>1, <2>1, <2>2, ExtrasAre
<1>2. ASSUME r \in ForMode.rules, ~ Missing(r)
      PROVE  \/ OfSplitList(r) /\ c.listed
             \/ \E i \in About(c) : r = OwnRule(i)
             \/ r = PrivateDirect /\ c.to = "private"
             \/ OfScenario(r) /\ r.action \in SaidByName(c) /\ c.in # {}
             \/ r = CountryDirect /\ r.action \in SaidByCountry(c)
  <2>1. CASE OfSplitList(r)
    <3>1. r.type = "process_name"
      BY <2>1 DEF OfSplitList
    <3>. QED  BY <2>1, <3>1, MatchesIs
  <2>2. CASE r \in Own
    <3>1. PICK i \in DOMAIN ownRules : r = OwnRule(i)
      BY <2>2, OwnAre
    <3>. QED  BY <3>1, OwnMatches
  <2>3. CASE r = PrivateDirect
    BY <2>3, LocalAndCountryMatch
  <2>4. CASE OfActive(r) /\ r = CountryDirect
    <3>1. r.action \in SaidByCountry(c)
      BY <1>2, <2>4, SaidIs
    <3>. QED  BY <2>4, <3>1
  <2>5. CASE OfActive(r) /\ OfScenario(r)
    <3>1. r # CountryDirect
      BY <2>5, LocalAndCountry DEF OfScenario
    <3>2. r.action \in SaidByName(c)
      BY <1>2, <2>5, <3>1, SaidIs
    <3>3. r.value \in c.in
      BY <2>5, MatchesIs
    <3>. QED  BY <2>5, <3>2, <3>3
  <2>. QED  BY <1>2, <2>1, <2>2, <2>3, <2>4, <2>5, ForModePlaces
<1>3. r \in Extras \/ (r \in ForMode.rules /\ ~ Missing(r))
  <2>1. Optimized(ForMode.rules) \subseteq ForMode.rules
    BY OptimizedKeepsOnly
  <2>2. \A s \in Compiled.rules : s \in Extras \/ (s \in Optimized(ForMode.rules) /\ ~ Missing(s))
    BY CompiledIs
  <2>. QED  BY <2>1, <2>2
<1>. QED  BY <1>1, <1>2, <1>3

\* Of a rule of the policy that the user did not write, one that says the same is compiled.
LEMMA CompiledKeeps ==
  ASSUME RoutingInv, FewEntries, NEW r \in ForMode.rules,
         r.type # "domain", ~ Missing(r)
  PROVE  \E kept \in Compiled.rules :
           /\ kept.type = r.type /\ kept.value = r.value /\ kept.action = r.action
           /\ kept.at <= r.at
<1>1. PICK kept \in Optimized(ForMode.rules) :
        /\ kept.type = r.type /\ kept.value = r.value /\ kept.action = r.action
        /\ kept.at <= r.at
  BY Places, OptimizedKeeps
<1>2. kept \in Compiled.rules
  BY <1>1, CompiledIs DEF Missing
<1>. QED  BY <1>1, <1>2

\* Rules of a type and a value match the same connections.
LEMMA SameMatches ==
  ASSUME NEW r, NEW s, NEW c, r.type = s.type, r.value = s.value
  PROVE  Matches(r, c) = Matches(s, c)
  BY DEF Matches

\* The rule the user wrote first about a connection is compiled.
LEMMA EarliestIsCompiled ==
  ASSUME RoutingInv, FewEntries, NEW c \in Connection,
         NEW i \in About(c), \A j \in About(c) : i <= j
  PROVE  OwnRule(i) \in Compiled.rules
<1>. DEFINE rules == ForMode.rules
<1>1. i \in DOMAIN ownRules
  BY DEF About
<1>2. /\ OwnRule(i).type \in {"domain", "domain_suffix"} /\ OwnRule(i).at \in Nat
      /\ OwnRule(i).at = 4 * (49 + Earlier + i) + 1 /\ OwnRule(i) \in rules
      /\ i \in Nat /\ Earlier \in Nat
  <2>1. OwnRule(i).at \in 201 .. 801 => OwnRule(i).at \in Nat
    OBVIOUS
  <2>. QED  BY <1>1, <2>1, OwnAre, ForModeIs, RoutingAssumption
<1>3. ASSUME NEW s \in rules, s.type \in {"domain", "domain_suffix"}
      PROVE  s \in Own
  BY <1>3, ForModePlaces, LocalAndCountry DEF OfSplitList, OfScenario
<1>4. ASSUME NEW s \in rules, s.type \in {"domain", "domain_suffix"}, Matches(s, c)
      PROVE  s.at >= OwnRule(i).at /\ (s.at = OwnRule(i).at => s = OwnRule(i))
  <2>1. PICK j \in DOMAIN ownRules : s = OwnRule(j)
    BY <1>3, <1>4, OwnAre
  <2>2. j \in About(c) /\ j \in Nat /\ s.at = 4 * (49 + Earlier + j) + 1
    BY <1>4, <2>1, OwnAre, OwnMatches
  <2>3. i <= j
    BY <2>2
  <2>4. s.at >= OwnRule(i).at /\ (s.at = OwnRule(i).at => i = j)
    BY <1>2, <2>2, <2>3
  <2>. QED  BY <2>1, <2>4
<1>5. Matches(OwnRule(i), c)
  BY <1>1, OwnMatches
<1>6. ~ \E other \in rules : /\ other.type = OwnRule(i).type /\ other.value = OwnRule(i).value
                             /\ other.action = OwnRule(i).action /\ other.at < OwnRule(i).at
  <2>1. SUFFICES ASSUME NEW other \in rules,
                        other.type = OwnRule(i).type, other.value = OwnRule(i).value,
                        other.at < OwnRule(i).at
                 PROVE  FALSE
    OBVIOUS
  <2>2. Matches(other, c)
    BY <1>5, <2>1, SameMatches
  <2>3. other.at >= OwnRule(i).at /\ other.at \in Nat
    BY <1>2, <1>4, <2>1, <2>2, Places
  <2>. QED  BY <1>2, <2>1, <2>3
<1>7. ASSUME OwnRule(i).type = "domain", NEW s \in rules, s.type = "domain_suffix",
             Under(OwnRule(i).value, s.value)
      PROVE  ~ (s.at <= OwnRule(i).at)
  <2>1. c.name = OwnRule(i).value
    BY <1>5, <1>7, MatchesIs
  <2>2. c.name # "elsewhere"
    BY <1>1, <2>1, OwnAre DEF OwnEntry, Sites
  <2>3. Matches(s, c)
    BY <1>7, <2>1, <2>2, MatchesIs
  <2>4. s.at >= OwnRule(i).at /\ s # OwnRule(i) /\ s.at \in Nat
    BY <1>4, <1>7, <2>3, Places
  <2>5. s.at # OwnRule(i).at
    BY <1>4, <1>7, <2>3, <2>4
  <2>. QED  BY <1>2, <2>4, <2>5
<1>8. OwnRule(i) \in Optimized(rules)
  <2>. HIDE DEF rules
  <2>. QED  BY <1>2, <1>6, <1>7 DEF Optimized
<1>9. ~ Missing(OwnRule(i))
  BY <1>2 DEF Missing
<1>. QED  BY <1>8, <1>9, CompiledIs

-----------------------------------------------------------------------------
(* Who decides *)

\* The layer that speaks first, of eight.
LEMMA FirstOfEight ==
  ASSUME NEW A, NEW B, NEW C, NEW D, NEW E, NEW F, NEW G, NEW H, NEW d,
         \/ d \in A
         \/ A = {} /\ d \in B
         \/ A = {} /\ B = {} /\ d \in C
         \/ A = {} /\ B = {} /\ C = {} /\ d \in D
         \/ A = {} /\ B = {} /\ C = {} /\ D = {} /\ d \in E
         \/ A = {} /\ B = {} /\ C = {} /\ D = {} /\ E = {} /\ d \in F
         \/ A = {} /\ B = {} /\ C = {} /\ D = {} /\ E = {} /\ F = {} /\ d \in G
         \/ A = {} /\ B = {} /\ C = {} /\ D = {} /\ E = {} /\ F = {} /\ G = {} /\ d \in H
  PROVE  LET layers == <<A, B, C, D, E, F, G, H>> IN \E i \in DOMAIN layers :
           (\A k \in 1 .. i - 1 : layers[k] = {}) /\ d \in layers[i]
<1>. DEFINE layers == <<A, B, C, D, E, F, G, H>>
<1>1. /\ DOMAIN layers = 1 .. 8
      /\ layers[1] = A /\ layers[2] = B /\ layers[3] = C /\ layers[4] = D
      /\ layers[5] = E /\ layers[6] = F /\ layers[7] = G /\ layers[8] = H
  OBVIOUS
<1>2. ASSUME NEW i \in 1 .. 8, \A k \in 1 .. i - 1 : layers[k] = {}, d \in layers[i]
      PROVE  \E n \in DOMAIN layers : (\A k \in 1 .. n - 1 : layers[k] = {}) /\ d \in layers[n]
  BY <1>1, <1>2
<1>. HIDE DEF layers
<1>. DEFINE Silent(i) == \A k \in 1 .. i - 1 : layers[k] = {}
<1>3. /\ Silent(1)
      /\ A = {} => Silent(2)
      /\ A = {} /\ B = {} => Silent(3)
      /\ A = {} /\ B = {} /\ C = {} => Silent(4)
  BY <1>1
<1>4. /\ A = {} /\ B = {} /\ C = {} /\ D = {} => Silent(5)
      /\ A = {} /\ B = {} /\ C = {} /\ D = {} /\ E = {} => Silent(6)
      /\ A = {} /\ B = {} /\ C = {} /\ D = {} /\ E = {} /\ F = {} => Silent(7)
  BY <1>1
<1>5. A = {} /\ B = {} /\ C = {} /\ D = {} /\ E = {} /\ F = {} /\ G = {} => Silent(8)
  BY <1>1
<1>6. \E i \in 1 .. 8 : Silent(i) /\ d \in layers[i]
  <2>. HIDE DEF Silent
  <2>. QED  BY <1>1, <1>3, <1>4, <1>5
<1>7. \E n \in DOMAIN layers : (\A k \in 1 .. n - 1 : layers[k] = {}) /\ d \in layers[n]
  BY <1>2, <1>6
<1>. QED  BY <1>7 DEF layers

LEMMA LayersAre ==
  ASSUME NEW c
  PROVE  Layers(c) =
    << When(platform = "android" /\ c.to = "server", "direct"),
       When(platform = "android" /\ rkn /\ c.onRkn, "proxy"),
       When(platform = "windows" /\ vpnRoute = "split" /\ c.listed, "proxy"),
       IF About(c) = {} THEN {} ELSE {ownRules[Min(About(c))].action},
       When(c.to = "private", "direct"),
       SaidByName(c), SaidByCountry(c), {ByDefault} >>
  BY DEF Layers, About, SaidByName, SaidByCountry

\* A layer that has a say has a compiled rule that matches, at its place or before.
LEMMA LayersSpeak ==
  ASSUME RoutingInv, FewEntries, NEW c \in Connection
  PROVE  /\ platform = "android" /\ c.to = "server" =>
              \E r \in Compiled.rules : Matches(r, c) /\ r.at = 0
         /\ platform = "android" /\ rkn /\ c.onRkn =>
              \E r \in Compiled.rules : Matches(r, c) /\ r.at = 1
         /\ platform = "windows" /\ vpnRoute = "split" /\ c.listed =>
              \E r \in Compiled.rules : Matches(r, c) /\ r.at <= 200
         /\ About(c) # {} =>
              /\ Min(About(c)) \in About(c)
              /\ \A j \in About(c) : Min(About(c)) <= j
              /\ OwnRule(Min(About(c))) \in Compiled.rules
              /\ Matches(OwnRule(Min(About(c))), c)
         /\ c.to = "private" =>
              \/ \E r \in Compiled.rules : Matches(r, c) /\ r.at <= 402
              \/ ForMode.default = "direct"
<1>1. platform = "android" /\ c.to = "server" =>
        \E r \in Compiled.rules : Matches(r, c) /\ r.at = 0
  <2>. HAVE platform = "android" /\ c.to = "server"
  <2>1. PICK r \in Extras : OfNodes(r)
    BY ExtrasAre
  <2>2. Matches(r, c) /\ r.at = 0 /\ r \in Compiled.rules
    BY <2>1, MatchesIs, CompiledIs DEF OfNodes
  <2>. QED  BY <2>2
<1>2. platform = "android" /\ rkn /\ c.onRkn =>
        \E r \in Compiled.rules : Matches(r, c) /\ r.at = 1
  <2>. HAVE platform = "android" /\ rkn /\ c.onRkn
  <2>1. PICK r \in Extras : OfList(r)
    BY ExtrasAre
  <2>2. Matches(r, c) /\ r.at = 1 /\ r \in Compiled.rules
    BY <2>1, MatchesIs, CompiledIs DEF OfList
  <2>. QED  BY <2>2
<1>3. platform = "windows" /\ vpnRoute = "split" /\ c.listed =>
        \E r \in Compiled.rules : Matches(r, c) /\ r.at <= 200
  <2>. HAVE platform = "windows" /\ vpnRoute = "split" /\ c.listed
  <2>1. PICK r \in ForMode.rules : OfSplitList(r)
    BY ForModeIs
  <2>2. r.type = "process_name" /\ r.at \in Nat /\ r.at <= 200
    BY <2>1 DEF OfSplitList
  <2>3. PICK kept \in Compiled.rules :
          kept.type = r.type /\ kept.value = r.value /\ kept.at <= r.at
    BY <2>2, CompiledKeeps DEF Missing
  <2>4. Matches(kept, c)
    BY <2>2, <2>3, MatchesIs
  <2>5. kept.at \in Nat
    BY Places
  <2>. QED  BY <2>2, <2>3, <2>4, <2>5
<1>4. About(c) # {} =>
        /\ Min(About(c)) \in About(c)
        /\ \A j \in About(c) : Min(About(c)) <= j
        /\ OwnRule(Min(About(c))) \in Compiled.rules
        /\ Matches(OwnRule(Min(About(c))), c)
  <2>. HAVE About(c) # {}
  <2>1. About(c) \subseteq DOMAIN ownRules
    BY DEF About
  <2>2. About(c) \subseteq Nat
    BY <2>1, OwnAre
  <2>3. Min(About(c)) \in About(c) /\ \A j \in About(c) : Min(About(c)) <= j
    BY <2>2, MinIs
  <2>4. OwnRule(Min(About(c))) \in Compiled.rules
    BY <2>3, EarliestIsCompiled
  <2>5. Matches(OwnRule(Min(About(c))), c)
    BY <2>1, <2>3, OwnMatches
  <2>. QED  BY <2>3, <2>4, <2>5
<1>5. c.to = "private" /\ ForMode.default # "direct" =>
        \E r \in Compiled.rules : Matches(r, c) /\ r.at <= 402
  <2>. HAVE c.to = "private" /\ ForMode.default # "direct"
  <2>1. PrivateDirect \in ForMode.rules
    BY ForModeIs
  <2>2. PICK kept \in Compiled.rules :
          kept.type = PrivateDirect.type /\ kept.value = PrivateDirect.value /\ kept.at <= 402
    BY <2>1, CompiledKeeps, LocalAndCountry DEF Missing
  <2>3. Matches(PrivateDirect, c)
    BY LocalAndCountryMatch
  <2>. QED  BY <2>2, <2>3, SameMatches
<1>6. c.to = "private" =>
        \/ \E r \in Compiled.rules : Matches(r, c) /\ r.at <= 402
        \/ ForMode.default = "direct"
  BY <1>5
<1>. QED  BY <1>1, <1>2, <1>3, <1>4, <1>6

\* So do the scenarios, by name and by country.
LEMMA ScenariosSpeak ==
  ASSUME RoutingInv, FewEntries, NEW c \in Connection
  PROVE  /\ \A said \in SaidByName(c) :
              \E r \in Compiled.rules : Matches(r, c) /\ r.at <= 10001
         /\ \A said \in SaidByCountry(c) :
              \E r \in Compiled.rules : Matches(r, c) /\ r.at <= 10002
<1>1. ASSUME NEW r, OfActive(r), ~ Missing(r), Matches(r, c)
      PROVE  /\ \E kept \in Compiled.rules : Matches(kept, c) /\ kept.at <= 10002
             /\ r # CountryDirect =>
                  \E kept \in Compiled.rules : Matches(kept, c) /\ kept.at <= 10001
  <2>1. PICK s \in Active : r \in RulesOf(s)
    BY <1>1 DEF OfActive
  <2>2. r \in ForMode.rules /\ s \in Scenarios
    BY <2>1, ForModeIs, ActiveAre
  <2>3. r = PrivateDirect \/ r = CountryDirect \/ OfScenario(r)
    BY <2>1, <2>2, ScenarioRules
  <2>4. r.type # "domain" /\ r.at \in Nat /\ r.at <= 10002 /\ (r # CountryDirect => r.at <= 10001)
    <3>1. CASE r = PrivateDirect
      BY <3>1, LocalAndCountry
    <3>2. CASE r = CountryDirect
      BY <3>2, LocalAndCountry
    <3>3. CASE OfScenario(r)
      BY <3>3 DEF OfScenario
    <3>. QED  BY <2>3, <3>1, <3>2, <3>3
  <2>5. PICK kept \in Compiled.rules :
          kept.type = r.type /\ kept.value = r.value /\ kept.at <= r.at
    BY <1>1, <2>2, <2>4, CompiledKeeps
  <2>6. Matches(kept, c) /\ kept.at \in Nat
    BY <1>1, <2>5, SameMatches, Places
  <2>7. kept.at <= 10002 /\ (r # CountryDirect => kept.at <= 10001)
    BY <2>4, <2>5, <2>6
  <2>. QED  BY <2>6, <2>7
<1>2. \A said \in SaidByName(c) :
        \E r \in Compiled.rules : Matches(r, c) /\ r.at <= 10001
  <2>. TAKE said \in SaidByName(c)
  <2>1. PICK r : OfActive(r) /\ r # CountryDirect /\ ~ Missing(r) /\ Matches(r, c)
    BY SaidIs
  <2>. QED  BY <1>1, <2>1
<1>3. \A said \in SaidByCountry(c) :
        \E r \in Compiled.rules : Matches(r, c) /\ r.at <= 10002
  <2>. TAKE said \in SaidByCountry(c)
  <2>1. PICK r : OfActive(r) /\ ~ Missing(r) /\ Matches(r, c)
    BY SaidIs
  <2>. QED  BY <1>1, <2>1
<1>. QED  BY <1>2, <1>3

LEMMA WhenIs ==
  ASSUME NEW action, NEW condition
  PROVE  /\ condition => When(condition, action) = {action}
         /\ ~ condition => When(condition, action) = {}
  BY DEF When

\* A connection goes where the first layer with a say sends it.
LEMMA GoesAsPromised ==
  ASSUME RoutingInv, FewEntries, NEW c \in Connection
  PROVE  LET layers == Layers(c) IN \E i \in DOMAIN layers :
           (\A k \in 1 .. i - 1 : layers[k] = {}) /\ Decision(Compiled, c) \in layers[i]
<1>. DEFINE d == Decision(Compiled, c)
            A == When(platform = "android" /\ c.to = "server", "direct")
            B == When(platform = "android" /\ rkn /\ c.onRkn, "proxy")
            C == When(platform = "windows" /\ vpnRoute = "split" /\ c.listed, "proxy")
            D == IF About(c) = {} THEN {} ELSE {ownRules[Min(About(c))].action}
            E == When(c.to = "private", "direct")
            F == SaidByName(c)
            G == SaidByCountry(c)
            H == {ByDefault}
<1>1. platform \in {"windows", "android"}
  BY DEF RoutingInv, RoutingTypeOK
<1>2. /\ A # {} => platform = "android" /\ c.to = "server"
      /\ platform = "android" /\ c.to = "server" => "direct" \in A
  BY WhenIs
<1>3. /\ B # {} => platform = "android" /\ rkn /\ c.onRkn
      /\ platform = "android" /\ rkn /\ c.onRkn => "proxy" \in B
  BY WhenIs
<1>4. /\ C # {} => platform = "windows" /\ vpnRoute = "split" /\ c.listed
      /\ platform = "windows" /\ vpnRoute = "split" /\ c.listed => "proxy" \in C
  BY WhenIs
<1>5. /\ D # {} => About(c) # {}
      /\ About(c) # {} => ownRules[Min(About(c))].action \in D
  OBVIOUS
<1>6. /\ E # {} => c.to = "private"
      /\ c.to = "private" => "direct" \in E
  BY WhenIs
\* An address has no name, and no list knows it.
<1>7. /\ About(c) # {} => c.to = "world"
      /\ c.in # {} => c.to = "world"
  <2>1. c.to # "world" => c.name = "elsewhere" /\ c.in = {}
    BY DEF Connection
  <2>2. c.name = "elsewhere" => About(c) = {}
    BY OwnAre DEF About, OwnEntry, Sites
  <2>. QED  BY <2>1, <2>2
<1>8. Layers(c) = <<A, B, C, D, E, F, G, H>>
  BY LayersAre
<1>9. \/ (/\ \A r \in Compiled.rules : ~ Matches(r, c)
          /\ d = ByDefault /\ d = ForMode.default)
      \/ \E r \in Compiled.rules :
              /\ Matches(r, c) /\ d = r.action
              /\ \A other \in Compiled.rules : Matches(other, c) => r.at <= other.at
  BY DecisionIs, Places, CompiledIs, ForModeIs
<1>. DEFINE Goal ==
         \/ d \in A
         \/ A = {} /\ d \in B
         \/ A = {} /\ B = {} /\ d \in C
         \/ A = {} /\ B = {} /\ C = {} /\ d \in D
         \/ A = {} /\ B = {} /\ C = {} /\ D = {} /\ d \in E
         \/ A = {} /\ B = {} /\ C = {} /\ D = {} /\ E = {} /\ d \in F
         \/ A = {} /\ B = {} /\ C = {} /\ D = {} /\ E = {} /\ F = {} /\ d \in G
         \/ A = {} /\ B = {} /\ C = {} /\ D = {} /\ E = {} /\ F = {} /\ G = {} /\ d \in H
<1>. HIDE DEF A, B, C, D, E, F, G, d
<1>10. ASSUME \A r \in Compiled.rules : ~ Matches(r, c), d = ByDefault, d = ForMode.default
       PROVE  Goal
  <2>1. A = {} /\ B = {} /\ C = {} /\ D = {}
    BY <1>2, <1>3, <1>4, <1>5, <1>10, LayersSpeak
  <2>2. E = {} \/ d \in E
    BY <1>6, <1>10, LayersSpeak
  <2>3. F = {} /\ G = {}
    BY <1>10, ScenariosSpeak DEF F, G
  <2>. QED  BY <1>10, <2>1, <2>2, <2>3
<1>11. ASSUME NEW r \in Compiled.rules, Matches(r, c), d = r.action,
              \A other \in Compiled.rules : Matches(other, c) => r.at <= other.at
       PROVE  Goal
  <2>. DEFINE Early(at) == \E s \in Compiled.rules : Matches(s, c) /\ s.at <= at
  <2>1. r.at \in Nat /\ \A s \in Compiled.rules : s.at \in Nat
    BY Places
  <2>2. ASSUME NEW at \in Nat, Early(at)  PROVE r.at <= at
    BY <1>11, <2>1, <2>2
  <2>. HIDE DEF Early
  <2>3. /\ A # {} => r.at <= 0
        /\ B # {} => r.at <= 1
        /\ C # {} => r.at <= 200
        /\ F # {} => r.at <= 10001
        /\ G # {} => r.at <= 10002
    <3>1. A # {} => Early(0)
      BY <1>2, LayersSpeak DEF Early
    <3>2. B # {} => Early(1)
      BY <1>3, LayersSpeak DEF Early
    <3>3. C # {} => Early(200)
      BY <1>4, LayersSpeak DEF Early
    <3>4. F # {} => Early(10001)
      BY ScenariosSpeak DEF Early, F
    <3>5. G # {} => Early(10002)
      BY ScenariosSpeak DEF Early, G
    <3>. QED  BY <2>2, <3>1, <3>2, <3>3, <3>4, <3>5
  <2>4. /\ A # {} => platform = "android"
        /\ B # {} => platform = "android"
        /\ C # {} => platform = "windows"
    BY <1>2, <1>3, <1>4
  <2>5. CASE OfNodes(r) /\ c.to = "server"
    BY <1>2, <1>11, <2>5 DEF OfNodes
  <2>6. CASE OfList(r) /\ c.onRkn
    <3>1. platform = "android" /\ rkn /\ r.action = "proxy" /\ r.at = 1
      BY <2>6 DEF OfList
    <3>2. A = {}
      BY <2>3, <3>1
    <3>. QED  BY <1>3, <1>11, <2>6, <3>1, <3>2
  <2>7. CASE OfSplitList(r) /\ c.listed
    <3>1. platform = "windows" /\ vpnRoute = "split" /\ r.action = "proxy"
      BY <2>7 DEF OfSplitList
    <3>2. A = {} /\ B = {}
      BY <2>4, <3>1
    <3>. QED  BY <1>4, <1>11, <2>7, <3>1, <3>2
  <2>8. ASSUME NEW i \in About(c), r = OwnRule(i)  PROVE Goal
    <3>. DEFINE m == Min(About(c))
    <3>1. i \in DOMAIN ownRules /\ m \in DOMAIN ownRules /\ m <= i
      BY <2>8, LayersSpeak DEF About
    <3>2. OwnRule(m) \in Compiled.rules /\ Matches(OwnRule(m), c)
      BY <2>8, LayersSpeak
    <3>. HIDE DEF m
    <3>3. /\ i \in Nat /\ m \in Nat /\ Earlier \in Nat
          /\ r.at = 4 * (49 + Earlier + i) + 1
          /\ OwnRule(m).at = 4 * (49 + Earlier + m) + 1
          /\ r.at \in 201 .. 801 /\ OwnRule(m).action = ownRules[m].action
      BY <2>8, <3>1, OwnAre, RoutingAssumption
    <3>4. r.at <= OwnRule(m).at
      BY <1>11, <3>2
    <3>5. i = m
      BY <3>1, <3>3, <3>4
    <3>6. d \in D
      BY <1>5, <1>11, <2>8, <3>3, <3>5 DEF m
    <3>7. A = {} /\ B = {} /\ C = {}
      BY <2>1, <2>3, <3>3
    <3>. QED  BY <3>6, <3>7
  <2>9. CASE r = PrivateDirect /\ c.to = "private"
    <3>1. r.at = 402 /\ r.action = "direct"
      BY <2>9, LocalAndCountry
    <3>2. A = {} /\ B = {} /\ C = {}
      BY <2>3, <3>1
    <3>3. D = {}
      BY <1>5, <1>7, <2>9
    <3>. QED  BY <1>6, <1>11, <2>9, <3>1, <3>2, <3>3
  <2>10. CASE OfScenario(r) /\ r.action \in SaidByName(c) /\ c.in # {}
    <3>1. 802 <= r.at
      BY <2>10 DEF OfScenario
    <3>2. A = {} /\ B = {} /\ C = {}
      BY <2>1, <2>3, <3>1
    <3>3. D = {}
      <4>1. About(c) # {} => /\ Min(About(c)) \in DOMAIN ownRules
                             /\ OwnRule(Min(About(c))) \in Compiled.rules
                             /\ Matches(OwnRule(Min(About(c))), c)
        BY LayersSpeak DEF About
      <4>2. About(c) # {} => OwnRule(Min(About(c))).at \in 201 .. 801
        BY <4>1, OwnAre
      <4>3. About(c) # {} => r.at <= OwnRule(Min(About(c))).at
        BY <1>11, <4>1
      <4>4. About(c) = {}
        BY <2>1, <3>1, <4>2, <4>3
      <4>. QED  BY <1>5, <4>4
    <3>4. E = {}
      BY <1>6, <1>7, <2>10
    <3>. QED  BY <1>11, <2>10, <3>2, <3>3, <3>4 DEF F
  <2>11. CASE r = CountryDirect /\ r.action \in SaidByCountry(c)
    <3>1. r.at = 10002 /\ r.action = "direct"
      BY <2>11, LocalAndCountry
    <3>2. A = {} /\ B = {} /\ C = {} /\ F = {}
      BY <2>3, <3>1
    <3>3. D = {}
      <4>1. About(c) # {} => /\ Min(About(c)) \in DOMAIN ownRules
                             /\ OwnRule(Min(About(c))) \in Compiled.rules
                             /\ Matches(OwnRule(Min(About(c))), c)
        BY LayersSpeak DEF About
      <4>2. About(c) # {} => OwnRule(Min(About(c))).at \in 201 .. 801
        BY <4>1, OwnAre
      <4>3. About(c) # {} => r.at <= OwnRule(Min(About(c))).at
        BY <1>11, <4>1
      <4>4. About(c) = {}
        BY <2>1, <3>1, <4>2, <4>3
      <4>. QED  BY <1>5, <4>4
    <3>4. E = {} \/ d \in E
      BY <1>6, <1>11, <3>1
    <3>. QED  BY <1>11, <2>11, <3>2, <3>3, <3>4 DEF G
  <2>. QED
    BY <1>11, <2>5, <2>6, <2>7, <2>8, <2>9, <2>10, <2>11, CompiledRules
<1>12. Goal
  <2>. HIDE DEF Goal
  <2>. QED  BY <1>9, <1>10, <1>11
<1>13. LET layers == <<A, B, C, D, E, F, G, H>> IN \E i \in DOMAIN layers :
           (\A k \in 1 .. i - 1 : layers[k] = {}) /\ d \in layers[i]
  <2>. HIDE DEF H
  <2>. QED  BY <1>12, FirstOfEight
<1>. QED  BY <1>8, <1>13 DEF d

LEMMA RoutingInvInit ==
  ASSUME RoutingInit  PROVE RoutingInv
<1>1. RoutingTypeOK
  <2>1. platform \in {"windows", "android"} /\ vpnRoute \in Routes
    BY DEF RoutingInit, Routes
  <2>2. ownRules \in Seq(OwnEntry) /\ enabled \in SUBSET Scenarios /\ unknownSites \in SUBSET Lists
    BY DEF RoutingInit
  <2>3. rkn \in BOOLEAN /\ loaded \in BOOLEAN
    BY DEF RoutingInit
  <2>. QED  BY <2>1, <2>2, <2>3 DEF RoutingTypeOK
<1>2. OneBase
  BY DEF RoutingInit, OneBase
<1>3. Len(ownRules) <= MaxRules /\ (rkn => platform = "android")
  BY RoutingAssumption DEF RoutingInit
<1>. QED  BY <1>1, <1>2, <1>3 DEF RoutingInv

\* A rule taken out leaves rules, and one less.
LEMMA RuleTakenOut ==
  ASSUME NEW S, NEW s \in Seq(S), NEW i \in DOMAIN s
  PROVE  RemoveAt(s, i) \in Seq(S) /\ Len(RemoveAt(s, i)) = Len(s) - 1
<1>1. i \in 1 .. Len(s) /\ Len(s) \in Nat
  OBVIOUS
<1>2. SubSeq(s, 1, i - 1) \in Seq(S) /\ Len(SubSeq(s, 1, i - 1)) = i - 1
  BY <1>1, SubSeqProperties
<1>3. SubSeq(s, i + 1, Len(s)) \in Seq(S) /\ Len(SubSeq(s, i + 1, Len(s))) = Len(s) - i
  BY <1>1, SubSeqProperties
<1>4. RemoveAt(s, i) = SubSeq(s, 1, i - 1) \o SubSeq(s, i + 1, Len(s))
  BY DEF RemoveAt
<1>5. /\ RemoveAt(s, i) \in Seq(S)
      /\ Len(RemoveAt(s, i)) = Len(SubSeq(s, 1, i - 1)) + Len(SubSeq(s, i + 1, Len(s)))
  <2>. DEFINE before == SubSeq(s, 1, i - 1)
              after == SubSeq(s, i + 1, Len(s))
  <2>. HIDE DEF before, after
  <2>1. before \in Seq(S) /\ after \in Seq(S) /\ RemoveAt(s, i) = before \o after
    BY <1>2, <1>3, <1>4 DEF before, after
  <2>2. RemoveAt(s, i) \in Seq(S) /\ Len(RemoveAt(s, i)) = Len(before) + Len(after)
    BY <2>1, ConcatProperties
  <2>. QED  BY <2>2 DEF before, after
<1>6. Len(RemoveAt(s, i)) = (i - 1) + (Len(s) - i)
  BY <1>2, <1>3, <1>5
<1>7. i \in Int /\ Len(s) \in Int
  BY <1>1
<1>8. (i - 1) + (Len(s) - i) = Len(s) - 1
  BY <1>7
<1>. QED  BY <1>5, <1>6, <1>8

LEMMA RoutingInvStep ==
  ASSUME RoutingInv, [RoutingNext]_routingVars
  PROVE  RoutingInv'
<1>. USE DEF RoutingInv, RoutingTypeOK, OneBase
<1>1. ASSUME NEW m \in Routes, ModeChosen(m)  PROVE RoutingInv'
  BY <1>1 DEF ModeChosen
<1>2. ASSUME NEW domain \in Sites, NEW exact \in BOOLEAN, NEW action \in Actions,
             RuleAdded(domain, exact, action)
      PROVE  RoutingInv'
  <2>1. [domain |-> domain, exact |-> exact, action |-> action] \in OwnEntry
    BY DEF OwnEntry
  <2>2. ownRules' \in Seq(OwnEntry) /\ Len(ownRules') <= MaxRules
    BY <1>2, <2>1, RoutingAssumption DEF RuleAdded
  <2>3. loaded' \in BOOLEAN /\ UNCHANGED <<platform, vpnRoute, enabled, rkn, unknownSites>>
    BY <1>2 DEF RuleAdded
  <2>. QED  BY <2>2, <2>3
<1>3. ASSUME NEW i \in DOMAIN ownRules, RuleRemoved(i)  PROVE RoutingInv'
  <2>1. ownRules' \in Seq(OwnEntry) /\ Len(ownRules') <= MaxRules
    <3>1. ownRules \in Seq(OwnEntry) /\ ownRules' = RemoveAt(ownRules, i)
      BY <1>3 DEF RuleRemoved
    <3>2. ownRules' \in Seq(OwnEntry) /\ Len(ownRules') = Len(ownRules) - 1
      BY <3>1, RuleTakenOut
    <3>. QED  BY <3>2, RoutingAssumption
  <2>2. loaded' \in BOOLEAN /\ UNCHANGED <<platform, vpnRoute, enabled, rkn, unknownSites>>
    BY <1>3 DEF RuleRemoved
  <2>. QED  BY <2>1, <2>2
<1>4. ASSUME NEW s \in Selectable, ScenarioToggled(s)  PROVE RoutingInv'
  <2>1. /\ loaded' \in BOOLEAN /\ UNCHANGED <<platform, vpnRoute, ownRules, rkn, unknownSites>>
        /\ enabled' = IF s \in enabled THEN enabled \ {s}
                      ELSE {s} \union (IF s \in DOMAIN DefaultOf
                                       THEN enabled \ DOMAIN DefaultOf ELSE enabled)
    BY <1>4 DEF ScenarioToggled
  <2>2. enabled' \in SUBSET Scenarios
    BY <2>1, RoutingAssumption
  <2>3. OneBase'
    BY <2>1
  <2>. QED  BY <2>1, <2>2, <2>3
<1>5. CASE ListSwitched
  BY <1>5 DEF ListSwitched
<1>6. ASSUME NEW lists \in {{}, {"russian"}, {"ads"}}, GeoInstalled(lists)
      PROVE  RoutingInv'
  BY <1>6 DEF GeoInstalled, Lists
<1>7. CASE ConfigLoaded
  BY <1>7 DEF ConfigLoaded
<1>8. CASE UNCHANGED routingVars
  BY <1>8 DEF routingVars
<1>. HIDE DEF RoutingInv
<1>. QED
  BY <1>1, <1>2, <1>3, <1>4, <1>5, <1>6, <1>7, <1>8 DEF RoutingNext

\* For up to 151 rules of the user and 41 applications, a connection goes where the pages say, in every
\* mode, with every choice of scenarios, on both platforms, whatever categories the
\* installed geosite.dat lacks (composeRoutingPolicy.ts:32-213, PolicyOptimizer.ts,
\* ConfigGenerator.ts:386-509).
THEOREM RoutingAsPromised ==
  ASSUME Earlier + MaxRules <= 151, EarlierApps <= 40
  PROVE  RoutingSpec => []RoutesAsPromised
<1>. FewEntries
  BY DEF FewEntries
<1>1. RoutingInit => RoutingInv
  BY RoutingInvInit
<1>2. RoutingInv /\ [RoutingNext]_routingVars => RoutingInv'
  BY RoutingInvStep
<1>3. RoutingInv => RoutesAsPromised
  BY GoesAsPromised, RoutingAssumption DEF RoutesAsPromised
<1>. QED  BY <1>1, <1>2, <1>3, PTL DEF RoutingSpec

=============================================================================
