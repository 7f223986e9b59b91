---------------------------- MODULE NodeBalancer ----------------------------
(***************************************************************************)
(* The balancer of the Windows application: rounds of probes, at its start, *)
(* at every tick and when asked, each recorded as a whole when its slowest  *)
(* probe has answered; after a round the best node is told to the pages.    *)
(* Of a node's samples the last decides whether it can be chosen; which of  *)
(* the available ones scores best is left open.                             *)
(***************************************************************************)
EXTENDS Naturals, FiniteSets

CONSTANTS
  Nodes,
  MaxRounds,   \* bound: rounds begun
  NoNode

ASSUME BalancerAssumption == NoNode \notin Nodes /\ MaxRounds \in Nat

VARIABLES
  subscribed,  \* the nodes of the subscriptions
  proxyNames,  \* of the service, once asked for
  balancerOn,  \* enabled
  savedOn,     \* settings.balancerEnabled
  enabling,    \* calls of setEnabled(true) that wait for the names
  asking,      \* calls of probeAll() that wait for them
  probing,     \* the nodes the timer probes, none without a timer
  rounds,      \* rounds under way: their number, and who answers
  begun,       \* number of the last round
  sample,      \* last sample of a node, and its round
  best,        \* currentBest
  leaf         \* the node the pages show as the active one

balancerVars == <<subscribed, proxyNames, balancerOn, savedOn, enabling, asking, probing,
                  rounds, begun, sample, best, leaf>>
callVars == <<subscribed, proxyNames, balancerOn, savedOn, enabling, asking>>
probeVars == <<rounds, begun, sample, best, leaf>>

BalancerInit ==
  /\ subscribed = Nodes /\ proxyNames = {}
  /\ balancerOn = FALSE /\ savedOn \in BOOLEAN
  /\ enabling = 0 /\ asking = 0 /\ probing = {} /\ rounds = {} /\ begun = 0
  /\ sample = [n \in Nodes |-> [ok |-> FALSE, of |-> 0]]
  /\ best = NoNode /\ leaf = NoNode

\* runProbeRound(): the probes are sent; none without names.
RoundBegins(names) ==
  IF names = {} THEN UNCHANGED probeVars
  ELSE /\ begun < MaxRounds
       /\ begun' = begun + 1
       /\ \E ok \in SUBSET names : rounds' = rounds \union {[of |-> begun', names |-> names, ok |-> ok]}
       /\ UNCHANGED <<sample, best, leaf>>

\* Mutant of Startable: disabled while the names were asked for.
Startable_Whatever == TRUE

\* Whether start() starts.
Startable == balancerOn'

\* start(): the timer of before is replaced.
BalancerStarts(names) ==
  IF Startable THEN probing' = names /\ RoundBegins(names)
  ELSE probing' = {} /\ UNCHANGED probeVars

\* setEnabled(true) and the setting: the names are waited for the first time.
BalancerEnabled ==
  /\ balancerOn' = TRUE
  /\ IF proxyNames # {}
     THEN savedOn' = TRUE /\ BalancerStarts(proxyNames) /\ UNCHANGED enabling
     ELSE enabling < 2 /\ enabling' = enabling + 1 /\ UNCHANGED <<savedOn, probing, probeVars>>
  /\ UNCHANGED <<subscribed, proxyNames, asking>>

BalancerDisabled ==
  /\ balancerOn' = FALSE /\ savedOn' = FALSE /\ probing' = {}
  /\ UNCHANGED <<subscribed, proxyNames, enabling, asking, probeVars>>

\* probeAll(): another round, beside those under way.
ProbesAsked ==
  /\ IF proxyNames # {} THEN RoundBegins(proxyNames) /\ UNCHANGED asking
     ELSE asking = 0 /\ asking' = 1 /\ UNCHANGED probeVars
  /\ UNCHANGED <<subscribed, proxyNames, balancerOn, savedOn, enabling, probing>>

\* proxyNamesProvider answers, or throws and is logged.
NamesCome ==
  \E names \in {proxyNames} \union (IF subscribed # {} THEN {subscribed} ELSE {}) :
    /\ proxyNames' = names
    /\ \/ /\ enabling > 0 /\ enabling' = enabling - 1
          /\ savedOn' = TRUE
          /\ UNCHANGED <<balancerOn, asking>>
          /\ BalancerStarts(names)
       \/ /\ asking > 0 /\ asking' = 0
          /\ RoundBegins(names)
          /\ UNCHANGED <<balancerOn, savedOn, enabling, probing>>
    /\ UNCHANGED subscribed

ProbesTick == probing # {} /\ RoundBegins(probing) /\ UNCHANGED <<callVars, probing>>

\* Mutant of Available: any success among the samples counts.
Available_Ever(names, samples) == {n \in names : samples[n].ok \/ sample[n].ok}

\* The nodes that can be chosen: the latest sample decides.
Available(names, samples) == {n \in names : samples[n].ok}

\* The slowest probe of a round answers: all are recorded, and the best is told.
RoundEnds(r) ==
  /\ rounds' = rounds \ {r}
  /\ sample' = [n \in Nodes |-> IF n \in r.names THEN [ok |-> n \in r.ok, of |-> r.of] ELSE sample[n]]
  /\ LET available == Available(r.names, sample') IN
     IF balancerOn /\ available # {}
     THEN \E n \in available : best' = n /\ leaf' = IF n = best THEN leaf ELSE n
     ELSE UNCHANGED <<best, leaf>>
  /\ UNCHANGED <<callVars, probing, begun>>

NodesChange ==
  /\ \E nodes \in SUBSET Nodes : subscribed' = nodes
  /\ UNCHANGED <<proxyNames, balancerOn, savedOn, enabling, asking, probing, probeVars>>

BalancerNext ==
  \/ BalancerEnabled \/ BalancerDisabled \/ ProbesAsked \/ NamesCome
  \/ ProbesTick
  \/ \E r \in rounds : RoundEnds(r)
  \/ NodesChange

BalancerSpec == BalancerInit /\ [][BalancerNext]_balancerVars

\* The balancer is quiet once it is off, although it may be disabled while an
\* enabling waits for the names and rounds are under way: no timer probes, and
\* no node is chosen. While it is on, a node is chosen only if it answered in
\* the round that ends: "the LATEST sample decides" (NodeBalancer.ts:45-60,
\* 101-103, 139-142, NodeBalancerService.ts:61-71).
BalancesOnlyWhenOn ==
  [][/\ probing' # {} => balancerOn'
     /\ best' # best => balancerOn /\ sample'[best'].ok]_balancerVars

\* Not of this code: a failure is not undone by an older success. "Filtering
\* nulls first would let an old success outlive a fresh failure (stale-ping
\* resurrection)" (NodeBalancer.ts:139): a slow round that began before is
\* recorded after.
SamplesMoveOn == [][\A n \in Nodes : sample'[n].of >= sample[n].of]_balancerVars

\* Not of this code: the setting is what the balancer does. A setEnabled(true) that
\* waited for the names saves TRUE after a disable that came meanwhile, and
\* nothing enables the balancer at the start of the application.
SavedIsDone == enabling = 0 => savedOn = balancerOn

\* Not of this code: "a fresh node list is picked up on every enable"
\* (bootstrap.ts:206): the names are asked for once.
FreshNames ==
  [][probing' # probing /\ probing' # {} => probing' = subscribed]_balancerVars

=============================================================================
