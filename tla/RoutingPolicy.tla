---------------------------- MODULE RoutingPolicy ----------------------------
(***************************************************************************)
(* Where a connection goes. The mode, the rules of the user, the scenarios *)
(* switched on and the lists of the platform are compiled into one         *)
(* sequence of rules, of which the first that matches decides. A bundled   *)
(* list of domains or addresses, or a category of geosite.dat, stands for  *)
(* all its members; rules are told apart by their place: a priority, and   *)
(* among equals the bucket the normalizer puts first.                      *)
(***************************************************************************)
EXTENDS Naturals, Sequences, FiniteSets, FiniteSetsExt, SequencesExt

CONSTANTS
  Selectable,   \* scenarios the user switches on and off
  Connections,
  MaxRules,     \* bound: rules of the user among those modelled
  Earlier,      \* rules of the user for other sites, stored before these
  EarlierApps   \* applications of the split list before that of the connections

\* A site, a host below it; no rule of the user is about the other names.
Sites == {"site", "sub"}
Under(name, site) == name = site \/ (name = "sub" /\ site = "site")

Lists == {"ads", "services", "games", "russian", "curated",
          "messengers", "ai", "blocked"}

\* A connection: of an application on the split list or not, to a server of the
\* subscription or to an address of the local network, or to a name in some lists,
\* with an address of the country or not.
Connection ==
  {c \in [name : Sites \union {"elsewhere"}, in : SUBSET Lists, listed : BOOLEAN,
          onRkn : BOOLEAN, fromRussia : BOOLEAN, to : {"world", "server", "private"}] :
     c.to # "world" => c.name = "elsewhere" /\ c.in = {} /\ ~c.fromRussia /\ ~c.onRkn}

\* The registry.
Scenarios == {"roscomvpn-default", "smart-russia-bypass", "smart-global", "ad-block",
              "gaming-direct", "ai-services", "streaming", "runetfreedom-bypass"}

ASSUME RoutingAssumption ==
  /\ Connections \subseteq Connection /\ Selectable \subseteq Scenarios
  /\ MaxRules \in Nat /\ Earlier \in Nat /\ EarlierApps \in Nat

VARIABLES
  platform,       \* "windows" or "android", for good
  vpnRoute,       \* vpnMode
  ownRules,       \* customRoutingRules
  enabled,        \* enabledScenarios
  rkn,            \* a rule list of Android is enabled
  unknownSites,   \* bundled lists whose category the installed geosite.dat lacks
  loaded          \* the kernel runs what all these compile to, not something older

routingVars == <<platform, vpnRoute, ownRules, enabled, rkn, unknownSites, loaded>>

Routes == {"full", "split", "bypass", "blocked", "custom"}

\* Of a rule of the user; a third, reject, adds no case.
Actions == {"proxy", "direct"}

-----------------------------------------------------------------------------
(* The rules *)

Rule(type, value, action, priority, bucket) ==
  [type |-> type, value |-> value, action |-> action, at |-> 4 * priority + bucket]

\* Buckets of the normalizer.
OfProcesses(app, priority) == Rule("process_name", app, "proxy", priority, 0)
Bundled(list, action, priority) == Rule("bundled", list, action, priority, 2)
Category(list, action, priority) == Rule("geosite", list, action, priority, 2)

\* Private networks, and addresses of the country.
PrivateDirect == Bundled("private", "direct", 100)
CountryDirect == Bundled("country", "direct", 2500)

\* Sites of banks, the state and the media, on servers abroad; chats and calls.
CuratedDirect == Bundled("curated", "direct", 2400)
Messengers == Bundled("messengers", "proxy", 1300)

RoscomVPNDefault ==
  {PrivateDirect, Category("ads", "reject", 200), Category("services", "proxy", 300),
   Category("games", "direct", 400), Category("russian", "direct", 409),
   Messengers, CuratedDirect, CountryDirect}

SmartRussiaBypass ==
  {PrivateDirect, Bundled("russian", "direct", 500), Messengers,
   Bundled("blocked", "proxy", 1500), CuratedDirect, CountryDirect}

SmartGlobal == {PrivateDirect, Bundled("russian", "direct", 600)}

AdBlock == {Bundled("ads", "reject", 700)}

Gaming == {Bundled("games", "direct", 800)}

AIServices == {Category("ai", "proxy", 1100), Bundled("ai", "proxy", 1101)}

Streaming == {Bundled("services", "proxy", 1200)}

RunetFreedomBypass ==
  {PrivateDirect, Category("blocked", "proxy", 1300), Category("services", "proxy", 1303),
   Category("ads", "proxy", 1305), CountryDirect}

RulesOf(scenario) ==
  CASE scenario = "roscomvpn-default" -> RoscomVPNDefault
    [] scenario = "smart-russia-bypass" -> SmartRussiaBypass
    [] scenario = "smart-global" -> SmartGlobal
    [] scenario = "ad-block" -> AdBlock
    [] scenario = "gaming-direct" -> Gaming
    [] scenario = "ai-services" -> AIServices
    [] scenario = "streaming" -> Streaming
    [] scenario = "runetfreedom-bypass" -> RunetFreedomBypass

\* The default action of a base scenario; the others have none.
DefaultOf == [scenario \in {"roscomvpn-default", "smart-russia-bypass", "smart-global"} |->
                IF scenario = "smart-russia-bypass" THEN "direct" ELSE "proxy"]

\* Mutant of BasePriority: the band the page shows for them.
BasePriority_OfThePage == 1000

\* USER_RULE_BASE_PRIORITY.
BasePriority == 50

Own ==
  {Rule(IF ownRules[i].exact THEN "domain" ELSE "domain_suffix", ownRules[i].domain,
        ownRules[i].action, BasePriority + Earlier + i - 1, 1) : i \in DOMAIN ownRules}

\* composeScenarios(), and the bucket of the user beside it.
Composed(scenarios) ==
  LET kept == IF "smart-global" \in scenarios THEN scenarios \ {"smart-russia-bypass"}
              ELSE scenarios
  IN [rules |-> Own \union UNION {RulesOf(s) : s \in kept},
      default |-> IF \E s \in kept \intersect DOMAIN DefaultOf : DefaultOf[s] = "proxy"
                  THEN "proxy" ELSE "direct"]

\* minimalPolicy().
Minimal(default, processes) ==
  [rules |-> processes \union Own \union {PrivateDirect}, default |-> default]

\* buildLegacyRules().
Legacy ==
  [rules |-> {PrivateDirect} \union
             (IF vpnRoute = "split" THEN {OfProcesses("listed", 0)} ELSE {}),
   default |-> IF vpnRoute \in {"split", "blocked"} THEN "direct" ELSE "proxy"]

\* resolveRoutingPolicyForMode(), and the legacy rules where it has no policy. The
\* applications of the split list have a priority each, from 10 on.
ForMode ==
  CASE vpnRoute = "full" -> IF ownRules = <<>> THEN Legacy ELSE Minimal("proxy", {})
    [] vpnRoute = "split" ->
         IF platform = "android" THEN Minimal("proxy", {})
         ELSE IF ownRules = <<>> THEN Legacy
         ELSE Minimal("direct", {OfProcesses("listed", 10 + EarlierApps)})
    [] vpnRoute = "bypass" -> Composed({"roscomvpn-default"})
    [] vpnRoute = "blocked" -> Composed({"smart-russia-bypass", "ai-services"})
    [] vpnRoute = "custom" ->
         IF enabled # {} THEN Composed(enabled)
         ELSE IF ownRules = <<>> THEN Legacy ELSE Minimal("proxy", {})

\* PolicyOptimizer: of equal rules the first stays; a rule for one name goes when
\* a rule for the names below says the same no later. Only the last of the latter
\* rules of a value is looked at.
Optimized(rules) ==
  LET first == {r \in rules : ~\E other \in rules :
                  /\ other.type = r.type /\ other.value = r.value
                  /\ other.action = r.action /\ other.at < r.at}
      suffixes == {s \in first : /\ s.type = "domain_suffix"
                                 /\ ~\E other \in first : /\ other.type = "domain_suffix"
                                                          /\ other.value = s.value
                                                          /\ other.at > s.at}
  IN {r \in first : r.type = "domain" => ~\E s \in suffixes :
        Under(r.value, s.value) /\ s.action = r.action /\ s.at <= r.at}

\* mergeRoutingExtras(): the servers and the lists of Android come first.
Extras ==
  IF platform = "android"
  THEN {Rule("node", "node", "direct", 0, 0)} \union
       (IF rkn THEN {Rule("rule_set", "rkn", "proxy", 0, 1)} ELSE {})
  ELSE {}

\* generateMihomoConfig(): without the categories the kernel would refuse.
Compiled ==
  [rules |-> Extras \union
             {r \in Optimized(ForMode.rules) : ~(r.type = "geosite" /\ r.value \in unknownSites)},
   default |-> ForMode.default]

-----------------------------------------------------------------------------
(* The kernel *)

Matches(r, c) ==
  CASE r.type = "domain" -> c.name = r.value
    [] r.type = "domain_suffix" -> c.name # "elsewhere" /\ Under(c.name, r.value)
    [] r.type = "process_name" -> c.listed
    [] r.type = "node" -> c.to = "server"
    [] r.type = "rule_set" -> c.onRkn
    [] r.type = "bundled" /\ r.value = "private" -> c.to = "private"
    [] r.type = "bundled" /\ r.value = "country" -> c.fromRussia
    [] OTHER -> r.value \in c.in

Decision(config, c) ==
  LET matching == {r \in config.rules : Matches(r, c)} IN
  IF matching = {} THEN config.default
  ELSE (CHOOSE r \in matching : \A other \in matching : r.at <= other.at).action

-----------------------------------------------------------------------------
(* The pages *)

RoutingInit ==
  /\ platform \in {"windows", "android"}
  /\ vpnRoute = "bypass" /\ ownRules = <<>> /\ enabled = {} /\ rkn = FALSE
  /\ unknownSites = {} /\ loaded = FALSE

ModeChosen(m) ==
  /\ vpnRoute' = m
  /\ loaded' = FALSE
  /\ UNCHANGED <<platform, ownRules, enabled, rkn, unknownSites>>

\* handleAdd(): one rule for a domain and a way to match.
RuleAdded(domain, exact, action) ==
  /\ Len(ownRules) < MaxRules
  /\ ~\E i \in DOMAIN ownRules : ownRules[i].domain = domain /\ ownRules[i].exact = exact
  /\ ownRules' = Append(ownRules, [domain |-> domain, exact |-> exact, action |-> action])
  /\ loaded' = FALSE
  /\ UNCHANGED <<platform, vpnRoute, enabled, rkn, unknownSites>>

RuleRemoved(i) ==
  /\ ownRules' = RemoveAt(ownRules, i)
  /\ loaded' = FALSE
  /\ UNCHANGED <<platform, vpnRoute, enabled, rkn, unknownSites>>

\* handleToggle(): of the base scenarios one at a time. The page offers them in
\* the custom mode.
ScenarioToggled(s) ==
  /\ vpnRoute = "custom"
  /\ enabled' = IF s \in enabled THEN enabled \ {s}
                ELSE {s} \union (IF s \in DOMAIN DefaultOf
                                 THEN enabled \ DOMAIN DefaultOf ELSE enabled)
  /\ loaded' = FALSE
  /\ UNCHANGED <<platform, vpnRoute, ownRules, rkn, unknownSites>>

ListSwitched ==
  /\ platform = "android"
  /\ rkn' = ~rkn
  /\ loaded' = FALSE
  /\ UNCHANGED <<platform, vpnRoute, ownRules, enabled, unknownSites>>

\* Another geosite.dat is installed, which may lack the categories of one list.
GeoInstalled(lists) ==
  /\ unknownSites' = lists
  /\ loaded' = FALSE
  /\ UNCHANGED <<platform, vpnRoute, ownRules, enabled, rkn>>

\* A connection, a reload or a reconnection gives it to the kernel.
ConfigLoaded ==
  /\ ~loaded /\ loaded' = TRUE
  /\ UNCHANGED <<platform, vpnRoute, ownRules, enabled, rkn, unknownSites>>

RoutingNext ==
  \/ \E m \in Routes : ModeChosen(m)
  \/ \E d \in Sites, exact \in BOOLEAN, a \in Actions : RuleAdded(d, exact, a)
  \/ \E i \in DOMAIN ownRules : RuleRemoved(i)
  \/ \E s \in Selectable : ScenarioToggled(s)
  \/ ListSwitched
  \/ \E lists \in {{}, {"russian"}, {"ads"}} : GeoInstalled(lists)
  \/ ConfigLoaded

RoutingSpec == RoutingInit /\ [][RoutingNext]_routingVars

-----------------------------------------------------------------------------
(* What the user is told *)

\* The scenarios that have a say.
Active ==
  CASE vpnRoute = "bypass" -> {"roscomvpn-default"}
    [] vpnRoute = "blocked" -> {"smart-russia-bypass", "ai-services"}
    [] vpnRoute = "custom" -> enabled
    [] OTHER -> {}

\* What they say of the names and addresses a connection is to.
Said(c, byName) ==
  {r.action : r \in {rule \in UNION {RulesOf(s) : s \in Active} :
                       /\ (rule # CountryDirect) = byName
                       /\ ~(rule.type = "geosite" /\ rule.value \in unknownSites)
                       /\ Matches(rule, c)}}

\* Where the mode sends what nobody has a rule for.
ByDefault ==
  CASE vpnRoute = "split" -> IF platform = "android" THEN "proxy" ELSE "direct"
    [] vpnRoute = "blocked" -> "direct"
    [] vpnRoute = "custom" ->
         IF enabled = {} \/ enabled \intersect {"roscomvpn-default", "smart-global"} # {}
         THEN "proxy" ELSE "direct"
    [] OTHER -> "proxy"

When(condition, action) == IF condition THEN {action} ELSE {}

\* Who decides, the first one first.
Layers(c) ==
  LET about == {i \in DOMAIN ownRules : \/ c.name = ownRules[i].domain
                                        \/ /\ ~ownRules[i].exact /\ c.name \in Sites
                                           /\ Under(c.name, ownRules[i].domain)}
  IN << When(platform = "android" /\ c.to = "server", "direct"),
        When(platform = "android" /\ rkn /\ c.onRkn, "proxy"),
        When(platform = "windows" /\ vpnRoute = "split" /\ c.listed, "proxy"),
        IF about = {} THEN {} ELSE {ownRules[Min(about)].action},
        When(c.to = "private", "direct"),
        Said(c, TRUE), Said(c, FALSE), {ByDefault} >>

\* Once the kernel runs it, a connection goes where the pages say: a server of the
\* subscription and a list of Android first, an application of the split list, then
\* the earliest rule of the user in every mode and over every scenario, the local
\* network directly, a name by one of the scenarios that know it, and not by its
\* country if one does, anything else as the mode sends it; no optimization, no
\* filter of categories and no fallback to the legacy rules changes that
\* (composeRoutingPolicy.ts:33-36, 163-213, ConfigGenerator.ts:399-439, 465-509).
\* It is so for 41 applications and 151 rules: the 42nd application has the priority
\* after that of the first rule, the 152nd rule shares one with a scenario.
RoutesAsPromised ==
  loaded => LET config == Compiled IN \A c \in Connections :
    LET layers == Layers(c)
        decision == Decision(config, c)
    IN \E i \in DOMAIN layers :
         (\A k \in 1 .. i - 1 : layers[k] = {}) /\ decision \in layers[i]

\* Not of this code: the local network is never tunnelled. "Private IP ranges -
\* always direct regardless of mode" (ConfigGenerator.ts:386): an application of the
\* split list is tunnelled there too.
LocalStaysLocal ==
  loaded => LET config == Compiled IN
  \A c \in Connections : c.to = "private" => Decision(config, c) = "direct"

\* Not of this code: what the ad block knows is blocked, unless the user said
\* otherwise. "Rules execute before bypass thanks to lower priority" (AdBlock.ts:5):
\* after the Russian sites of a bypass, mc.yandex.ru of both among them.
AdsAreBlocked ==
  loaded => LET config == Compiled IN
  \A c \in Connections :
    "ad-block" \in Active /\ "ads" \in c.in /\ ~(rkn /\ c.onRkn) /\ c.name = "elsewhere" =>
      Decision(config, c) = "reject"

=============================================================================
