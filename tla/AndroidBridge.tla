---------------------------- MODULE AndroidBridge ----------------------------
(***************************************************************************)
(* The Android application between its pages and the VPN service: the      *)
(* facade of createCore.ts over bridge.ts, and what SlaveVpnPlugin.kt      *)
(* makes of a call. An operation awaits the plugin, the settings and the   *)
(* subscriptions, and others come in between. The service is taken at the  *)
(* level of the commands sent to it, in order; its coroutines are          *)
(* SlaveVpnService's matter. Of a configuration only the mode counts.      *)
(***************************************************************************)
EXTENDS Naturals, Sequences

CONSTANTS
  Modes, DefaultMode, \* VPNMode
  Ops,                \* bound: operations in flight
  MaxIntents,         \* bound: commands on their way to the service
  Happens,            \* what may happen beside the user's operations
  NoMode, NoOp

BridgeOp ==
  [by : {"user", "mode", "setting", "other"},
   at : {"launch", "settings", "saved", "status", "restore", "state", "nodes"},
   arg : Modes \union {NoMode}]

ASSUME BridgeAssumption ==
  /\ DefaultMode \in Modes /\ NoMode \notin Modes /\ MaxIntents \in Nat \ {0}
  /\ NoOp \notin BridgeOp
  /\ Happens \subseteq {"roam", "tile", "reload", "die", "boot", "always"}

VARIABLES
  state,       \* of the service: currentState
  run,         \* the mode of the configuration it runs or starts
  cache,       \* native: that of the last configuration that connected
  killSwitch,
  intents,     \* commands on their way to the service
  currentMode, vpnMode,  \* of the bridge, and as the settings have it
  settled,     \* settingsReady
  ops,
  off,         \* history: the user disconnected with nothing else under way, and
               \* neither the user nor an automatic connect has come since
  behind       \* history: a mode was not brought to the tunnel, or an older
               \* configuration may still come to it

nativeVars == <<state, run, cache, killSwitch>>
rendererVars == <<currentMode, vpnMode, settled>>
bridgeVars == <<nativeVars, rendererVars, intents, ops, off, behind>>

Started == {"connecting", "connected"}

\* by: who asked, at: what is awaited, arg: the mode asked for or compiled.
Op(by, at, arg) == [by |-> by, at |-> at, arg |-> arg]

BridgeInit ==
  /\ state = "disconnected" /\ killSwitch \in BOOLEAN
  /\ cache \in Modes \union {NoMode}
  /\ run = NoMode /\ intents = <<>>
  /\ currentMode = DefaultMode /\ vpnMode \in Modes /\ settled = FALSE
  /\ ops = [o \in Ops |-> NoOp]
  /\ off = FALSE /\ behind = (cache \notin {NoMode, vpnMode})

Posts(kind, mode) ==
  /\ Len(intents) < MaxIntents
  /\ intents' = Append(intents, [kind |-> kind, mode |-> mode])

MovesTo(o, op) == ops' = [ops EXCEPT ![o] = op]
Begins(o, op) == ops[o] = NoOp /\ MovesTo(o, op)
Awaits(o, at) == ops[o] # NoOp /\ ops[o].at = at
Done(o) == MovesTo(o, NoOp)

\* The mode chosen last, also before the settings are read.
Wanted == IF settled THEN currentMode ELSE vpnMode

\* A configuration of another mode is on its way to the service.
Older(m) ==
  \/ \E o \in Ops : Awaits(o, "nodes") /\ ops[o].arg # m
  \/ \E n \in DOMAIN intents : intents[n].kind = "start" /\ intents[n].mode # m

\* Operations that change the mode.
Chooses(o) == ops[o] # NoOp /\ ops[o].by \in {"mode", "setting"}

Throws(o) ==
  /\ Done(o)
  /\ behind' = (behind \/ Chooses(o))
  /\ UNCHANGED <<nativeVars, rendererVars, intents, off>>

-----------------------------------------------------------------------------
(* Operations of the user                                                 *)

UserConnects(o) ==
  /\ Begins(o, Op("user", "restore", NoMode))
  /\ off' = FALSE
  /\ UNCHANGED <<nativeVars, rendererVars, intents, behind>>

UserDisconnects ==
  /\ Posts("stop", NoMode)
  /\ UNCHANGED <<nativeVars, rendererVars, ops, off, behind>>

ModeChanges(o, m) ==
  /\ m # currentMode
  /\ Begins(o, Op("mode", "settings", m))
  /\ UNCHANGED <<nativeVars, rendererVars, intents, off, behind>>

\* settings.set() of a mode: chosen and stored as by setMode(), but a running
\* tunnel is left to itself. (No page calls it with a mode at present.)
ModeIsPatched(o, m) ==
  /\ m # currentMode
  /\ Begins(o, Op("setting", "settings", m))
  /\ UNCHANGED <<nativeVars, rendererVars, intents, off, behind>>

\* reconnectIfConnected() of a new fingerprint or of the rule lists.
Reapplies(o) ==
  /\ Begins(o, Op("other", "status", NoMode))
  /\ UNCHANGED <<nativeVars, rendererVars, intents, off, behind>>

\* The pages start: they fetch status and servers, then maybeAutoConnect().
\* (The effect runs once more 30 s later, when timedOut turns true although the
\* pages had long started; that it runs no third time is left out.)
Bootstraps(o) ==
  /\ Begins(o, Op("other", "launch", NoMode))
  /\ UNCHANGED <<nativeVars, rendererVars, intents, off, behind>>

\* profiles.apply(): the stored settings only.
ProfileApplied(m) ==
  /\ settled /\ m # vpnMode
  /\ vpnMode' = m /\ behind' = TRUE
  /\ UNCHANGED <<nativeVars, currentMode, settled, intents, ops, off>>

-----------------------------------------------------------------------------
(* Their steps                                                            *)

\* maybeAutoConnect() has the settings: it connects, unless the user has not
\* turned it on, the VPN was started when the pages asked, or no server is
\* known.
Launches(o) ==
  /\ Awaits(o, "launch") /\ settled
  /\ \/ Done(o) /\ UNCHANGED off
     \/ MovesTo(o, [ops[o] EXCEPT !.at = "restore"]) /\ off' = FALSE
  /\ UNCHANGED <<nativeVars, rendererVars, intents, behind>>

ModeIsSet(o) ==
  /\ Awaits(o, "settings") /\ settled
  /\ currentMode' = ops[o].arg
  /\ MovesTo(o, [ops[o] EXCEPT !.at = "saved"])
  /\ behind' = (behind \/ ops[o].by = "setting" \/ Older(ops[o].arg))
  /\ UNCHANGED <<nativeVars, vpnMode, settled, intents, off>>

\* patchAndroidSettings() returns or throws; the newest write is the last.
ModeIsSaved(o) ==
  /\ Awaits(o, "saved")
  /\ ops[o].arg = currentMode =>
       \A q \in Ops : Awaits(q, "saved") => ops[q].arg = currentMode
  /\ \/ Throws(o)
     \/ /\ vpnMode' = ops[o].arg
        /\ MovesTo(o, IF ops[o].by = "mode" THEN [ops[o] EXCEPT !.at = "status"] ELSE NoOp)
        /\ UNCHANGED <<nativeVars, currentMode, settled, intents, off, behind>>

\* Mutant of StatusRead: connect() without the stop.
StatusRead_NoStop(o) ==
  /\ Awaits(o, "status")
  /\ IF state = "connected"
     THEN MovesTo(o, [ops[o] EXCEPT !.at = "restore"]) /\ UNCHANGED <<intents, behind>>
     ELSE Done(o) /\ behind' = (behind \/ ops[o].by = "mode") /\ UNCHANGED intents
  /\ UNCHANGED <<nativeVars, rendererVars, off>>

\* Mutant of StatusRead: whatever the status is.
StatusRead_Blindly(o) ==
  /\ Awaits(o, "status")
  /\ Posts("stop", NoMode)
  /\ MovesTo(o, [ops[o] EXCEPT !.at = "restore"])
  /\ UNCHANGED <<nativeVars, rendererVars, off, behind>>

\* A tunnel that is connected is stopped, and connect() follows after 400 ms;
\* any other is left to itself.
StatusRead(o) ==
  /\ Awaits(o, "status")
  /\ IF state = "connected"
     THEN /\ Posts("stop", NoMode)
          /\ MovesTo(o, [ops[o] EXCEPT !.at = "restore"]) /\ UNCHANGED behind
     ELSE /\ Done(o) /\ UNCHANGED intents
          /\ behind' = (behind \/ ops[o].by = "mode")
  /\ UNCHANGED <<nativeVars, rendererVars, off>>

\* restoreCached(): without permission it throws; a tunnel blocked by the kill
\* switch reconnects from the cache, and nothing is compiled.
Restores(o) ==
  /\ Awaits(o, "restore")
  /\ \/ Throws(o)
     \/ IF state = "error" /\ killSwitch /\ cache # NoMode
        THEN /\ Posts("reconnect", NoMode) /\ Done(o)
             /\ UNCHANGED <<nativeVars, rendererVars, off, behind>>
        ELSE /\ MovesTo(o, [ops[o] EXCEPT !.at = "state"])
             /\ UNCHANGED <<nativeVars, rendererVars, intents, off, behind>>

\* Mutant of StateIsRead: it does not wait for the settings.
StateIsRead_Early(o) ==
  /\ Awaits(o, "state")
  /\ MovesTo(o, [ops[o] EXCEPT !.at = "nodes", !.arg = currentMode])
  /\ UNCHANGED <<nativeVars, rendererVars, intents, off, behind>>

\* loadState() of the compilation comes before the nodes are fetched.
StateIsRead(o) ==
  /\ Awaits(o, "state") /\ settled
  /\ MovesTo(o, [ops[o] EXCEPT !.at = "nodes", !.arg = currentMode])
  /\ UNCHANGED <<nativeVars, rendererVars, intents, off, behind>>

\* The nodes come and the service is asked to start; or they do not come, or
\* permission is denied.
EngineIsStarted(o) ==
  /\ Awaits(o, "nodes")
  /\ \/ Throws(o)
     \/ /\ Posts("start", ops[o].arg) /\ Done(o)
        /\ UNCHANGED <<nativeVars, rendererVars, off, behind>>

SettingsLoad ==
  /\ ~settled /\ settled' = TRUE
  /\ \/ currentMode' = vpnMode /\ UNCHANGED behind
     \/ UNCHANGED currentMode /\ behind' = TRUE
  /\ UNCHANGED <<nativeVars, vpnMode, intents, ops, off>>

-----------------------------------------------------------------------------
(* The service                                                            *)

Delivers(kind) ==
  /\ intents # <<>> /\ Head(intents).kind = kind /\ intents' = Tail(intents)
  /\ UNCHANGED <<cache, killSwitch, rendererVars, ops>>

\* startVpn() ignores a start while it is started.
DeliversStart ==
  /\ Delivers("start")
  /\ IF state \in Started THEN UNCHANGED <<state, run>>
     ELSE state' = "connecting" /\ run' = Head(intents).mode
  /\ UNCHANGED <<off, behind>>

DeliversStop ==
  /\ Delivers("stop")
  /\ state' = "disconnected"
  /\ off' = (off \/ (intents' = <<>> /\ \A o \in Ops : ops[o] = NoOp))
  /\ UNCHANGED <<run, behind>>

DeliversReconnect ==
  /\ Delivers("reconnect")
  /\ IF cache = NoMode THEN UNCHANGED <<state, run, behind>>
     ELSE /\ state' = "connecting" /\ run' = cache
          /\ behind' = (behind \/ cache # Wanted)
  /\ UNCHANGED off

\* The core runs, and its configuration is cached.
CoreConnects ==
  /\ state = "connecting"
  /\ state' = "connected" /\ cache' = run
  /\ behind' = (behind /\ ~(run = currentMode /\ vpnMode = currentMode /\ ~Older(run)))
  /\ UNCHANGED <<run, killSwitch, rendererVars, intents, ops, off>>

CoreRefuses ==
  /\ state = "connecting" /\ state' = "error"
  /\ UNCHANGED <<run, cache, killSwitch, rendererVars, intents, ops, off, behind>>

-----------------------------------------------------------------------------
(* From outside                                                           *)

\* The default network changes: reconnect() is posted.
Roams ==
  /\ "roam" \in Happens /\ state = "connected" /\ Posts("reconnect", NoMode)
  /\ UNCHANGED <<nativeVars, rendererVars, ops, off, behind>>

\* Without the pages: the configuration that connected last.
StartsCached ==
  /\ cache # NoMode /\ Posts("start", cache) /\ off' = FALSE
  /\ behind' = (behind \/ cache # Wanted)

\* The tile; the application opened again starts a service that failed.
TileClicked ==
  /\ "tile" \in Happens
  /\ IF state \in Started THEN Posts("stop", NoMode) /\ UNCHANGED <<off, behind>>
     ELSE StartsCached
  /\ UNCHANGED <<nativeVars, rendererVars, ops>>

\* Android starts the service it has as the Always-on VPN.
AlwaysOnStarts ==
  /\ "always" \in Happens /\ StartsCached
  /\ UNCHANGED <<nativeVars, rendererVars, ops>>

RendererStarts ==
  /\ settled' = FALSE /\ currentMode' = DefaultMode
  /\ ops' = [o \in Ops |-> NoOp]
  /\ UNCHANGED <<vpnMode>>

ModeUnderWay == \E o \in Ops : Chooses(o)

\* The WebView is replaced; the service goes on.
Reloads ==
  /\ "reload" \in Happens /\ RendererStarts
  /\ behind' = (behind \/ ModeUnderWay)
  /\ UNCHANGED <<nativeVars, intents, off>>

\* The process dies; a service that was not stopped is started again, from the
\* cache: by Android, or when the application is opened.
ProcessDies ==
  /\ "die" \in Happens /\ RendererStarts
  /\ state' = "disconnected"
  /\ \/ intents' = <<>>
     \/ /\ state # "disconnected" /\ cache # NoMode
        /\ intents' = <<[kind |-> "start", mode |-> cache]>>
  /\ behind' = (behind \/ ModeUnderWay \/ intents # <<>> \/ state \in {"connecting", "error"})
  /\ UNCHANGED <<run, cache, killSwitch, off>>

\* The device boots, and the receiver starts the service if the user wants it.
BootStarts ==
  /\ "boot" \in Happens /\ RendererStarts
  /\ state' = "disconnected" /\ cache # NoMode
  /\ intents' = <<[kind |-> "start", mode |-> cache]>> /\ off' = FALSE
  /\ behind' = (behind \/ ModeUnderWay \/ cache # vpnMode)
  /\ UNCHANGED <<run, cache, killSwitch>>

OpSteps(o) ==
  \/ Launches(o) \/ ModeIsSet(o) \/ ModeIsSaved(o) \/ StatusRead(o) \/ Restores(o)
  \/ StateIsRead(o) \/ EngineIsStarted(o)

ServiceSteps ==
  DeliversStart \/ DeliversStop \/ DeliversReconnect \/ CoreConnects \/ CoreRefuses

BridgeNext ==
  \/ \E o \in Ops :
       \/ UserConnects(o) \/ Reapplies(o) \/ Bootstraps(o) \/ OpSteps(o)
       \/ \E m \in Modes : ModeChanges(o, m) \/ ModeIsPatched(o, m)
  \/ UserDisconnects
  \/ \E m \in Modes : ProfileApplied(m)
  \/ SettingsLoad \/ ServiceSteps
  \/ Roams \/ TileClicked \/ AlwaysOnStarts \/ Reloads \/ ProcessDies \/ BootStarts

BridgeSpec == BridgeInit /\ [][BridgeNext]_bridgeVars

-----------------------------------------------------------------------------
(* Properties                                                             *)

Calm == intents = <<>> /\ settled /\ \A o \in Ops : ops[o] = NoOp

\* "Changing the mode must take effect on the RUNNING tunnel, not just on the
\* next manual reconnect" (bridge.ts:780): when nothing is under way, a tunnel
\* runs in the mode chosen last, whatever other operations came in between,
\* unless that change found no tunnel, failed or came with settings.set(), which
\* applies nothing (bridge.ts:1081-1107), or a configuration made before it came
\* to run.
ModeTakesEffect == Calm /\ state = "connected" /\ run # currentMode => behind

\* A disconnect of the user, with nothing else under way, is not undone behind
\* the user's back: no change of the mode, the fingerprint, the rules or the
\* server starts the VPN again (createCore.ts:97), nor does a new WebView or
\* process by itself. What does start it, and ends off, are the user in the
\* pages or with the tile, and what the user has turned on: auto-connect, at
\* every start of the pages and 30 s later (App.tsx:45-78), the boot receiver and
\* Always-on.
OffStaysOff ==
  off => /\ state \notin Started
         /\ \A n \in DOMAIN intents : intents[n].kind = "stop"

=============================================================================
