--------------------------- MODULE SlaveVpnService ---------------------------
(***************************************************************************)
(* The VPN service of the Android application: SlaveVpnService.kt with     *)
(* ClashBridge.kt, and the intents the plugin, the tile, the boot receiver *)
(* and Android itself send it.                                             *)
(*                                                                         *)
(* Commands run on the main thread. The core is started, stopped and       *)
(* reconnected by coroutines on the IO pool (jobs), whose native calls     *)
(* block and cannot be cancelled; they share the service's fields with the *)
(* main thread. An action is a stretch of one thread between two points    *)
(* where another can matter. The process may be killed at any time; only   *)
(* the preferences survive it.                                             *)
(***************************************************************************)
EXTENDS Naturals, FiniteSets

CONSTANTS
  Tuns,          \* bound: TUN interfaces open at a time
  Jobs,          \* bound: coroutines in flight
  MaxInstances,  \* bound: service objects created by one process
  Events,        \* what may happen from outside, beside connect and disconnect
  NoTun, NoJob

Instances == 1..MaxInstances

\* A start job holds a duplicate of its TUN until the core adopts it.
Job ==
  [kind : {"start", "stop", "reconnect"}, inst : Instances,
   tun : Tuns \union {NoTun}, at : {"launched", "core", "report", "cache", "delay", "resumed"},
   prev : Jobs \union {NoJob}]

ASSUME ServiceAssumption ==
  /\ MaxInstances \in Nat \ {0}
  /\ NoTun \notin Tuns /\ NoJob \notin Jobs \union Job
  /\ Events \subseteq {"die", "roam", "revoke", "toggle", "alwaysOn", "impatient"}

VARIABLES
  prefs,       \* SharedPreferences: shouldRun, cached, killSwitch
  status,      \* companion currentState
  killSwitch,  \* companion killSwitchEnabled
  inst,        \* the last service object of this process; 0: none yet
  serving,     \* it is not destroyed
  stopping,    \* stopSelf() was called on it
  sticky,      \* Android will deliver a null intent
  tunOf,       \* tunInterface of each service object
  monitor,     \* service objects with a registered networkCallback
  posted,      \* service objects with a reconnect() on the main looper
  coreJob,     \* coreJob of each service object
  jobs,        \* coroutines in flight
  core,        \* the TUN mihomo runs on; NoTun: ClashBridge.running is false
  iface,       \* external: the interface Android routes into, established last
  handles,     \* external: open descriptors of each TUN
  granted,     \* external: the user's consent, VpnService.prepare() = null
  intent,      \* history: "up", "down" after a disconnect, or "revoked"
  disturbed    \* history: in this process something came amid something else

serviceVars == <<inst, serving, stopping, tunOf, coreJob>>
osVars == <<iface, handles>>
history == <<intent, disturbed>>
vars == <<prefs, status, killSwitch, sticky, monitor, posted, jobs, core,
          granted, history, serviceVars, osVars>>

TypeOK ==
  /\ prefs \in [shouldRun : BOOLEAN, cached : BOOLEAN, killSwitch : BOOLEAN]
  /\ status \in {"disconnected", "connecting", "connected", "error"}
  /\ inst \in 0..MaxInstances
  /\ {killSwitch, serving, stopping, sticky, granted, disturbed} \subseteq BOOLEAN
  /\ tunOf \in [Instances -> Tuns \union {NoTun}]
  /\ monitor \subseteq Instances /\ posted \subseteq Instances
  /\ coreJob \in [Instances -> Jobs \union {NoJob}]
  /\ jobs \in [Jobs -> Job \union {NoJob}]
  /\ core \in Tuns \union {NoTun} /\ iface \in Tuns \union {NoTun}
  /\ handles \in [Tuns -> SUBSET {"service", "core"}]
  /\ intent \in {"up", "down", "revoked"}

Init ==
  /\ prefs = [shouldRun |-> FALSE, cached |-> FALSE, killSwitch |-> FALSE]
  /\ status = "disconnected" /\ killSwitch = FALSE
  /\ inst = 0 /\ serving = FALSE /\ stopping = FALSE /\ sticky = FALSE
  /\ tunOf = [i \in Instances |-> NoTun]
  /\ monitor = {} /\ posted = {}
  /\ coreJob = [i \in Instances |-> NoJob] /\ jobs = [j \in Jobs |-> NoJob]
  /\ core = NoTun /\ iface = NoTun /\ handles = [t \in Tuns |-> {}]
  /\ granted = TRUE /\ intent = "down" /\ disturbed = FALSE

\* Traffic is routed into a TUN, so none can bypass it.
Up == iface # NoTun /\ handles[iface] # {}

InFlight == {j \in Jobs : jobs[j] # NoJob}

\* Nothing is under way that will go on by itself.
Quiet == InFlight = {} /\ posted = {} /\ (serving /\ stopping => Up)

\* A cancelled scope launches nothing.
ScopeActive(i) == i = inst /\ serving

FreeJob(js) == CHOOSE j \in Jobs : js[j] = NoJob
FreeTun == CHOOSE t \in Tuns : handles[t] = {}

NewJob(k, i, t, p) ==
  [kind |-> k, inst |-> i, tun |-> t, at |-> "launched", prev |-> p]

\* Job.cancel(): a coroutine that runs native code does not notice.
Cancel(js, j) ==
  IF j # NoJob /\ js[j] # NoJob /\ js[j].at = "launched"
    THEN [js EXCEPT ![j] = NoJob] ELSE js

\* A job that has ended: nobody's field names it any more.
Ended(js, j) ==
  [k \in Jobs |->
     CASE k = j -> NoJob
       [] k # j /\ js[k] # NoJob /\ js[k].prev = j -> [js[k] EXCEPT !.prev = NoJob]
       [] OTHER -> js[k]]

Forgotten(j) == [i \in Instances |-> IF coreJob[i] = j THEN NoJob ELSE coreJob[i]]

-----------------------------------------------------------------------------
(* Descriptors                                                            *)

Without(h, t, end) == IF t = NoTun THEN h ELSE [h EXCEPT ![t] = @ \ {end}]

\* Mutant of ServiceCloses: the field is reset, the descriptor left open.
ServiceCloses_Forgets(h, i) == h

\* cleanupTun() closes the descriptor of a service object.
ServiceCloses(h, i) == Without(h, tunOf[i], "service")

\* Clashbox.stop() closes the duplicate the core owns.
CoreCloses(h) == Without(h, core, "core")

NoTunOf(i) == [tunOf EXCEPT ![i] = NoTun]

\* Mutant of UnclaimedCloses: nobody closes what the core did not take.
UnclaimedCloses_Never(h, t) == h

\* closeDetachedTunFd(): the duplicate no core has taken over.
UnclaimedCloses(h, t) == Without(h, t, "core")

\* Mutant of SetShouldRun: only ever set.
SetShouldRun_OnlySets(b) == [prefs EXCEPT !.shouldRun = @ \/ b]

SetShouldRun(b) == [prefs EXCEPT !.shouldRun = b]

-----------------------------------------------------------------------------
(* startVpn                                                               *)

\* establish() replaces the interface; then the previous one is closed, the
\* descriptor is duplicated for the core, and the start job is launched.
Establishes(i, active, p, s, js) ==
  /\ granted
  /\ \E t \in Tuns : handles[t] = {} /\ t = FreeTun
       /\ iface' = t
       /\ handles' = [ServiceCloses(handles, i) EXCEPT ![t] = {"service", "core"}]
       /\ tunOf' = [tunOf EXCEPT ![i] = t]
       /\ IF active
            THEN /\ jobs' = [js EXCEPT ![FreeJob(js)] = NewJob("start", i, t, NoJob)]
                 /\ coreJob' = [coreJob EXCEPT ![i] = FreeJob(js)]
            ELSE jobs' = js /\ coreJob' = [coreJob EXCEPT ![i] = NoJob]
  /\ status' = "connecting" /\ prefs' = p /\ stopping' = s

\* establish() returns null without consent, and with it establish() or dup() may
\* throw: before the interface is replaced or after. The catch does not ask for the
\* kill switch.
SetupFails(i, active, p, s, js) ==
  /\ status' = "error" /\ prefs' = [p EXCEPT !.shouldRun = FALSE]
  /\ iface' \in {iface} \union
                {t \in Tuns : granted /\ handles[t] = {} /\ t = FreeTun}
  /\ handles' = ServiceCloses(handles, i) /\ tunOf' = NoTunOf(i)
  /\ stopping' = (s \/ active)
  /\ jobs' = js /\ UNCHANGED coreJob

\* st: currentState, p: the preferences, s: stopping and js: the coroutines
\* as the caller has left them; a service object that is not destroyed is
\* active.
StartVpn(i, active, st, p, s, js) ==
  \/ /\ st \in {"connected", "connecting"}
     /\ status' = st /\ prefs' = p /\ stopping' = s /\ jobs' = js
     /\ UNCHANGED <<tunOf, osVars, coreJob>>
  \/ /\ st \notin {"connected", "connecting"}
     /\ Establishes(i, active, p, s, js) \/ SetupFails(i, active, p, s, js)

-----------------------------------------------------------------------------
(* Commands on the main thread                                            *)

\* The user waits for what is under way, or does not.
Patient == Quiet \/ "impatient" \in Events

\* Android delivers a command to the service object, or creates one. A start
\* request revokes an earlier stopSelf(), but one that was already on its way
\* then is delivered to an object that is about to be destroyed.
Delivered(i, s) ==
  IF serving
    THEN /\ i = inst /\ s \in (IF Quiet THEN {FALSE} ELSE {FALSE, stopping})
         /\ UNCHANGED <<inst, serving>>
    ELSE /\ inst < MaxInstances /\ i = inst + 1 /\ s = FALSE
         /\ inst' = i /\ serving' = TRUE

\* Room for one more coroutine (bound).
Room == \E j \in Jobs : jobs[j] = NoJob

\* ACTION_START from the application, the tile, the boot receiver or a cold
\* Activity (recoverIfExpected): k is the kill switch of the intent.
Started(k) ==
  /\ Room
  /\ killSwitch' = k
  /\ \E i \in Instances, s \in BOOLEAN :
       /\ Delivered(i, s)
       /\ StartVpn(i, TRUE, status, [prefs EXCEPT !.shouldRun = TRUE, !.killSwitch = k], s, jobs)
  /\ sticky' = FALSE
  /\ UNCHANGED <<monitor, posted, core>>

\* The user connects in the application, giving consent if it is missing.
UserConnects(k) ==
  /\ Patient /\ granted
  /\ Started(k) /\ intent' = "up"
  /\ UNCHANGED <<granted, disturbed>>

UserConsents == ~granted /\ Patient /\ granted' = TRUE
  /\ UNCHANGED <<prefs, status, killSwitch, sticky, monitor, posted, jobs,
                 core, history, serviceVars, osVars>>

\* MainActivity.onCreate after a cold launch.
RecoverIfExpected ==
  /\ Patient
  /\ prefs.shouldRun /\ prefs.cached /\ granted
  /\ status \notin {"connected", "connecting"}
  /\ Started(prefs.killSwitch)
  /\ UNCHANGED <<granted, history>>

\* A null intent after the process died: restoreExpectedVpn().
StickyRestart ==
  /\ sticky /\ ~serving /\ Room /\ inst < MaxInstances
  /\ sticky' = FALSE /\ inst' = inst + 1 /\ serving' = TRUE
  /\ IF prefs.shouldRun /\ prefs.cached
       THEN killSwitch' = prefs.killSwitch /\ StartVpn(inst + 1, TRUE, status, prefs, FALSE, jobs)
       ELSE /\ prefs' = SetShouldRun(FALSE) /\ stopping' = TRUE
            /\ UNCHANGED <<killSwitch, status, tunOf, osVars, jobs, coreJob>>
  /\ UNCHANGED <<monitor, posted, core, granted, history>>

\* SERVICE_INTERFACE: the system setting is user intent.
AlwaysOnStart ==
  /\ "alwaysOn" \in Events /\ Room /\ granted
  /\ \E i \in Instances, s \in BOOLEAN :
       /\ Delivered(i, s)
       /\ IF prefs.cached
            THEN /\ killSwitch' = prefs.killSwitch /\ intent' = "up"
                 /\ StartVpn(i, TRUE, status, SetShouldRun(TRUE), s, jobs)
            ELSE /\ stopping' = TRUE
                 /\ UNCHANGED <<prefs, status, killSwitch, tunOf, osVars, jobs,
                                coreJob, intent>>
  /\ sticky' = FALSE /\ disturbed' = (disturbed \/ ~Quiet)
  /\ UNCHANGED <<monitor, posted, core, granted>>

\* ACTION_STOP: stopVpn(). The core is stopped by a coroutine.
UserDisconnects ==
  /\ Patient /\ Room
  /\ \E i \in Instances, s \in BOOLEAN :
       /\ Delivered(i, s)
       /\ monitor' = monitor \ {i}
       /\ jobs' = Cancel([jobs EXCEPT ![FreeJob(jobs)] = NewJob("stop", i, NoTun, NoJob)],
                         coreJob[i])
       /\ coreJob' = [coreJob EXCEPT ![i] = NoJob]
       /\ handles' = ServiceCloses(handles, i) /\ tunOf' = NoTunOf(i)
  /\ prefs' = SetShouldRun(FALSE)
  /\ status' = "disconnected" /\ stopping' = TRUE /\ sticky' = FALSE
  /\ intent' = "down"
  /\ UNCHANGED <<killSwitch, posted, core, iface, granted, disturbed>>

\* reconnect() of a service object, also of one that is destroyed.
Reconnect(i) ==
  /\ killSwitch' = prefs.killSwitch
  /\ prefs' = SetShouldRun(TRUE)
  /\ status' = "connecting"
  /\ jobs' = IF ScopeActive(i)
               THEN [jobs EXCEPT ![FreeJob(jobs)] = NewJob("reconnect", i, NoTun, coreJob[i])]
               ELSE jobs
  /\ coreJob' = [coreJob EXCEPT ![i] = NoJob]

\* ACTION_RECONNECT from the notification, or reconnectCached().
UserReconnects ==
  /\ Patient /\ Room /\ prefs.cached
  /\ serving /\ (status \in {"connected", "connecting"} \/ killSwitch)
  /\ \E s \in BOOLEAN : Delivered(inst, s) /\ stopping' = s
  /\ Reconnect(inst)
  /\ intent' = "up"
  /\ UNCHANGED <<sticky, tunOf, monitor, posted, core, osVars, granted, disturbed>>

\* onAvailable after the first one: the default network has changed.
NetworkChanges(i) ==
  /\ "roam" \in Events /\ i \in monitor \ posted /\ status = "connected"
  /\ posted' = posted \union {i} /\ disturbed' = (disturbed \/ InFlight # {})
  /\ UNCHANGED <<prefs, status, killSwitch, sticky, monitor, jobs, core,
                 granted, intent, serviceVars, osVars>>

PostedReconnect(i) ==
  /\ i \in posted /\ Room
  /\ posted' = posted \ {i}
  /\ IF prefs.cached THEN Reconnect(i)
       ELSE UNCHANGED <<prefs, killSwitch, status, jobs, coreJob>>
  /\ UNCHANGED <<sticky, inst, serving, stopping, tunOf, monitor, core, osVars,
                 granted, history>>

\* setKillSwitch() while the service runs.
TogglesKillSwitch ==
  /\ "toggle" \in Events
  /\ killSwitch' = ~killSwitch
  /\ prefs' = [prefs EXCEPT !.killSwitch = ~killSwitch]
  /\ UNCHANGED <<status, sticky, monitor, posted, jobs, core, granted, history,
                 serviceVars, osVars>>

\* onRevoke(): another VPN took over, or the user revoked this one.
Revoked ==
  /\ "revoke" \in Events /\ serving /\ Up
  /\ granted' = FALSE /\ iface' = NoTun
  /\ intent' = "revoked" /\ disturbed' = (disturbed \/ ~Quiet)
  /\ prefs' = SetShouldRun(FALSE)
  /\ core' = NoTun /\ handles' = CoreCloses(ServiceCloses(handles, inst))
  /\ tunOf' = NoTunOf(inst) /\ stopping' = TRUE
  /\ UNCHANGED <<status, killSwitch, inst, serving, sticky, monitor, posted,
                 coreJob, jobs>>

\* onDestroy(), once stopSelf() was called and Android has unbound.
Destroyed ==
  /\ serving /\ stopping /\ ~Up
  /\ serving' = FALSE /\ stopping' = FALSE
  /\ monitor' = monitor \ {inst}
  /\ jobs' = [j \in Jobs |->
               IF j \in InFlight /\ jobs[j].inst = inst /\ jobs[j].at \in {"launched", "delay"}
                 THEN NoJob ELSE jobs[j]]
  /\ core' = NoTun /\ handles' = CoreCloses(ServiceCloses(handles, inst))
  /\ tunOf' = NoTunOf(inst)
  /\ coreJob' = [coreJob EXCEPT ![inst] = NoJob]
  /\ UNCHANGED <<prefs, status, killSwitch, inst, sticky, posted, iface,
                 granted, history>>

-----------------------------------------------------------------------------
(* Coroutines on the IO pool                                              *)

At(j, k, a) == jobs[j] # NoJob /\ jobs[j].kind = k /\ jobs[j].at = a

Goes(j, a) == jobs' = [jobs EXCEPT ![j].at = a]

Ends(j) == jobs' = Ended(jobs, j) /\ coreJob' = Forgotten(j)

\* From here on a cancel comes too late.
StartJobRuns(j) ==
  /\ At(j, "start", "launched") /\ Goes(j, "core")
  /\ UNCHANGED <<prefs, status, killSwitch, sticky, monitor, posted, core,
                 granted, history, serviceVars, osVars>>

\* ClashBridge.start(): a core that runs is stopped first.
CoreStarts(j) ==
  /\ At(j, "start", "core") /\ Goes(j, "report")
  /\ core' = jobs[j].tun /\ handles' = CoreCloses(handles)
  /\ UNCHANGED <<prefs, status, killSwitch, sticky, monitor, posted, iface,
                 granted, history, serviceVars>>

\* The configuration cannot be applied: the duplicate is closed; the TUN is
\* kept under the kill switch, else the service ends.
CoreFails(j) ==
  LET i == jobs[j].inst
      h == UnclaimedCloses(CoreCloses(handles), jobs[j].tun)
  IN  /\ At(j, "start", "core") /\ Ends(j)
      /\ core' = NoTun /\ status' = "error"
      /\ IF killSwitch
           THEN handles' = h /\ UNCHANGED <<prefs, tunOf, stopping>>
           ELSE /\ prefs' = SetShouldRun(FALSE)
                /\ handles' = ServiceCloses(h, i) /\ tunOf' = NoTunOf(i)
                /\ stopping' = (stopping \/ ScopeActive(i))
      /\ UNCHANGED <<killSwitch, inst, serving, sticky, monitor, posted, iface,
                     granted, history>>

\* The core serves; a selection it refuses is only logged.
Reports(j) ==
  /\ At(j, "start", "report") /\ Goes(j, "cache")
  /\ status' = "connected"
  /\ UNCHANGED <<prefs, killSwitch, sticky, monitor, posted, core, granted, history,
                 serviceVars, osVars>>

\* Mutant of Caches: the configuration is not cached.
Caches_Nothing(j) ==
  /\ At(j, "start", "cache") /\ Ends(j)
  /\ monitor' = monitor \union {jobs[j].inst}
  /\ UNCHANGED <<prefs, status, killSwitch, inst, serving, stopping, tunOf, sticky,
                 posted, core, osVars, granted, history>>

\* cacheConfig() commits, then the network is watched.
Caches(j) ==
  /\ At(j, "start", "cache") /\ Ends(j)
  /\ prefs' = [prefs EXCEPT !.cached = TRUE]
  /\ monitor' = monitor \union {jobs[j].inst}
  /\ UNCHANGED <<status, killSwitch, inst, serving, stopping, tunOf, sticky, posted,
                 core, osVars, granted, history>>

\* What follows the commit throws: the core goes on on its own descriptor.
FailsLate(j) ==
  LET i == jobs[j].inst IN
  /\ At(j, "start", "cache") /\ Ends(j)
  /\ status' = "error" /\ disturbed' = TRUE
  /\ IF killSwitch
       THEN prefs' = [prefs EXCEPT !.cached = TRUE] /\ UNCHANGED <<handles, tunOf, stopping>>
       ELSE /\ prefs' = [prefs EXCEPT !.cached = TRUE, !.shouldRun = FALSE]
            /\ handles' = ServiceCloses(handles, i) /\ tunOf' = NoTunOf(i)
            /\ stopping' = (stopping \/ ScopeActive(i))
  /\ UNCHANGED <<killSwitch, inst, serving, sticky, monitor, posted, core, iface,
                 granted, intent>>

\* Mutant of StopJobRuns: the core goes on.
StopJobRuns_Lost(j) ==
  /\ At(j, "stop", "launched") /\ Ends(j)
  /\ UNCHANGED <<prefs, status, killSwitch, inst, serving, stopping, tunOf,
                 sticky, monitor, posted, core, osVars, granted, history>>

StopJobRuns(j) ==
  /\ At(j, "stop", "launched") /\ Ends(j)
  /\ core' = NoTun /\ handles' = CoreCloses(handles)
  /\ UNCHANGED <<prefs, status, killSwitch, inst, serving, stopping, tunOf,
                 sticky, monitor, posted, iface, granted, history>>

\* Mutant of ReconnectStops: the kill switch is ignored.
ReconnectStops_Cleans(j) ==
  /\ At(j, "reconnect", "launched")
  /\ jobs' = [Cancel(jobs, jobs[j].prev) EXCEPT ![j] = [jobs[j] EXCEPT !.at = "delay"]]
  /\ core' = NoTun
  /\ handles' = CoreCloses(ServiceCloses(handles, jobs[j].inst))
  /\ tunOf' = NoTunOf(jobs[j].inst)
  /\ UNCHANGED <<prefs, status, killSwitch, inst, serving, stopping, coreJob,
                 sticky, monitor, posted, iface, granted, history>>

\* The core is stopped; under the kill switch the TUN stays open.
ReconnectStops(j) ==
  LET i == jobs[j].inst IN
  /\ At(j, "reconnect", "launched")
  /\ jobs' = [Cancel(jobs, jobs[j].prev) EXCEPT ![j] = [jobs[j] EXCEPT !.at = "delay"]]
  /\ core' = NoTun
  /\ IF killSwitch
       THEN handles' = CoreCloses(handles) /\ UNCHANGED tunOf
       ELSE handles' = CoreCloses(ServiceCloses(handles, i)) /\ tunOf' = NoTunOf(i)
  /\ UNCHANGED <<prefs, status, killSwitch, inst, serving, stopping, coreJob,
                 sticky, monitor, posted, iface, granted, history>>

\* delay(400) is over; a cancel comes too late.
DelayEnds(j) ==
  /\ At(j, "reconnect", "delay") /\ Goes(j, "resumed")
  /\ UNCHANGED <<prefs, status, killSwitch, sticky, monitor, posted, core,
                 granted, history, serviceVars, osVars>>

\* Mutant of ReconnectStarts: the re-entry guard is not cleared.
ReconnectStarts_Guarded(j) ==
  /\ At(j, "reconnect", "resumed")
  /\ StartVpn(jobs[j].inst, ScopeActive(jobs[j].inst), status, prefs, stopping,
              Ended(jobs, j))
  /\ UNCHANGED <<killSwitch, inst, serving, sticky, monitor, posted, core,
                 granted, history>>

\* startVpn, whatever has happened since the reconnect was asked for.
ReconnectStarts(j) ==
  /\ At(j, "reconnect", "resumed")
  /\ StartVpn(jobs[j].inst, ScopeActive(jobs[j].inst), "disconnected", prefs, stopping,
              Ended(jobs, j))
  /\ UNCHANGED <<killSwitch, inst, serving, sticky, monitor, posted, core,
                 granted, history>>

-----------------------------------------------------------------------------
\* The process is killed: Android closes its descriptors and will restart a
\* service that was not stopped.
Dies ==
  /\ "die" \in Events /\ inst # 0
  /\ sticky' = (sticky \/ (serving /\ ~stopping))
  /\ status' = "disconnected" /\ killSwitch' = FALSE
  /\ inst' = 0 /\ serving' = FALSE /\ stopping' = FALSE
  /\ tunOf' = [i \in Instances |-> NoTun]
  /\ monitor' = {} /\ posted' = {}
  /\ coreJob' = [i \in Instances |-> NoJob] /\ jobs' = [j \in Jobs |-> NoJob]
  /\ core' = NoTun /\ iface' = NoTun /\ handles' = [t \in Tuns |-> {}]
  /\ disturbed' = FALSE
  /\ UNCHANGED <<prefs, granted, intent>>

Commands ==
  \/ \E k \in BOOLEAN : UserConnects(k)
  \/ UserConsents \/ UserDisconnects \/ UserReconnects \/ RecoverIfExpected

Outside ==
  \/ StickyRestart \/ AlwaysOnStart \/ TogglesKillSwitch \/ Revoked \/ Dies
  \/ \E i \in Instances : NetworkChanges(i)

Coroutine(j) ==
  \/ StartJobRuns(j) \/ CoreStarts(j) \/ CoreFails(j)
  \/ Reports(j) \/ Caches(j) \/ FailsLate(j)
  \/ StopJobRuns(j) \/ ReconnectStops(j) \/ DelayEnds(j) \/ ReconnectStarts(j)

MainThread == Destroyed \/ \E i \in Instances : PostedReconnect(i)

Next == Commands \/ Outside \/ MainThread \/ \E j \in Jobs : Coroutine(j)

Spec == Init /\ [][Next]_vars

\* Native calls return, the looper and the pool make progress.
FairSpec ==
  /\ Spec
  /\ WF_vars(MainThread) /\ \A j \in Jobs : WF_vars(Coroutine(j))

-----------------------------------------------------------------------------
(* Properties                                                             *)

\* Most of them are about services nobody has disturbed since the process began:
\* neither onRevoke() nor an Always-on start came while something was under way, the
\* network did not change between "connected" and the end of the start, and no start
\* failed after its core ran.

\* "when ON, a VPN drop (core fails to start, or a reconnect) must NOT expose
\* the raw network": while the process lives with the kill switch on and a user who
\* has not disconnected, an interface once established stays; unless the next one
\* cannot be set up, which ends the service whatever the kill switch says
\* (SlaveVpnService.kt:481-492).
KillSwitchHolds ==
  [][killSwitch /\ killSwitch' /\ intent = "up" /\ intent' = "up" /\ Up
       /\ inst' # 0 /\ ~disturbed' => Up' \/ (status' = "error" /\ ~prefs'.shouldRun)]_vars

\* "clean TUN teardown after Disconnect": when all has settled after a
\* disconnect, no interface is left to swallow traffic. A duplicated descriptor
\* belongs to the core or to a start job that will give it to the core or close
\* it; a lost one would keep the TUN for ever. Of services not disturbed: a
\* revocation that cancels a start job before it runs loses the duplicate
\* (SlaveVpnService.kt:413, 724-741).
TunnelIsReleased ==
  ~disturbed =>
    /\ Quiet /\ intent = "down" => ~Up
    /\ \A t \in Tuns : "core" \in handles[t] =>
         core = t \/ \E j \in InFlight : jobs[j].kind = "start" /\ jobs[j].tun = t

\* "A deliberate Disconnect clears the flag, so reopening the app cannot
\* silently reconnect": disturbed or not.
DisconnectClearsFlag == intent = "down" => ~prefs.shouldRun

\* "cold-process recovery from the cached config": should the process die
\* while an interface serves the user, the preferences that survive it restore
\* the connection. Until the first core has started, "connected" been published and
\* the configuration committed after it (SlaveVpnService.kt:440-444), there is
\* nothing to restore it from, and a restart gives up. Of services not disturbed: a
\* failure after the core has started clears the flag and lets it run.
RecoveryIsArmed ==
  ~disturbed /\ Up /\ intent = "up" =>
    /\ prefs.shouldRun
    /\ status = "connected" => prefs.cached \/ \E j \in Jobs : At(j, "start", "cache")

\* onRevoke() leaves the state shown and the network monitor as they are; the
\* next two properties are about services it was never called on, nor disturbed.
NeverDisturbed == [](intent # "revoked" /\ ~disturbed)

\* What the tile, the notification and the application show: when all has
\* settled, "connected" means that the core serves the interface Android
\* routes into, and nothing is left "connecting".
SettlesAsShown ==
  NeverDisturbed =>
    [](Quiet => /\ status # "connecting"
                /\ status = "connected" <=> core # NoTun
                /\ core # NoTun => Up /\ core = iface)

\* Connecting comes to an end: startVpn ignores every later start until then.
ConnectingEnds ==
  NeverDisturbed => (status = "connecting" ~> status # "connecting")

=============================================================================
