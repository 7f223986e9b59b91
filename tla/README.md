# SlaveVPN: specifications, model checking and proofs

SlaveVPN is a VPN client in TypeScript and Kotlin. On Windows an Electron
application, on Android a Capacitor application, both drive the mihomo kernel
(an external process on Windows, a linked library on Android) that carries the
traffic. This directory holds TLA+ specifications of the parts of the program
that decide whether the VPN runs, with which profile, where its connections go,
what is kept on disk and what happens when something fails, the TLC
configurations that check them, and TLAPS proofs.

All paths below are relative to `src/`.

## 1. Inventory

| Component | State it keeps | Operations | Hard behaviour |
|---|---|---|---|
| **Engine state machine** `packages/runtime/src/state` | one of eight states | `tryTransition` | an event that comes in the wrong state is dropped silently |
| **Mihomo engine** `packages/runtime/src/mihomo/{MihomoEngine,ProcessManager,ProcessWatcher,MihomoApiClient}.ts` | state machine, process handle, pending stop reason, monitors, current profile, `config.yaml` | `start stop restart updateProfile dispose`, `closeConnection`, the `exit` event | the kernel dies between any two awaits; a kill times out; an API answer is lost; roll back after a failed update, which may fail too |
| **Runtime manager** `packages/runtime/src/RuntimeManager.ts`, `profile/ConnectionProfileFingerprint.ts` | promise chain, `lifecycleRevision`, `connectionDesired`, applied fingerprint, retry budget | `connect disconnect updateProfile dispose`, crash retries | an operation gets its turn after a later request made it obsolete |
| **Recovery coordinator** `apps/windows/src/main/services/RecoveryCoordinator.ts` | `recovering`, timer, attempts, `exhausted`, generation | listens to `stateChanged`, calls `connect()` | its timer and answers race the user |
| **Windows runtime service** `.../services/impl/RuntimeServiceImpl.ts`, `impl/sources/WindowsSystemProxy.ts` | connect and disconnect locks, epoch and revisions, the mode and server shown, the system proxy | `connect disconnect reconnectAfterResume setMode setSelectedProxy notifySubscriptionsChanged dispose` | awaits between reading settings and using them; stored choice rolled back when it cannot be applied |
| **Health and traffic monitors** `packages/runtime/src/mihomo/{HealthMonitor,TrafficMonitor}.ts` | generation, verdict, retry timer | `start stop notifyTrafficSeen`, periodic checks | an answer of an earlier generation |
| **Settings store** `packages/core/src/settings/SettingsStore.ts`, `.../services/JsonFileStorageAdapter.ts` | value in memory, chain of writes, the file | `load patch reset waitForPersistence` | failed and late writes, restart |
| **Subscriptions** `apps/windows/src/main/services/Subscription{Store,AggregatorService,Scheduler}.ts` | index and inputs on disk, caches, snapshot, jobs and timers | add, update, remove, reorder, refresh, invalidate, sign in and out, schedule | edits during a fetch; crash between two writes; a job rescheduled during its run |
| **Routing** `packages/core/src/routing`, `packages/routing`, `packages/config/src/generator`, `RoutingPage.tsx` | mode, rules of the user, scenarios | compose, normalize, optimize, compile | which of several hundred rules wins |
| **Node balancing** `packages/runtime/src/balancer`, `.../services/NodeBalancerService.ts` | switch, timer, samples, chosen node | enable, disable, probe | rounds and waits that outlive a switch |
| **Cabinet and API client** `packages/api/src/client`, `packages/core/src/cabinet` | tokens, the refresh in progress | request, refresh on 401, sign out | many rejected requests, late rejections, rotating tokens |
| **Android VPN service** `apps/android/sample-native/SlaveVpnPlugin/*.kt` | service state, `shouldRun`, preferences, tunnel | start, stop, reconnect, tile, boot, network change, revoke | threads; the process is killed and restarted by the system |
| **Android bridge and pages** `apps/windows/src/renderer/src/{android/bridge.ts,stores/vpn.store.ts}`, `packages/core/src/createCore.ts` | mode, settings, server chosen, what is shown | connect, disconnect, setMode, setProxy, polls | operations overlapping in a WebView that is replaced; polls beside optimistic display |
| **Android mirrored storage** `.../renderer/src/android/adapters/mirrored-string-store.ts` | primary and mirror copy | get, set, remove | a read of the mirror while a write is under way |
| **sing-box engine**, **Safe mode**, **Telegram sign-in**, **Rule providers**, **Node health**, **Generators of DNS and of the rest of the configuration**, **Updates, geo data**, **UI, IPC, localization** | | | not modelled, see section 8 |

How they interact:

```
 Windows                                                    Android
 user / tray / IPC     power monitor   RecoveryCoordinator   pages (vpn.store)
   |      |                 |              |        ^            |    ^ polls
   |      v                 v              v        |            v    |
   |  RuntimeServiceImpl (locks, epoch, revisions)  |        createCore / bridge.ts
   |      ^       |                                 |            |  plugin calls
   v      |       v  connect, update, disconnect    |            v
 Settings,|   RuntimeManager (chain, revision)      |        SlaveVpnService <-- tile,
 Subscr.--+       |                                 |            |  boot, network, revoke
 (disk)           v  start, stop, restart, update   |            v
              MihomoEngine (state machine) ---------+        ClashBridge (core)
                  |  spawn, kill, exit, REST, write          preferences
                  v
              mihomo kernel, config.yaml
```

What must be true of each part:

* *engine*: never two kernels; the profile it reports is the one the kernel
  has loaded and the one on disk; sockets follow the selection; the
  configuration is not overwritten under a live process; every call settles;
  an exit nobody asked for is classified by how the kernel ended, never by a
  stop reason meant for an earlier one;
* *manager*: nothing is started for a user who disconnected; requests take
  effect in their order; an update is ignored only if it is applied already;
  a retry is not lost and the budget is respected;
* *service and recovery*: a disconnect is final; a connection that is wanted
  and fails is retried or given up after the budget; never two recoveries;
  when all has settled the engine works with the stored settings and the
  present subscriptions, and what is shown is what is in use;
* *settings*: a durable register: what a caller was told is stored survives;
* *subscriptions*: the snapshot is that of the present list and account; one
  chain of refreshes per entry, which goes on; a restart loses no addition and
  undoes no removal, but for the source the migration takes (section 6);
* *routing*: a connection goes where the pages say, by the rule of the user
  first; *balancing*: nothing is probed by a timer or chosen while it is off;
* *sessions*: expired access tokens, however many requests meet one, do not
  end a session that can be refreshed;
* *Android*: what is shown is what runs; the kill switch keeps an interface up;
  nothing is left after a disconnect, and only a wanted connection comes back
  after the process died; a chosen mode reaches the tunnel; only the user,
  or what the user turned on, undoes a disconnect; a
  value that was replaced or removed does not come back from the mirror.

## 2. Modules

| Module | Models | Built on |
|---|---|---|
| `RuntimeStateMachine` | `RuntimeState`, `VALID_TRANSITIONS`, `tryTransition` | |
| `VpnEngine` | the contract of an engine with its one owner, abstract | `RuntimeStateMachine` |
| `MihomoEngine` | the engine, its process, kernel and files in detail | `RuntimeStateMachine`; implements `VpnEngine` |
| `RuntimeManager` | the manager over any engine of the contract | `VpnEngine` |
| `WindowsLifecycle` | service, recovery, power monitor and quitting over the manager | `RuntimeManager` |
| `SettingsStore` | memory, file and chain of writes | |
| `DurableRegister` | what the settings promise, abstract | |
| `DurableSettings` | the store over restarts of the process | `SettingsStore`; implements `DurableRegister` |
| `DesiredProfile` | the other half of the service: the profile it asks for and what it shows | `SettingsStore` |
| `Subscriptions` | list, aggregator and scheduler while the application runs | |
| `SubscriptionFiles` | the files of the list over restarts | |
| `RoutingPolicy` | from modes, scenarios and rules to the decision for a connection | |
| `NodeBalancer` | the balancer and its service | |
| `HealthMonitor` | checks, retries and generations | |
| `Sessions` | concurrent requests and the refresh of the session in two clients | |
| `SlaveVpnService` | the Android service, its coroutines and the intents sent to it | |
| `AndroidBridge` | facade, bridge and plugin: the commands sent to that service | |
| `VpnStore` | what the Android pages show | |
| `MirroredStore` | one key of the mirrored storage | |
| `MC...` | values for TLC | the module of the name |
| `MCClientServices` | nine services that share no state, for one run | nine modules |
| `MihomoEngineProofs`, `RuntimeManagerProofs`, `WindowsLifecycleProofs`, `SubscriptionsProofs`, `SlaveVpnServiceProofs`, `DesiredProfileProofs` | theorems | the module of the name, TLAPS |
| `StorageProofs` | theorems about what is stored | `DurableSettings`, `SubscriptionFiles`, `MirroredStore` |
| `ClientServicesProofs` | theorems | `HealthMonitor`, `Sessions`, `NodeBalancer`, `VpnStore`, `AndroidBridge`, `RoutingPolicy` |

The composition is by contract where a part is large: `MihomoEngine` is shown
to implement `VpnEngine` (property `ImplementsContract`), and the manager and
the lifecycle use `VpnEngine` only. The detailed engine has tens of thousands
of states by itself; the manager sees its few public states and still
everything a kernel, a disk and an API can do to them. `DesiredProfile` uses
the chain of writes of `SettingsStore` step by step, because the service waits
for it between reading and applying a choice.

### MihomoEngine

A call of the engine is an asynchronous method; JavaScript runs it to the next
`await` without interruption. `pc` names the await at which the current call is
suspended, and an action is the stretch of code between two awaits. The owner
waits for one call to settle before it makes the next (the manager's chain),
so there is at most one; between its steps the outside acts: `Die` (the kernel
dies), `Exit` (its `exit` event is delivered, `onProcessExit`), `OpenSocket`
and `CloseSocket`. `ClassifyExit` is the reason that event carries: the pending
one, else "intentional" for a kernel ended by TERM, by KILL or with code 0, else
"crashed". The engine's own state ignores it (outside a stop it becomes
`crashed`); the manager retries after the reason "crashed" only, so in
`RuntimeManager` an `EngineCrashes` may schedule a retry or not.

| Variable | Code |
|---|---|
| `fsm` | `RuntimeStateMachine._state` |
| `held`, `pending` | `ProcessManager.process`, `ProcessWatcher.pendingStopReason` |
| `os` | the mihomo processes: alive, dead with an exit not delivered, free |
| `kernel` | what the live kernel has loaded, selected and open |
| `disk` | `config.yaml`, or none or a torn file |
| `profile`, `cand`, `prev`, `backup`, `allow`, `reason` | `currentProfile` and the locals of the methods |
| `job` | which call it is, and inside `updateProfile` which phase |
| `asked`, `settled` | history, read only by properties |

A profile is a hard part (what needs a restart: TUN, port, stack), a soft part
(what a reload applies) and a selected target. An API request may be refused,
done, or done with its answer lost, and a write may fail or tear. `job =
"refused"` is a reload given up when the backup could not be read.

### RuntimeManager

`queue` is `profileUpdateTail`: operations not settled, oldest first. A
revision number is not modelled as a number: an operation is `fresh` until a
later request increments `lifecycleRevision`, which is all the comparison can
tell. `sleepers` counts the retries asleep with the current revision; a retry
asleep with an older one does nothing when it wakes. A fingerprint stands for
the profile it identifies. `latest` is history: the profile of the last request
unless it was refused.

### WindowsLifecycle

`connecting` is the `connect()` that holds `connectLock`, `fresh` says that the
epoch it remembers is still the current one; `resuming` is
`reconnectAfterResume` waiting for its disconnect; `recovery` is the
coordinator; `proxy` the Windows system proxy; `intent` is history: what the
user asked for last ("asked" until the manager has it, then "up").

Two things need care. *Microtasks*: when an operation of the chain settles,
the next one begins before the event loop delivers a command, a timer or an
`exit`. The guard `NextEvent` says so; without it the model would show
interleavings Node.js cannot produce. *Who hears what*: `stop()` announces the
state it finds, even when it does not change; `dispose()` removes the listeners
first. `Hears`, `HeardStopping` and `HeardStopped` follow the events the code
emits, not the changes of state.

### DesiredProfile

`ops` are the commands under way, each `at` the await it is suspended at;
`tail` is `profileResolutionTail`, in which the applications of the profile
take their turns; `discovery` the one `refreshActiveProxy()` whose answer can
still count. `connectionEpoch`, `selectionRevision` and `modeRevision` are only
ever compared with the value a command captured; a command keeps the outcome
of that comparison (`ep`, `sel`, `rev`, `asel`) and incrementing a counter
clears it in every command. The manager is reduced to running an accepted
profile or refusing it. `trouble` is history: whether an application failed
since the last start, and whether it was the last one. `NextEvent` has the same
meaning as above.

### Settings

`SettingsStore` has the value in memory, the file and the chain of writes: a
patch changes memory at once and queues a snapshot. `DurableSettings` adds the
process that may end at any moment, tells snapshots apart by the number of
their patch, and records in `told` the newest one a caller was told is stored.
`DurableRegister` says what that is worth: a value, a stored one that is never
older than what was acknowledged, and a restart that goes back to the stored.

### Subscriptions and SubscriptionFiles

`op` is the operation of the aggregator under way, `waiting` its tail; the
user edits the list, signs in and signs out at any await of it. `same` is the
outcome of comparing `invalidationRevision` with the captured one. `jobs` and
`timers` are the scheduler's, `notifying` the jobs that wait for the engine to
take what they fetched. The contents of a source are a member of `Data`.

`SubscriptionFiles` has an index and one file per entry, written one after the
other by synchronous calls, so that only the end of the process (`Ends`) comes
between two; it may tear the file being written. An index that cannot be read
is treated as the code treats it, and the migration from the older format runs
at each start with an empty list. `kept` and `gone` are history: the sources
whose addition, or whose removal, was the last to return.

### RoutingPolicy

A rule has a type, a value, an action and a place: its priority and, among
equals, the bucket that the normalizer puts first. A bundled list of many
domains, or a category of geosite.dat, is one value that stands for its
members, and a connection carries the lists its name is in. `Compiled` is the
configuration the code produces from mode, scenarios and rules; `Layers` is
written from what the pages and comments promise, as an order of who decides,
and `RoutesAsPromised` compares the two for every connection of the instance.
`Earlier` are rules of the user for other sites, and `EarlierApps` applications of
the split list before that of the connections: they only move the rules that are
modelled to later places, up to and past those of other layers. Rules are valid (the pages give them UUIDs as
identifiers). `loaded` says that the kernel runs what the present settings
compile to. DNS, the ports and the servers themselves are left out.

### NodeBalancer

A round of probes is recorded as a whole when its slowest probe has answered.
Of a node's samples only the last matters to whether it can be chosen; which
of the available ones has the best score is left open, so the property holds
for any scoring. The chosen node is only told to the pages: nothing makes the
engine select it.

### HealthMonitor, Sessions, MirroredStore

* `HealthMonitor`: `checks` are the generations with a check under way, `retry`
  the generation its timer was armed for; a verdict carries the check it comes
  from.
* `Sessions`: requests move through send, refusal, refresh and resend; the
  server takes each refresh token once when it `rotates`. `Shared` is
  `RefreshLock` in the API client. `excused` is history: a logout, a lost
  answer or a real rejection.
* `MirroredStore`: `mutations` are on their way to the mirror, `reading` is the
  one read that all callers share, `edition` the generation of the key.
  `doubtful` is history: a write was refused, or a read passed one under way,
  in which cases the code does return what was removed (section 6).
  `getValidated()` and its recovery from the mirror are not modelled.

### SlaveVpnService

Commands run on the main thread, coroutines on the IO pool; they share fields
without a lock, and a coroutine inside native code cannot be cancelled. `jobs`
holds the coroutines in flight, each `at` the point where another thread can
matter: launched (a cancel still stops it), in the core, reporting, caching, in
`delay(400)`, resumed. Between any two of them the process may die.

| Variable | Code |
|---|---|
| `prefs` | the preferences: `shouldRun`, whether a configuration is cached, `killSwitch`; alone survive the process |
| `status`, `killSwitch` | `currentState`, `killSwitchEnabled` of the companion object |
| `inst`, `serving`, `stopping`, `sticky` | the service object, not destroyed, `stopSelf()` called; a null intent to come |
| `tunOf`, `coreJob`, `monitor`, `posted` | fields of each service object; its posted `reconnect()` |
| `core` | the TUN of the running core (`ClashBridge.running`) |
| `iface`, `handles` | Android: the interface traffic goes into, and who holds a descriptor of it |
| `granted`, `intent` | the user's consent; history: what the user asked for last |
| `disturbed` | history: in this process a revocation or an Always-on start came while something was under way, the network changed between "connected" and the end of the start, or a start threw after its core ran |

Reads of fields between two such points are one step with the change they
decide. The set-up of an interface may throw at any start, before or after the
interface is replaced; that `injectTunFd` fails on the text of a configuration it
has compiled is left out. Most properties are about services not `disturbed`,
until the process dies: section 6 says what the code does then. Split tunnel, selected proxy, notification texts and the traffic poll
change nothing the properties see.

### AndroidBridge and VpnStore

`AndroidBridge` has the operations of the user, each with the awaits of
`createCore.ts` and `bridge.ts`, over the commands they post to the service;
the service is taken at the level of those commands, handled in order. The
WebView may be replaced (operations under way end, their posted commands stay),
the process may die and the device may boot. The pages connect by themselves
when they start and 30 s later if the user has turned that on (`Bootstraps`,
`Launches`); the tile, the boot receiver, an Always-on start and a restart after
a death start the cached configuration. A mode is chosen by `setMode`, which
stops and connects a running tunnel, or by a patch of the settings
(`ModeIsPatched`), which leaves it alone and which no page sends at present.
`behind` and `off` are history. `behind`: a mode that the tunnel does not have
for a reason the code knows (an operation failed, no tunnel ran, the settings
were patched, or an older configuration came after it, as the cached one may);
it is what `ModeTakesEffect` excuses, until a tunnel connects in the mode chosen
last. `off`: a disconnect after which neither the user nor an automatic connect
the user had turned on has come.

`VpnStore` has what the pages show (`shown`, `shownProxy`), what each poll saw
last (`polled`, `polledProxy`), and what it would see. A selection is taken or
refused by the core before its answer reaches the bridge; the compilation of a
connect may replace a server that is gone by the automatic group, and a start
may be refused the server it was told. `accepted` is history.

### MCClientServices

Nine services share no state; running them one at a time (`part`) in one
specification explores each fully and not their product.

Every module with larger state has a `TypeOK` (`MihomoEngine`,
`RuntimeManager`, `WindowsLifecycle`, `SlaveVpnService`, `DesiredProfile`,
`Subscriptions`). All of them hold and are theorems (section 5), but that of
`Subscriptions` in full, of which the part its proofs need is one; each `TypeOK`
can be added to the `.cfg` of its module.

## 3. Runs

Distinct states are approximate.

| Run | Question | States |
|---|---|---|
| `engine` | All properties of the engine under every call of its interface, and that it implements the contract. | 33 000 |
| `manager_auto_reconnect` | Retries: never for a user who left, never lost; a disconnect holds. | 30 000 |
| `lifecycle_commands` | User, power monitor, recovery, settings and quitting interleave over one manager: disconnects are final, one recovery within its budget, requests in order, no refused profile recorded. | 29 000 |
| `lifecycle_recovery` | A failure is retried, a recovery ends. | 930 |
| `runtime_service` | Once all has settled, the engine runs the stored settings, and the pages show what runs. | 2 700 000 |
| `subscriptions` | The snapshot is current, one chain of refreshes per entry, and refreshed for ever. | 400 000 |
| `client_services` | The nine services of `MCClientServices`. | 2 340 000 |
| `android_service` | All properties of the Android service for a user who waits for each command; process death, restarts, roaming, revocation, Always-on, failed set-ups and the kill switch at any time. | 230 000 |
| `lifecycle_two_disconnects`, `subscriptions_logout`, `android_disconnect_race`, `android_same_error` | *violations*, see section 6. | |

What the properties of the last runs say, in the order of the inventory:

| Property | About |
|---|---|
| `RunsWhatIsAsked`, `ShownIsReal` | after modes, selections, profiles, subscription changes, refusals, failed writes and crashes in any order, engine, settings and pages agree |
| `ImplementsRegister` | what a caller was told is stored survives a restart |
| `SnapshotIsCurrent`, `OneChainPerEntry`, `RefreshedForever` | edits at any await of the aggregator; a job rescheduled while it runs |
| `ListSurvives` | the process ends between any two writes: no addition lost, and no removed source back but the one that the migration creates again at every start with an empty list (section 6) |
| `RoutesAsPromised` | first the extras of Android, then the user, the local network, scenarios by name, by country, the default of the mode |
| `BalancesOnlyWhenOn` | switch, waiting calls and rounds under way |
| `VerdictIsFresh` | a verdict is of the present start of the monitor |
| `SessionIsKept` | many refusals at once, one refresh |
| `NothingResurrected` | reads of the mirror against writes |
| `ModeTakesEffect`, `OffStaysOff` | a change of mode stops, waits and starts, with commands of the user, the tile and the network in between |
| `NoRejectedClaim` | a server shown is the last one whose selection did not throw or the one a poll found, over refusals, failed rollbacks, resets and late answers; what it leaves open is in section 6 |

Bounds and why they suffice:

* `Pids` two: a second kernel needs a second identity, a third adds nothing;
  an identity is reused once its exit was delivered.
* `Hards`, `Softs`, `Targets` two each: a change, and back. `Requests` holds a
  change of selection, of the soft part, of both and of the hard part, with a
  target that is offered, one that has gone, and none.
* `MaxQueue` 2 (manager): an operation running and one waiting that becomes
  obsolete; a sleeping retry is kept beside the queue. In `WindowsLifecycle` the
  locks of the service admit at most one operation of each kind, so 4 never
  binds.
* `MaxAttempts` 2, `MaxRecovery` 2: a budget that is used, then spent.
  `MaxSleepers` 2: two crashes before the first retry wakes.
* `Profile` two where a profile may be replaced, else one.
* `KillConfirms`, `MayDisconnectAgain` and `MayUpdate` select what happens in a
  run of the lifecycle: a kill that times out, a second disconnect after a
  connect has overtaken the first, which still waits, a settings change.
  `lifecycle_commands` has all but the second, `lifecycle_recovery` only the
  second, because the properties it checks fail with the other two (section 6).
* `DesiredProfile`: two modes, a server and the automatic group, two contents
  of the subscriptions of which one lacks the server, two commands at a time
  beside the instantaneous ones: one to be obsolete and one to make it so.
  `MayChangeWhileStarting = FALSE` lets commands wait while the engine starts,
  because the property fails otherwise (section 6). A connect that waits for a
  disconnect has its epoch checked after the wait, and not before as in the code
  (`RuntimeServiceImpl.ts:643`): a second disconnect during the wait, which the
  code then overlooks, is the subject of `lifecycle_two_disconnects`.
* `Subscriptions`: two entries, one at the cabinet's host, one with servers
  that the cabinet has as well; one content besides "no servers"; two edits,
  which can fall into one operation; one operation waiting for another.
* `SubscriptionFiles`: three entries, two of one source; every index of an
  earlier session. `DurableSettings`: five patches between failures.
* `RoutingPolicy`: two rules of the user, for a site and a host below it, exact
  or not, behind 149 others, every mode, any set of three scenarios, one missing
  category; 40 applications before the listed one. 149, and 40 where the rules
  start from the first, are the largest numbers for which the property holds
  (section 6); the theorem has them with every smaller one.
  A connection is in at most two lists.
* `NodeBalancer`: two nodes, three rounds. `HealthMonitor`: six starts and
  stops. `Sessions`: three requests, six access tokens; the cabinet's server
  does not rotate (section 6). `MirroredStore`: four changes, two reads per get.
* `AndroidBridge`: two modes, two operations, two commands on their way.
  `VpnStore` needs no bound.
* `SlaveVpnService`: `Tuns` two, `Jobs` two (three each for the impatient user): a
  hand-over holds two interfaces, and a revocation, an Always-on start or a posted
  reconnect can meet a start or a stop. `MaxInstances` 2: a service destroyed and
  created again in one process; a process death starts anew. `Events` selects what
  happens besides commands. Without `"impatient"` the user acts when nothing is
  under way (`Quiet`); the system never waits, revocations and Always-on included.

`CHECK_DEADLOCK FALSE` everywhere: the system may really stop, after
`dispose()`, or when the user, who owes nothing, does nothing more.

## 4. Fairness

* *MihomoEngine*: `WF(Work)`, because every await has a timeout (API requests,
  probes, the two stages of a kill), and `WF(Exit(p))`: the operating system
  reports a dead child. No fairness for `Die`, sockets or calls.
* *RuntimeManager*: `WF(Chain)`, microtasks; `SF(EngineAnswers)` and
  `WF(EngineProgresses)`, because every call of the engine settles, which is
  `CallsReturn` of `MihomoEngine`; strong since a call in progress may keep
  changing state between. `SF(Wakes)`, a timer fires: strong only because the
  bound `MaxQueue`, which the code does not have, can disable it.
* *WindowsLifecycle*: the same, and `SF(Preparation)` (fetches time out) and
  `SF(RecoveryFires)` (a timer). Strong because microtasks hold an event up
  again and again, but each time only until the event loop turns.
* *Subscriptions*: `WF(Microtask \/ Reply)`: promises settle, fetches have a
  timeout. `SF(Timer(id))`: a timer fires; strong because of the bound
  `MaxWaiting`, which the code does not have. `SF` of a job that was waiting for
  the engine, for the same reason as `SF(Preparation)`.
* *SlaveVpnService*: `WF` of each coroutine (native calls return, the pool has
  threads) and of the main looper. Not of `StickyRestart`: phones delay it.
* The other modules state safety only. Nothing obliges the user, the power
  monitor or the settings to act.

## 5. Proofs

TLAPS checks, for every value of the constants:

| Theorem | Statement | Argument |
|---|---|---|
| *Engine* `TypeCorrect` | `[]TypeOK` | `TypeInv`: which call may be suspended where (`JobOK`) and which locals it still needs (`LocalsOK`). Flags apart, since they are Boolean |
| `SingleKernel` | `[]NoOrphan` | `ProcInv`: a process not free is the held one, a live kernel has a live process, and `spawn` is reached only without one |
| `ConfigGuarded` | `ConfigGuard` | writes of a start happen with no process, others belong to a reload |
| `CleanlyClassified`, `NobodyForgotten` | `[]CleanClassification`, `[]NotRunningMeansTold` | `TellInv`: through every error path the pending reason and the processes asked to die agree, so none is left for a process nobody asked to die |
| `SelectionBacked` | `[]RunningSelectionIsBacked` | `BackedInv`: a selection was confirmed while the process was held |
| `HonestState` | `[]StateIsHonest` | the two before, and `MonInv`: at which awaits the monitors run |
| `ServesItsProfile` | `[]RunningMatchesProfile` | `MatchInv`: what file, kernel and profile have in common at each await of start, hot switch, reload and rollback |
| `SocketsConverge` | `[]EgressConverges` | inductive beside `TypeInv`, `ProcInv`, `TellInv` and `BackedInv`: closing is the last step of an update in place and of its rollback, and later connections go through the selection |
| `EngineKeepsContract` | `Spec => ImplementsContract` | `StageInv`, `LocalInv`: what state, process and locals say at each await; then each action maps to a step of `VpnEngine` or a stutter (`Kept`) |
| *Manager* `OnlyWantedStarts` | `StartsOnlyIfDesired` | `DesiredInv`: a fresh operation of the chain, or a sleeping retry, exists only for a user who is connected; every request makes the rest stale |
| `HashFollowsEngine` | `[]HashIsApplied` when `~AutoReconnect` | no retry is ever in the chain, and each answer sets profile and fingerprint together |
| `RequestsTakeEffectInOrder` | `[]LatestRequestWins` when `~AutoReconnect` | `LatestInv`: the newest operation of the chain is fresh and carries the last request; a start under way works with the profile of its operation |
| `ManagerIsTyped` | `[]TypeOK` | `TypedInv` beside `DesiredInv`: a start in the chain has a profile, and a queued retry finds that of the engine unless the manager is disposed |
| *Lifecycle* `DisconnectWins` | `[]DisconnectIsFinal` when `~MayDisconnectAgain` | `EpochInv`: a connect with a current epoch, or a resume not superseded, exists only while the user is not disconnected |
| `LifecycleImplementsManager` | `LifecycleSpec => Spec` | each action is one of the manager, or leaves its variables alone |
| `LifecycleKeepsOrder` | `[](LatestRequestWins /\ HashIsApplied)` | by that refinement |
| `RecoveryIsSingle` | `[]OneRecoveryAtATime` | `InOrder`: timer, attempt and exhaustion exclude each other, through every event the coordinator hears |
| `RecoveryStaysPending` | `[]RecoveryIsPending` when `~MayUpdate` | `ShapeInv`: what the chain may hold; `PendingInv`: a cycle waits for its timer, its connect (still preparing, or the head of the chain), or the disconnect that ends it |
| `LifecycleIsTyped` | `[]LifecycleTypeOK` | the types of manager and engine by the refinement, the budget of a recovery by `InOrder`, the rest of the service by `ServiceTypes` |
| *Profile* `EngineFollowsSettings` | `[]RunsWhatIsAsked` when `~MayChangeWhileStarting` | `ProfileInv`: the queued writes end with the settings and are those of the commands that wait (`WriteInv`); each application is busy in its turn (`TurnInv`), one at the engine (`EngineInv`), and a connect finds only outdated commands (`ConnectInv`, `RestartInv`, `EpochInv`); contents read too early are followed by a notification (`ContentsInv`); hence a running engine has the profile of the present settings, or a command that nothing outdates will apply it (`ServeInv`) |
| `ShownServerIsReal` | `[]ShownIsReal` when `~MayChangeWhileStarting` | `DisplayInv`, inductive beside `ProfileInv`: no application falls back while another is at the engine (`AloneInv`), one selection on the way counts (`LatestInv`), and a server that has gone was replaced by AUTO (`AutoInv`); hence what is shown, or about to be by a discovery, is what is chosen and used, or a selection, a fallback or a saved profile on its way will correct it (`ShownInv`); the mode shown is that of the application at the engine, or one will read it again (`ModeInv`) |
| `ProfileIsTyped` | `[]TypeOK` when `~MayChangeWhileStarting` | `WorkInv`: a running engine works with a profile, which its listener and the discovery rely on; it and the types of what is shown (`ShownTypes`) are inductive beside `ProfileInv` |
| *Settings* `DurableInvHolds` | `[]DurableInv` | the queued snapshots are the last ones made, in their order; the file is at or before all of them and not behind what was told |
| `StoreImplementsRegister` | `DurableSpec => ImplementsRegister` | each action maps to a step of the register or a stutter; `DurableInv` supplies that a write stores a newer value and that an empty chain with no failure means the file is current |
| *Subscriptions* `RefreshesAreSingle` | `[]OneChainPerEntry` | `ChainInv`: a run of a job waits once, or is under way, or waits for the engine, and then its timer is not armed |
| `SnapshotIsOfPresentList` | `[]SnapshotIsCurrent` | `CabinetInv`, `RebuildInv`, `FreshInv`: a rebuild that nothing invalidated knows the present list; whatever is invalidated leaves `dirty`; the cabinet's servers are those of the stored account |
| `FilesKeepTheList` | `[]ListSurvives` | `FilesInv`: at every write of load, addition and removal, every source owed can be read from memory and from disk, and no removed one is left in either, the migrated one apart |
| *Android* `ServiceIsTyped`, `DisconnectIsRemembered`, `DeathIsSurvived`, `DisconnectReleasesTunnel` | `[]TypeOK`, `[]DisconnectClearsFlag`, `[]RecoveryIsArmed`, `[]TunnelIsReleased`, each but the first under `Waits` | `ServiceIInv`: whatever disturbs the service, a new process has done nothing, without consent nothing is up, and a disconnect leaves nothing that connects again (`LastingInv`); while nothing has, `ServiceInv`: one coroutine and one service object at a time (`JobInv`, `ObjectInv`), each open descriptor has an owner (`DescriptorInv`), no core runs between two connections (`CoreInv`), and what the user's last word means (`IntentInv`) |
| `KillSwitchKeepsTunnel` | `KillSwitchHolds` under `Waits` | no step from `ServiceInv` leaves a wanted connection without an interface, unless the next one could not be set up |
| `BridgeStaysOff`, `ModeReachesTunnel` | `[]OffStaysOff`, `[]ModeTakesEffect` | `OffInv`: after a disconnect, and until the user or an automatic connect the user turned on, nothing is under way that starts; `ModeInv`: the last mode is saved or being saved, and a tunnel in another is about to be stopped |
| `StoreClaimsNothingRejected` | `[]NoRejectedClaim` | inductive as it stands, over every order of clicks, answers and polls |
| `MirrorResurrectsNothing` | `[]NothingResurrected` | `MirrorInv`: the mirror is at, or on its way to, the newest value, and a read not overtaken began with no write under way |
| *Services* `HealthIsOfThisStart` | `[]VerdictIsFresh` | every check is of the present generation or an earlier one, and of an earlier one once stopped |
| `SessionOutlivesExpiry` | `[]SessionIsKept` under `OnlyProvidersRotate` | `SessionInv`: one refresh where it is shared, and every refresh under way carries the usable token |
| `BalancerIsQuiet` | `BalancesOnlyWhenOn` | a timer is armed, and a round begun, only while it is on |
| `RoutingAsPromised` | `[]RoutesAsPromised` when `Earlier + MaxRules <= 151` and `EarlierApps <= 40` | `RoutingInv`: the rules of the user are within their number, and of the base scenarios at most one is on. The promised layers are numbered by place; every compiled rule belongs to one layer and has its priority there, the optimizer and the filter of categories keep a rule of each layer that has a say, and a finite set of numbers has a least one: so the first matching rule is of the first layer that has a say. No induction over the list of rules is needed, since the model takes the minimum of a set |

The assumptions on constants are those named in the modules; TLC evaluates them
on each run. They say that "none" values are none of the others, that bounds
are natural numbers, and, for the lifecycle, that the manager does not retry
(`AutoReconnect = FALSE`, as `bootstrap.ts:98` sets it). The hypotheses of the
theorems are needed, and TLC shows what happens without them:

* `AutoReconnect = FALSE`: a retry that falls back to AUTO does not touch the
  fingerprint, and a retry may outlive a request (`RuntimeManager.ts:169`);
* `~MayDisconnectAgain`: `lifecycle_two_disconnects`;
* `~MayUpdate`: a change of settings at the right moment leaves the coordinator
  believing in a recovery (section 6);
* `~MayChangeWhileStarting`: a setting changed during a start is not applied
  (section 6);
* `Waits`: the user of the Android service acts when nothing is under way;
  `android_disconnect_race` and section 6 show what an impatient one meets. The
  system (process death, restarts, roaming, revocation, Always-on) never waits,
  but for `DisconnectClearsFlag` the properties speak of services it has not
  `disturbed`;
* `OnlyProvidersRotate`: the cabinet's client shares no refresh (section 6);
* `Earlier + MaxRules <= 151`: the 152nd rule of the user reaches the priorities
  of the scenarios (`RoutingPolicyManyRules`, section 6). `EarlierApps <= 40`: the
  42nd application has that of the user's second rule (`RoutingPolicyManyApps`).

Only model-checked:

* liveness: `CallsReturn`, `CrashIsRetried`, `DisconnectHolds`,
  `FailureIsRetried`, `RecoveryEnds`, `RefreshedForever`, `SettlesAsShown`,
  `ConnectingEnds`. It needs fairness and ENABLED, which the prover does not do;
* the type of `Subscriptions` in full: its lists are filtered by recursive
  operators of the library, and what those return for every list is an
  induction over data. `Typed`, the part of the type that the other invariants
  need, is proved.

## 6. Findings

Each of the first four has a run; its property quotes what the repository says.

1. `lifecycle_two_disconnects`: a second Disconnect after a Connect, while the
   first still waits, is absorbed by `disconnectLock`: the VPN starts.
2. `android_disconnect_race`: `reconnect()` sets `shouldRun` without asking
   whether the user has disconnected since the network change that posted it.
3. `subscriptions_logout`: a logout clears what is stored of the account, but
   the aggregator goes on with the servers it has cached of it.
4. `android_same_error`: two attempts that fail with the same message within
   one poll leave the pages on "connecting" (`bridge.ts:926-938`).

The next ones have a configuration file of their own; TLC refutes the property
named, e.g. `tlc -config WindowsLifecycleWake.cfg MCWindowsLifecycle`
(`NodeBalancerClaims` and `SlaveVpnServiceClaims` list several; TLC stops at the
first it refutes unless `-continue` is given):

| Configuration, module | Property | What happens |
|---|---|---|
| `MihomoEngineSilentDeath`, `MCMihomoEngine` | `RunningHasProcess` | the exit during `starting` is dropped by the state machine; if it falls into `getVersion`, `start()` succeeds over a dead kernel (`MihomoEngine.ts:95`, `:483`) |
| `WindowsLifecycleWake`, `MCWindowsLifecycle` | `ConnectionIsKept` | after a wake-up a failing preparation of `connect()` leaves the VPN down; nobody retries, since the disconnect before it made the connection undesired (`RuntimeServiceImpl.ts:702`) |
| `WindowsLifecycleExit`, `MCWindowsLifecycle` | `ProxyIsOffAfterExit` | quitting while connected leaves the system proxy set (`MihomoEngine.ts:331`) |
| `DesiredProfileTwoSelections`, `MCDesiredProfile` | `SelectionIsRestored` | two selections that are both refused: the second restores the first, which was never in use (`RuntimeServiceImpl.ts:829`, `:838-841`) |
| `VpnStoreSelection`, `MCVpnStore` | `SelectionPersists` | a server selected live, or while connecting, is lost when the core starts or a network change reconnects from the cached bundle (`SlaveVpnService.kt:444`, `:595`, `:620`; `SlaveVpnPlugin.kt:282` says otherwise) |
| `RoutingPolicyManyRules`, `MCRoutingPolicy` | `RoutesAsPromised` | the priority of a user's rule is 50 plus its number; from the 152nd on (the page allows 200) it shares the bands of the scenarios and may lose to the ads of `roscomvpn-default`, against `composeRoutingPolicy.ts:33-36` |
| `RoutingPolicyManyApps`, `MCRoutingPolicy` | `RoutesAsPromised` | the applications of the split list have the priorities from 10 on, without a limit; the 42nd comes after the first rule of the user, which then decides for it, although the list is to hold whatever the rules say (`composeRoutingPolicy.ts:189-196`) |
| `RoutingPolicyClaims`, `MCRoutingPolicy` | `LocalStaysLocal` | on Windows a listed application of the split mode reaches the local network through the tunnel, against "always direct regardless of mode" (`ConfigGenerator.ts:386`) |
| the same | `AdsAreBlocked` | the ad block (700) comes after the Russian sites of a bypass (500), against `AdBlock.ts:5`: `mc.yandex.ru` goes through as part of `yandex.ru` |
| `SlaveVpnServiceClaims`, `MCSlaveVpnService` | `NoDescriptorIsLost` | `onRevoke()` while a start job is launched but has not begun: `onDestroy` cancels it, and the descriptor duplicated for the core is neither adopted nor closed (`SlaveVpnService.kt:413`, `:724-741`), the case `:454-457` closes it for |
| `SlaveVpnServiceClaims`, `MCSlaveVpnService` | `NothingIsExposed` | `establish()` or `dup()` throws in a reconnect under the kill switch: the catch closes the TUN and clears the flag without reading `killSwitchEnabled` (`:481-492`), against `:93-96` |
| `NodeBalancerClaims`, `NodeBalancer` | `SamplesMoveOn` | a slow round that began earlier is recorded later, so an old success outlives a fresh failure, which `NodeBalancer.ts:139` says it must not |
| `NodeBalancerClaims`, `NodeBalancer` | `FreshNames` | the names are asked for once, against "a fresh node list is picked up on every enable" (`bootstrap.ts:206`) |
| `NodeBalancerClaims`, `NodeBalancer` | `SavedIsDone` | nothing enables the balancer at the start of the application, whatever is stored; an enabling overtaken by a disable still stores TRUE |

Seen by changing a constant:

* with `AutoReconnect = TRUE`, `manager_auto_reconnect` violates
  `LatestRequestWins`: a retry starts the engine with the profile that was
  applied last, although a later request was dropped or refused meanwhile
  (`RuntimeManager.ts:169`; Windows turns the retries off);
* with `KillConfirms = FALSE`, `lifecycle_recovery` violates `FailureIsRetried`:
  a start refused for an old process that is not confirmed dead emits no event,
  so nobody retries (`MihomoEngine.ts:61`);
* with `MayUpdate = TRUE` it violates `RecoveryIsPending`: a disconnect that
  waits behind a profile update and is overtaken by a connect is never seen by
  the coordinator, which then believes a recovery is under way
  (`RecoveryCoordinator.ts:57`); found by the attempt to prove the invariant,
  whose theorem therefore says that no setting changes;
* with `MayChangeWhileStarting = TRUE`, `runtime_service` violates
  `RunsWhatIsAsked`: a change made while the engine starts is stored and shown
  but not applied (`RuntimeServiceImpl.ts:727`, `:834`, `:873`);
* with `Setups <- MCAllSetups`, `client_services` violates `SessionIsKept`: the
  cabinet's client has no lock, so two refreshes would spend one rotating token;
* without `doubtful`, `NothingResurrected` fails: a get while a removal is
  queued restores the removed value (`readMirror` does not wait for pending
  mutations, against `mirrored-string-store.ts:33-35`), as do a failed mirror
  write and a full localStorage;
* with `"impatient"` the other properties of the Android service but its type
  fail too: a disconnect that cancels a coroutine not yet begun loses the
  core's descriptor, so the interface stays; one that meets a running start
  leaves the core running; a stop that runs late ends the core of the next start.

Seen while modelling, which the histories or the scope of a property excuse:

* *Engine and manager*: a kernel that somebody else ends with TERM or KILL, or
  that ends with code 0, is classified as "intentional" (`ProcessWatcher.ts:59-65`)
  and never retried by a manager with `autoReconnect` (`RuntimeManager.ts:44`),
  though the engine's state is `crashed`; the recovery of Windows goes by the
  state. `CrashIsRetried` is about the retries that are scheduled.
* *Windows service*: a failed disconnect leaves the system proxy at a dead port
  (`RuntimeServiceImpl.ts:263`); an applied profile and a crash leave
  `activeProxy` as it was; a discovery during an update that is rolled back
  shows the tentative server; a mode whose update fails stays stored.
* *Android service*: `onRevoke()` leaves `currentState` "connected" and the
  network callback registered (`SlaveVpnService.kt:734`): a later start is
  ignored, and a reconnect posted on the way to `onDestroy` leaves it
  "connecting". `SettlesAsShown` and `ConnectingEnds` are about services never
  revoked. The core serves from `ClashBridge.start` on, but until `cacheConfig`
  has committed (`:421-444`) a first connection cannot be restored: if the process
  dies in that window, the restart gives up and clears the flag (`:353-356`). An
  exception after the core has started (`:445-451`) closes the service's side
  and clears the flag, or shows "error" under the kill switch, while the core goes
  on. A network change between "connected" and the end of the start posts a
  `reconnect()` that may overtake the commit. An Always-on start amid a disconnect
  has its core stopped by the late stop.
* *Android bridge*: `maybeAutoConnect` is to run once (`vpn.store.ts:122-123`) but
  runs at every start of the WebView, and again 30 s after it: the timer of
  `App.tsx:45` turns `timedOut` true also when the pages have long started, and the
  effect depends on it (`App.tsx:51-78`). With auto-connect on, a disconnect before
  that is undone; `OffStaysOff` counts it as wanted. A mode sent to `settings.set`
  (`bridge.ts:1081-1107`) is not applied to a running tunnel. A disconnect in the 400 ms and the compilation of a
  `setMode`, of a changed setting or of reloaded rules is undone by the connect
  that follows (`createCore.ts:97-111`, `bridge.ts:161-168`); a mode chosen
  while connecting is not applied; a failed compilation leaves the VPN down,
  since it was stopped before; the tile, the boot and a recovered connection
  start the mode that was cached at the last connect; `profiles.apply` stores a
  mode that `currentMode` does not follow, although `bridge.ts:1238-1240` says
  it takes effect on the next connect.
* *Android pages*: a selection made while no core runs is accepted and shown; if
  the core refuses it at its start, that is only logged
  (`SlaveVpnService.kt:432-439`), and if the compilation replaces it by the
  automatic group (`bridge.ts:389-392`), the store is not told. The pages then show
  a server that is not used until a poll finds another than the poll before, against
  `bridge.ts:376-377`. `NoRejectedClaim` is about what a selection answers.
* *Settings and subscriptions*: a settings file that cannot be read is replaced
  by the defaults at the next patch; a refresh that overlaps a structural edit
  is dropped; a first fetch that fails counts as empty until it expires; a torn
  index loses the list; the migration creates a removed entry again at every
  start with an empty list (`SubscriptionStore.ts:78-79` calls it one-shot).
* *Sessions*: the API client ends the session at any failure of a refresh, that
  of the network included; a refresh under way undoes a logout.
* *Routing*: the custom mode with add-ons alone sends the rest directly; a
  change of scenarios is not applied to a running tunnel; a rule added before
  the page has loaded the saved ones replaces them.
* *Balancer*: the chosen node is shown as active but never selected by the
  engine, and stays when all nodes fail.

## 7. Plan

The order is by how much depends on the part.

1. *Done*: engine, contract, manager, lifecycle, the profile of the service,
   settings with their register, subscriptions and their files, Android service,
   bridge, pages and mirror, sessions, health monitor, routing, balancer; the
   theorems above.
2. Every safety property the passing runs check is proved. What is left to prove
   is the full type of `Subscriptions` (section 5) and, for the modules to come,
   the same as for the present ones.
3. `SingboxEngine` against `VpnEngine`: its kill settles after SIGKILL without
   a confirmed exit, so `NoOrphan` is in question; no application selects it yet.
4. `SafeMode`, `RuleProviders`, `NodeHealthTracker`, `TelegramAuth`.

## 8. Not modelled

* *sing-box engine*: present but not wired to either application (plan, 3).
* *Safe mode*: counts launches on disk. Read: the gap is measured from launch to
  launch and a launch counts as healthy after 60 s, so a loop of crashes every
  45 to 60 s never triggers it, and quick normal quits count as crashes.
* *Rule providers*: read: `reload` uses an index computed before an await.
* *Node health*: read: a success lifts a quarantine only once it has expired
  anyway (`NodeHealthTracker.ts`).
* *Telegram sign-in*: nothing calls it; read: a second start replaces the abort
  controller that the first one then clears (`TelegramAuthFlow.ts:45,88,93`).
* *DNS compiler, parsers of subscriptions, the rest of the generated
  configuration*: pure translation of data with unit tests of its own; a model
  would repeat the tables.
* *Updates, geo data*: downloads and files without interaction; read: what
  `GeoUpdaterService.ts:283` calls an atomic swap is a copy.
* *Windows pages, IPC, localization*: the commands they send appear as requests
  in any order; the rest is display. Diagnostics, the cabinet's endpoints and
  the traffic statistics change nothing the other parts keep.
