---------------------------- MODULE DesiredProfile ----------------------------
(***************************************************************************)
(* What RuntimeServiceImpl asks the engine for: the profile built from the *)
(* stored settings and the subscriptions, the commands that change either, *)
(* and the server it shows as active. Every command waits several times,   *)
(* for the settings to be stored, for the subscriptions, for the engine,   *)
(* and each wait lets the other commands in.                               *)
(*                                                                         *)
(* connectionEpoch, selectionRevision and modeRevision are only compared   *)
(* with the value a command captured: a command keeps the outcome of that  *)
(* comparison (ep, sel, rev; asel for the one captured when the profile is *)
(* built), and incrementing a counter clears it. The manager is reduced to *)
(* what the service can tell apart: its queue and the engine are modelled  *)
(* by RuntimeManager and MihomoEngine.                                     *)
(***************************************************************************)
EXTENDS SettingsStore, FiniteSets

CONSTANTS
  Modes,     \* VPN modes
  Nodes,     \* servers a user can select
  AutoGroup,  \* the group SLAVE-AUTO, always available
  Subs,      \* contents the subscriptions may have
  NodesOf,   \* contents -> which of these servers are in them
  Ops,       \* bound: commands under way at a time
  Commands,  \* which commands are given
  NoOp, NoProfile, Nobody,
  MayRefuse, MayFailToStore,  \* the engine an update, the disk a write
  MayChangeWhileStarting      \* commands do not wait for the engine to start

Proxies == Nodes \union {AutoGroup}
Snapshot == [mode : Modes, proxy : Proxies]
Profile == [mode : Modes, proxy : Proxies, sub : Subs]

Op ==
  [kind : {"connect", "mode", "proxy", "profile", "notify"},
   at : {"patch", "wait", "queued", "resolve", "engine", "fallback",
         "fallbackPatch", "fallbackWait", "done", "restore"},
   arg : Proxies \union {Nobody}, prev : Proxies \union {Nobody},
   ep : BOOLEAN, sel : BOOLEAN, rev : BOOLEAN, asel : BOOLEAN,
   want : Profile \union {NoProfile}, gone : Nodes \union {Nobody}, ok : BOOLEAN]

ASSUME DesiredProfileAssumption ==
  /\ AutoGroup \notin Nodes /\ NodesOf \in [Subs -> SUBSET Nodes]
  /\ Nobody \notin Ops \union Proxies /\ NoOp \notin Op
  /\ Commands \subseteq {"disconnect", "mode", "proxy", "offline", "subs", "profile", "crash"}
  /\ {MayRefuse, MayFailToStore, MayChangeWhileStarting} \subseteq BOOLEAN

VARIABLES
  state,        \* manager.getState()
  applied,      \* profile of the engine, when there is one
  currentMode,  \* shown
  activeProxy,  \* shown; Nobody: null
  connectLock, disconnectLock,
  ops,          \* commands under way
  tail,         \* profileResolutionTail: applications of the profile, in turn
  discovery,    \* the one refreshActiveProxy() that can still count
  sub,          \* external: what the subscriptions hold
  trouble       \* history: "last": the last application of the profile failed;
                \* "none": since a start with no server shown, none failed and
                \* no saved profile was applied

shown == <<currentMode, activeProxy, discovery>>
locks == <<connectLock, disconnectLock>>
vars == <<storeVars, state, applied, shown, locks, ops, tail, sub, trouble>>

Discovery == [at : {"none", "asked", "answered"}, now : Proxies \union {Nobody}]
NoDiscovery == [at |-> "none", now |-> Nobody]

TypeOK ==
  /\ settings \in Snapshot /\ disk \in Snapshot
  /\ stored \in BOOLEAN
  /\ writes \in Seq([snap : Snapshot, by : Ops \union {Nobody}])
  /\ state \in {"idle", "starting", "running", "stopping", "crashed", "error"}
  /\ applied \in Profile \union {NoProfile}
  /\ currentMode \in Modes /\ activeProxy \in Proxies \union {Nobody}
  /\ {connectLock, disconnectLock} \subseteq BOOLEAN
  /\ ops \in [Ops -> Op \union {NoOp}] /\ tail \in Seq(Ops)
  /\ discovery \in Discovery
  /\ sub \in Subs
  /\ trouble \in {"none", "past", "last"}

Init ==
  /\ \E s \in Snapshot : Loaded(s) /\ currentMode = s.mode
  /\ state = "idle" /\ applied = NoProfile /\ activeProxy = Nobody
  /\ connectLock = FALSE /\ disconnectLock = FALSE
  /\ ops = [o \in Ops |-> NoOp] /\ tail = <<>> /\ discovery = NoDiscovery
  /\ sub \in Subs /\ trouble = "none"

Running == state = "running"
Active == {o \in Ops : ops[o] # NoOp}
At(o, at) == ops[o] # NoOp /\ ops[o].at = at

\* A command captures the selection it may have to restore.
NewOp(kind, at, arg) ==
  [kind |-> kind, at |-> at, arg |-> arg,
   prev |-> IF kind = "proxy" THEN settings.proxy ELSE Nobody,
   ep |-> TRUE, sel |-> kind = "proxy", rev |-> kind = "mode", asel |-> FALSE,
   want |-> NoProfile, gone |-> Nobody, ok |-> TRUE]

\* ++connectionEpoch, ++selectionRevision, ++modeRevision: whoever captured
\* the old value will find that it changed, the discovery included.
Outdated(counters) ==
  [o \in Ops |->
     IF ops[o] = NoOp THEN NoOp
     ELSE [ops[o] EXCEPT !.ep = @ /\ "epoch" \notin counters,
                         !.sel = @ /\ "selection" \notin counters,
                         !.asel = @ /\ "selection" \notin counters,
                         !.rev = @ /\ "mode" \notin counters]]

Discovers == discovery' = [at |-> "asked", now |-> Nobody]
Forgets == discovery' = NoDiscovery

-----------------------------------------------------------------------------
(* The profile                                                            *)

\* resolveAvailableSelection(): AUTO for a server that is no longer offered.
Available(proxy, content) ==
  IF proxy = AutoGroup \/ proxy \in NodesOf[content] THEN proxy ELSE AutoGroup

\* buildDesiredProfile() of these settings and contents.
Desired(s, content) ==
  [mode |-> s.mode, proxy |-> Available(s.proxy, content), sub |-> content]

-----------------------------------------------------------------------------
(* Commands                                                               *)

Given(c, o) == c \in Commands /\ ops[o] = NoOp

\* Bound: changes wait for a start under way, unless a run says otherwise.
Settled ==
  MayChangeWhileStarting \/ (~connectLock /\ state # "starting")

\* connect(): from the user, the tray, the recovery or after a wake.
Connect(o) ==
  /\ state \notin {"running", "starting"} /\ ~connectLock /\ ops[o] = NoOp
  /\ connectLock' = TRUE
  /\ ops' = [Outdated({"epoch"}) EXCEPT ![o] = NewOp("connect", "queued", Nobody)]
  /\ Forgets
  /\ UNCHANGED <<storeVars, state, applied, currentMode, activeProxy,
                 disconnectLock, tail, sub, trouble>>

EngineBusy == \E o \in Ops : At(o, "engine")

\* disconnect(): the epoch advances even if one is under way already; the
\* manager stops the engine when it has answered the call before.
Disconnect ==
  /\ "disconnect" \in Commands
  /\ state \notin {"idle", "stopping"} \/ connectLock
  /\ disconnectLock' = TRUE /\ ops' = Outdated({"epoch"}) /\ Forgets
  /\ state' = IF EngineBusy \/ state = "idle" THEN state ELSE "stopping"
  /\ UNCHANGED <<storeVars, applied, currentMode, activeProxy, connectLock,
                 tail, sub, trouble>>

\* setMode().
SetMode(o, m) ==
  /\ Given("mode", o) /\ Settled /\ m # settings.mode
  /\ ops' = [Outdated({"mode"}) EXCEPT ![o] = NewOp("mode", "patch", Nobody)]
  /\ Patches([settings EXCEPT !.mode = m], o)
  /\ UNCHANGED <<state, applied, shown, locks, tail, sub, trouble>>

\* setSelectedProxy() of a running engine: the intent is stored first.
SetProxy(o, p) ==
  /\ Given("proxy", o) /\ Running
  /\ ops' = [Outdated({"selection"}) EXCEPT ![o] = NewOp("proxy", "patch", p)]
  /\ Patches([settings EXCEPT !.proxy = p], o)
  /\ Forgets
  /\ UNCHANGED <<state, applied, currentMode, activeProxy, locks, tail, sub, trouble>>

\* The tray stores a selection for the next connection.
SelectOffline(p) ==
  /\ "offline" \in Commands /\ ~Running /\ Settled /\ p # settings.proxy
  /\ writes = <<>> /\ Active = {}
  /\ Patches([settings EXCEPT !.proxy = p], Nobody)
  /\ UNCHANGED <<state, applied, shown, locks, ops, tail, sub, trouble>>

\* A saved profile is applied: its settings are stored in one patch.
ApplyProfile(o, s) ==
  /\ Given("profile", o) /\ Settled /\ s # settings
  /\ ops' = [ops EXCEPT ![o] = NewOp("profile", "patch", Nobody)]
  /\ Patches(s, o)
  /\ UNCHANGED <<state, applied, shown, locks, tail, sub, trouble>>

\* The subscriptions have changed and say so: notifySubscriptionsChanged(),
\* which does nothing unless the engine is running.
SubscriptionsChange(o, c) ==
  /\ Given("subs", o) /\ Settled /\ c # sub /\ sub' = c
  /\ IF Running
       THEN /\ ops' = [ops EXCEPT ![o] = NewOp("notify", "queued", Nobody)]
            /\ tail' = Append(tail, o)
       ELSE UNCHANGED <<ops, tail>>
  /\ UNCHANGED <<storeVars, state, applied, shown, locks, trouble>>

-----------------------------------------------------------------------------
(* Settings first                                                         *)

Throws(o) == ops' = [ops EXCEPT ![o] = NoOp] /\ trouble' = "last"

\* A write settles; the command that waits for it goes on or throws.
Stored(ok) ==
  /\ ok \/ MayFailToStore
  /\ WriteSettles(ok)
  /\ LET o == Head(writes).by IN
     IF o = Nobody THEN UNCHANGED <<ops, trouble>>
     ELSE CASE At(o, "patch") /\ ok ->
                 /\ ops' = [ops EXCEPT ![o].at = "wait"] /\ UNCHANGED trouble
            [] At(o, "fallbackPatch") ->
                 /\ ops' = [ops EXCEPT ![o].at = "fallbackWait", ![o].ok = ok]
                 /\ UNCHANGED trouble
            [] At(o, "restore") /\ ok ->
                 ops' = [ops EXCEPT ![o] = NoOp] /\ UNCHANGED trouble
            [] OTHER -> Throws(o)
  /\ UNCHANGED <<state, applied, shown, locks, tail, sub>>

\* Joins the chain of applications: applyDesiredProfile().
Queues(o, os) ==
  /\ ops' = [os EXCEPT ![o].at = "queued"] /\ tail' = Append(tail, o)

\* A command whose setting is stored, if nothing newer has replaced it.
ModeStored(o) ==
  /\ At(o, "wait") /\ ops[o].kind = "mode" /\ Persisted
  /\ CASE ~stored -> Throws(o) /\ UNCHANGED <<tail, currentMode>>
       [] stored /\ ops[o].rev /\ ops[o].ep ->
            /\ currentMode' = disk.mode
            /\ IF Running THEN Queues(o, ops)
                 ELSE ops' = [ops EXCEPT ![o] = NoOp] /\ UNCHANGED tail
            /\ UNCHANGED trouble
       [] OTHER -> ops' = [ops EXCEPT ![o] = NoOp] /\ UNCHANGED <<tail, currentMode, trouble>>
  /\ UNCHANGED <<storeVars, state, applied, activeProxy, discovery, locks, sub>>

ProxyStored(o) ==
  /\ At(o, "wait") /\ ops[o].kind = "proxy" /\ Persisted
  /\ CASE ~stored -> Throws(o) /\ UNCHANGED tail
       [] stored /\ ops[o].sel /\ ops[o].ep /\ Running ->
            Queues(o, ops) /\ UNCHANGED trouble
       [] OTHER -> ops' = [ops EXCEPT ![o] = NoOp] /\ UNCHANGED <<tail, trouble>>
  /\ UNCHANGED <<storeVars, state, applied, shown, locks, sub>>

\* notifySubscriptionsChanged('profile-apply') outdates pending selections.
ProfileStored(o) ==
  /\ At(o, "wait") /\ ops[o].kind = "profile" /\ Forgets
  /\ LET os == Outdated({"selection", "mode"}) IN
     IF Running THEN Queues(o, os)
       ELSE ops' = [os EXCEPT ![o] = NoOp] /\ UNCHANGED tail
  /\ trouble' = IF trouble = "none" THEN "past" ELSE trouble
  /\ UNCHANGED <<storeVars, state, applied, currentMode, activeProxy, locks, sub>>

-----------------------------------------------------------------------------
(* Applying the profile                                                   *)

ItsTurn(o) == ops[o].kind = "connect" \/ (tail # <<>> /\ Head(tail) = o)

\* The application is over, and for a connect the command: the next in the
\* chain gets its turn, whether or not this one succeeded.
Finishes(o, ok) ==
  IF ops[o].kind = "connect"
    THEN /\ ops' = [ops EXCEPT ![o] = NoOp] /\ connectLock' = FALSE
         /\ UNCHANGED tail
    ELSE /\ ops' = [ops EXCEPT ![o].at = "done", ![o].ok = ok, ![o].asel = FALSE,
                              ![o].want = NoProfile, ![o].gone = Nobody]
         /\ tail' = Tail(tail) /\ UNCHANGED connectLock

Fails(o) == Finishes(o, FALSE) /\ trouble' = "last"

\* Superseded: it resolves without having done anything.
Drops(o) == Finishes(o, TRUE) /\ UNCHANGED trouble

\* Mutant of Wanted: a superseded command goes on.
Wanted_AnyEpoch(o) == ops[o].kind = "connect" \/ Running

\* A connect goes on until a disconnect or another connect, an update only
\* while the engine is running.
Wanted(o) == ops[o].ep /\ (ops[o].kind = "connect" \/ Running)

\* The settings are stored; the subscriptions are read, or cannot be.
Fetches(o) ==
  /\ At(o, "queued") /\ ItsTurn(o) /\ Persisted
  /\ \/ stored /\ Wanted(o) /\ UNCHANGED <<tail, connectLock, trouble>>
        /\ ops' = [ops EXCEPT ![o].at = "resolve",
                              ![o].want = Desired(settings, sub)]
     \/ stored /\ ~Wanted(o) /\ Drops(o)
     \/ Fails(o)
  /\ UNCHANGED <<storeVars, state, applied, shown, disconnectLock, sub>>

\* The history when the settings are read again.
Untroubled(kind) ==
  CASE kind = "connect" /\ activeProxy = Nobody -> "none"
    [] kind # "connect" /\ trouble = "none" -> "none"
    [] OTHER -> "past"

\* The settings as they are stored by now make the profile, with the contents
\* read before; the manager is asked to start or update the engine. A connect
\* waits in the manager for a disconnect under way. The code checks its epoch
\* before that wait, the model after it: only a second disconnect during the
\* wait tells the two apart (WindowsLifecycle models it), since changes wait.
Resolves(o) ==
  /\ At(o, "resolve") /\ Persisted
  /\ LET content == ops[o].want.sub
         want == Desired(disk, content) IN
     CASE ~stored -> Fails(o) /\ UNCHANGED <<currentMode, state>>
       [] stored /\ ~Wanted(o) -> Drops(o) /\ UNCHANGED <<currentMode, state>>
       [] OTHER ->
            /\ ops[o].kind = "connect" => ~disconnectLock
            /\ currentMode' = want.mode
            /\ state' = IF ops[o].kind = "connect" THEN "starting" ELSE state
            /\ ops' = [ops EXCEPT
                 ![o].at = "engine", ![o].want = want, ![o].asel = TRUE,
                 ![o].gone = IF want.proxy = disk.proxy THEN Nobody ELSE disk.proxy]
            /\ trouble' = Untroubled(ops[o].kind)
            /\ UNCHANGED <<tail, connectLock>>
  /\ UNCHANGED <<storeVars, applied, activeProxy, discovery, disconnectLock, sub>>

\* An update that changes more than the selection may restart the engine;
\* meanwhile it is not running, and its 'idle' clears the active server.
Restarts(o) ==
  /\ At(o, "engine") /\ Running /\ (MayChangeWhileStarting \/ Active = {o})
  /\ ops[o].want.mode # applied.mode \/ ops[o].want.sub # applied.sub
  /\ state' = "starting" /\ activeProxy' = Nobody
  /\ UNCHANGED <<storeVars, applied, currentMode, discovery, locks, ops, tail, sub, trouble>>

\* 'running' after a start: the active server has to be discovered.
Rediscovers == IF state = "starting" THEN Discovers ELSE UNCHANGED discovery

\* The manager turns to the disconnect that waits for its queue.
AfterUpdate == IF disconnectLock THEN "stopping" ELSE "running"

\* The engine works with the profile it was given.
Succeeds(o) ==
  /\ At(o, "engine")
  /\ applied' = ops[o].want /\ state' = AfterUpdate /\ Rediscovers
  /\ ops' = [ops EXCEPT ![o].at = "fallback", ![o].want = NoProfile]
  /\ UNCHANGED <<storeVars, currentMode, activeProxy, locks, tail, sub, trouble>>

\* It could not be started, or an update failed and its rollback as well.
Breaks(o) ==
  /\ At(o, "engine") /\ Fails(o)
  /\ ops[o].kind = "connect" \/ (MayRefuse /\ ops[o].want # applied)
  /\ state' = (IF disconnectLock THEN "stopping" ELSE "error")
  /\ activeProxy' = Nobody /\ applied' = NoProfile
  /\ UNCHANGED <<storeVars, currentMode, discovery, disconnectLock, sub>>

\* An update failed, and the engine went back to the profile it had.
Refuses(o) ==
  /\ MayRefuse /\ At(o, "engine") /\ ops[o].kind # "connect" /\ ops[o].want # applied
  /\ Fails(o) /\ state' = AfterUpdate /\ Rediscovers
  /\ UNCHANGED <<storeVars, applied, currentMode, activeProxy, disconnectLock, sub>>

\* persistUnavailableSelectionFallback(): AUTO is stored for a selection that
\* has gone, unless the user has chosen meanwhile.
FallsBack(o) ==
  /\ At(o, "fallback")
  /\ IF ops[o].gone = settings.proxy /\ ops[o].asel /\ ops[o].ep /\ Running
       THEN /\ Patches([settings EXCEPT !.proxy = AutoGroup], o)
            /\ ops' = [ops EXCEPT ![o].at = "fallbackPatch"]
            /\ UNCHANGED <<tail, connectLock, trouble>>
       ELSE /\ Finishes(o, TRUE) /\ UNCHANGED <<storeVars, trouble>>
  /\ UNCHANGED <<state, applied, shown, disconnectLock, sub>>

\* ... and shown, which outdates selections and discoveries before it.
FallenBack(o) ==
  /\ At(o, "fallbackWait") /\ Persisted
  /\ CASE ~ops[o].ok \/ ~stored -> Fails(o) /\ UNCHANGED <<activeProxy, discovery>>
       [] ops[o].ok /\ stored /\ ops[o].asel /\ ops[o].ep /\ Running /\ disk.proxy = AutoGroup ->
            /\ activeProxy' = Nobody /\ Discovers /\ UNCHANGED trouble
            /\ LET os == Outdated({"selection"}) IN
               IF ops[o].kind = "connect"
                 THEN ops' = [os EXCEPT ![o] = NoOp] /\ connectLock' = FALSE /\ UNCHANGED tail
                 ELSE ops' = [os EXCEPT ![o].at = "done"] /\ tail' = Tail(tail) /\ UNCHANGED connectLock
       [] OTHER -> Finishes(o, TRUE) /\ UNCHANGED <<trouble, activeProxy, discovery>>
  /\ UNCHANGED <<storeVars, state, applied, currentMode, disconnectLock, sub>>

-----------------------------------------------------------------------------
(* After the application                                                  *)

\* Mutant of StillChosen: a selection counts although a newer one was made.
StillChosen_Superseded(o) == ops[o].ep /\ Running

StillChosen(o) ==
  ops[o].sel /\ ops[o].ep /\ Running /\ settings.proxy = ops[o].arg

\* The selection is shown when it was applied, and taken back when it was
\* rejected, if it is still the one chosen; other commands just end.
Done(o) ==
  /\ At(o, "done")
  /\ IF ops[o].kind = "proxy" /\ ~ops[o].ok /\ StillChosen(o)
       THEN /\ Patches([settings EXCEPT !.proxy = ops[o].prev], o)
            /\ ops' = [ops EXCEPT ![o].at = "restore"]
       ELSE UNCHANGED storeVars /\ ops' = [ops EXCEPT ![o] = NoOp]
  /\ IF ops[o].kind = "proxy" /\ ops[o].ok /\ StillChosen(o)
       THEN IF ops[o].arg = AutoGroup THEN activeProxy' = Nobody /\ Discovers
              ELSE activeProxy' = ops[o].arg /\ UNCHANGED discovery
       ELSE UNCHANGED <<activeProxy, discovery>>
  /\ UNCHANGED <<state, applied, currentMode, locks, tail, sub, trouble>>

-----------------------------------------------------------------------------
(* Engine events, and the discovery                                       *)

\* The disconnect of the manager settles, for better or for worse.
Disconnected(ok) ==
  /\ disconnectLock /\ state \in {"stopping", "idle"} /\ ~EngineBusy
  /\ disconnectLock' = FALSE /\ activeProxy' = Nobody /\ applied' = NoProfile
  /\ state' = IF ok THEN "idle" ELSE "error"
  /\ UNCHANGED <<storeVars, currentMode, discovery, connectLock, ops, tail, sub, trouble>>

\* 'crashed' keeps what is shown: a recovery is to follow.
Crashes ==
  /\ "crash" \in Commands /\ Running /\ ~EngineBusy
  /\ state' = "crashed" /\ applied' = NoProfile
  /\ UNCHANGED <<storeVars, shown, locks, ops, tail, sub, trouble>>

\* The kernel names its selection; an update may change it at any time.
Answers ==
  /\ discovery.at = "asked" /\ Running
  /\ \E p \in {applied.proxy} \union {ops[o].want.proxy : o \in {x \in Ops : At(x, "engine")}} :
       discovery' = [at |-> "answered", now |-> p]
  /\ UNCHANGED <<storeVars, state, applied, currentMode, activeProxy, locks, ops, tail, sub, trouble>>

\* The answer arrives while it still counts.
Arrives ==
  /\ discovery.at = "answered" /\ Forgets
  /\ activeProxy' = IF Running THEN discovery.now ELSE activeProxy
  /\ UNCHANGED <<storeVars, state, applied, currentMode, locks, ops, tail, sub, trouble>>

\* Neither group answers in time.
NoAnswer ==
  /\ discovery.at = "asked" /\ Forgets
  /\ UNCHANGED <<storeVars, state, applied, currentMode, activeProxy, locks, ops, tail, sub, trouble>>

-----------------------------------------------------------------------------
User ==
  \/ Disconnect
  \/ \E p \in Proxies : SelectOffline(p)
  \/ \E o \in Ops :
       \/ Connect(o)
       \/ \E m \in Modes : SetMode(o, m)
       \/ \E p \in Proxies : SetProxy(o, p)
       \/ \E s \in Snapshot : ApplyProfile(o, s)
       \/ \E c \in Subs : SubscriptionsChange(o, c)

\* Continuations of settled promises.
Microtask(o) ==
  ModeStored(o) \/ ProxyStored(o) \/ ProfileStored(o) \/ FallsBack(o) \/ FallenBack(o) \/ Done(o)

\* They run before the next event; microtasks of several commands interleave.
NextEvent ==
  \A o \in Active :
    /\ ops[o].at \notin {"done", "fallback"}
    /\ ops[o].at \in {"wait", "fallbackWait"} => ~Persisted

Event(o) ==
  Fetches(o) \/ Resolves(o) \/ Restarts(o) \/ Succeeds(o) \/ Breaks(o) \/ Refuses(o)

Settles ==
  \/ \E ok \in BOOLEAN : Stored(ok) \/ Disconnected(ok)
  \/ Answers \/ Arrives \/ NoAnswer

Next ==
  \/ \E o \in Ops : Microtask(o)
  \/ NextEvent /\ (User \/ Crashes \/ Settles \/ \E o \in Ops : Event(o))

Spec == Init /\ [][Next]_vars

-----------------------------------------------------------------------------
(* Properties                                                             *)

Quiet ==
  Active = {} /\ writes = <<>> /\ discovery = NoDiscovery /\ ~disconnectLock

\* "Persist intent before queueing the engine mutation so a concurrent refresh
\* cannot rebuild from a stale observed leaf": when all has settled, a running
\* engine works with the stored settings and the current subscriptions, unless
\* the last application failed.
RunsWhatIsAsked ==
  Quiet /\ Running /\ stored /\ trouble # "last" => applied = Desired(disk, sub) /\ disk = settings

\* The server shown as active, when all has settled, is the one in use.
ShownIsReal ==
  Quiet /\ Running /\ trouble = "none" =>
    activeProxy \in {applied.proxy, Nobody} /\ currentMode = applied.mode

\* "Restore the persisted intent as well; otherwise the rejected node poisons
\* every later mode/subscription refresh and the UI lies after restart": when
\* all has settled, the stored selection is the one in use.
SelectionIsRestored ==
  Quiet /\ Running => Available(disk.proxy, applied.sub) = applied.proxy

=============================================================================
