------------------------------ MODULE VpnStore ------------------------------
(***************************************************************************)
(* What the pages of the Android application show of the VPN: the store    *)
(* (vpn.store.ts) shows an operation at once, as begun or as done, and the *)
(* polls of bridge.ts tell it what the service and the core are found to   *)
(* be, when that differs from what the poll before found. The service is   *)
(* taken at the level of what a poll can see; an error has one message.   *)
(* One connect() and one setProxy() are under way at a time; a mode that   *)
(* changes meanwhile is AndroidBridge's matter.                            *)
(***************************************************************************)
CONSTANTS
  Servers,
  AutoGroup, \* SLAVE-AUTO: the core chooses a server
  Unseen,    \* nothing was polled yet
  NoServer   \* no selection under way, or no exit

ASSUME StoreAssumption ==
  Unseen \notin Servers /\ NoServer \notin Servers \union {AutoGroup}

Targets == Servers \union {AutoGroup}

VARIABLES
  service, \* currentState of the service
  exit,    \* what the core's selector is set to
  bundle,  \* selectedProxy of the last start, cached for reconnects
  chosen,  \* currentSelectedProxy of the bridge
  accepted,\* history: the last server setProxy() returned for, or the saved one
  calling, \* connect() of the bridge: "no", it has to "compile" or to "start"
  choosing, answer, \* what setProxy() of the bridge was called with, and was told
  shown,   \* status.state of the store
  polled,  \* lastState of onVpnStatus
  shownProxy, polledProxy \* selectedProxy of the store, last of onProxyChanged

serviceVars == <<service, exit, bundle>>
statusVars == <<shown, polled>>
proxyVars == <<shownProxy, polledProxy, accepted>>
choiceVars == <<choosing, answer>>
pagesVars == <<serviceVars, statusVars, proxyVars, choiceVars, chosen, calling>>

Begun == {"connecting", "connected"}

\* The pages come up; onProxyChanged begins with the server of last time.
StoreInit ==
  /\ service = "disconnected" /\ exit = NoServer
  /\ chosen \in Targets /\ bundle = chosen /\ accepted = chosen
  /\ calling = "no" /\ choosing = NoServer /\ answer = "none"
  /\ shown = "disconnected" /\ polled = Unseen
  /\ shownProxy = chosen /\ polledProxy = chosen

StoreConnects ==
  /\ shown \notin Begun /\ calling = "no"
  /\ shown' = "connecting" /\ calling' = "compile"
  /\ UNCHANGED <<serviceVars, proxyVars, choiceVars, polled, chosen>>

\* A server that has left the subscriptions is replaced by the automatic group;
\* the store is not told.
Compiles ==
  /\ calling = "compile" /\ calling' = "start"
  /\ chosen' \in {chosen, AutoGroup}
  /\ UNCHANGED <<serviceVars, statusVars, proxyVars, choiceVars>>

\* The service is asked to start, or the call throws.
ConnectReturns ==
  /\ calling # "no" /\ calling' = "no"
  /\ \/ /\ shown' = "error" /\ UNCHANGED <<service, bundle>>
     \/ /\ calling = "start"
        /\ IF service \in Begun THEN UNCHANGED <<service, bundle>>
           ELSE service' = "connecting" /\ bundle' = chosen
        /\ UNCHANGED shown
  /\ UNCHANGED <<exit, proxyVars, choiceVars, polled, chosen>>

StoreDisconnects ==
  /\ shown \notin {"disconnecting", "disconnected"}
  /\ shown' = "disconnecting" /\ service' = "disconnected" /\ exit' = NoServer
  /\ UNCHANGED <<bundle, proxyVars, choiceVars, polled, chosen, calling>>

\* setProxy().
StoreSelects(p) ==
  /\ choosing = NoServer /\ choosing' = p
  /\ UNCHANGED <<serviceVars, statusVars, proxyVars, answer, chosen, calling>>

\* selectProxy() of the plugin: a running core takes the server; or refuses it,
\* and the one before is restored unless that fails too.
CoreSelects ==
  /\ choosing # NoServer /\ answer = "none"
  /\ \/ answer' = "taken" /\ exit' = IF service = "connected" THEN choosing ELSE exit
     \/ service = "connected" /\ answer' = "refused" /\ exit' \in {exit, choosing}
  /\ UNCHANGED <<service, bundle, statusVars, proxyVars, choosing, chosen, calling>>

\* Mutant of SelectionReturns: the store does not wait for the answer.
SelectionReturns_Anyway ==
  /\ answer # "none" /\ answer' = "none" /\ choosing' = NoServer
  /\ IF answer = "taken" THEN chosen' = choosing /\ accepted' = choosing
     ELSE UNCHANGED <<chosen, accepted>>
  /\ shownProxy' = choosing
  /\ UNCHANGED <<serviceVars, statusVars, polledProxy, calling>>

\* setProxy() returns, and the pages show the server; or it throws.
SelectionReturns ==
  /\ answer # "none" /\ answer' = "none" /\ choosing' = NoServer
  /\ IF answer = "taken"
     THEN chosen' = choosing /\ accepted' = choosing /\ shownProxy' = choosing
     ELSE UNCHANGED <<chosen, accepted, shownProxy>>
  /\ UNCHANGED <<serviceVars, statusVars, polledProxy, calling>>

\* The core starts and is told the server of the start. One it refuses then is
\* only logged: the core stays with what it had stored, or with the group.
ServiceConnects ==
  /\ service = "connecting" /\ service' = "connected"
  /\ exit' \in {bundle} \union Targets
  /\ UNCHANGED <<bundle, statusVars, proxyVars, choiceVars, chosen, calling>>

ServiceFails ==
  /\ service = "connecting" /\ service' = "error"
  /\ UNCHANGED <<exit, bundle, statusVars, proxyVars, choiceVars, chosen, calling>>

\* The default network changes: a reconnect with the cached bundle.
ServiceReconnects ==
  /\ service = "connected" /\ service' = "connecting" /\ exit' = NoServer
  /\ UNCHANGED <<bundle, statusVars, proxyVars, choiceVars, chosen, calling>>

StatusPolled ==
  /\ service # polled
  /\ polled' = service /\ shown' = service
  /\ UNCHANGED <<serviceVars, proxyVars, choiceVars, chosen, calling>>

\* The poll finds the server in use; that of the automatic group is any, or not
\* known yet. A store set to the group stays with it.
ProxyPolled ==
  \E leaf \in IF exit = AutoGroup THEN Targets ELSE {exit} :
    /\ leaf \notin {NoServer, polledProxy}
    /\ polledProxy' = leaf
    /\ shownProxy' = IF AutoGroup \in {leaf, shownProxy} THEN AutoGroup ELSE leaf
    /\ UNCHANGED <<serviceVars, statusVars, choiceVars, accepted, chosen, calling>>

StoreNext ==
  \/ StoreConnects \/ Compiles \/ ConnectReturns \/ StoreDisconnects
  \/ \E p \in Targets : StoreSelects(p)
  \/ CoreSelects \/ SelectionReturns
  \/ ServiceConnects \/ ServiceFails \/ ServiceReconnects
  \/ StatusPolled \/ ProxyPolled

StoreSpec == StoreInit /\ [][StoreNext]_pagesVars

\* "the UI must not claim that a server is active when Mihomo rejected or
\* failed to apply the selection" (bridge.ts:376), of setProxy(): a server the
\* pages show is the last one whose selection did not throw, or what a poll
\* found the core to use, however selections, polls, starts and resets follow
\* each other. What it leaves open: a selection accepted while no core ran is
\* shown although the core refuses it when it starts (SlaveVpnService.kt:432-439),
\* or although the compilation replaces it by the group (bridge.ts:389-392),
\* until a poll finds another server than the poll before did.
NoRejectedClaim == shownProxy \in {AutoGroup, accepted, polledProxy}

\* The service is polled because "the UI would stay stuck on 'connecting' -
\* never observing the error state / lastError after a failed libbox start"
\* (bridge.ts:928): an error the poll has seen is shown.
FailureIsSeen == calling = "no" /\ service = "error" /\ polled = "error" => shown = "error"

\* The choice of the user outlives a reconnect: "Persistence across reconnect
\* is handled by mihomo store-selected + the renderer re-applying the saved
\* choice on connect" (SlaveVpnPlugin.kt:282). The core uses another server only
\* when it was told the choice at its start and refused it.
SelectionPersists ==
  service = "connected" /\ choosing = NoServer /\ exit # chosen => bundle = chosen

=============================================================================
