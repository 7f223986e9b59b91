--------------------------- MODULE MCClientServices ---------------------------
(***************************************************************************)
(* Nine services that share no state, each on its own: a behaviour is of   *)
(* the one that part names, and leaves the others where they started.      *)
(***************************************************************************)
EXTENDS DurableSettings, SubscriptionFiles, Sessions, MirroredStore, HealthMonitor,
        AndroidBridge, VpnStore, MCRoutingPolicy, NodeBalancer

VARIABLE part

servicesVars == <<durableVars, fileVars, sessionVars, mirrorVars, healthVars,
                  bridgeVars, pagesVars, routingVars, balancerVars, part>>

\* Two of the three subscriptions are of one source.
MCFileSource == [i \in FileIds |-> IF i = "c" THEN "other" ELSE "same"]

\* The provider's server may rotate; the cabinet's does not.
MCSetups ==
  [client : {"api"}, rotates : BOOLEAN] \union [client : {"cabinet"}, rotates : {FALSE}]

\* With a rotating server too.
MCAllSetups == [client : {"api", "cabinet"}, rotates : BOOLEAN]

Parts == {"settings", "files", "session", "mirror", "health", "bridge", "store",
          "routing", "balancer"}

ServicesInit ==
  /\ DurableInit /\ FilesInit /\ SessionInit /\ MirrorInit /\ HealthInit
  /\ BridgeInit /\ StoreInit /\ RoutingInit /\ BalancerInit
  /\ part \in Parts
  \* A service that does not move has one initial state.
  /\ part # "files" => index = {} /\ legacy = Nobody
  /\ part # "session" => setup = [client |-> "api", rotates |-> FALSE]
  /\ part # "mirror" => localValue = 1
  /\ part # "bridge" => cache = NoMode /\ ~killSwitch /\ vpnMode = DefaultMode
  /\ part # "store" => chosen = "a"
  /\ part # "routing" => platform = "windows"
  /\ part # "balancer" => ~savedOn

\* One service moves.
ServicesNext ==
  /\ UNCHANGED part
  /\ IF part = "settings" THEN DurableNext ELSE UNCHANGED durableVars
  /\ IF part = "files" THEN FilesNext ELSE UNCHANGED fileVars
  /\ IF part = "session" THEN SessionNext ELSE UNCHANGED sessionVars
  /\ IF part = "mirror" THEN MirrorNext ELSE UNCHANGED mirrorVars
  /\ IF part = "health" THEN HealthNext ELSE UNCHANGED healthVars
  /\ IF part = "bridge" THEN BridgeNext ELSE UNCHANGED bridgeVars
  /\ IF part = "store" THEN StoreNext ELSE UNCHANGED pagesVars
  /\ IF part = "routing" THEN RoutingNext ELSE UNCHANGED routingVars
  /\ IF part = "balancer" THEN BalancerNext ELSE UNCHANGED balancerVars

ServicesSpec == ServicesInit /\ [][ServicesNext]_servicesVars

=============================================================================
