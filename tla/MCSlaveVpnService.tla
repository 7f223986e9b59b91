-------------------------- MODULE MCSlaveVpnService --------------------------
(***************************************************************************)
(* The Android service on a small instance, and two things comments of the *)
(* code say without the reservations of SlaveVpnService.                   *)
(***************************************************************************)
EXTENDS SlaveVpnService

\* Not of this code: "a VPN drop (core fails to start, or a reconnect) must NOT expose
\* the raw network" (SlaveVpnService.kt:93-96). A set-up that throws closes the TUN
\* under the kill switch, too (:481-492).
NothingIsExposed ==
  [][killSwitch /\ killSwitch' /\ intent = "up" /\ intent' = "up" /\ Up /\ inst' # 0
       => Up']_vars

\* Not of this code: no duplicate is left without somebody to close it, against
\* "Disconnect cannot tear down the kill-switch TUN and the device remains permanently
\* blackholed" (:454-457). A revocation cancels a start job that has not begun.
NoDescriptorIsLost ==
  \A t \in Tuns : "core" \in handles[t] =>
    core = t \/ \E j \in InFlight : jobs[j].kind = "start" /\ jobs[j].tun = t

=============================================================================
