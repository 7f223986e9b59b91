-------------------------- MODULE MCRuntimeManager --------------------------
(***************************************************************************)
(* The manager with two profiles: "node", whose selected server may have   *)
(* vanished, so that a start falls back to "auto", and "auto" itself.      *)
(***************************************************************************)
EXTENDS RuntimeManager

MCFallback == [p \in Profile |-> "auto"]

=============================================================================
