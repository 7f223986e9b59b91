------------------------- MODULE MCWindowsLifecycle -------------------------
(***************************************************************************)
(* One profile: which one is connected does not matter to the lifecycle.   *)
(***************************************************************************)
EXTENDS WindowsLifecycle

MCFallback == [p \in Profile |-> p]

=============================================================================
