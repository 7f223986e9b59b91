--------------------------- MODULE MCMihomoEngine ---------------------------
(***************************************************************************)
(* The engine on a small instance: two process identities (a second kernel *)
(* could be started while the first lives), two hard and two soft parts,   *)
(* AUTO and one manual target that only the soft part "s1" still offers.   *)
(***************************************************************************)
EXTENDS MihomoEngine

MCGroupOf == [s \in Softs |-> IF s = "s1" THEN Targets ELSE {AutoTarget}]

\* A change of selection, of the soft part, of both, of the hard part; a
\* saved target that is offered, that has gone, and none at all.
MCRequests ==
  { [hard |-> "h1", soft |-> "s1", sel |-> "node"],
    [hard |-> "h1", soft |-> "s1", sel |-> AutoTarget],
    [hard |-> "h1", soft |-> "s2", sel |-> NoTarget],
    [hard |-> "h2", soft |-> "s2", sel |-> "node"] }

=============================================================================
