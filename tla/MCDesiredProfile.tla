-------------------------- MODULE MCDesiredProfile --------------------------
(***************************************************************************)
(* Two contents of the subscriptions: the server a user may select is only *)
(* in the first.                                                           *)
(***************************************************************************)
EXTENDS DesiredProfile, TLC

MCSymmetry == Permutations(Ops) \union Permutations(Modes)

MCNodesOf == [c \in Subs |-> IF c = "c1" THEN Nodes ELSE {}]

=============================================================================
