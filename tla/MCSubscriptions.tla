--------------------------- MODULE MCSubscriptions ---------------------------
(***************************************************************************)
(* Two subscriptions: the cabinet's own host serves one of them, and has   *)
(* all the servers of the other.                                           *)
(***************************************************************************)
EXTENDS Subscriptions

=============================================================================
