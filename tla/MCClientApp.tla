----------------------------- MODULE MCClientApp ----------------------------
(***************************************************************************)
(* The client of the browser on a small instance.  Nothing tells the peers *)
(* that are not the inviter apart.                                         *)
(***************************************************************************)
EXTENDS ClientApp, TLC

Symmetry == Permutations(Peers \ {Inviter})

=============================================================================
