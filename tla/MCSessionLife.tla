--------------------------- MODULE MCSessionLife ----------------------------
(***************************************************************************)
(* Instances of SessionLife for TLC: two connections of one user, which    *)
(* are interchangeable (no property of those runs is a temporal one), and  *)
(* one connection with every kind of traffic.                              *)
(***************************************************************************)
EXTENDS SessionLife, TLC

Permuted == Permutations(Conns)

Posts == {"post"}
Messages == {"text", "post"}
AllTraffic == {"text", "post", "race"}

=============================================================================
