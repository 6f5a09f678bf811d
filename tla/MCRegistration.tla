--------------------------- MODULE MCRegistration ---------------------------
(***************************************************************************)
(* Registration on a small instance for TLC.  The requests are             *)
(* interchangeable, and so are the fingerprints and the session ids.       *)
(***************************************************************************)
EXTENDS Registration

Permuted == Permutations(Requests) \cup Permutations(Keys) \cup Permutations(SessionIds)

=============================================================================
