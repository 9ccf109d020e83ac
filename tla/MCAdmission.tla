---------------------------- MODULE MCAdmission ----------------------------
(***************************************************************************)
(* Admission on small instances: a provider that knows its people and can  *)
(* be gated on a guild, and one that mints a new subject every time.       *)
(***************************************************************************)
EXTENDS Admission, TLC

CONSTANTS p1, p2, c1, c2, k1, k2, q1, q2

Symmetric == Permutations({p1, p2}) \cup Permutations({c1, c2})
             \cup Permutations({k1, k2}) \cup Permutations({q1, q2})
=============================================================================
