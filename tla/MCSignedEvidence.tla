--------------------------- MODULE MCSignedEvidence ---------------------------
(***************************************************************************)
(* A small instance of SignedEvidence: two keys whose records begin or end *)
(* within the two times, two statements signed by anybody in anybody's     *)
(* name, so that an envelope may combine fields of both.                   *)
(***************************************************************************)
EXTENDS SignedEvidence, TLC

CONSTANTS k1, k2, m1, m2, p1, p2, t1, t2

MCKeyRecord ==
  (k1 :> [algorithm |-> "ed25519", material |-> m1, from |-> 1, until |-> 2])
  @@ (k2 :> [algorithm |-> "ed25519", material |-> m2, from |-> 2,
             until |-> NoTime])
MCAlgorithm == {"ed25519"}
ContentSymmetry == Permutations({p1, p2}) \cup Permutations({t1, t2})
=============================================================================
