--------------------------- MODULE MCEvidenceBundle ---------------------------
(***************************************************************************)
(* Two runs, two directories; a commit, the same commit with edits, and    *)
(* another commit; one alteration, and a checkout that moves twice, away   *)
(* and back.                                                               *)
(***************************************************************************)
EXTENDS EvidenceBundle, TLC

CONSTANTS r1, r2, d1, d2, mainline, other

MCHeads == {[commit |-> mainline, clean |-> TRUE], [commit |-> mainline, clean |-> FALSE],
            [commit |-> other, clean |-> TRUE]}

\* Runs and directories are interchangeable.
Symmetry == Permutations({r1, r2}) \cup Permutations({d1, d2})
=============================================================================
