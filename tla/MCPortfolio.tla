----------------------------- MODULE MCPortfolio -----------------------------
(***************************************************************************)
(* A small instance of Portfolio: two cases, half-day times, the default   *)
(* policy of the code.  The assessment times lie on both sides of the due  *)
(* time, of the expiry of an exception, and of the cohort boundaries.      *)
(***************************************************************************)
EXTENDS Portfolio, TLC

CONSTANTS c1, c2, e1, owner, tester

CaseSymmetry == Permutations({c1, c2})
MCEvidence == {e1}
MCRole == {owner, tester}
MCSeverity == {"medium"}
MCSlaDays == [medium |-> 90]

\* Observed at the start of day 0: due at the start of day 90.
MCFindings == [observedAt : {0}, severity : {"medium"}, refs : {{e1}}]

\* 89, 25 and 5 days to go; at the due time and, on the same day, after it;
\* a day later.
MCAssessmentTimes == {2, 130, 170, 180, 181, 183}
MCCollectionTimes == {1, 50}

MCTriage ==
  {[at |-> 1, disposition |-> "confirmed", refs |-> {e1}],
   [at |-> 46, disposition |-> "duplicate", refs |-> {e1}]}
MCRemediation ==
  {[at |-> 2, dueAt |-> 60, owner |-> owner, refs |-> {e1}]}

\* Ninety days and a half (within policy), expired when last assessed; 101
\* days (over the maximum) and without evidence.
MCAcceptance ==
  {[at |-> 2, expiresAt |-> 183, controlled |-> TRUE, refs |-> {e1}],
   [at |-> 46, expiresAt |-> 248, controlled |-> TRUE, refs |-> {}]}
MCVerification ==
  {[at |-> 46, verifier |-> tester, outcome |-> "effective", refs |-> {e1}]}
=============================================================================
