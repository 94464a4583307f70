--------------------------- MODULE MCCaseLifecycle ---------------------------
(***************************************************************************)
(* Small instances of CaseLifecycle: two evidence ids, a day of two time   *)
(* units, assessments over three days.  The record sets hold the well      *)
(* formed cases and one of each kind the constructors or the assessment    *)
(* must treat specially.                                                   *)
(***************************************************************************)
EXTENDS CaseLifecycle

CONSTANTS e1, e2, owner, tester

MCEvidence == {e1, e2}
MCRole == {owner, tester}
MCSeverity == {"critical", "low"}
MCSlaDays == [critical |-> 1, low |-> 2]
MCAssessmentTimes == 0..5

\* The finding is observed at 1; it may lack its evidence reference.
MCFindings ==
  [observedAt : {1}, severity : {"critical"}, refs : {{e1}}]
    \cup [observedAt : {1}, severity : {"low"}, refs : {{}, {e1}}]

\* Current, late or future decisions, some resting on both evidence items.
MCTriage ==
  [at : {1, 3}, disposition : {"confirmed", "duplicate"},
   refs : {{e1, e2}}]
    \cup [at : {2}, disposition : {"confirmed", "false_positive"},
          refs : {{}, {e1}}]

\* One plan that its constructor rejects (due before it is planned).
MCRemediation ==
  [at : {1, 4}, dueAt : {4}, owner : {owner}, refs : {{e1}}]
    \cup {[at |-> 2, dueAt |-> 1, owner |-> owner, refs |-> {e1}],
          [at |-> 2, dueAt |-> 4, owner |-> owner, refs |-> {e2}]}

\* Acceptances of less than a day, of one day and a half (one whole day), of
\* two days (over the maximum of one) and of no time at all (rejected).
MCAcceptance ==
  {[at |-> 1, expiresAt |-> 4, controlled |-> TRUE, refs |-> {e2}],
   [at |-> 1, expiresAt |-> 5, controlled |-> TRUE, refs |-> {e1}],
   [at |-> 2, expiresAt |-> 3, controlled |-> FALSE, refs |-> {e1}],
   [at |-> 2, expiresAt |-> 3, controlled |-> TRUE, refs |-> {e1}],
   [at |-> 3, expiresAt |-> 5, controlled |-> TRUE, refs |-> {e1}],
   [at |-> 3, expiresAt |-> 3, controlled |-> TRUE, refs |-> {e1}]}

MCVerification ==
  {[at |-> 2, verifier |-> tester, outcome |-> "partial", refs |-> {e1}],
   [at |-> 2, verifier |-> owner, outcome |-> "effective", refs |-> {e1}],
   [at |-> 3, verifier |-> tester, outcome |-> "effective", refs |-> {e2}],
   [at |-> 4, verifier |-> tester, outcome |-> "effective", refs |-> {e1}],
   [at |-> 3, verifier |-> tester, outcome |-> "effective", refs |-> {}]}
=============================================================================
