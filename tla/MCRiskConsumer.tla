---------------------------- MODULE MCRiskConsumer ----------------------------
(***************************************************************************)
(* A small instance of RiskConsumer.  Collection at 2, assessment at 3,    *)
(* handoff and signature at 4, DataGovOps at 5, DORAOps from 5: every one  *)
(* of these may also be early or late, keys are revoked or expire between  *)
(* the two consumptions, and cases differ in what DORAOps looks at.        *)
(***************************************************************************)
EXTENDS RiskConsumer, TLC

CONSTANTS m1, m2, govPin, otherPin, doraPin, g1, g2, d1, d2, ours,
          owner, tester, change

Retest(by, at, outcome) == [by |-> by, at |-> at, outcome |-> outcome]

ACase(materials, confirmed, acceptance, retest) ==
  [materials |-> materials, collectedAt |-> 2, confirmed |-> confirmed,
   acceptance |-> acceptance, owner |-> owner, change |-> change,
   observedAt |-> 1, plannedAt |-> 1, linked |-> TRUE, retest |-> retest]

MCCases ==
  {ACase(m1, TRUE, FALSE, Retest(tester, 2, "effective")),
   ACase(m2, TRUE, FALSE, Retest(tester, 2, "ineffective")),
   ACase(m1, TRUE, FALSE, Retest(tester, 1, "effective")),
   ACase(m1, TRUE, FALSE, Retest(owner, 2, "effective")),
   ACase(m1, TRUE, FALSE, Retest(tester, 2, "partial")),
   ACase(m1, TRUE, TRUE, NoRetest)}

Completion(who, completedAt, collectedAt) ==
  [change |-> change, owner |-> who, completedAt |-> completedAt,
   collectedAt |-> collectedAt]
MCCompletions ==
  {Completion(owner, 2, 4), Completion(owner, 2, 6), Completion(tester, 1, 2)}

AKey(material, until, revokedAt) ==
  [material |-> material, from |-> 1, until |-> until, revokedAt |-> revokedAt]
MCGovKeys == (g1 :> AKey(ours, 8, NoTime)) @@ (g2 :> AKey(ours, 8, 6))
MCDoraKeys == (d1 :> AKey(ours, 8, NoTime)) @@ (d2 :> AKey(ours, 6, NoTime))
=============================================================================
