------------------------ MODULE CaseAssurance_proofs ------------------------
(***************************************************************************)
(* What the gap codes of a case say of its lifecycle state and position,   *)
(* for every bundle, assessment time and policy.                           *)
(***************************************************************************)
EXTENDS CaseAssurance, TLAPS

(* When the gap codes that the fail-closed property needs are reported.    *)
LEMMA GapsNamed ==
  ASSUME NEW c, NEW t
  PROVE  /\ c.finding.refs = {} => "finding_evidence_missing" \in Gaps(c, t)
         /\ Unlinked(c, c.finding.refs) =>
              "finding_evidence_unlinked" \in Gaps(c, t)
         /\ Future(c.triage, t) => "triage_decision_future" \in Gaps(c, t)
         /\ Current(c.triage, t) /\ c.triage.refs = {} =>
              "triage_evidence_missing" \in Gaps(c, t)
         /\ Current(c.triage, t) /\ Unlinked(c, c.triage.refs) =>
              "triage_evidence_unlinked" \in Gaps(c, t)
         /\ Future(c.remediation, t) =>
              "remediation_record_future" \in Gaps(c, t)
         /\ Current(c.remediation, t) /\ c.remediation.refs = {} =>
              "remediation_evidence_missing" \in Gaps(c, t)
         /\ Current(c.remediation, t) /\ Unlinked(c, c.remediation.refs) =>
              "remediation_evidence_unlinked" \in Gaps(c, t)
         /\ Future(c.acceptance, t) => "risk_acceptance_future" \in Gaps(c, t)
         /\ Current(c.acceptance, t) /\ c.acceptance.refs = {} =>
              "risk_acceptance_evidence_missing" \in Gaps(c, t)
         /\ Current(c.acceptance, t) /\ Unlinked(c, c.acceptance.refs) =>
              "risk_acceptance_evidence_unlinked" \in Gaps(c, t)
         /\ AcceptanceExpired(c, t) => "risk_acceptance_expired" \in Gaps(c, t)
         /\ Future(c.verification, t) =>
              "verification_record_future" \in Gaps(c, t)
         /\ Current(c.verification, t) /\ c.verification.refs = {} =>
              "verification_evidence_missing" \in Gaps(c, t)
         /\ Current(c.verification, t) /\ Unlinked(c, c.verification.refs) =>
              "verification_evidence_unlinked" \in Gaps(c, t)
BY DEF Gaps, GapReported

(* The gap codes that only a case closed or accepted can do without.       *)
LEMMA OpenGapsNamed ==
  ASSUME NEW c, NEW t
  PROVE  /\ c.triage = NoRecord => "triage_decision_missing" \in Gaps(c, t)
         /\ Current(c.verification, t) /\ c.verification.outcome # "effective"
              => "verification_not_effective" \in Gaps(c, t)
         /\ Current(c.verification, t) /\ ~VerificationIndependent(c, t) =>
              "verification_not_independent" \in Gaps(c, t)
         /\ (/\ CurrentDisposition(c, t) = "confirmed"
             /\ LifecycleState(c, t) = "verification_pending"
             /\ c.verification = NoRecord)
              => "verification_missing" \in Gaps(c, t)
         /\ (/\ CurrentDisposition(c, t) = "confirmed"
             /\ LifecycleState(c, t) = "triaged")
              => "remediation_or_acceptance_missing" \in Gaps(c, t)
BY DEF Gaps, GapReported

(* The gap codes of an acceptance that does not hold, other than by its     *)
(* dates and evidence.                                                      *)
LEMMA AcceptanceGapsNamed ==
  ASSUME NEW c, NEW t, Current(c.acceptance, t)
  PROVE  /\ AcceptanceDays(c.acceptance) > MaxRiskAcceptanceDays =>
              "risk_acceptance_exceeds_policy" \in Gaps(c, t)
         /\ ~c.acceptance.controlled =>
              "compensating_controls_missing" \in Gaps(c, t)
BY DEF Gaps, GapReported

(* Without a gap, every record held is current and linked.                 *)
LEMMA NoGapSupports ==
  ASSUME NEW c, NEW t, Gaps(c, t) = {}
  PROVE  /\ TriageSupported(c, t)
         /\ ~AcceptanceExpired(c, t)
         /\ Current(c.remediation, t) => CurrentAndLinked(c, c.remediation, t)
         /\ c.verification # NoRecord =>
              /\ CurrentAndLinked(c, c.verification, t)
              /\ c.verification.outcome = "effective"
              /\ VerificationIndependent(c, t)
<1>1. Linked(c, c.finding.refs)
  BY GapsNamed DEF Unlinked
<1>2. CurrentAndLinked(c, c.triage, t)
  <2>1. Current(c.triage, t)
    BY GapsNamed, OpenGapsNamed DEF Future, Current
  <2>2. QED
    BY <2>1, GapsNamed DEF Unlinked, CurrentAndLinked
<1>3. Current(c.remediation, t) => CurrentAndLinked(c, c.remediation, t)
  BY GapsNamed DEF Unlinked, CurrentAndLinked
<1>4. ASSUME c.verification # NoRecord
      PROVE  /\ CurrentAndLinked(c, c.verification, t)
             /\ c.verification.outcome = "effective"
             /\ VerificationIndependent(c, t)
  <2>1. Current(c.verification, t)
    BY <1>4, GapsNamed DEF Future, Current
  <2>2. QED
    BY <2>1, GapsNamed, OpenGapsNamed DEF Unlinked, CurrentAndLinked
<1>5. QED
  BY <1>1, <1>2, <1>3, <1>4, GapsNamed DEF TriageSupported

(* A case without a gap is closed or covered by an acceptance.             *)
LEMMA NoGapSettles ==
  ASSUME NEW c, c.triage # NoRecord => c.triage.disposition \in Disposition,
         NEW t, Gaps(c, t) = {}
  PROVE  Closed(c, t) \/ LifecycleState(c, t) = "risk_accepted"
<1>1. CurrentDisposition(c, t) \in Disposition
  BY NoGapSupports DEF TriageSupported, CurrentAndLinked, Current,
     CurrentDisposition
<1>2. CASE CurrentDisposition(c, t) # "confirmed"
  BY <1>1, <1>2, NoGapSupports DEF Disposition, Closed, ClosedDispositioned
<1>3. CASE CurrentDisposition(c, t) = "confirmed" /\ ~Closed(c, t)
  <2>1. LifecycleState(c, t) = ConfirmedOpenState(c, t)
    BY <1>3 DEF LifecycleState, Closed
  <2>2. LifecycleState(c, t) # "triaged"
    BY <1>3, OpenGapsNamed
  <2>3. ASSUME LifecycleState(c, t) = "verification_pending",
               Current(c.remediation, t)
        PROVE  FALSE
    <3>1. c.verification # NoRecord
      BY <1>3, <2>3, OpenGapsNamed
    <3>2. VerificationEffective(c, t)
      BY <2>3, <3>1, NoGapSupports DEF VerificationEffective
    <3>3. QED
      BY <1>3, <3>2, NoGapSupports DEF Closed, ClosedVerified
  <2>4. CASE AcceptanceValid(c, t)
    BY <2>1, <2>4, NoGapSupports DEF ConfirmedOpenState
  <2>5. CASE ~AcceptanceValid(c, t)
    <3>1. LifecycleState(c, t) =
            IF Current(c.remediation, t) THEN "verification_pending"
                                         ELSE "triaged"
      BY <2>1, <2>5, NoGapSupports DEF ConfirmedOpenState
    <3>2. QED
      BY <2>2, <2>3, <3>1
  <2>6. QED
    BY <2>4, <2>5
<1>4. QED
  BY <1>2, <1>3

(* A case without a gap is in position "current".                           *)
LEMMA NoGapIsCurrent ==
  ASSUME NEW c, c.triage # NoRecord => c.triage.disposition \in Disposition,
         NEW t, Gaps(c, t) = {}
  PROVE  AssurancePosition(c, t) = "current"
<1>1. Closed(c, t) \/ LifecycleState(c, t) = "risk_accepted"
  BY NoGapSettles
<1>2. ~Overdue(c, t)
  BY <1>1 DEF Overdue
<1>3. LifecycleState(c, t) # "revalidation_required"
  <2>1. CASE ClosedDispositioned(c, t)
    BY <2>1 DEF LifecycleState, ClosedDispositioned
  <2>2. CASE ClosedVerified(c, t)
    BY <2>2 DEF LifecycleState, ClosedVerified, ClosedDispositioned
  <2>3. QED
    BY <1>1, <2>1, <2>2 DEF Closed
<1>4. QED
  BY <1>1, <1>2, <1>3 DEF AssurancePosition

-----------------------------------------------------------------------------
(* What decides the lifecycle state.                                       *)

(* The states in which a triaged finding is confirmed and open.             *)
LEMMA OpenStates ==
  ASSUME NEW c, NEW t
  PROVE  /\ CurrentDisposition(c, t) = "none" => LifecycleState(c, t) = "detected"
         /\ CurrentDisposition(c, t) = "confirmed" /\ ~ClosedVerified(c, t) =>
              LifecycleState(c, t) = ConfirmedOpenState(c, t)
         /\ CurrentDisposition(c, t) = "confirmed" /\ ClosedVerified(c, t) =>
              LifecycleState(c, t) = "closed_verified"
         /\ LifecycleState(c, t) \in {"verification_pending", "risk_accepted",
                                      "revalidation_required"} =>
              /\ CurrentDisposition(c, t) = "confirmed"
              /\ ~Closed(c, t)
              /\ LifecycleState(c, t) = ConfirmedOpenState(c, t)
<1> DEFINE disposition == CurrentDisposition(c, t)
           state == LifecycleState(c, t)
<1>1. state = IF disposition = "none" THEN "detected"
              ELSE IF ClosedDispositioned(c, t) THEN "closed_dispositioned"
              ELSE IF ClosedVerified(c, t) THEN "closed_verified"
              ELSE IF disposition = "confirmed" THEN ConfirmedOpenState(c, t)
              ELSE "triaged"
  <2>1. /\ ClosedDispositioned(c, t) => disposition # "none"
        /\ ClosedVerified(c, t) => disposition = "confirmed"
        /\ ClosedDispositioned(c, t) => disposition # "confirmed"
    BY DEF ClosedDispositioned, ClosedVerified
  <2>2. QED
    BY <2>1 DEF LifecycleState
<1>2. ClosedDispositioned(c, t) => disposition # "confirmed"
  BY DEF ClosedDispositioned
<1> HIDE DEF state, disposition
<1>3. state \in {"verification_pending", "risk_accepted",
                "revalidation_required"} =>
        disposition = "confirmed" /\ ~Closed(c, t)
  BY <1>1, <1>2 DEF Closed
<1>4. QED
  BY <1>1, <1>2, <1>3 DEF Closed, state, disposition

(* An acceptance decides the state while it is current.                     *)
LEMMA AcceptanceDecides ==
  ASSUME NEW c, NEW t
  PROVE  /\ AcceptanceExpired(c, t) <=>
              ConfirmedOpenState(c, t) = "revalidation_required"
         /\ AcceptanceValid(c, t) <=>
              ConfirmedOpenState(c, t) = "risk_accepted"
         /\ ~AcceptanceExpired(c, t) /\ ~AcceptanceValid(c, t) =>
              ConfirmedOpenState(c, t) =
                IF Current(c.remediation, t) THEN "verification_pending"
                                             ELSE "triaged"
<1>1. AcceptanceValid(c, t) => ~AcceptanceExpired(c, t)
  BY DEF AcceptanceValid
<1>2. QED
  BY <1>1 DEF ConfirmedOpenState

LEMMA EveryState ==
  ASSUME NEW c, NEW t
  PROVE  /\ ConfirmedOpenState(c, t) \in
              {"triaged", "verification_pending", "risk_accepted",
               "revalidation_required"}
         /\ LifecycleState(c, t) \in
              {"detected", "triaged", "verification_pending", "risk_accepted",
               "revalidation_required", "closed_verified",
               "closed_dispositioned"}
         /\ LifecycleState(c, t) = "detected" =>
              CurrentDisposition(c, t) = "none"
         /\ LifecycleState(c, t) = "closed_dispositioned" =>
              ClosedDispositioned(c, t)
         /\ LifecycleState(c, t) = "closed_verified" => ClosedVerified(c, t)
<1>1. ConfirmedOpenState(c, t) \in
        {"triaged", "verification_pending", "risk_accepted",
         "revalidation_required"}
  BY DEF ConfirmedOpenState
<1>2. QED
  BY <1>1 DEF LifecycleState

(* A record that is not current decides nothing: two bundles that differ in *)
(* such records only are in the same state.                                 *)
SameSlot(r, s, t) == r = s \/ (~Current(r, t) /\ ~Current(s, t))

LEMMA OnlyCurrentRecordsDecide ==
  ASSUME NEW c, NEW d, NEW t,
         d.finding = c.finding, d.catalog = c.catalog,
         SameSlot(c.triage, d.triage, t),
         SameSlot(c.remediation, d.remediation, t),
         SameSlot(c.acceptance, d.acceptance, t),
         SameSlot(c.verification, d.verification, t)
  PROVE  /\ LifecycleState(d, t) = LifecycleState(c, t)
         /\ Overdue(d, t) = Overdue(c, t)
<1>1. \A refs : Linked(d, refs) = Linked(c, refs)
  BY DEF Linked, Catalogued
<1>2. CurrentDisposition(d, t) = CurrentDisposition(c, t)
  BY DEF CurrentDisposition, SameSlot
<1>3. TriageSupported(d, t) = TriageSupported(c, t)
  BY <1>1 DEF TriageSupported, CurrentAndLinked, SameSlot
<1>4. VerificationEffective(d, t) = VerificationEffective(c, t)
  <2>1. CASE Current(c.remediation, t) /\ Current(c.verification, t)
    <3>1. d.remediation = c.remediation /\ d.verification = c.verification
      BY <2>1 DEF SameSlot
    <3>2. QED
      BY <1>1, <3>1 DEF VerificationEffective, VerificationIndependent,
         CurrentAndLinked
  <2>2. CASE ~(Current(c.remediation, t) /\ Current(c.verification, t))
    <3>1. ~(Current(d.remediation, t) /\ Current(d.verification, t))
      BY <2>2 DEF SameSlot
    <3>2. QED
      BY <2>2, <3>1 DEF VerificationEffective, CurrentAndLinked
  <2>3. QED
    BY <2>1, <2>2
<1>5. ClosedDispositioned(d, t) = ClosedDispositioned(c, t)
  BY <1>2, <1>3 DEF ClosedDispositioned
<1>6. ClosedVerified(d, t) = ClosedVerified(c, t)
  BY <1>2, <1>3, <1>4 DEF ClosedVerified
<1>7. /\ AcceptanceExpired(d, t) = AcceptanceExpired(c, t)
      /\ AcceptanceValid(d, t) = AcceptanceValid(c, t)
  BY <1>1 DEF AcceptanceExpired, AcceptanceValid, CurrentAndLinked, SameSlot
<1>8. Current(d.remediation, t) = Current(c.remediation, t)
  BY DEF SameSlot, Current
<1>9. ConfirmedOpenState(d, t) = ConfirmedOpenState(c, t)
  BY <1>7, <1>8 DEF ConfirmedOpenState
<1>10. LifecycleState(d, t) = LifecycleState(c, t)
  BY <1>2, <1>5, <1>6, <1>9 DEF LifecycleState
<1>11. RemediationDue(d) = RemediationDue(c)
  BY DEF RemediationDue
<1>12. QED
  BY <1>5, <1>6, <1>10, <1>11 DEF Overdue, Closed

(* A case without a gap shows none in its controls: what the codes say of   *)
(* the single records and what the controls say of the whole agree.         *)
LEMMA NoGapNoControlGap ==
  ASSUME NEW c, NEW t, Gaps(c, t) = {},
         c.acceptance # NoRecord =>
           /\ c.acceptance.controlled \in BOOLEAN
           /\ AcceptanceDays(c.acceptance) \in Int
  PROVE  LET status == ControlStatus(c, t) IN
         /\ status.INV = "represented" /\ status.TRI = "represented"
         /\ Closed(c, t) => /\ status.CLS = "represented"
                            /\ \A id \in DOMAIN status : status[id] # "gap"
         /\ LifecycleState(c, t) = "risk_accepted" => status.ACC = "represented"
<1>1. TriageSupported(c, t)
  BY NoGapSupports
<1>2. Linked(c, c.finding.refs) /\ CurrentAndLinked(c, c.triage, t)
  BY <1>1 DEF TriageSupported
<1>3. ASSUME LifecycleState(c, t) = "risk_accepted"
      PROVE  CurrentDisposition(c, t) = "confirmed" /\ c.acceptance # NoRecord
             /\ AcceptanceValid(c, t)
  BY <1>3, OpenStates DEF ConfirmedOpenState, AcceptanceValid,
     CurrentAndLinked, Current
<1>4. ASSUME c.acceptance # NoRecord
      PROVE  AcceptanceValid(c, t)
  <2>1. Current(c.acceptance, t)
    BY <1>4, GapsNamed DEF Future, Current
  <2>2. CurrentAndLinked(c, c.acceptance, t) /\ ~AcceptanceExpired(c, t)
    BY <2>1, GapsNamed DEF Unlinked, CurrentAndLinked
  <2>3. ~(AcceptanceDays(c.acceptance) > MaxRiskAcceptanceDays)
    BY <2>1, AcceptanceGapsNamed
  <2>4. AcceptanceDays(c.acceptance) <= MaxRiskAcceptanceDays
    BY <1>4, <2>3, PolicyAssumption
  <2>5. c.acceptance.controlled
    BY <2>1, AcceptanceGapsNamed
  <2>6. QED
    BY <2>2, <2>4, <2>5 DEF AcceptanceValid
<1>5. ASSUME Closed(c, t), CurrentDisposition(c, t) = "confirmed"
      PROVE  VerificationEffective(c, t) /\ CurrentAndLinked(c, c.remediation, t)
  BY <1>5 DEF Closed, ClosedVerified, ClosedDispositioned, VerificationEffective
<1>6. QED
  BY <1>2, <1>3, <1>4, <1>5 DEF ControlStatus, Represented
=============================================================================
