---------------------------- MODULE CaseLifecycle ----------------------------
(***************************************************************************)
(* The life of one case: owners and approvers outside the library append   *)
(* records to the case bundle, in any order and with any dates, and the    *)
(* case is assessed again and again at later and later assessment times.   *)
(* A bundle is immutable in the code: each action below builds the next    *)
(* bundle from the previous one, under the checks of the record's own      *)
(* constructor.  assess_case is a pure function, so the dossier is the     *)
(* state function Dossier of the bundle and of the assessment time.        *)
(***************************************************************************)
EXTENDS CaseAssurance

CONSTANTS
  Findings,             \* findings a case may be opened for
  TriageRecords,        \* records that may be submitted, well formed or not
  RemediationRecords,
  AcceptanceRecords,
  VerificationRecords,
  CollectionTimes,      \* times at which evidence may have been collected
  AssessmentTimes       \* values of assessed_at

ASSUME InputAssumption ==
  /\ Findings \subseteq FindingType
  /\ TriageRecords \subseteq TriageType
  /\ RemediationRecords \subseteq RemediationType
  /\ AcceptanceRecords \subseteq AcceptanceType
  /\ VerificationRecords \subseteq VerificationType
  /\ CollectionTimes \subseteq Nat
  /\ AssessmentTimes \subseteq Nat

VARIABLES
  case,       \* the current case bundle
  assessedAt  \* the assessment time of the current dossier

vars == <<case, assessedAt>>

\* The dossier, and the parts of it that the properties speak of.
Dossier == AssessCase(case, assessedAt)
Lifecycle == LifecycleState(case, assessedAt)
Position == AssurancePosition(case, assessedAt)

-----------------------------------------------------------------------------

\* A case bundle is opened for a finding and assessed at a time that does not
\* precede the first observation.
Init ==
  /\ case \in [finding      : Findings,
               catalog      : {[e \in Evidence |-> NoRecord]},
               triage       : {NoRecord},
               remediation  : {NoRecord},
               acceptance   : {NoRecord},
               verification : {NoRecord}]
  /\ assessedAt \in AssessmentTimes
  /\ assessedAt >= case.finding.observedAt

\* Adding an evidence reference; ids are unique in the catalog.
CollectEvidence(e, collectedAt) ==
  /\ e \notin Catalogued(case)
  /\ case' = [case EXCEPT !.catalog[e] = collectedAt]
  /\ UNCHANGED assessedAt

RecordTriage(r) ==
  /\ case.triage = NoRecord
  /\ case' = [case EXCEPT !.triage = r]
  /\ UNCHANGED assessedAt

\* Mutant: the dates of the plan are not compared.
RecordRemediationUnchecked(r) ==
  /\ case.remediation = NoRecord
  /\ case' = [case EXCEPT !.remediation = r]
  /\ UNCHANGED assessedAt

\* RemediationRecord rejects a due date before the plan.
RecordRemediation(r) ==
  /\ case.remediation = NoRecord
  /\ r.dueAt >= r.at
  /\ case' = [case EXCEPT !.remediation = r]
  /\ UNCHANGED assessedAt

\* RiskAcceptance rejects an expiry that is not later than the acceptance.
\* The bundle holds one acceptance: a new decision takes the place of one
\* that has expired.
RecordRiskAcceptance(r) ==
  /\ case.acceptance = NoRecord \/ AcceptanceExpired(case, assessedAt)
  /\ r.expiresAt > r.at
  /\ case' = [case EXCEPT !.acceptance = r]
  /\ UNCHANGED assessedAt

\* The bundle holds one verification: a retest takes the place of one whose
\* outcome was not effective.
RecordVerification(r) ==
  /\ case.verification # NoRecord => case.verification.outcome # "effective"
  /\ case' = [case EXCEPT !.verification = r]
  /\ UNCHANGED assessedAt

\* assess_case at a later assessed_at.  It rejects a time that precedes the
\* finding, which a time later than the last one cannot.
Assess(t) ==
  /\ t >= case.finding.observedAt
  /\ t > assessedAt
  /\ assessedAt' = t
  /\ UNCHANGED case

Next ==
  \/ \E e \in Evidence, at \in CollectionTimes : CollectEvidence(e, at)
  \/ \E r \in TriageRecords : RecordTriage(r)
  \/ \E r \in RemediationRecords : RecordRemediation(r)
  \/ \E r \in AcceptanceRecords : RecordRiskAcceptance(r)
  \/ \E r \in VerificationRecords : RecordVerification(r)
  \/ \E t \in AssessmentTimes : Assess(t)

Spec == Init /\ [][Next]_vars

-----------------------------------------------------------------------------
(* Properties.                                                             *)

\* The bundle and the assessment time keep their types; the remediation and
\* acceptance held passed the date checks of their constructors.
TypeOK ==
  /\ case \in CaseType
  /\ assessedAt \in Nat
  /\ assessedAt >= case.finding.observedAt
  /\ case.remediation # NoRecord =>
       case.remediation.dueAt >= case.remediation.at
  /\ case.acceptance # NoRecord =>
       case.acceptance.expiresAt > case.acceptance.at

\* The position "current", computed from the gap codes, agrees with the
\* control evidence, computed separately: triage and finding evidence are
\* represented, and either the case is closed and no control shows a gap, or
\* a bounded acceptance is represented.
CurrentPositionIsSupported ==
  Position = "current" =>
    LET status == Dossier.controls IN
    /\ status.INV = "represented" /\ status.TRI = "represented"
    /\ \/ status.CLS = "represented" /\ \A id \in DOMAIN status : status[id] # "gap"
       \/ Lifecycle = "risk_accepted" /\ status.ACC = "represented"

\* The position is computed from the lifecycle state, the gap codes from the
\* single records; the two never contradict each other: a case that is open,
\* overdue or in revalidation always names a gap, and a case that names none
\* is closed or covered by an acceptance.
PositionMatchesGaps ==
  (Position = "current") = (Gaps(case, assessedAt) = {})

\* An SLA breach of an open case is always visible in the position, except
\* while an acceptance covers the assessment time, and no acceptance hides it
\* for longer than the policy maximum rounded up to the next whole day.
BreachIsVisible ==
  /\ assessedAt > RemediationDue(case)
  /\ ~Closed(case, assessedAt)
  /\ Position \notin {"overdue", "revalidation_required"}
  => /\ case.acceptance # NoRecord
     /\ case.acceptance.at <= assessedAt
     /\ assessedAt < case.acceptance.expiresAt
     /\ assessedAt - case.acceptance.at < (MaxRiskAcceptanceDays + 1) * Day

\* A record is deficient if it is dated after the assessment, has expired, or
\* refers to no evidence or to evidence outside the catalog.
Deficient(r) ==
  \/ ~(r.at <= assessedAt)
  \/ r.refs = {}
  \/ \E e \in r.refs : e \notin Catalogued(case)

\* Fails closed: with any deficient record, an expired acceptance or a finding
\* without catalogued evidence, the dossier names a gap and is not "current".
FailsClosed ==
  (\/ \E r \in {case.triage, case.remediation, case.acceptance,
                case.verification} \ {NoRecord} : Deficient(r)
   \/ AcceptanceExpired(case, assessedAt)
   \/ ~Linked(case, case.finding.refs))
  => Gaps(case, assessedAt) # {} /\ Position # "current"

\* README: future-dated evidence fails closed as a gap.  Stated for the
\* evidence the finding refers to.
FutureEvidenceFailsClosed ==
  (\E e \in case.finding.refs \cap Catalogued(case) :
     case.catalog[e] > assessedAt)
  => Gaps(case, assessedAt) # {}

\* Closure is final: no further record and no later assessment reopens a
\* closed case or changes how it was closed.
ClosureIsPermanent ==
  [][Closed(case, assessedAt) =>
       Lifecycle' = Lifecycle]_vars

\* Time alone never renews an acceptance and never lets a case drop back:
\* while the bundle stays the same, a lapsed case stays in revalidation until
\* its verification takes effect, and an accepted one lapses or closes.
TimeAloneNeverRelaxes ==
  [][case' = case =>
       /\ Lifecycle = "revalidation_required" =>
            Lifecycle' \in {"revalidation_required", "closed_verified"}
       /\ Lifecycle = "risk_accepted" =>
            Lifecycle' \in {"risk_accepted", "revalidation_required",
                                    "closed_verified"}]_vars

\* The record that fills slot s in a step, if any.
Appended(s) == case[s] = NoRecord /\ case'[s] # NoRecord

\* A record dated after the assessment is inert: appending it leaves the
\* lifecycle state and the overdue flag as they were, and the position does
\* not become "current".
FutureRecordsAreInert ==
  [][\A s \in {"triage", "remediation", "acceptance", "verification"} :
       Appended(s) /\ case'[s].at > assessedAt =>
         /\ Lifecycle' = Lifecycle
         /\ Overdue(case, assessedAt)' = Overdue(case, assessedAt)
         /\ Position' # "current"]_vars

\* The reported states follow the diagram of the README, except that a case
\* may take both of its branches, and that a lapsed acceptance may be decided
\* anew; no such move is made unless the records for it are there.
Diagram ==
  INSTANCE LifecycleDiagram WITH
    None        <- NoRecord,
    state       <- Lifecycle,
    remediation <- case.remediation,
    acceptance  <- case.acceptance
FollowsDiagram == Diagram!Spec
=============================================================================
