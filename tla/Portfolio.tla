------------------------------ MODULE Portfolio ------------------------------
(***************************************************************************)
(* The portfolio view (portfolio.py, assess_portfolio): one set of cases,  *)
(* assessed together at one time under one policy.  Cases enter and leave  *)
(* the scope, records are appended to them, and the view is taken again at *)
(* later times.  A finding belongs to exactly one case, so a case id also  *)
(* names its finding.                                                      *)
(***************************************************************************)
EXTENDS CaseAssurance, FiniteSets

CONSTANTS
  CaseIds,              \* cases (and findings) a portfolio may hold
  OutOfScope,           \* a finding that no portfolio holds
  NoCase,               \* a case outside the portfolio
  Findings,             \* findings a case may be opened for
  TriageRecords,        \* records that may be submitted
  RemediationRecords,
  AcceptanceRecords,
  VerificationRecords,
  CollectionTimes,      \* times at which evidence may have been collected
  AssessmentTimes       \* values of assessed_at

ASSUME PortfolioAssumption ==
  /\ OutOfScope \notin CaseIds
  /\ NoRecord \notin CaseIds \cup {OutOfScope}
  /\ NoCase \notin CaseType
  /\ NoRecord \notin TriageRecords
  /\ Findings \subseteq FindingType
  /\ TriageRecords \subseteq TriageType
  /\ RemediationRecords \subseteq
       {r \in RemediationType : r.dueAt >= r.at}
  /\ AcceptanceRecords \subseteq
       {r \in AcceptanceType : r.expiresAt > r.at}
  /\ VerificationRecords \subseteq VerificationType
  /\ CollectionTimes \subseteq Nat
  /\ AssessmentTimes \subseteq Nat

VARIABLES
  cases,        \* the case bundle of each case, or NoCase
  duplicateOf,  \* the finding a duplicate names, or NoRecord
  assessedAt    \* the assessment time of the current view

vars == <<cases, duplicateOf, assessedAt>>

Scope == {id \in CaseIds : cases[id] # NoCase}

Lifecycle(id) == LifecycleState(cases[id], assessedAt)
Position(id) == AssurancePosition(cases[id], assessedAt)
Due(id) == RemediationDue(cases[id])
IsClosed(id) == Closed(cases[id], assessedAt)

\* The UTC calendar day of a time.
Date(t) == t \div Day

-----------------------------------------------------------------------------
(* Evidence of a decision, deduplication decisions.                        *)

EvidenceState(id, refs) ==
  LET catalog == cases[id].catalog IN
  IF refs = {} THEN "missing"
  ELSE IF \E e \in refs : catalog[e] = NoRecord THEN "unlinked"
  ELSE IF \E e \in refs : catalog[e] > assessedAt THEN "future"
  ELSE "linked"

Duplicates ==
  {id \in Scope : /\ cases[id].triage # NoRecord
                  /\ cases[id].triage.disposition = "duplicate"}

\* Mutant: a duplicate is taken for a canonical target.
TargetStateUnchained(id) ==
  IF duplicateOf[id] \notin Scope THEN "target_out_of_scope" ELSE "linked"

TargetState(id) ==
  IF duplicateOf[id] \notin Scope THEN "target_out_of_scope"
  ELSE IF duplicateOf[id] \in Duplicates THEN "target_is_duplicate"
  ELSE "linked"

\* A gap is the state reported and the finding it is reported for.
Defect(state, sound, id) == {<<s, id>> : s \in {state} \ {sound}}

DecisionState(r) == IF Current(r, assessedAt) THEN "current" ELSE "future"

DeduplicationGaps ==
  UNION {LET triage == cases[id].triage IN
           Defect(DecisionState(triage), "current", id)
             \cup Defect(TargetState(id), "linked", id)
             \cup Defect(EvidenceState(id, triage.refs), "linked", id)
         : id \in Duplicates}

-----------------------------------------------------------------------------
(* SLA cohorts: instants decide what is overdue, calendar days the rest.   *)

\* Mutant: the calendar is asked before the instant.
SlaCohortByDate(id) ==
  LET days == Date(Due(id)) - Date(assessedAt) IN
  IF IsClosed(id) THEN "closed"
  ELSE IF Lifecycle(id) \in {"risk_accepted", "revalidation_required"}
  THEN "revalidation_required"
  ELSE IF days = 0 THEN "due_today"
  ELSE IF days <= 7 THEN "due_within_7_days"
  ELSE "due_later"

SlaCohort(id) ==
  LET days == Date(Due(id)) - Date(assessedAt) IN
  IF IsClosed(id) THEN "closed"
  ELSE IF Lifecycle(id) = "risk_accepted" THEN "accepted_exception"
  ELSE IF Lifecycle(id) = "revalidation_required" THEN "revalidation_required"
  ELSE IF Overdue(cases[id], assessedAt) THEN "overdue"
  ELSE IF days = 0 THEN "due_today"
  ELSE IF days <= 7 THEN "due_within_7_days"
  ELSE IF days <= 30 THEN "due_within_30_days"
  ELSE "due_later"

-----------------------------------------------------------------------------
(* Exception ageing.                                                       *)

Exceptions == {id \in Scope : cases[id].acceptance # NoRecord}

ExceptionState(id) ==
  IF ~Current(cases[id].acceptance, assessedAt) THEN "future"
  ELSE IF AcceptanceExpired(cases[id], assessedAt) THEN "expired"
  ELSE "current"

\* Mutant: an exception of exactly the maximum exceeds it.
PolicyStateStrict(id) ==
  IF AcceptanceDays(cases[id].acceptance) < MaxRiskAcceptanceDays
  THEN "within_policy" ELSE "exceeds_policy"

PolicyState(id) ==
  IF AcceptanceDays(cases[id].acceptance) <= MaxRiskAcceptanceDays
  THEN "within_policy" ELSE "exceeds_policy"

\* Days by the calendar, while the policy counts whole days elapsed.
AgeDays(id) == Date(assessedAt) - Date(cases[id].acceptance.at)

ExceptionGaps ==
  UNION {Defect(ExceptionState(id), "current", id)
           \cup Defect(PolicyState(id), "within_policy", id)
           \cup Defect(EvidenceState(id, cases[id].acceptance.refs),
                       "linked", id)
         : id \in Exceptions}

-----------------------------------------------------------------------------
(* Accountability and the view.                                            *)

Records(id) ==
  {cases[id].triage, cases[id].remediation, cases[id].acceptance,
   cases[id].verification} \ {NoRecord}

\* Every record names an accountable role; oversight is the portfolio's own.
AccountabilityGaps ==
  {<<"case_accountability_missing", id>> : id \in {x \in Scope : Records(x) = {}}}

CaseGaps == UNION {{<<g, id>> : g \in Gaps(cases[id], assessedAt)} : id \in Scope}

EmptyScopeGaps ==
  IF Scope = {} THEN {<<"portfolio_cases_missing", OutOfScope>>} ELSE {}

PortfolioGaps ==
  CaseGaps \cup DeduplicationGaps \cup ExceptionGaps
    \cup AccountabilityGaps \cup EmptyScopeGaps

AttentionRequired ==
  \E id \in Scope : Position(id) \in {"overdue", "revalidation_required"}

PortfolioPosition ==
  IF Scope = {} THEN "unavailable"
  ELSE IF AttentionRequired THEN "attention_required"
  ELSE IF PortfolioGaps # {} THEN "with_gaps"
  ELSE "current"

-----------------------------------------------------------------------------

Init ==
  /\ cases = [id \in CaseIds |-> NoCase]
  /\ duplicateOf = [id \in CaseIds |-> NoRecord]
  /\ assessedAt \in AssessmentTimes

\* A case enters the scope; a finding later than the assessment would make
\* assess_case, and with it the whole view, fail.
AddCase(id, finding) ==
  /\ id \notin Scope
  /\ finding.observedAt <= assessedAt
  /\ cases' = [cases EXCEPT ![id] =
                 [finding      |-> finding,
                  catalog      |-> [e \in Evidence |-> NoRecord],
                  triage       |-> NoRecord,
                  remediation  |-> NoRecord,
                  acceptance   |-> NoRecord,
                  verification |-> NoRecord]]
  /\ UNCHANGED <<duplicateOf, assessedAt>>

RemoveCase(id) ==
  /\ id \in Scope
  /\ cases' = [cases EXCEPT ![id] = NoCase]
  /\ duplicateOf' = [duplicateOf EXCEPT ![id] = NoRecord]
  /\ UNCHANGED assessedAt

CollectEvidence(id, e, collectedAt) ==
  /\ id \in Scope
  /\ e \notin Catalogued(cases[id])
  /\ cases' = [cases EXCEPT ![id].catalog[e] = collectedAt]
  /\ UNCHANGED <<duplicateOf, assessedAt>>

\* Mutant: duplicate_of is not required of a duplicate.
RecordTriageAlone(id, r, target) ==
  /\ id \in Scope /\ cases[id].triage = NoRecord
  /\ target # id
  /\ cases' = [cases EXCEPT ![id].triage = r]
  /\ duplicateOf' = [duplicateOf EXCEPT ![id] = target]
  /\ UNCHANGED assessedAt

\* A triage names another finding exactly if it is a duplicate.
RecordTriage(id, r, target) ==
  /\ id \in Scope /\ cases[id].triage = NoRecord
  /\ target # id
  /\ (target # NoRecord) = (r.disposition = "duplicate")
  /\ cases' = [cases EXCEPT ![id].triage = r]
  /\ duplicateOf' = [duplicateOf EXCEPT ![id] = target]
  /\ UNCHANGED assessedAt

RecordRemediation(id, r) ==
  /\ id \in Scope /\ cases[id].remediation = NoRecord
  /\ cases' = [cases EXCEPT ![id].remediation = r]
  /\ UNCHANGED <<duplicateOf, assessedAt>>

RecordRiskAcceptance(id, r) ==
  /\ id \in Scope /\ cases[id].acceptance = NoRecord
  /\ cases' = [cases EXCEPT ![id].acceptance = r]
  /\ UNCHANGED <<duplicateOf, assessedAt>>

RecordVerification(id, r) ==
  /\ id \in Scope /\ cases[id].verification = NoRecord
  /\ cases' = [cases EXCEPT ![id].verification = r]
  /\ UNCHANGED <<duplicateOf, assessedAt>>

\* assess_portfolio at a later time.
Assess(t) ==
  /\ t > assessedAt
  /\ assessedAt' = t
  /\ UNCHANGED <<cases, duplicateOf>>

Next ==
  \/ \E id \in CaseIds :
       \/ \E f \in Findings : AddCase(id, f)
       \/ RemoveCase(id)
       \/ \E e \in Evidence, at \in CollectionTimes : CollectEvidence(id, e, at)
       \/ \E r \in TriageRecords,
             target \in CaseIds \cup {OutOfScope, NoRecord} :
            RecordTriage(id, r, target)
       \/ \E r \in RemediationRecords : RecordRemediation(id, r)
       \/ \E r \in AcceptanceRecords : RecordRiskAcceptance(id, r)
       \/ \E r \in VerificationRecords : RecordVerification(id, r)
  \/ \E t \in AssessmentTimes : Assess(t)

Spec == Init /\ [][Next]_vars

-----------------------------------------------------------------------------
(* Properties.                                                             *)

\* The bundle keeps its type, and exactly the duplicates name a finding.
TypeOK ==
  /\ cases \in [CaseIds -> CaseType \cup {NoCase}]
  /\ duplicateOf \in [CaseIds -> CaseIds \cup {OutOfScope, NoRecord}]
  /\ assessedAt \in Nat
  /\ \A id \in CaseIds :
       /\ (duplicateOf[id] # NoRecord) = (id \in Duplicates)
       /\ duplicateOf[id] # id

\* The view counts gaps, never positions, yet a view that is "current" holds
\* no open case and no broken duplicate: each case is closed or accepted and
\* itself current, and each duplicate leads to such a case of its scope.
CurrentViewIsSettled ==
  PortfolioPosition = "current" =>
    \A id \in Scope :
      /\ Position(id) = "current"
      /\ IsClosed(id) \/ Lifecycle(id) = "risk_accepted"
      /\ id \in Duplicates => duplicateOf[id] \in Scope \ Duplicates

\* The two computations of an exception agree: an open case past its due time
\* draws attention, unless its exception is listed as current, within policy
\* and resting on catalogued evidence.
PastDueIsAccounted ==
  \A id \in Scope :
    assessedAt > Due(id) /\ ~IsClosed(id) =>
      \/ SlaCohort(id) \in {"overdue", "revalidation_required"}
         /\ PortfolioPosition = "attention_required"
      \/ /\ SlaCohort(id) = "accepted_exception"
         /\ id \in Exceptions
         /\ ExceptionState(id) = "current" /\ PolicyState(id) = "within_policy"
         /\ EvidenceState(id, cases[id].acceptance.refs)
              \in {"linked", "future"}

\* The order of the cohorts of an open case that awaits its due time.
Urgency ==
  [due_later |-> 0, due_within_30_days |-> 1, due_within_7_days |-> 2,
   due_today |-> 3, overdue |-> 4]

\* Calendar days and instants never contradict each other: while the bundle
\* stays the same, a case only moves towards its due date, becomes due today
\* or overdue no later than that date, and its exception only gets older.
TimeOnlyAdvances ==
  [][cases' = cases => \A id \in Scope :
       /\ {SlaCohort(id), SlaCohort(id)'} \subseteq DOMAIN Urgency =>
            Urgency[SlaCohort(id)] <= Urgency[SlaCohort(id)']
       /\ SlaCohort(id)' \in DOMAIN Urgency \ {"overdue", "due_today"} =>
            Date(Due(id)) > Date(assessedAt)'
       /\ id \in Exceptions /\ ExceptionState(id) # "future" =>
            /\ ExceptionState(id)' # "future"
            /\ AgeDays(id) <= AgeDays(id)'
            /\ ExceptionState(id) = "expired" => ExceptionState(id)' = "expired"]_vars
=============================================================================
