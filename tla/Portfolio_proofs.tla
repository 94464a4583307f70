--------------------------- MODULE Portfolio_proofs ---------------------------
(***************************************************************************)
(* What holds of the portfolio view for every set of cases, records, times *)
(* and policy.                                                             *)
(***************************************************************************)
EXTENDS Portfolio, CaseAssurance_proofs

(* Type correctness: the bundles keep their type, and a triage names       *)
(* another finding exactly if it is a duplicate.                           *)
THEOREM TypeCorrect == Spec => []TypeOK
<1>1. Init => TypeOK
  BY PortfolioAssumption DEF Init, TypeOK, Duplicates, Scope
<1>2. TypeOK /\ [Next]_vars => TypeOK'
  <2> SUFFICES ASSUME TypeOK, [Next]_vars
               PROVE  TypeOK'
    OBVIOUS
  <2>1. ASSUME NEW id \in CaseIds, NEW f \in Findings, AddCase(id, f)
        PROVE  TypeOK'
    <3>1. cases' \in [CaseIds -> CaseType \cup {NoCase}]
      BY <2>1, PortfolioAssumption DEF TypeOK, AddCase, CaseType, FindingType
    <3>2. cases'[id].triage = NoRecord
      BY <2>1 DEF AddCase, TypeOK
    <3>3. Duplicates' = Duplicates
      BY <2>1, <3>2 DEF AddCase, TypeOK, Duplicates, Scope
    <3>4. QED
      BY <2>1, <3>1, <3>3 DEF TypeOK, AddCase
  <2>2. ASSUME NEW id \in CaseIds, RemoveCase(id)
        PROVE  TypeOK'
    <3>1. Duplicates' = Duplicates \ {id}
      BY <2>2 DEF RemoveCase, TypeOK, Duplicates, Scope
    <3>2. QED
      BY <2>2, <3>1, PortfolioAssumption DEF TypeOK, RemoveCase
  <2>3. ASSUME NEW id \in CaseIds, NEW e \in Evidence,
               NEW at \in CollectionTimes, CollectEvidence(id, e, at)
        PROVE  TypeOK'
    <3> DEFINE c == [cases[id] EXCEPT !.catalog[e] = at]
    <3>1. cases[id] \in CaseType
      BY <2>3 DEF TypeOK, CollectEvidence, Scope
    <3>2. c \in CaseType /\ c.triage = cases[id].triage
      BY <3>1, <2>3, PortfolioAssumption DEF CaseType
    <3>3. cases' = [cases EXCEPT ![id] = c]
      BY <2>3 DEF CollectEvidence
    <3>4. cases' \in [CaseIds -> CaseType \cup {NoCase}]
      BY <3>2, <3>3 DEF TypeOK
    <3>5. Duplicates' = Duplicates
      BY <3>1, <3>2, <3>3, PortfolioAssumption DEF TypeOK, Duplicates, Scope
    <3>6. QED
      BY <2>3, <3>4, <3>5 DEF TypeOK, CollectEvidence
  <2>4. ASSUME NEW id \in CaseIds, NEW r \in TriageRecords,
               NEW target \in CaseIds \cup {OutOfScope, NoRecord},
               RecordTriage(id, r, target)
        PROVE  TypeOK'
    <3> DEFINE c == [cases[id] EXCEPT !.triage = r]
    <3>1. cases[id] \in CaseType
      BY <2>4 DEF TypeOK, RecordTriage, Scope
    <3>2. c \in CaseType /\ c.triage = r
      BY <3>1, PortfolioAssumption DEF CaseType
    <3>3. cases' = [cases EXCEPT ![id] = c]
      BY <2>4 DEF RecordTriage
    <3>4. cases' \in [CaseIds -> CaseType \cup {NoCase}]
      BY <3>2, <3>3 DEF TypeOK
    <3>5. Duplicates' = IF r.disposition = "duplicate"
                        THEN Duplicates \cup {id} ELSE Duplicates \ {id}
      BY <3>1, <3>2, <3>3, PortfolioAssumption DEF TypeOK, Duplicates, Scope
    <3>6. QED
      BY <2>4, <3>4, <3>5, PortfolioAssumption DEF TypeOK, RecordTriage
  <2>5. ASSUME NEW id \in CaseIds, NEW r \in RemediationRecords,
               RecordRemediation(id, r)
        PROVE  TypeOK'
    <3> DEFINE c == [cases[id] EXCEPT !.remediation = r]
    <3>1. cases[id] \in CaseType
      BY <2>5 DEF TypeOK, RecordRemediation, Scope
    <3>2. c \in CaseType /\ c.triage = cases[id].triage
      BY <3>1, PortfolioAssumption DEF CaseType
    <3>3. cases' = [cases EXCEPT ![id] = c]
      BY <2>5 DEF RecordRemediation
    <3>4. cases' \in [CaseIds -> CaseType \cup {NoCase}]
      BY <3>2, <3>3 DEF TypeOK
    <3>5. Duplicates' = Duplicates
      BY <3>1, <3>2, <3>3, PortfolioAssumption DEF TypeOK, Duplicates, Scope
    <3>6. QED
      BY <2>5, <3>4, <3>5 DEF TypeOK, RecordRemediation
  <2>6. ASSUME NEW id \in CaseIds, NEW r \in AcceptanceRecords,
               RecordRiskAcceptance(id, r)
        PROVE  TypeOK'
    <3> DEFINE c == [cases[id] EXCEPT !.acceptance = r]
    <3>1. cases[id] \in CaseType
      BY <2>6 DEF TypeOK, RecordRiskAcceptance, Scope
    <3>2. c \in CaseType /\ c.triage = cases[id].triage
      BY <3>1, PortfolioAssumption DEF CaseType
    <3>3. cases' = [cases EXCEPT ![id] = c]
      BY <2>6 DEF RecordRiskAcceptance
    <3>4. cases' \in [CaseIds -> CaseType \cup {NoCase}]
      BY <3>2, <3>3 DEF TypeOK
    <3>5. Duplicates' = Duplicates
      BY <3>1, <3>2, <3>3, PortfolioAssumption DEF TypeOK, Duplicates, Scope
    <3>6. QED
      BY <2>6, <3>4, <3>5 DEF TypeOK, RecordRiskAcceptance
  <2>7. ASSUME NEW id \in CaseIds, NEW r \in VerificationRecords,
               RecordVerification(id, r)
        PROVE  TypeOK'
    <3> DEFINE c == [cases[id] EXCEPT !.verification = r]
    <3>1. cases[id] \in CaseType
      BY <2>7 DEF TypeOK, RecordVerification, Scope
    <3>2. c \in CaseType /\ c.triage = cases[id].triage
      BY <3>1, PortfolioAssumption DEF CaseType
    <3>3. cases' = [cases EXCEPT ![id] = c]
      BY <2>7 DEF RecordVerification
    <3>4. cases' \in [CaseIds -> CaseType \cup {NoCase}]
      BY <3>2, <3>3 DEF TypeOK
    <3>5. Duplicates' = Duplicates
      BY <3>1, <3>2, <3>3, PortfolioAssumption DEF TypeOK, Duplicates, Scope
    <3>6. QED
      BY <2>7, <3>4, <3>5 DEF TypeOK, RecordVerification
  <2>8. ASSUME NEW t \in AssessmentTimes, Assess(t)
        PROVE  TypeOK'
    BY <2>8, PortfolioAssumption DEF TypeOK, Assess, Duplicates, Scope
  <2>9. CASE UNCHANGED vars
    BY <2>9 DEF vars, TypeOK, Duplicates, Scope
  <2>10. QED
    BY <2>1, <2>2, <2>3, <2>4, <2>5, <2>6, <2>7, <2>8, <2>9 DEF Next
<1>3. QED
  BY <1>1, <1>2, PTL DEF Spec

-----------------------------------------------------------------------------
(* The view.                                                               *)

(* A view "current" holds no open case and no broken duplicate: the view   *)
(* has no gap, so no case of its scope has one (NoGapSettles,              *)
(* NoGapIsCurrent), and the target of each duplicate is "linked".          *)
THEOREM CurrentViewSettles == Spec => []CurrentViewIsSettled
<1>1. TypeOK => CurrentViewIsSettled
  <2> SUFFICES ASSUME TypeOK, PortfolioPosition = "current",
                      NEW id \in Scope
               PROVE  /\ Position(id) = "current"
                      /\ IsClosed(id) \/ Lifecycle(id) = "risk_accepted"
                      /\ id \in Duplicates =>
                           duplicateOf[id] \in Scope \ Duplicates
    BY DEF CurrentViewIsSettled
  <2>1. PortfolioGaps = {}
    BY DEF PortfolioPosition
  <2>2. \A g \in Gaps(cases[id], assessedAt) : <<g, id>> \in PortfolioGaps
    <3>1. {<<g, id>> : g \in Gaps(cases[id], assessedAt)} \subseteq PortfolioGaps
      <4> DEFINE ofCase(x) == {<<g, x>> : g \in Gaps(cases[x], assessedAt)}
      <4>1. ofCase(id) \in {ofCase(x) : x \in Scope}
        OBVIOUS
      <4>2. UNION {ofCase(x) : x \in Scope} \subseteq PortfolioGaps
        BY DEF PortfolioGaps, CaseGaps
      <4> HIDE DEF ofCase
      <4>3. ofCase(id) \subseteq PortfolioGaps
        BY <4>1, <4>2
      <4>4. QED
        BY <4>3 DEF ofCase
    <3>2. QED
      BY <3>1
  <2>3. Gaps(cases[id], assessedAt) = {}
    BY <2>1, <2>2
  <2>4. cases[id] \in CaseType
    BY DEF TypeOK, Scope
  <2>5. cases[id].triage # NoRecord =>
          cases[id].triage.disposition \in Disposition
    BY <2>4 DEF CaseType, TriageType
  <2>6. ASSUME id \in Duplicates
        PROVE  duplicateOf[id] \in Scope \ Duplicates
    <3>1. Defect(TargetState(id), "linked", id) \subseteq PortfolioGaps
      <4> DEFINE ofDuplicate(x) ==
                   LET triage == cases[x].triage IN
                     Defect(DecisionState(triage), "current", x)
                       \cup Defect(TargetState(x), "linked", x)
                       \cup Defect(EvidenceState(x, triage.refs), "linked", x)
      <4>1. ofDuplicate(id) \in {ofDuplicate(x) : x \in Duplicates}
        BY <2>6
      <4>2. UNION {ofDuplicate(x) : x \in Duplicates} \subseteq PortfolioGaps
        <5>1. DeduplicationGaps = UNION {ofDuplicate(x) : x \in Duplicates}
          BY DEF DeduplicationGaps
        <5>2. DeduplicationGaps \subseteq PortfolioGaps
          BY DEF PortfolioGaps
        <5> HIDE DEF ofDuplicate
        <5>3. QED
          BY <5>1, <5>2
      <4>3. Defect(TargetState(id), "linked", id) \subseteq ofDuplicate(id)
        OBVIOUS
      <4> HIDE DEF ofDuplicate
      <4>4. QED
        BY <4>1, <4>2, <4>3
    <3>2. TargetState(id) = "linked"
      BY <2>1, <3>1 DEF Defect
    <3>3. QED
      BY <3>2 DEF TargetState
  <2>7. QED
    BY <2>3, <2>5, <2>6, NoGapSettles, NoGapIsCurrent
    DEF Position, IsClosed, Lifecycle
<1>2. QED
  BY <1>1, TypeCorrect, PTL

(* A case past its due time is reported: either it draws attention, or its *)
(* exception is listed as current, within policy and linked.               *)
THEOREM PastDueAccounted == Spec => []PastDueIsAccounted
<1>1. TypeOK => PastDueIsAccounted
  <2> SUFFICES ASSUME TypeOK, NEW id \in Scope,
                      assessedAt > Due(id), ~IsClosed(id)
               PROVE  \/ /\ SlaCohort(id) \in {"overdue",
                                               "revalidation_required"}
                         /\ PortfolioPosition = "attention_required"
                      \/ /\ SlaCohort(id) = "accepted_exception"
                         /\ id \in Exceptions
                         /\ ExceptionState(id) = "current"
                         /\ PolicyState(id) = "within_policy"
                         /\ EvidenceState(id, cases[id].acceptance.refs)
                              \in {"linked", "future"}
    BY DEF PastDueIsAccounted
  <2>1. CASE Lifecycle(id) = "risk_accepted"
    <3>1. AcceptanceValid(cases[id], assessedAt)
      BY <2>1 DEF Lifecycle, LifecycleState, ConfirmedOpenState
    <3>2. /\ id \in Exceptions
          /\ ExceptionState(id) = "current"
          /\ PolicyState(id) = "within_policy"
      BY <3>1 DEF AcceptanceValid, CurrentAndLinked, Current, Exceptions,
         ExceptionState, PolicyState
    <3>3. EvidenceState(id, cases[id].acceptance.refs) \in {"linked", "future"}
      BY <3>1 DEF AcceptanceValid, CurrentAndLinked, Linked, Catalogued,
         EvidenceState
    <3>4. QED
      BY <2>1, <3>2, <3>3 DEF SlaCohort
  <2>2. CASE Lifecycle(id) = "revalidation_required"
    <3>1. Position(id) = "revalidation_required"
      BY <2>2 DEF Position, AssurancePosition, Lifecycle
    <3>2. QED
      BY <2>2, <3>1 DEF SlaCohort, PortfolioPosition, AttentionRequired
  <2>3. CASE Lifecycle(id) \notin {"risk_accepted", "revalidation_required"}
    <3>1. Overdue(cases[id], assessedAt)
      BY <2>3 DEF Overdue, IsClosed, Lifecycle, Due
    <3>2. Position(id) = "overdue"
      BY <2>3, <3>1 DEF Position, AssurancePosition, Lifecycle
    <3>3. QED
      BY <2>3, <3>1, <3>2 DEF SlaCohort, PortfolioPosition, AttentionRequired
  <2>4. QED
    BY <2>1, <2>2, <2>3
<1>2. QED
  BY <1>1, TypeCorrect, PTL

-----------------------------------------------------------------------------
(* The passing of time.                                                    *)

(* The calendar day of a later instant is no earlier day, whatever the     *)
(* number of time units in a day.                                          *)
LEMMA DayOrder ==
  ASSUME NEW t \in Nat, NEW u \in Nat, t <= u
  PROVE  /\ Date(t) \in Int /\ Date(u) \in Int
         /\ Date(t) <= Date(u)
<1>1. Day \in Nat /\ Day > 0
  BY PolicyAssumption
<1>2. ASSUME NEW n \in Nat
      PROVE  /\ Date(n) \in Int
             /\ Day * Date(n) <= n /\ n < Day * Date(n) + Day
  BY <1>1 DEF Date
<1> DEFINE p == Date(t)  q == Date(u)
<1>3. /\ p \in Int /\ q \in Int
      /\ Day * p <= t /\ u < Day * q + Day
  BY <1>2
<1> HIDE DEF p, q
<1>4. ASSUME p > q PROVE FALSE
  <2>1. p >= q + 1
    BY <1>3, <1>4
  <2>2. Day * p >= Day * (q + 1)
    BY <1>1, <1>3, <2>1
  <2>3. Day * (q + 1) = Day * q + Day
    BY <1>1, <1>3
  <2>4. Day * p \in Int /\ Day * q \in Int
    BY <1>1, <1>3
  <2> QED
    BY <1>1, <1>3, <2>2, <2>3, <2>4
<1>5. p <= q
  BY <1>3, <1>4
<1> QED
  BY <1>3, <1>5 DEF p, q

(* The due time of a case is an instant.                                   *)
LEMMA DueIsTime ==
  ASSUME NEW c \in CaseType
  PROVE  RemediationDue(c) \in Nat
<1>1. /\ Day \in Nat /\ c.finding.observedAt \in Nat
      /\ SeveritySlaDays[c.finding.severity] \in Nat
  BY PolicyAssumption DEF CaseType, FindingType
<1>2. Day * SeveritySlaDays[c.finding.severity] \in Nat
  BY <1>1
<1> QED
  BY <1>1, <1>2 DEF RemediationDue

(* The cohort of an open case that awaits its due time: past it the case   *)
(* is "overdue", else the days that are left decide, and there are none    *)
(* only on the due date itself.                                            *)
CohortAt(due, t) ==
  LET days == Date(due) - Date(t) IN
  IF t > due THEN "overdue"
  ELSE IF days = 0 THEN "due_today"
  ELSE IF days <= 7 THEN "due_within_7_days"
  ELSE IF days <= 30 THEN "due_within_30_days"
  ELSE "due_later"

LEMMA CohortWorsens ==
  ASSUME NEW due \in Nat, NEW t \in Nat, NEW u \in Nat, t <= u
  PROVE  /\ Urgency[CohortAt(due, t)] <= Urgency[CohortAt(due, u)]
         /\ CohortAt(due, u) \notin {"overdue", "due_today"} =>
              Date(due) > Date(u)
<1> DEFINE dt == Date(t)  du == Date(u)  dd == Date(due)
<1>1. /\ dt \in Int /\ du \in Int /\ dd \in Int /\ dt <= du
      /\ u <= due => du <= dd
  BY DayOrder
<1> HIDE DEF dt, du, dd
<1>2. /\ CohortAt(due, t) =
           IF t > due THEN "overdue"
           ELSE IF dd - dt = 0 THEN "due_today"
           ELSE IF dd - dt <= 7 THEN "due_within_7_days"
           ELSE IF dd - dt <= 30 THEN "due_within_30_days"
           ELSE "due_later"
      /\ CohortAt(due, u) =
           IF u > due THEN "overdue"
           ELSE IF dd - du = 0 THEN "due_today"
           ELSE IF dd - du <= 7 THEN "due_within_7_days"
           ELSE IF dd - du <= 30 THEN "due_within_30_days"
           ELSE "due_later"
  BY DEF CohortAt, dt, du, dd
<1>3. Urgency[CohortAt(due, t)] <= Urgency[CohortAt(due, u)]
  BY <1>1, <1>2 DEF Urgency
<1>4. CohortAt(due, u) \notin {"overdue", "due_today"} => dd > du
  BY <1>1, <1>2
<1> QED
  BY <1>3, <1>4 DEF dd, du

LEMMA CohortAwaits ==
  ASSUME NEW id, SlaCohort(id) \in DOMAIN Urgency
  PROVE  SlaCohort(id) = CohortAt(Due(id), assessedAt)
<1>1. /\ ~IsClosed(id)
      /\ Lifecycle(id) \notin {"risk_accepted", "revalidation_required"}
  BY DEF SlaCohort, Urgency
<1>2. Overdue(cases[id], assessedAt) <=> assessedAt > Due(id)
  BY <1>1 DEF Overdue, IsClosed, Lifecycle, Due
<1> QED
  BY <1>1, <1>2 DEF SlaCohort, CohortAt

(* While the bundle stays the same, a case only moves towards its due date *)
(* and past it, and its exception only gets older: a later assessment      *)
(* (assess_portfolio) reads the same records against a later instant and   *)
(* no earlier day.                                                         *)
THEOREM TimeAdvances == Spec => TimeOnlyAdvances
<1> DEFINE Advances ==
      cases' = cases => \A id \in Scope :
       /\ {SlaCohort(id), SlaCohort(id)'} \subseteq DOMAIN Urgency =>
            Urgency[SlaCohort(id)] <= Urgency[SlaCohort(id)']
       /\ SlaCohort(id)' \in DOMAIN Urgency \ {"overdue", "due_today"} =>
            Date(Due(id)) > Date(assessedAt)'
       /\ id \in Exceptions /\ ExceptionState(id) # "future" =>
            /\ ExceptionState(id)' # "future"
            /\ AgeDays(id) <= AgeDays(id)'
            /\ ExceptionState(id) = "expired" => ExceptionState(id)' = "expired"
<1>1. TypeOK /\ [Next]_vars => [Advances]_vars
  <2> SUFFICES ASSUME TypeOK, [Next]_vars, cases' = cases, NEW id \in Scope
               PROVE
       /\ {SlaCohort(id), SlaCohort(id)'} \subseteq DOMAIN Urgency =>
            Urgency[SlaCohort(id)] <= Urgency[SlaCohort(id)']
       /\ SlaCohort(id)' \in DOMAIN Urgency \ {"overdue", "due_today"} =>
            Date(Due(id)) > Date(assessedAt)'
       /\ id \in Exceptions /\ ExceptionState(id) # "future" =>
            /\ ExceptionState(id)' # "future"
            /\ AgeDays(id) <= AgeDays(id)'
            /\ ExceptionState(id) = "expired" => ExceptionState(id)' = "expired"
    OBVIOUS
  <2>1. /\ assessedAt \in Nat /\ assessedAt' \in Nat
        /\ assessedAt <= assessedAt'
    BY PortfolioAssumption DEF TypeOK, Next, vars, AddCase, RemoveCase,
       CollectEvidence, RecordTriage, RecordRemediation, RecordRiskAcceptance,
       RecordVerification, Assess
  <2>2. cases[id] \in CaseType
    BY DEF TypeOK, Scope
  <2>3. Due(id) \in Nat /\ Due(id)' = Due(id)
    BY <2>2, DueIsTime DEF Due
  <2>4. SlaCohort(id) \in DOMAIN Urgency =>
          SlaCohort(id) = CohortAt(Due(id), assessedAt)
    BY CohortAwaits
  <2>5. SlaCohort(id)' \in DOMAIN Urgency =>
          SlaCohort(id)' = CohortAt(Due(id), assessedAt')
    <3>1. ASSUME SlaCohort(id)' \in DOMAIN Urgency
          PROVE  /\ ~IsClosed(id)'
                 /\ Lifecycle(id)' \notin {"risk_accepted",
                                           "revalidation_required"}
      BY <3>1 DEF SlaCohort, Urgency
    <3>2. ASSUME SlaCohort(id)' \in DOMAIN Urgency
          PROVE  Overdue(cases[id], assessedAt)' <=> assessedAt' > Due(id)
      BY <3>1, <3>2, <2>3 DEF Overdue, IsClosed, Lifecycle, Due
    <3> QED
      BY <2>3, <3>1, <3>2 DEF SlaCohort, CohortAt, Date
  <2>6. /\ Urgency[CohortAt(Due(id), assessedAt)]
             <= Urgency[CohortAt(Due(id), assessedAt')]
        /\ CohortAt(Due(id), assessedAt') \notin {"overdue", "due_today"} =>
             Date(Due(id)) > Date(assessedAt')
    BY <2>1, <2>3, CohortWorsens
  <2>7. Date(assessedAt)' = Date(assessedAt')
    BY DEF Date
  <2>8. ASSUME id \in Exceptions, ExceptionState(id) # "future"
        PROVE  /\ ExceptionState(id)' # "future"
               /\ AgeDays(id) <= AgeDays(id)'
               /\ ExceptionState(id) = "expired" =>
                    ExceptionState(id)' = "expired"
    <3> DEFINE r == cases[id].acceptance
    <3>1. /\ r # NoRecord /\ r.at \in Nat /\ r.expiresAt \in Nat
          /\ r.at <= assessedAt
      BY <2>2, <2>8 DEF Exceptions, ExceptionState, Current, CaseType,
         AcceptanceType
    <3>2. /\ r.at <= assessedAt'
          /\ r.expiresAt <= assessedAt => r.expiresAt <= assessedAt'
      BY <2>1, <3>1
    <3>3. /\ ExceptionState(id) =
               IF r.expiresAt <= assessedAt THEN "expired" ELSE "current"
          /\ ExceptionState(id)' =
               IF r.expiresAt <= assessedAt' THEN "expired" ELSE "current"
      BY <3>1, <3>2 DEF ExceptionState, Current, AcceptanceExpired
    <3>4. AgeDays(id) <= AgeDays(id)'
      <4>1. /\ Date(assessedAt) \in Int /\ Date(assessedAt') \in Int
            /\ Date(r.at) \in Int
            /\ Date(assessedAt) <= Date(assessedAt')
        BY <2>1, <3>1, DayOrder
      <4>2. /\ AgeDays(id) = Date(assessedAt) - Date(r.at)
            /\ AgeDays(id)' = Date(assessedAt') - Date(r.at)
        BY DEF AgeDays, Date
      <4> QED
        BY <4>1, <4>2
    <3> QED
      BY <3>2, <3>3, <3>4
  <2> QED
    BY <2>4, <2>5, <2>6, <2>7, <2>8
<1> QED
  BY <1>1, TypeCorrect, PTL DEF Spec, TimeOnlyAdvances
=============================================================================
