------------------------ MODULE CaseLifecycle_proofs ------------------------
(***************************************************************************)
(* What holds of CaseLifecycle for every set of records, evidence ids,     *)
(* times and policy.                                                       *)
(***************************************************************************)
EXTENDS CaseLifecycle, CaseAssurance_proofs

(* Type correctness: the bundle keeps its type and every record in it      *)
(* passed the date checks of its constructor.                              *)
THEOREM TypeCorrect == Spec => []TypeOK
<1>1. Init => TypeOK
  BY InputAssumption DEF Init, TypeOK, CaseType, FindingType
<1>2. TypeOK /\ [Next]_vars => TypeOK'
  <2> SUFFICES ASSUME TypeOK, [Next]_vars
               PROVE  TypeOK'
    OBVIOUS
  <2>1. ASSUME NEW e \in Evidence, NEW at \in CollectionTimes,
               CollectEvidence(e, at)
        PROVE  TypeOK'
    BY <2>1, InputAssumption DEF TypeOK, CaseType, CollectEvidence
  <2>2. ASSUME NEW r \in TriageRecords, RecordTriage(r)
        PROVE  TypeOK'
    BY <2>2, InputAssumption DEF TypeOK, CaseType, RecordTriage
  <2>3. ASSUME NEW r \in RemediationRecords, RecordRemediation(r)
        PROVE  TypeOK'
    BY <2>3, InputAssumption DEF TypeOK, CaseType, RecordRemediation
  <2>4. ASSUME NEW r \in AcceptanceRecords, RecordRiskAcceptance(r)
        PROVE  TypeOK'
    BY <2>4, InputAssumption DEF TypeOK, CaseType, RecordRiskAcceptance
  <2>5. ASSUME NEW r \in VerificationRecords, RecordVerification(r)
        PROVE  TypeOK'
    BY <2>5, InputAssumption DEF TypeOK, CaseType, RecordVerification
  <2>6. ASSUME NEW t \in AssessmentTimes, Assess(t)
        PROVE  TypeOK'
    BY <2>6, InputAssumption DEF TypeOK, CaseType, FindingType, Assess
  <2>7. CASE UNCHANGED vars
    BY <2>7 DEF vars, TypeOK
  <2>8. QED
    BY <2>1, <2>2, <2>3, <2>4, <2>5, <2>6, <2>7 DEF Next
<1>3. QED
  BY <1>1, <1>2, PTL DEF Spec

-----------------------------------------------------------------------------
(* Closure.                                                                *)

(* Bundle d succeeds bundle c: the finding is the same, the catalog has    *)
(* only grown, the triage and the remediation once recorded are kept, and  *)
(* so is a verification whose outcome was effective.                       *)
Succeeds(c, d) ==
  /\ d.finding = c.finding
  /\ Catalogued(c) \subseteq Catalogued(d)
  /\ c.triage # NoRecord => d.triage = c.triage
  /\ c.remediation # NoRecord => d.remediation = c.remediation
  /\ c.verification # NoRecord /\ c.verification.outcome = "effective"
       => d.verification = c.verification

(* Every step leads to a succeeding bundle and to no earlier assessment.   *)
LEMMA StepSucceeds ==
  ASSUME TypeOK, [Next]_vars
  PROVE  /\ Succeeds(case, case')
         /\ assessedAt' \in Nat
         /\ assessedAt' >= assessedAt
<1> USE DEF TypeOK, CaseType, Succeeds, Catalogued
<1>1. ASSUME NEW e \in Evidence, NEW at \in CollectionTimes,
             CollectEvidence(e, at)
      PROVE  Succeeds(case, case')
  BY <1>1 DEF CollectEvidence
<1>2. ASSUME NEW r \in TriageRecords, RecordTriage(r)
      PROVE  Succeeds(case, case')
  BY <1>2 DEF RecordTriage
<1>3. ASSUME NEW r \in RemediationRecords, RecordRemediation(r)
      PROVE  Succeeds(case, case')
  BY <1>3 DEF RecordRemediation
<1>4. ASSUME NEW r \in AcceptanceRecords, RecordRiskAcceptance(r)
      PROVE  Succeeds(case, case')
  BY <1>4 DEF RecordRiskAcceptance
<1>5. ASSUME NEW r \in VerificationRecords, RecordVerification(r)
      PROVE  Succeeds(case, case')
  BY <1>5 DEF RecordVerification
<1>6. ASSUME NEW t \in AssessmentTimes, Assess(t)
      PROVE  Succeeds(case, case')
  BY <1>6 DEF Assess
<1>7. CASE UNCHANGED vars
  BY <1>7 DEF vars
<1>8. Succeeds(case, case')
  BY <1>1, <1>2, <1>3, <1>4, <1>5, <1>6, <1>7 DEF Next
<1>9. assessedAt' \in Nat /\ assessedAt' >= assessedAt
  BY InputAssumption DEF Next, CollectEvidence, RecordTriage,
     RecordRemediation, RecordRiskAcceptance, RecordVerification, Assess, vars
<1>10. QED
  BY <1>8, <1>9

(* In a succeeding bundle and at a later time, linked references stay      *)
(* linked.                                                                 *)
LEMMA LinkedStays ==
  ASSUME NEW c, NEW d, NEW refs, Succeeds(c, d), Linked(c, refs)
  PROVE  Linked(d, refs)
BY DEF Succeeds, Linked

(* A bundle that closes a finding closes it in the same way in every       *)
(* succeeding bundle, at every later time.                                 *)
LEMMA ClosureStays ==
  ASSUME NEW c \in CaseType, NEW d \in CaseType, NEW t \in Nat, NEW u \in Nat,
         t <= u, Succeeds(c, d), Closed(c, t)
  PROVE  LifecycleState(d, u) = LifecycleState(c, t)
<1>1. /\ c.triage # NoRecord /\ d.triage = c.triage
      /\ c.triage \in TriageType
      /\ c.triage.at <= t
  BY DEF Closed, ClosedDispositioned, ClosedVerified, TriageSupported,
     CurrentAndLinked, Current, Succeeds, CaseType
<1>2. Current(c.triage, t) /\ Current(d.triage, u)
  BY <1>1 DEF Current, TriageType
<1>3. /\ CurrentDisposition(c, t) = c.triage.disposition
      /\ CurrentDisposition(d, u) = c.triage.disposition
      /\ c.triage.disposition \in Disposition
  BY <1>1, <1>2 DEF CurrentDisposition, TriageType
<1>4. TriageSupported(d, u)
  <2>1. Linked(c, c.triage.refs) /\ Linked(c, c.finding.refs)
    BY DEF Closed, ClosedDispositioned, ClosedVerified, TriageSupported,
       CurrentAndLinked
  <2>2. Linked(d, d.triage.refs) /\ Linked(d, d.finding.refs)
    BY <1>1, <2>1, LinkedStays DEF Succeeds
  <2>3. QED
    BY <1>2, <2>2 DEF TriageSupported, CurrentAndLinked
<1>5. CASE ClosedDispositioned(c, t)
  <2>1. ClosedDispositioned(d, u)
    BY <1>3, <1>4, <1>5 DEF ClosedDispositioned
  <2>2. QED
    BY <1>3, <1>5, <2>1 DEF LifecycleState, Disposition, ClosedDispositioned,
       ClosedVerified
<1>6. CASE ClosedVerified(c, t)
  <2>1. /\ c.verification # NoRecord /\ d.verification = c.verification
        /\ c.remediation # NoRecord /\ d.remediation = c.remediation
        /\ c.verification.at <= t /\ c.verification.at \in Nat
        /\ c.remediation.at <= t /\ c.remediation.at \in Nat
        /\ Linked(c, c.verification.refs) /\ Linked(c, c.remediation.refs)
        /\ c.verification.outcome = "effective"
    BY <1>6 DEF ClosedVerified, VerificationEffective, CurrentAndLinked,
       Current, Succeeds, CaseType, VerificationType, RemediationType
  <2>2. Current(d.verification, u) /\ Current(d.remediation, u)
    BY <2>1 DEF Current
  <2>3. Linked(d, d.verification.refs) /\ Linked(d, d.remediation.refs)
    BY <2>1, LinkedStays
  <2>4. VerificationIndependent(d, u)
    BY <1>6, <2>1, <2>2 DEF ClosedVerified, VerificationEffective,
       VerificationIndependent
  <2>5. ClosedVerified(d, u)
    BY <1>3, <1>4, <1>6, <2>1, <2>2, <2>3, <2>4 DEF ClosedVerified,
       VerificationEffective, CurrentAndLinked
  <2>6. QED
    BY <1>3, <1>6, <2>5 DEF LifecycleState, ClosedDispositioned, ClosedVerified
<1>7. QED
  BY <1>5, <1>6 DEF Closed

(* Closure is final, whatever records follow and however late the case is  *)
(* assessed again.                                                         *)
THEOREM ClosurePermanence == Spec => ClosureIsPermanent
<1>1. ASSUME TypeOK, TypeOK', [Next]_vars, Closed(case, assessedAt)
      PROVE  Lifecycle' = Lifecycle
  BY <1>1, StepSucceeds, ClosureStays DEF TypeOK, Lifecycle
<1>2. TypeOK /\ TypeOK' /\ [Next]_vars
        => [Closed(case, assessedAt) => Lifecycle' = Lifecycle]_vars
  BY <1>1
<1>3. QED
  BY <1>2, TypeCorrect, PTL DEF Spec, ClosureIsPermanent

-----------------------------------------------------------------------------
(* Invariants of the dossier.  They hold of every well-typed bundle and    *)
(* time, so type correctness is the only inductive fact they need.         *)

(* An SLA breach is hidden only by an unexpired acceptance, and for less   *)
(* than one day more than the policy maximum.                              *)
THEOREM BreachVisibility == Spec => []BreachIsVisible
<1>1. TypeOK => BreachIsVisible
  <2> SUFFICES ASSUME TypeOK,
                      assessedAt > RemediationDue(case),
                      ~Closed(case, assessedAt),
                      Position \notin {"overdue", "revalidation_required"}
               PROVE  /\ case.acceptance # NoRecord
                      /\ case.acceptance.at <= assessedAt
                      /\ assessedAt < case.acceptance.expiresAt
                      /\ assessedAt - case.acceptance.at
                           < (MaxRiskAcceptanceDays + 1) * Day
    BY DEF BreachIsVisible
  <2>1. Lifecycle = "risk_accepted"
    BY DEF Position, AssurancePosition, Overdue, Lifecycle
  <2>2. AcceptanceValid(case, assessedAt)
    BY <2>1 DEF Lifecycle, LifecycleState, ConfirmedOpenState
  <2>3. /\ case.acceptance # NoRecord
        /\ case.acceptance \in AcceptanceType
        /\ case.acceptance.at <= assessedAt
        /\ ~(case.acceptance.expiresAt <= assessedAt)
        /\ AcceptanceDays(case.acceptance) <= MaxRiskAcceptanceDays
    BY <2>2 DEF AcceptanceValid, CurrentAndLinked, Current,
       AcceptanceExpired, TypeOK, CaseType
  <2> DEFINE length == case.acceptance.expiresAt - case.acceptance.at
  <2>4. /\ length \in Int /\ Day \in Nat /\ Day > 0
        /\ length \div Day <= MaxRiskAcceptanceDays
        /\ MaxRiskAcceptanceDays \in Nat
    BY <2>3, PolicyAssumption DEF AcceptanceType, AcceptanceDays
  <2>5. length < (MaxRiskAcceptanceDays + 1) * Day
    <3> HIDE DEF length
    <3>1. length < (length \div Day + 1) * Day
      BY <2>4
    <3>2. QED
      BY <2>4, <3>1
  <2> DEFINE limit == (MaxRiskAcceptanceDays + 1) * Day
  <2>6. limit \in Int
    BY <2>4
  <2>7. assessedAt - case.acceptance.at < limit
    <3> HIDE DEF limit
    <3>1. length < limit
      BY <2>5 DEF limit
    <3>2. QED
      BY <2>3, <2>6, <3>1 DEF AcceptanceType, TypeOK
  <2>8. QED
    BY <2>3, <2>7 DEF AcceptanceType, TypeOK
<1>2. QED
  BY <1>1, TypeCorrect, PTL

(* The position and the gap codes never contradict each other.             *)
THEOREM PositionAgreesWithGaps == Spec => []PositionMatchesGaps
<1>1. TypeOK => PositionMatchesGaps
  <2> SUFFICES ASSUME TypeOK
               PROVE  PositionMatchesGaps
    OBVIOUS
  <2>1. case.triage # NoRecord => case.triage.disposition \in Disposition
    BY DEF TypeOK, CaseType, TriageType
  <2>2. ASSUME Gaps(case, assessedAt) = {}
        PROVE  Position = "current"
    BY <2>1, <2>2, NoGapIsCurrent DEF Position
  <2>3. ASSUME Position = "current"
        PROVE  Gaps(case, assessedAt) = {}
    BY <2>3 DEF Position, AssurancePosition
  <2>4. QED
    BY <2>2, <2>3 DEF PositionMatchesGaps
<1>2. QED
  BY <1>1, TypeCorrect, PTL

(* A deficient record, an expired acceptance or an unsupported finding     *)
(* leaves a gap and is never reported as current.                          *)
THEOREM DeficiencyFailsClosed == Spec => []FailsClosed
<1>1. ASSUME NEW r, r # NoRecord, Deficient(r)
      PROVE  \/ Future(r, assessedAt)
             \/ Current(r, assessedAt) /\ r.refs = {}
             \/ Current(r, assessedAt) /\ Unlinked(case, r.refs)
  BY <1>1 DEF Deficient, Future, Current, Unlinked, Linked
<1>2. ASSUME NEW r \in {case.triage, case.remediation, case.acceptance,
                        case.verification} \ {NoRecord},
             Deficient(r)
      PROVE  Gaps(case, assessedAt) # {}
  BY <1>1, <1>2, GapsNamed
<1>3. ASSUME ~Linked(case, case.finding.refs)
      PROVE  Gaps(case, assessedAt) # {}
  BY <1>3, GapsNamed DEF Linked, Unlinked
<1>4. Gaps(case, assessedAt) # {} => Position # "current"
  BY DEF Position, AssurancePosition
<1>5. FailsClosed
  BY <1>2, <1>3, <1>4, GapsNamed DEF FailsClosed
<1>6. QED
  BY <1>5, PTL

(* A position "current" agrees with the controls, which are computed apart  *)
(* from the gap codes: they support it, and none of a closed case is a gap. *)
THEOREM CurrentIsSupported == Spec => []CurrentPositionIsSupported
<1>1. TypeOK => CurrentPositionIsSupported
  <2> SUFFICES ASSUME TypeOK, Position = "current"
               PROVE  LET status == ControlStatus(case, assessedAt) IN
                      /\ status.INV = "represented"
                      /\ status.TRI = "represented"
                      /\ \/ /\ status.CLS = "represented"
                            /\ \A id \in DOMAIN status : status[id] # "gap"
                         \/ /\ Lifecycle = "risk_accepted"
                            /\ status.ACC = "represented"
    BY DEF CurrentPositionIsSupported, Dossier, AssessCase
  <2>1. /\ Gaps(case, assessedAt) = {}
        /\ Closed(case, assessedAt) \/ Lifecycle = "risk_accepted"
    BY DEF Position, AssurancePosition, Lifecycle
  <2>2. case.acceptance # NoRecord =>
          /\ case.acceptance.controlled \in BOOLEAN
          /\ AcceptanceDays(case.acceptance) \in Int
    BY PolicyAssumption DEF TypeOK, CaseType, AcceptanceType, AcceptanceDays
  <2>3. QED
    BY <2>1, <2>2, NoGapNoControlGap DEF Lifecycle
<1>2. QED
  BY <1>1, TypeCorrect, PTL

-----------------------------------------------------------------------------
(* Time and records.                                                       *)

(* What once is current stays so; a disposition once made stays, and an     *)
(* acceptance that lapsed stays so.                                         *)
LEMMA TimePasses ==
  ASSUME NEW c \in CaseType, NEW t \in Nat, NEW u \in Nat, t <= u
  PROVE  /\ \A r \in {c.triage, c.remediation, c.acceptance, c.verification} :
              Current(r, t) => Current(r, u)
         /\ CurrentDisposition(c, t) # "none" =>
              CurrentDisposition(c, u) = CurrentDisposition(c, t)
         /\ AcceptanceExpired(c, t) => AcceptanceExpired(c, u)
         /\ AcceptanceValid(c, t) =>
              AcceptanceExpired(c, u) \/ AcceptanceValid(c, u)
<1>1. \A r \in {c.triage, c.remediation, c.acceptance, c.verification} :
        Current(r, t) => Current(r, u)
  BY DEF CaseType, TriageType, RemediationType, AcceptanceType,
     VerificationType, Current
<1>2. CurrentDisposition(c, t) # "none" =>
        CurrentDisposition(c, u) = CurrentDisposition(c, t)
  BY <1>1 DEF CurrentDisposition
<1>3. AcceptanceExpired(c, t) => AcceptanceExpired(c, u)
  <2>1. c.acceptance # NoRecord => c.acceptance.expiresAt \in Nat
    BY DEF CaseType, AcceptanceType
  <2>2. QED
    BY <1>1, <2>1 DEF AcceptanceExpired, Current
<1>4. AcceptanceValid(c, t) /\ ~AcceptanceExpired(c, u) => AcceptanceValid(c, u)
  BY <1>1 DEF AcceptanceValid, CurrentAndLinked
<1>5. QED
  BY <1>1, <1>2, <1>3, <1>4

(* While its bundle stays the same, a lapsed case does not leave            *)
(* revalidation but by its verification, and an accepted one lapses or      *)
(* closes (assess_case at successive times).                                *)
THEOREM TimeNeverRelaxes == Spec => TimeAloneNeverRelaxes
<1> DEFINE Kept ==
      case' = case =>
        /\ Lifecycle = "revalidation_required" =>
             Lifecycle' \in {"revalidation_required", "closed_verified"}
        /\ Lifecycle = "risk_accepted" =>
             Lifecycle' \in {"risk_accepted", "revalidation_required",
                                     "closed_verified"}
<1>1. TypeOK /\ [Next]_vars => [Kept]_vars
  <2> SUFFICES ASSUME TypeOK, Next, case' = case,
                      Lifecycle \in {"revalidation_required", "risk_accepted"}
               PROVE  /\ Lifecycle = "revalidation_required" =>
                           Lifecycle' \in {"revalidation_required",
                                           "closed_verified"}
                      /\ Lifecycle = "risk_accepted" =>
                           Lifecycle' \in {"risk_accepted",
                                           "revalidation_required",
                                           "closed_verified"}
    OBVIOUS
  <2>1. /\ case \in CaseType /\ assessedAt \in Nat /\ assessedAt' \in Nat
        /\ assessedAt <= assessedAt'
    BY StepSucceeds DEF TypeOK
  <2>2. /\ CurrentDisposition(case, assessedAt) = "confirmed"
        /\ Lifecycle = ConfirmedOpenState(case, assessedAt)
    BY OpenStates DEF Lifecycle
  <2>3. /\ CurrentDisposition(case, assessedAt') = "confirmed"
        /\ \/ Lifecycle' = "closed_verified"
           \/ Lifecycle' = ConfirmedOpenState(case, assessedAt')
    <3>1. CurrentDisposition(case, assessedAt') = "confirmed"
      BY <2>1, <2>2, TimePasses
    <3>2. QED
      BY <3>1, OpenStates DEF Lifecycle
  <2>4. ASSUME Lifecycle = "revalidation_required"
        PROVE  ConfirmedOpenState(case, assessedAt') = "revalidation_required"
    <3>1. AcceptanceExpired(case, assessedAt)
      BY <2>2, <2>4, AcceptanceDecides
    <3>2. AcceptanceExpired(case, assessedAt')
      BY <2>1, <3>1, TimePasses
    <3>3. QED
      BY <3>2, AcceptanceDecides
  <2>5. ASSUME Lifecycle = "risk_accepted"
        PROVE  ConfirmedOpenState(case, assessedAt') \in
                 {"risk_accepted", "revalidation_required"}
    <3>1. AcceptanceValid(case, assessedAt)
      BY <2>2, <2>5, AcceptanceDecides
    <3>2. \/ AcceptanceExpired(case, assessedAt')
          \/ AcceptanceValid(case, assessedAt')
      BY <2>1, <3>1, TimePasses
    <3>3. QED
      BY <3>2, AcceptanceDecides
  <2>6. QED
    BY <2>3, <2>4, <2>5
<1>2. QED
  BY <1>1, TypeCorrect, PTL DEF Spec, TimeAloneNeverRelaxes

(* A step fills one slot of the bundle at most, and only an acceptance that *)
(* has expired or a verification that was not effective is replaced.        *)
LEMMA OneRecordAtATime ==
  ASSUME TypeOK, [Next]_vars
  PROVE  \/ /\ case'.triage = case.triage
            /\ case'.remediation = case.remediation
            /\ case'.acceptance = case.acceptance
            /\ case'.verification = case.verification
         \/ /\ assessedAt' = assessedAt /\ case'.finding = case.finding
            /\ case'.catalog = case.catalog
            /\ \/ /\ case.triage = NoRecord
                  /\ case'.remediation = case.remediation
                  /\ case'.acceptance = case.acceptance
                  /\ case'.verification = case.verification
               \/ /\ case.remediation = NoRecord
                  /\ case'.triage = case.triage
                  /\ case'.acceptance = case.acceptance
                  /\ case'.verification = case.verification
               \/ /\ \/ case.acceptance = NoRecord
                     \/ AcceptanceExpired(case, assessedAt)
                  /\ case'.triage = case.triage
                  /\ case'.remediation = case.remediation
                  /\ case'.verification = case.verification
               \/ /\ case'.triage = case.triage
                  /\ case'.remediation = case.remediation
                  /\ case'.acceptance = case.acceptance
<1> USE DEF TypeOK, CaseType
<1>1. ASSUME NEW e \in Evidence, NEW at \in CollectionTimes,
             CollectEvidence(e, at)
      PROVE  /\ case'.triage = case.triage
             /\ case'.remediation = case.remediation
             /\ case'.acceptance = case.acceptance
             /\ case'.verification = case.verification
  BY <1>1 DEF CollectEvidence
<1>2. ASSUME NEW r \in TriageRecords, RecordTriage(r)
      PROVE  /\ assessedAt' = assessedAt /\ case'.finding = case.finding
             /\ case'.catalog = case.catalog
             /\ case.triage = NoRecord
             /\ case'.remediation = case.remediation
             /\ case'.acceptance = case.acceptance
             /\ case'.verification = case.verification
  BY <1>2 DEF RecordTriage
<1>3. ASSUME NEW r \in RemediationRecords, RecordRemediation(r)
      PROVE  /\ assessedAt' = assessedAt /\ case'.finding = case.finding
             /\ case'.catalog = case.catalog
             /\ case.remediation = NoRecord
             /\ case'.triage = case.triage
             /\ case'.acceptance = case.acceptance
             /\ case'.verification = case.verification
  BY <1>3 DEF RecordRemediation
<1>4. ASSUME NEW r \in AcceptanceRecords, RecordRiskAcceptance(r)
      PROVE  /\ assessedAt' = assessedAt /\ case'.finding = case.finding
             /\ case'.catalog = case.catalog
             /\ \/ case.acceptance = NoRecord
                \/ AcceptanceExpired(case, assessedAt)
             /\ case'.triage = case.triage
             /\ case'.remediation = case.remediation
             /\ case'.verification = case.verification
  BY <1>4 DEF RecordRiskAcceptance
<1>5. ASSUME NEW r \in VerificationRecords, RecordVerification(r)
      PROVE  /\ assessedAt' = assessedAt /\ case'.finding = case.finding
             /\ case'.catalog = case.catalog
             /\ case'.triage = case.triage
             /\ case'.remediation = case.remediation
             /\ case'.acceptance = case.acceptance
  BY <1>5 DEF RecordVerification
<1>6. (\E t \in AssessmentTimes : Assess(t)) \/ UNCHANGED vars => case' = case
  BY DEF Assess, vars
<1>7. QED
  BY <1>1, <1>2, <1>3, <1>4, <1>5, <1>6 DEF Next

(* A record dated after the assessment is inert: appending it changes       *)
(* neither the state nor the overdue flag, and reports a gap.               *)
THEOREM FutureIsInert == Spec => FutureRecordsAreInert
<1> DEFINE Inert ==
      \A s \in {"triage", "remediation", "acceptance", "verification"} :
        Appended(s) /\ case'[s].at > assessedAt =>
          /\ Lifecycle' = Lifecycle
          /\ Overdue(case, assessedAt)' = Overdue(case, assessedAt)
          /\ Position' # "current"
<1>1. TypeOK /\ TypeOK' /\ [Next]_vars => [Inert]_vars
  <2> SUFFICES ASSUME TypeOK, TypeOK', [Next]_vars,
                      NEW s \in {"triage", "remediation", "acceptance",
                                 "verification"},
                      Appended(s), case'[s].at > assessedAt
               PROVE  /\ Lifecycle' = Lifecycle
                      /\ Overdue(case', assessedAt') = Overdue(case, assessedAt)
                      /\ Position' # "current"
    OBVIOUS
  <2>1. case[s] = NoRecord /\ case'[s] # NoRecord
    BY DEF Appended
  <2>2. /\ assessedAt' = assessedAt /\ assessedAt \in Nat
        /\ case'.finding = case.finding /\ case'.catalog = case.catalog
        /\ \A x \in {"triage", "remediation", "acceptance", "verification"} :
             x # s => case'[x] = case[x]
    <3>1. s = "triage" => case.triage # case'.triage
      BY <2>1
    <3>2. s = "remediation" => case.remediation # case'.remediation
      BY <2>1
    <3>3. s = "acceptance" => case.acceptance # case'.acceptance
      BY <2>1
    <3>4. s = "verification" => case.verification # case'.verification
      BY <2>1
    <3>5. QED
      BY <3>1, <3>2, <3>3, <3>4, OneRecordAtATime DEF TypeOK
  <2>3. Future(case'[s], assessedAt) /\ ~Current(case'[s], assessedAt)
    <3>1. case'[s].at \in Nat
      BY <2>1 DEF TypeOK, CaseType, TriageType, RemediationType,
         AcceptanceType, VerificationType
    <3>2. ~(case'[s].at <= assessedAt)
      BY <2>2, <3>1
    <3>3. QED
      BY <2>1, <3>2 DEF Future, Current
  <2>4. ~Current(case[s], assessedAt)
    BY <2>1 DEF Current
  <2>5. \A x \in {"triage", "remediation", "acceptance", "verification"} :
          SameSlot(case[x], case'[x], assessedAt)
    BY <2>2, <2>3, <2>4 DEF SameSlot
  <2>6. /\ LifecycleState(case', assessedAt) = LifecycleState(case, assessedAt)
        /\ Overdue(case', assessedAt) = Overdue(case, assessedAt)
    BY <2>2, <2>5, OnlyCurrentRecordsDecide
  <2>7. Gaps(case', assessedAt) # {}
    BY <2>3, GapsNamed
  <2>8. QED
    BY <2>2, <2>6, <2>7 DEF Lifecycle, Position, AssurancePosition
<1>2. QED
  BY <1>1, TypeCorrect, PTL DEF Spec, FutureRecordsAreInert

-----------------------------------------------------------------------------
(* The lifecycle follows its diagram.                                      *)

(* A disposition once made is kept by every step.                           *)
LEMMA DispositionStays ==
  ASSUME TypeOK, TypeOK', [Next]_vars,
         CurrentDisposition(case, assessedAt) # "none"
  PROVE  CurrentDisposition(case', assessedAt') =
           CurrentDisposition(case, assessedAt)
<1>1. /\ case \in CaseType /\ assessedAt \in Nat /\ assessedAt' \in Nat
      /\ assessedAt <= assessedAt' /\ Succeeds(case, case')
  BY StepSucceeds DEF TypeOK
<1>2. CurrentDisposition(case, assessedAt') =
        CurrentDisposition(case, assessedAt)
  BY <1>1, TimePasses
<1>3. case'.triage = case.triage
  BY <1>1 DEF CurrentDisposition, Current, Succeeds
<1>4. QED
  BY <1>2, <1>3 DEF CurrentDisposition

(* From a confirmed and open case a step leads to another such state or to  *)
(* verified closure.                                                        *)
LEMMA ConfirmedMoves ==
  ASSUME TypeOK, TypeOK', [Next]_vars,
         Lifecycle \in {"verification_pending", "risk_accepted",
                        "revalidation_required"}
  PROVE  \/ Lifecycle' = "closed_verified"
         \/ Lifecycle' = ConfirmedOpenState(case', assessedAt')
<1>1. CurrentDisposition(case, assessedAt) = "confirmed"
  BY OpenStates DEF Lifecycle
<1>2. CurrentDisposition(case', assessedAt') = "confirmed"
  BY <1>1, DispositionStays
<1>3. QED
  BY <1>2, OpenStates DEF Lifecycle

(* An acceptance that holds is kept until it lapses.                        *)
LEMMA AcceptanceLapses ==
  ASSUME TypeOK, TypeOK', [Next]_vars, AcceptanceValid(case, assessedAt)
  PROVE  \/ AcceptanceExpired(case', assessedAt')
         \/ AcceptanceValid(case', assessedAt')
<1>1. /\ case \in CaseType /\ assessedAt \in Nat /\ assessedAt' \in Nat
      /\ assessedAt <= assessedAt' /\ Succeeds(case, case')
  BY StepSucceeds DEF TypeOK
<1>2. case'.acceptance = case.acceptance
  <2>1. case.acceptance # NoRecord /\ ~AcceptanceExpired(case, assessedAt)
    BY DEF AcceptanceValid, CurrentAndLinked, Current
  <2>2. QED
    BY <2>1, OneRecordAtATime
<1>3. \/ AcceptanceExpired(case, assessedAt')
      \/ AcceptanceValid(case, assessedAt')
  BY <1>1, TimePasses
<1>4. AcceptanceExpired(case, assessedAt') =>
        AcceptanceExpired(case', assessedAt')
  BY <1>2 DEF AcceptanceExpired
<1>5. Linked(case, case.acceptance.refs) => Linked(case', case.acceptance.refs)
  BY <1>1, LinkedStays
<1>6. AcceptanceValid(case, assessedAt') => AcceptanceValid(case', assessedAt')
  BY <1>2, <1>5 DEF AcceptanceValid, AcceptanceExpired, CurrentAndLinked
<1>7. QED
  BY <1>3, <1>4, <1>6

(* A remediation once current stays so.                                     *)
LEMMA RemediationStays ==
  ASSUME TypeOK, [Next]_vars, Current(case.remediation, assessedAt)
  PROVE  Current(case'.remediation, assessedAt')
<1>1. /\ case \in CaseType /\ assessedAt \in Nat /\ assessedAt' \in Nat
      /\ assessedAt <= assessedAt' /\ Succeeds(case, case')
  BY StepSucceeds DEF TypeOK
<1>2. case'.remediation = case.remediation
  BY <1>1 DEF Current, Succeeds
<1>3. Current(case.remediation, assessedAt')
  BY <1>1, TimePasses
<1>4. QED
  BY <1>2, <1>3

(* Another acceptance decision is all that leads a lapsed case back to open. *)
LEMMA LapsedUntilRedecided ==
  ASSUME TypeOK, TypeOK', [Next]_vars, Lifecycle = "revalidation_required",
         Lifecycle' \notin {"revalidation_required", "closed_verified"}
  PROVE  case.acceptance # NoRecord /\ case'.acceptance # case.acceptance
<1>1. AcceptanceExpired(case, assessedAt)
  BY OpenStates, AcceptanceDecides DEF Lifecycle
<1>2. case \in CaseType /\ assessedAt \in Nat /\ assessedAt' \in Nat
      /\ assessedAt <= assessedAt'
  BY StepSucceeds DEF TypeOK
<1>3. AcceptanceExpired(case, assessedAt')
  BY <1>1, <1>2, TimePasses
<1>4. case'.acceptance = case.acceptance =>
        AcceptanceExpired(case', assessedAt')
  BY <1>3 DEF AcceptanceExpired
<1>5. ~AcceptanceExpired(case', assessedAt')
  BY ConfirmedMoves, AcceptanceDecides
<1>6. QED
  BY <1>1, <1>4, <1>5 DEF AcceptanceExpired, Current

(* What the records of a case must be for the states that the departures    *)
(* from the diagram lead from and to.                                       *)
LEMMA StatesNeedRecords ==
  ASSUME NEW c, NEW t
  PROVE  /\ LifecycleState(c, t) = "verification_pending" =>
              Current(c.remediation, t)
         /\ LifecycleState(c, t) \in {"risk_accepted", "revalidation_required"} =>
              Current(c.acceptance, t)
         /\ LifecycleState(c, t) = "closed_verified" =>
              Current(c.remediation, t)
<1>1. LifecycleState(c, t) = "verification_pending" => Current(c.remediation, t)
  BY OpenStates, AcceptanceDecides
<1>2. LifecycleState(c, t) \in {"risk_accepted", "revalidation_required"} =>
        Current(c.acceptance, t)
  <2>1. LifecycleState(c, t) \in {"risk_accepted", "revalidation_required"} =>
          AcceptanceValid(c, t) \/ AcceptanceExpired(c, t)
    BY OpenStates, AcceptanceDecides
  <2>2. QED
    BY <2>1 DEF AcceptanceValid, AcceptanceExpired, CurrentAndLinked
<1>3. LifecycleState(c, t) = "closed_verified" => Current(c.remediation, t)
  BY EveryState DEF ClosedVerified, VerificationEffective, CurrentAndLinked
<1>4. QED
  BY <1>1, <1>2, <1>3

(* The paths of the diagram, from the states a case may be in along them.   *)
LEMMA PathsAhead ==
  /\ {"triaged", "verification_pending", "risk_accepted", "closed_dispositioned",
      "closed_verified", "revalidation_required"}
       \subseteq Diagram!Ahead("detected")
  /\ {"verification_pending", "risk_accepted", "closed_dispositioned",
      "closed_verified", "revalidation_required"}
       \subseteq Diagram!Ahead("triaged")
  /\ "closed_verified" \in Diagram!Ahead("verification_pending")
  /\ "revalidation_required" \in Diagram!Ahead("risk_accepted")
<1> DEFINE edges == Diagram!Edges
<1>1. /\ edges["detected"] = {"triaged"}
      /\ edges["triaged"] = {"verification_pending", "risk_accepted",
                             "closed_dispositioned"}
      /\ edges["verification_pending"] = {"closed_verified"}
      /\ edges["risk_accepted"] = {"revalidation_required"}
  BY DEF Diagram!Edges
<1> HIDE DEF edges
<1>2. ASSUME NEW s, NEW a \in edges[s]
      PROVE  /\ a \in Diagram!Ahead(s)
             /\ edges[a] \subseteq Diagram!Ahead(s)
             /\ \A b \in edges[a] : edges[b] \subseteq Diagram!Ahead(s)
  BY <1>2 DEF Diagram!Ahead, Diagram!Successors, edges
<1>3. QED
  BY <1>1, <1>2

(* The reported states follow the diagram of the README, but for the three  *)
(* moves that LifecycleDiagram names, which are made only with both a plan  *)
(* and an acceptance or with another acceptance decision (assess_case).     *)
THEOREM DiagramFollowed == Spec => FollowsDiagram
<1>1. ASSUME TypeOK, TypeOK', [Next]_vars
      PROVE  Lifecycle' = Lifecycle \/ Diagram!Move
  <2> DEFINE open == ConfirmedOpenState(case', assessedAt')
  <2>1. Lifecycle' \in
          {"detected", "triaged", "verification_pending", "risk_accepted",
           "revalidation_required", "closed_verified", "closed_dispositioned"}
    BY EveryState DEF Lifecycle
  <2>2. open \in {"triaged", "verification_pending", "risk_accepted",
                  "revalidation_required"}
    BY EveryState
  <2>3. CASE Lifecycle = "detected"
    <3>1. Lifecycle' \in Diagram!Ahead(Lifecycle) \/ Lifecycle' = Lifecycle
      BY <2>1, <2>3, PathsAhead
    <3>2. QED
      BY <3>1 DEF Diagram!Move, Diagram!Follow
  <2>4. CASE Lifecycle = "triaged"
    <3>1. CurrentDisposition(case, assessedAt) # "none"
      BY <2>4, OpenStates DEF Lifecycle
    <3>2. CurrentDisposition(case', assessedAt') # "none"
      BY <1>1, <3>1, DispositionStays
    <3>3. Lifecycle' # "detected"
      BY <3>2, EveryState DEF Lifecycle
    <3>4. Lifecycle' \in Diagram!Ahead(Lifecycle) \/ Lifecycle' = Lifecycle
      BY <2>1, <2>4, <3>3, PathsAhead
    <3>5. QED
      BY <3>4 DEF Diagram!Move, Diagram!Follow
  <2>5. CASE Lifecycle = "verification_pending"
    <3>1. Current(case.remediation, assessedAt)
      BY <2>5, StatesNeedRecords DEF Lifecycle
    <3>2. Current(case'.remediation, assessedAt')
      BY <1>1, <3>1, RemediationStays
    <3>3. open # "triaged"
      BY <3>2, AcceptanceDecides
    <3>4. Lifecycle' \in {"closed_verified", "verification_pending",
                          "risk_accepted", "revalidation_required"}
      BY <1>1, <2>2, <2>5, <3>3, ConfirmedMoves
    <3>5. CASE Lifecycle' = "closed_verified"
      BY <2>5, <3>5, PathsAhead DEF Diagram!Move, Diagram!Follow
    <3>6. CASE Lifecycle' \in {"risk_accepted", "revalidation_required"}
      <4>1. case.remediation # NoRecord
        BY <3>1 DEF Current
      <4>2. Current(case'.acceptance, assessedAt')
        BY <3>6, StatesNeedRecords DEF Lifecycle
      <4>3. QED
        BY <2>5, <3>6, <4>1, <4>2
           DEF Current, Diagram!Move, Diagram!AcceptPlanned
    <3>7. QED
      BY <2>5, <3>4, <3>5, <3>6
  <2>6. ASSUME Lifecycle \in {"risk_accepted", "revalidation_required"},
               Lifecycle' = "closed_verified"
        PROVE  Diagram!Move
    <3>1. Current(case.acceptance, assessedAt)
      BY <2>6, StatesNeedRecords DEF Lifecycle
    <3>2. Current(case'.remediation, assessedAt')
      BY <2>6, StatesNeedRecords DEF Lifecycle
    <3>3. QED
      BY <2>6, <3>1, <3>2 DEF Current, Diagram!Move, Diagram!CloseAccepted
  <2>7. CASE Lifecycle = "risk_accepted"
    <3>1. AcceptanceValid(case, assessedAt)
      BY <2>7, OpenStates, AcceptanceDecides DEF Lifecycle
    <3>2. open \in {"revalidation_required", "risk_accepted"}
      BY <1>1, <3>1, AcceptanceLapses, AcceptanceDecides
    <3>3. Lifecycle' \in {"closed_verified", "revalidation_required",
                          "risk_accepted"}
      BY <1>1, <2>7, <3>2, ConfirmedMoves
    <3>4. Lifecycle' = "revalidation_required" => Diagram!Move
      BY <2>7, PathsAhead DEF Diagram!Move, Diagram!Follow
    <3>5. QED
      BY <2>6, <2>7, <3>3, <3>4
  <2>8. CASE Lifecycle = "revalidation_required"
    <3>1. Lifecycle' \in {"closed_verified", "revalidation_required",
                          "triaged", "verification_pending", "risk_accepted"}
      BY <1>1, <2>2, <2>8, ConfirmedMoves
    <3>2. CASE Lifecycle' \in {"triaged", "verification_pending",
                               "risk_accepted"}
      BY <1>1, <2>8, <3>2, LapsedUntilRedecided
         DEF Diagram!Move, Diagram!Redecide
    <3>3. QED
      BY <2>6, <2>8, <3>1, <3>2
  <2>9. CASE Lifecycle \in {"closed_verified", "closed_dispositioned"}
    <3>1. Closed(case, assessedAt)
      BY <2>9, EveryState DEF Lifecycle, Closed
    <3>2. QED
      BY <1>1, <3>1, StepSucceeds, ClosureStays DEF TypeOK, Lifecycle
  <2>10. Lifecycle \in
          {"detected", "triaged", "verification_pending", "risk_accepted",
           "revalidation_required", "closed_verified", "closed_dispositioned"}
    BY EveryState DEF Lifecycle
  <2>11. QED
    BY <2>3, <2>4, <2>5, <2>7, <2>8, <2>9, <2>10
<1>2. TypeOK /\ TypeOK' /\ [Next]_vars => [Diagram!Move]_Lifecycle
  BY <1>1
<1>3. Init => Diagram!Init
  <2>1. Init => CurrentDisposition(case, assessedAt) = "none"
    BY DEF Init, CurrentDisposition, Current
  <2>2. Init => Lifecycle = "detected"
    BY <2>1, OpenStates DEF Lifecycle
  <2>3. QED
    BY <2>2 DEF Init, Diagram!Init
<1>4. QED
  BY <1>2, <1>3, TypeCorrect, PTL DEF Spec, FollowsDiagram, Diagram!Spec
=============================================================================
