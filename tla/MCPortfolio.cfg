\* Cases enter and leave the scope until the last assessment time.
SPECIFICATION Spec
CONSTANTS
  c1 = c1
  c2 = c2
  e1 = e1
  owner = owner
  tester = tester
  NoRecord = NoRecord
  NoCase = NoCase
  OutOfScope = OutOfScope
  CaseIds = {c1, c2}
  Evidence <- MCEvidence
  Role <- MCRole
  Severity <- MCSeverity
  Day = 2
  SeveritySlaDays <- MCSlaDays
  MaxRiskAcceptanceDays = 90
  IndependentVerificationRequired = TRUE
  Findings <- MCFindings
  TriageRecords <- MCTriage
  RemediationRecords <- MCRemediation
  AcceptanceRecords <- MCAcceptance
  VerificationRecords <- MCVerification
  CollectionTimes <- MCCollectionTimes
  AssessmentTimes <- MCAssessmentTimes
SYMMETRY CaseSymmetry
INVARIANTS
  TypeOK
  CurrentViewIsSettled
  PastDueIsAccounted
PROPERTY TimeOnlyAdvances
