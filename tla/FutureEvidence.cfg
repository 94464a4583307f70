\* Evidence may be collected after the time of the assessment that uses it.
SPECIFICATION Spec
CONSTANTS
  e1 = e1
  e2 = e2
  owner = owner
  tester = tester
  NoRecord = NoRecord
  Evidence <- MCEvidence
  Role <- MCRole
  Severity <- MCSeverity
  Day = 2
  SeveritySlaDays <- MCSlaDays
  MaxRiskAcceptanceDays = 1
  IndependentVerificationRequired = TRUE
  Findings <- MCFindings
  TriageRecords <- MCTriage
  RemediationRecords <- MCRemediation
  AcceptanceRecords <- MCAcceptance
  VerificationRecords <- MCVerification
  CollectionTimes = {1, 4}
  AssessmentTimes <- MCAssessmentTimes
CHECK_DEADLOCK FALSE
INVARIANT FutureEvidenceFailsClosed
