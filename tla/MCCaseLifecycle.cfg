\* The bundle evolves until every slot is filled and the last assessment time
\* is reached: the case then stops.
SPECIFICATION Spec
CONSTANTS
  e1 = e1
  e2 = e2
  owner = owner
  tester = tester
  NoRecord = NoRecord
  Evidence <- MCEvidence
  Role <- MCRole
  Severity <- MCSeverity
  Day = 2
  SeveritySlaDays <- MCSlaDays
  MaxRiskAcceptanceDays = 1
  IndependentVerificationRequired = TRUE
  Findings <- MCFindings
  TriageRecords <- MCTriage
  RemediationRecords <- MCRemediation
  AcceptanceRecords <- MCAcceptance
  VerificationRecords <- MCVerification
  CollectionTimes = {1}
  AssessmentTimes <- MCAssessmentTimes
CHECK_DEADLOCK FALSE
INVARIANTS
  TypeOK
  CurrentPositionIsSupported
  PositionMatchesGaps
  BreachIsVisible
  FailsClosed
PROPERTIES
  ClosureIsPermanent
  TimeAloneNeverRelaxes
  FutureRecordsAreInert
  FollowsDiagram
