\* Bundles of up to three claims per domain, assessed at any time, also again.
SPECIFICATION ExposureSpec
CONSTANTS
  x1 = x1
  x2 = x2
  feed = feed
  vendor = vendor
  i1 = i1
  i2 = i2
  i3 = i3
  exploited = exploited
  NoRecord = NoRecord
  Evidence <- MCEvidence
  Source <- MCSource
  ClaimIds = {i1, i2, i3}
  ObservedAt = 1
  Signals = {exploited}
  Intelligence <- MCIntelligence
  Classifications <- MCClassifications
  CollectionTimes = {1, 3}
  AssessmentTimes = {0, 1, 2, 3, 4}
SYMMETRY IdSymmetry
INVARIANTS
  ExposureTypeOK
  PositionMatchesGaps
PROPERTIES
  ClaimsOnlyWear
  ConflictEndsByExpiry
