\* Documents adapted one after the other, twice at most.
CONSTANTS
  ruleA = ruleA
  ruleB = ruleB
  tool = tool
  title = title
  bytes = bytes
  otherBytes = otherBytes
  asset = asset
  component = component
  cve = cve
  Missing = Missing
  Malformed = Malformed
  Sarif <- MCSarif
  CycloneDX <- MCCycloneDX
  Contexts <- MCContexts
  MaxBatches = 2
SPECIFICATION IntakeSpec
INVARIANTS
  EveryRecordIsKept
  IdentitiesAreReproducible
  SeverityIsAsserted
\* The bound on batches ends a run.
CHECK_DEADLOCK FALSE
