\* Two commits, CI and one more workflow, two attempts of each.  The
\* repository and the job stop when the bounds are reached.
SPECIFICATION Spec
CONSTANTS
  MaxCommit = 2
  MaxAttempt = 2
  MaxReruns = 1
  ci = ci
  gateflow = gateflow
  codeql = codeql
  evidence = evidence
  wheels = wheels
  NoCommit = NoCommit
  CI = ci
  Workflows <- MCWorkflows
  Assets <- MCAssets
  Reproducible <- MCReproducible
  MaxFaults = 1
CHECK_DEADLOCK FALSE
INVARIANTS
  PublishedIsGated
  LeavesConsistentPublication
PROPERTIES
  NothingIsOverwritten
  FlawedDraftStaysDraft
  KeepsPromise
