\* One commit, so that main stays; three workflows, of which one may have to
\* be run again.  The system stops when everything has completed.
SPECIFICATION FairSpec
CONSTANTS
  MaxCommit = 1
  MaxAttempt = 2
  MaxReruns = 1
  ci = ci
  gateflow = gateflow
  codeql = codeql
  evidence = evidence
  wheels = wheels
  NoCommit = NoCommit
  CI = ci
  Workflows <- MCThreeWorkflows
  Assets <- MCAssets
  Reproducible <- MCReproducible
  MaxFaults = 1
CHECK_DEADLOCK FALSE
PROPERTY LastCompletionPublishes
