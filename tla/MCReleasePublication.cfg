\* Two commits, two workflows, two of whose runs may be run again.  The
\* repository and the job stop when the bounds are reached.
SPECIFICATION Spec
CONSTANTS
  MaxCommit = 2
  MaxAttempt = 2
  MaxReruns = 2
  ci = ci
  gateflow = gateflow
  NoCommit = NoCommit
  CI = ci
  Workflows <- MCWorkflows
  MaxLost = 2
CHECK_DEADLOCK FALSE
INVARIANTS
  ReleasedIsGated
PROPERTY NothingIsMoved
