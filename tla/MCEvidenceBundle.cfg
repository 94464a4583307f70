\* Interrupted and concurrent demo runs, and the candidate made from them.
CONSTANTS
  r1 = r1
  r2 = r2
  d1 = d1
  d2 = d2
  mainline = mainline
  other = other
  NoDir = NoDir
  Runs = {r1, r2}
  Dirs = {d1, d2}
  Heads <- MCHeads
  MaxDisturbances = 2
SPECIFICATION Spec
SYMMETRY Symmetry
INVARIANTS
  VerifiedBundleIsOneRun
  CandidateIsReplayed
  CandidateIsAttributed
\* Runs and the packing end; nothing more happens then.
CHECK_DEADLOCK FALSE
