------------------------------ MODULE GitHubGate ------------------------------
(***************************************************************************)
(* What both publishers share (tools/publish_release.py): the part of the  *)
(* GitHub repository they read through the API, and the workflow gate they *)
(* evaluate on it.  The repository changes by itself: main moves forward,  *)
(* workflows complete and are run again, candidate artifacts expire.       *)
(***************************************************************************)
EXTENDS Integers, FiniteSets

CONSTANTS
  MaxCommit,   \* bound: commits pushed to main are 1 .. MaxCommit
  Workflows,   \* the required workflows of the publication policy
  CI,          \* the workflow that uploads the demo candidate
  MaxAttempt,  \* bound: attempts of one workflow run
  MaxReruns,   \* bound: workflow runs that are ever run again
  NoCommit     \* an absent reference

ASSUME RepositoryAssumption ==
  /\ MaxCommit \in Nat \ {0} /\ MaxAttempt \in Nat \ {0}
  /\ MaxReruns \in Nat
  /\ CI \in Workflows
  /\ NoCommit \notin Nat

Commit == 1 .. MaxCommit
Attempt == 1 .. MaxAttempt
RunStatus == {"none", "running", "success", "failure"}

\* A candidate is the bundle one CI attempt built for one commit.
Candidate == [commit : Commit, attempt : Attempt]

VARIABLES
  main,       \* head commit of main
  runs,       \* runs[c][w]: latest attempt of workflow w for the push of c
  artifacts,  \* candidates whose artifact can be downloaded
  gated       \* history: candidates for which the gate once held

repoVars == <<main, runs, artifacts, gated>>

RepoTypeOK ==
  /\ main \in Commit
  /\ runs \in [Commit -> [Workflows ->
                 [attempt : Attempt, status : RunStatus]]]
  /\ artifacts \subseteq Candidate
  /\ gated \subseteq Candidate

-----------------------------------------------------------------------------
(* The gate.  GitHub lists, for every run, its latest attempt only, so     *)
(* runs[c][w] is what workflow_gaps takes as the latest.                   *)

Succeeded(c, w) == runs[c][w].status = "success"

WorkflowGaps(c) == {w \in Workflows : ~Succeeded(c, w)}

\* Both reads of the gate taken at one instant.
GateOpen(k) ==
  /\ main = k.commit
  /\ WorkflowGaps(k.commit) = {}
  /\ runs[k.commit][CI].attempt = k.attempt

-----------------------------------------------------------------------------
(* The repository's own steps.                                             *)

Started(attempt) ==
  [w \in Workflows |-> [attempt |-> attempt, status |-> "running"]]
NotStarted == [w \in Workflows |-> [attempt |-> 1, status |-> "none"]]

RepoInit ==
  /\ main = 1
  /\ runs = [c \in Commit |-> IF c = 1 THEN Started(1) ELSE NotStarted]
  /\ artifacts = {}
  /\ gated = {}

\* A push to main starts every required workflow on the new commit.
Push ==
  /\ main < MaxCommit
  /\ main' = main + 1
  /\ runs' = [runs EXCEPT ![main + 1] = Started(1)]
  /\ UNCHANGED artifacts

\* An attempt of workflow w ends.  A successful CI attempt has uploaded its
\* candidate, unless it only re-ran failed jobs and the job that builds the
\* candidate was not among them.
Complete(c, w, status) ==
  /\ runs[c][w].status = "running"
  /\ runs' = [runs EXCEPT ![c][w].status = status]
  /\ \/ /\ w = CI /\ status = "success"
        /\ artifacts' = artifacts \cup
                          {[commit |-> c, attempt |-> runs[c][w].attempt]}
     \/ /\ w # CI \/ status = "failure" \/ runs[c][w].attempt > 1
        /\ UNCHANGED artifacts
  /\ UNCHANGED main

\* The owner runs a completed workflow again: same run, next attempt.
RunAgain == {x \in Commit \X Workflows : runs[x[1]][x[2]].attempt > 1}

Rerun(c, w) ==
  /\ Cardinality(RunAgain \cup {<<c, w>>}) <= MaxReruns
  /\ runs[c][w].status \in {"success", "failure"}
  /\ runs[c][w].attempt < MaxAttempt
  /\ runs' = [runs EXCEPT ![c][w] =
                [attempt |-> @.attempt + 1, status |-> "running"]]
  /\ UNCHANGED <<main, artifacts>>

ExpireArtifact(k) ==
  /\ k \in artifacts
  /\ artifacts' = artifacts \ {k}
  /\ UNCHANGED <<main, runs>>

\* The history variable follows every step of the repository.
RecordGate == gated' = gated \cup {k \in Candidate : GateOpen(k)'}
=============================================================================
