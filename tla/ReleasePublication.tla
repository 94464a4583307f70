-------------------------- MODULE ReleasePublication --------------------------
(***************************************************************************)
(* Publication of a stable release (tools/publish_release.py, run by       *)
(* .github/workflows/publish-release.yml): a read-only gate job, then a    *)
(* publish job that evaluates the gate again, reads the tag and the        *)
(* release, creates the tag if there is none, and creates the release.     *)
(* The owner may create the tag by hand, on any commit.                    *)
(***************************************************************************)
EXTENDS GitHubGate

CONSTANT MaxLost  \* bound: jobs lost between two steps

ASSUME LossAssumption == MaxLost \in Nat

VARIABLES
  tag,         \* commit of the release tag
  releasedAt,  \* commit the tag named when the release was created
  job,         \* the publisher at work
  lost         \* number of jobs lost so far

vars == <<repoVars, tag, releasedAt, job, lost>>

Pc == {"idle", "main", "runs", "tag", "create_tag", "reread",
       "create_release"}
Idle == [pc |-> "idle", publishing |-> FALSE, sha |-> NoCommit,
         tag |-> NoCommit]

\* The bounds a job's fields and the repository keep.
TypeOK ==
  /\ RepoTypeOK
  /\ tag \in Commit \cup {NoCommit}
  /\ releasedAt \in Commit \cup {NoCommit}
  /\ job \in [pc : Pc, publishing : BOOLEAN, sha : Commit \cup {NoCommit},
              tag : Commit \cup {NoCommit}]
  /\ job.pc # "idle" => job.sha \in Commit
  /\ lost \in 0 .. MaxLost

Init ==
  /\ RepoInit
  /\ tag = NoCommit /\ releasedAt = NoCommit
  /\ job = Idle /\ lost = 0

-----------------------------------------------------------------------------

RepoStep ==
  /\ \/ Push
     \/ \E c \in Commit, w \in Workflows : Rerun(c, w)
     \/ \E c \in Commit, w \in Workflows, s \in {"success", "failure"} :
          Complete(c, w, s)
  /\ RecordGate
  /\ UNCHANGED <<tag, releasedAt, job, lost>>

At(pc) == job.pc = pc
Goto(pc) == job' = [job EXCEPT !.pc = pc]
Leave == job' = Idle
Proceed(holds, next) == IF holds THEN Goto(next) ELSE Leave
ReadOnly == UNCHANGED <<repoVars, tag, releasedAt, lost>>

\* A main run of c completed successfully; the concurrency group admits one
\* job at a time.
StartJob(c) ==
  /\ At("idle")
  /\ \E w \in Workflows : Succeeded(c, w)
  /\ job' = [Idle EXCEPT !.pc = "main", !.sha = c]
  /\ ReadOnly

\* gate: main first, then the workflow runs.
ReadMain ==
  /\ At("main")
  /\ Proceed(main = job.sha, "runs")
  /\ ReadOnly

\* Mutant: only the workflow that builds the candidate is looked at.
ReadRunsOfCI ==
  /\ At("runs")
  /\ IF ~Succeeded(job.sha, CI) THEN Leave
     ELSE IF job.publishing THEN Goto("tag")
     ELSE job' = [job EXCEPT !.publishing = TRUE, !.pc = "main"]
  /\ ReadOnly

\* The gate job hands over to the publish job, which evaluates the gate anew.
ReadRuns ==
  /\ At("runs")
  /\ IF WorkflowGaps(job.sha) # {} THEN Leave
     ELSE IF job.publishing THEN Goto("tag")
     ELSE job' = [job EXCEPT !.publishing = TRUE, !.pc = "main"]
  /\ ReadOnly

\* An existing release is retained and ends the job, consistent or not.
ReadTagAndRelease ==
  /\ At("tag")
  /\ IF releasedAt # NoCommit THEN Leave
     ELSE job' = [job EXCEPT !.tag = tag,
                             !.pc = IF tag = NoCommit THEN "create_tag"
                                                      ELSE "reread"]
  /\ ReadOnly

\* Mutant: the reference is forced.
CreateTagForced ==
  /\ At("create_tag")
  /\ tag' = job.sha /\ Goto("reread")
  /\ UNCHANGED <<repoVars, releasedAt, lost>>

\* POST /git/refs fails if the tag exists by now.
CreateTag ==
  /\ At("create_tag")
  /\ \/ tag = NoCommit /\ tag' = job.sha /\ Goto("reread")
     \/ tag # NoCommit /\ Leave /\ UNCHANGED tag
  /\ UNCHANGED <<repoVars, releasedAt, lost>>

\* The tag as read before, or read again after it was created.
CompareTag ==
  /\ At("reread")
  /\ Proceed((IF job.tag = NoCommit THEN tag ELSE job.tag) = job.sha,
             "create_release")
  /\ ReadOnly

\* gh release create --verify-tag.  The group admits one job, so no release
\* appears between the read and the write.
CreateRelease ==
  /\ At("create_release")
  /\ releasedAt = NoCommit /\ tag # NoCommit
  /\ releasedAt' = tag
  /\ Leave
  /\ UNCHANGED <<repoVars, tag, lost>>

\* The runner is lost, a call fails or times out.
LoseJob ==
  /\ ~At("idle")
  /\ lost < MaxLost /\ lost' = lost + 1
  /\ Leave
  /\ UNCHANGED <<repoVars, tag, releasedAt>>

\* The owner tags a commit of main by hand.
OwnerTags(c) ==
  /\ tag = NoCommit /\ c <= main
  /\ tag' = c
  /\ UNCHANGED <<repoVars, releasedAt, job, lost>>

JobStep ==
  \/ ReadMain \/ ReadRuns \/ ReadTagAndRelease \/ CreateTag
  \/ CompareTag \/ CreateRelease

Next ==
  \/ RepoStep
  \/ \E c \in Commit : StartJob(c) \/ OwnerTags(c)
  \/ JobStep
  \/ LoseJob

Spec == Init /\ [][Next]_vars

-----------------------------------------------------------------------------
(* Properties.                                                             *)

\* A commit is released only if the gate held for it at some single instant,
\* although no job reads main and the runs at once, and whoever made the tag.
ReleasedIsGated ==
  releasedAt # NoCommit => \E k \in gated : k.commit = releasedAt

\* A tag never moves, a release is never replaced, and a tag left behind by a
\* lost job or made by hand is completed by a job for its own commit only.
NothingIsMoved ==
  [][/\ tag # NoCommit => tag' = tag
     /\ releasedAt # NoCommit => releasedAt' = releasedAt
     /\ releasedAt' # releasedAt => releasedAt' = tag /\ tag = job.sha]_vars
=============================================================================
