--------------------------- MODULE DemoPublication ---------------------------
(***************************************************************************)
(* Publication of the portfolio demo (tools/publish_demo.py, run by        *)
(* .github/workflows/publish-demo.yml): one job at a time goes through     *)
(* readiness, download, a second readiness, the tag, the draft, the        *)
(* uploads, a third readiness and the publication, one API call after the  *)
(* other, while the repository changes between any two calls.  A job may   *)
(* be lost anywhere; what it has written stays, and a later job resumes.   *)
(***************************************************************************)
EXTENDS GitHubGate

CONSTANTS
  Assets,        \* ASSET_NAMES
  Reproducible,  \* assets whose bytes do not depend on the CI attempt
  MaxFaults      \* bound: lost jobs, interrupted and garbled uploads,
                 \* expired artifacts, drifts of the protected tag

\* The provenance among the assets records the attempt it was made in
\* (demo_evidence.py), so not every asset is reproducible.
ASSUME AssetAssumption ==
  /\ Reproducible \subseteq Assets /\ Reproducible # Assets
  /\ MaxFaults \in Nat

Digest == [commit : 0 .. MaxCommit, attempt : 0 .. MaxAttempt]
Garbled == [commit |-> 0, attempt |-> 0]

\* The bytes of asset a in candidate k.
AssetDigest(k, a) ==
  IF a \in Reproducible THEN [k EXCEPT !.attempt = 0] ELSE k

AssetState ==
  [present : BOOLEAN, uploaded : BOOLEAN, digest : Digest]
NoAsset == [present |-> FALSE, uploaded |-> FALSE, digest |-> Garbled]

Phase == {"gate", "select", "recheck", "final"}
Pc == {"idle", "publication", "main", "runs", "candidate", "download",
       "existing", "tag", "reread", "create", "inspect", "upload", "verify",
       "publish", "confirm"}

VARIABLES
  protectedIntact,  \* the protected tag still names its commit
  demoTag,          \* commit of the demo tag
  released,         \* "absent", "draft" or "published"
  assets,           \* assets of the release
  pending,          \* the run waiting in the concurrency group
  job,              \* the publisher at work
  faults            \* number of faults so far

releaseVars == <<demoTag, released, assets>>
vars == <<repoVars, protectedIntact, releaseVars, pending, job, faults>>

Trigger == [sha : Commit \cup {NoCommit}, success : BOOLEAN]
NoTrigger == [sha |-> NoCommit, success |-> FALSE]

Idle == [pc |-> "idle", phase |-> "gate", sha |-> NoCommit,
         tag |-> NoCommit, hasRelease |-> FALSE, selected |-> 0]

\* The bounds a job's fields and the repository keep.
TypeOK ==
  /\ RepoTypeOK
  /\ protectedIntact \in BOOLEAN
  /\ demoTag \in Commit \cup {NoCommit}
  /\ released \in {"absent", "draft", "published"}
  /\ assets \in [Assets -> AssetState]
  /\ pending \in Trigger
  /\ job \in [pc : Pc, phase : Phase, sha : Commit \cup {NoCommit},
              tag : Commit \cup {NoCommit}, hasRelease : BOOLEAN,
              selected : 0 .. MaxAttempt]
  /\ job.pc # "idle" => job.sha \in Commit
  /\ faults \in 0 .. MaxFaults

Init ==
  /\ RepoInit
  /\ protectedIntact = TRUE
  /\ demoTag = NoCommit
  /\ released = "absent"
  /\ assets = [a \in Assets |-> NoAsset]
  /\ pending = NoTrigger
  /\ job = Idle
  /\ faults = 0

-----------------------------------------------------------------------------
(* The repository and its owner.                                           *)

RepoStep ==
  /\ \/ Push /\ UNCHANGED pending
     \/ \E c \in Commit, w \in Workflows :
          Rerun(c, w) /\ UNCHANGED pending
     \/ \E c \in Commit, w \in Workflows, s \in {"success", "failure"} :
          \* Every completed main run queues the publisher.  The group keeps
          \* one waiting run: the newest.
          Complete(c, w, s) /\ pending' = [sha |-> c, success |-> s = "success"]
  /\ RecordGate
  /\ UNCHANGED <<protectedIntact, releaseVars, job, faults>>

Faulty == faults < MaxFaults /\ faults' = faults + 1

CandidateExpires(k) ==
  /\ Faulty
  /\ ExpireArtifact(k)
  /\ UNCHANGED <<gated, protectedIntact, releaseVars, pending, job>>

ProtectedTagDrifts ==
  /\ Faulty
  /\ protectedIntact' = FALSE
  /\ UNCHANGED <<repoVars, releaseVars, pending, job>>

-----------------------------------------------------------------------------
(* The job.                                                                *)

At(pc) == job.pc = pc
Goto(pc) == job' = [job EXCEPT !.pc = pc]
Leave == job' = Idle
Proceed(holds, next) == IF holds THEN Goto(next) ELSE Leave
ReadOnly == UNCHANGED <<repoVars, protectedIntact, releaseVars, pending, faults>>

\* The job of the waiting run starts; its gate job is skipped unless the
\* completed workflow run was successful.
StartJob ==
  /\ At("idle") /\ pending # NoTrigger
  /\ pending' = NoTrigger
  /\ job' = IF pending.success
            THEN [Idle EXCEPT !.pc = "publication", !.sha = pending.sha]
            ELSE Idle
  /\ UNCHANGED <<repoVars, protectedIntact, releaseVars, faults>>

UploadedAs(a, digest) ==
  assets[a] = [present |-> TRUE, uploaded |-> TRUE, digest |-> digest]
Missing == {a \in Assets : ~assets[a].present}
Expected(a) ==
  AssetDigest([commit |-> job.sha, attempt |-> job.selected], a)

\* existing_publication accepts what it finds.
PublicationConsistent ==
  /\ released # "absent" => demoTag # NoCommit
  /\ released = "published" =>
       \A a \in Assets : assets[a].present /\ assets[a].uploaded

\* readiness, first calls: protected tag, demo tag and release.
ReadPublication ==
  /\ At("publication")
  /\ IF protectedIntact /\ PublicationConsistent /\ released # "published"
     THEN job' = [job EXCEPT !.pc = "main", !.tag = demoTag]
     ELSE Leave
  /\ ReadOnly

\* readiness: the workflow gate reads main, then the workflow runs.
\* Mutant: the candidate need not be the head of main.
ReadMainUnchecked ==
  /\ At("main")
  /\ Proceed(TRUE, "runs")
  /\ ReadOnly

ReadMain ==
  /\ At("main")
  /\ Proceed(main = job.sha, "runs")
  /\ ReadOnly

\* Mutant: only the workflow that builds the candidate is looked at.
ReadRunsOfCI ==
  /\ At("runs")
  /\ Proceed(Succeeded(job.sha, CI) /\ job.tag \in {NoCommit, job.sha},
             "candidate")
  /\ ReadOnly

ReadRuns ==
  /\ At("runs")
  /\ Proceed(WorkflowGaps(job.sha) = {} /\ job.tag \in {NoCommit, job.sha},
             "candidate")
  /\ ReadOnly

\* readiness, last call: the artifact of the latest CI attempt.  The gate job
\* is followed by the publish job, which selects a candidate; the other two
\* times the same candidate must come back.
ReadCandidate ==
  LET k == [commit |-> job.sha, attempt |-> runs[job.sha][CI].attempt] IN
  /\ At("candidate")
  /\ IF ~(Succeeded(job.sha, CI) /\ k \in artifacts)
     THEN Leave
     ELSE CASE job.phase = "gate" ->
                 job' = [job EXCEPT !.phase = "select", !.pc = "publication"]
            [] job.phase = "select" ->
                 job' = [job EXCEPT !.selected = k.attempt, !.pc = "download"]
            [] job.phase = "recheck" ->
                 Proceed(job.selected = k.attempt, "existing")
            [] job.phase = "final" ->
                 Proceed(job.selected = k.attempt, "publish")
  /\ ReadOnly

\* Download by artifact id; the bytes and their provenance are verified.
Download ==
  /\ At("download")
  /\ IF [commit |-> job.sha, attempt |-> job.selected] \in artifacts
     THEN job' = [job EXCEPT !.phase = "recheck", !.pc = "publication"]
     ELSE Leave
  /\ ReadOnly

ReadExisting ==
  /\ At("existing")
  /\ IF PublicationConsistent
     THEN job' = [job EXCEPT !.pc = "tag", !.tag = demoTag,
                             !.hasRelease = (released # "absent")]
     ELSE Leave
  /\ ReadOnly

\* POST /git/refs, unless the tag was there when it was read.  The group
\* admits one job, so no tag or draft appears between the read and the write.
CreateTag ==
  /\ At("tag")
  /\ \/ job.tag = NoCommit /\ demoTag = NoCommit /\ demoTag' = job.sha
     \/ job.tag # NoCommit /\ UNCHANGED demoTag
  /\ Goto("reread")
  /\ UNCHANGED <<repoVars, protectedIntact, released, assets, pending, faults>>

RereadTag ==
  /\ At("reread")
  /\ Proceed(demoTag = job.sha, "create")
  /\ ReadOnly

\* Mutant: the release is created without --draft.
CreateDraftPublic ==
  /\ At("create")
  /\ \/ ~job.hasRelease /\ released = "absent" /\ released' = "published"
     \/ job.hasRelease /\ UNCHANGED released
  /\ Goto("inspect")
  /\ UNCHANGED <<repoVars, protectedIntact, demoTag, assets, pending, faults>>

\* gh release create --draft --verify-tag.
CreateDraft ==
  /\ At("create")
  /\ \/ ~job.hasRelease /\ released = "absent" /\ released' = "draft"
     \/ job.hasRelease /\ UNCHANGED released
  /\ Goto("inspect")
  /\ UNCHANGED <<repoVars, protectedIntact, demoTag, assets, pending, faults>>

\* Mutant: only an empty draft is resumed.
InspectDraftEmpty ==
  /\ At("inspect")
  /\ Proceed(released = "draft" /\ Missing = Assets, "upload")
  /\ ReadOnly

\* What is already in the draft must be the candidate's own bytes.
InspectDraft ==
  /\ At("inspect")
  /\ Proceed(/\ released = "draft"
             /\ \A a \in Assets \ Missing : UploadedAs(a, Expected(a)),
             "upload")
  /\ ReadOnly

\* Mutant: the upload replaces what is there (--clobber).
UploadAssetClobber(a, digest) ==
  /\ At("upload") /\ a \in Assets
  /\ assets' = [assets EXCEPT ![a] =
                  [present |-> TRUE, uploaded |-> TRUE, digest |-> digest]]
  /\ \/ digest = Expected(a) /\ UNCHANGED faults
     \/ digest # Expected(a) /\ Faulty
  /\ UNCHANGED <<repoVars, protectedIntact, demoTag, released, pending, job>>

\* gh release upload, asset by asset, without --clobber.
UploadAsset(a, digest) ==
  /\ At("upload") /\ a \in Missing
  /\ assets' = [assets EXCEPT ![a] =
                  [present |-> TRUE, uploaded |-> TRUE, digest |-> digest]]
  /\ \/ digest = Expected(a) /\ UNCHANGED faults
     \/ digest # Expected(a) /\ Faulty
  /\ UNCHANGED <<repoVars, protectedIntact, demoTag, released, pending, job>>

\* An upload cut off half-way leaves an asset that is not "uploaded".
UploadInterrupted(a) ==
  /\ At("upload") /\ a \in Missing
  /\ Faulty
  /\ assets' = [assets EXCEPT ![a] =
                  [present |-> TRUE, uploaded |-> FALSE, digest |-> Garbled]]
  /\ Leave
  /\ UNCHANGED <<repoVars, protectedIntact, demoTag, released, pending>>

\* Every asset is read back and compared, then readiness is asked again.
UploadsDone ==
  /\ At("upload") /\ Missing = {}
  /\ Goto("verify")
  /\ ReadOnly

\* Mutant: the uploaded bytes are not compared.
VerifyUploadsByName ==
  /\ At("verify")
  /\ job' = [job EXCEPT !.phase = "final", !.pc = "publication"]
  /\ ReadOnly

VerifyUploads ==
  /\ At("verify")
  /\ IF \A a \in Assets : UploadedAs(a, Expected(a))
     THEN job' = [job EXCEPT !.phase = "final", !.pc = "publication"]
     ELSE Leave
  /\ ReadOnly

\* gh release edit --draft=false.
PublishDraft ==
  /\ At("publish")
  /\ released' = "published"
  /\ Goto("confirm")
  /\ UNCHANGED <<repoVars, protectedIntact, demoTag, assets, pending, faults>>

\* Whether or not the publication is confirmed, the job ends here.
Confirm ==
  /\ At("confirm")
  /\ Leave
  /\ ReadOnly

\* The runner is lost, a call fails or times out.
LoseJob ==
  /\ ~At("idle")
  /\ Faulty
  /\ Leave
  /\ UNCHANGED <<repoVars, protectedIntact, releaseVars, pending>>

JobStep ==
  \/ ReadPublication \/ ReadMain \/ ReadRuns \/ ReadCandidate
  \/ Download \/ ReadExisting \/ CreateTag \/ RereadTag \/ CreateDraft
  \/ InspectDraft
  \/ \E a \in Assets : UploadAsset(a, Expected(a))
  \/ UploadsDone \/ VerifyUploads \/ PublishDraft \/ Confirm

Fault ==
  \/ \E a \in Assets : UploadAsset(a, Garbled) \/ UploadInterrupted(a)
  \/ LoseJob
  \/ ProtectedTagDrifts
  \/ \E k \in Candidate : CandidateExpires(k)

Next == RepoStep \/ StartJob \/ JobStep \/ Fault

Spec == Init /\ [][Next]_vars

\* A job that has started runs on, and a waiting run starts once the group is
\* free: GitHub schedules both.  Nothing else is assumed to happen.
FairSpec == Spec /\ WF_vars(StartJob) /\ WF_vars(JobStep)

-----------------------------------------------------------------------------
(* Properties.                                                             *)

\* What is published is complete, is the bytes of one candidate of the tagged
\* commit, and the gate held for that candidate at some single instant,
\* although no job ever reads main and the workflow runs at once.
PublishedIsGated ==
  released = "published" =>
    \E k \in gated :
      /\ k.commit = demoTag
      /\ \A a \in Assets : UploadedAs(a, AssetDigest(k, a))

\* Wherever jobs are lost, they leave a publication that the next job reads as
\* consistent: no release without its tag, none published incomplete.
LeavesConsistentPublication == PublicationConsistent

\* An asset is never replaced or repaired in place, a tag never moves, a
\* published release never changes.
NothingIsOverwritten ==
  [][/\ \A a \in Assets : assets[a].present => assets'[a] = assets[a]
     /\ demoTag # NoCommit => demoTag' = demoTag
     /\ released = "published" => UNCHANGED releaseVars]_vars

\* A draft never becomes public after a garbled or half-finished upload.
FlawedDraftStaysDraft ==
  [][(\E a \in Assets : assets[a].present
                        /\ (assets[a].digest = Garbled \/ ~assets[a].uploaded))
       => released' = released]_vars

\* The publication implements its promise.  Of the candidates with the
\* published bytes, the promise is about one the gate has held for.
PublishedCandidate ==
  IF released # "published" THEN NoCommit
  ELSE CHOOSE k \in Candidate :
         k \in gated /\ \A a \in Assets : UploadedAs(a, AssetDigest(k, a))

Promise == INSTANCE PublicationPromise WITH
             None <- NoCommit, open <- gated,
             tag <- demoTag, published <- PublishedCandidate
KeepsPromise == Promise!Spec

\* If main stays, CI needs no second attempt, the candidate does not expire
\* and nothing fails, then the run queued by the last successful completion
\* (or one running already) publishes the demo, even if other workflows had
\* to be run again in between.
Undisturbed ==
  /\ main = 1 /\ faults = 0 /\ protectedIntact
  /\ runs[1][CI].attempt = 1
  /\ Succeeded(1, CI) => [commit |-> 1, attempt |-> 1] \in artifacts

LastCompletionPublishes ==
  []Undisturbed /\ <>[](WorkflowGaps(1) = {}) => <>(released = "published")
=============================================================================
