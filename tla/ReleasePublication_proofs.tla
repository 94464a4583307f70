---------------------- MODULE ReleasePublication_proofs ----------------------
(***************************************************************************)
(* Proofs about ReleasePublication, for any number of commits, workflows,  *)
(* attempts and lost jobs.  Main only moves forward and a gate that is     *)
(* open is on record, so what matters is what a job has read, and when:    *)
(* the second read of main shows where main was when the runs were read    *)
(* before it.                                                              *)
(***************************************************************************)
EXTENDS ReleasePublication, TLAPS

JobType == [pc : Pc, publishing : BOOLEAN, sha : Commit \cup {NoCommit},
            tag : Commit \cup {NoCommit}]

\* Commits for which the gate held at some instant.
OnceGated == {k.commit : k \in gated}

\* The publish job has taken over from the gate job.
Publishing == job.publishing = TRUE

\* An open gate is on record: every step of the repository records it.
GateRecorded == \A k \in Candidate : GateOpen(k) => k \in gated

\* After the first read of main the commit is not ahead of main; after the
\* runs, main has moved since or the gate was open then; after the second read
\* of main it has not moved, so the gate was open.
JobHasSeen ==
  /\ job.pc = "runs" => main >= job.sha
  /\ job.pc = "main" /\ Publishing => main > job.sha \/ job.sha \in OnceGated
  /\ job.pc # "main" /\ Publishing => job.sha \in OnceGated
  /\ job.pc \in {"tag", "create_tag", "reread", "create_release"} =>
       Publishing

\* A tag once read stays, and a release is created for a tag that was compared.
TagIsKnown ==
  /\ job.tag # NoCommit => tag = job.tag
  /\ job.pc = "create_release" => tag = job.sha

IInv == TypeOK /\ GateRecorded /\ JobHasSeen /\ TagIsKnown /\ ReleasedIsGated

-----------------------------------------------------------------------------
(* The repository.                                                         *)

LEMMA CommitsAreNumbers ==
  /\ 1 \in Commit /\ 1 \in Attempt
  /\ Commit \subseteq Nat /\ Attempt \subseteq Nat
  /\ NoCommit \notin Commit
  BY RepositoryAssumption DEF Commit, Attempt

LEMMA RepositoryStarts == RepoInit => RepoTypeOK /\ GateRecorded
<1> SUFFICES ASSUME RepoInit PROVE RepoTypeOK /\ GateRecorded
  OBVIOUS
<1>1. /\ Started(1) \in [Workflows -> [attempt : Attempt, status : RunStatus]]
      /\ NotStarted \in [Workflows -> [attempt : Attempt, status : RunStatus]]
  BY CommitsAreNumbers DEF Started, NotStarted, RunStatus
<1>2. RepoTypeOK
  BY <1>1, CommitsAreNumbers DEF RepoInit, RepoTypeOK
<1>3. ~Succeeded(1, CI)
  BY CommitsAreNumbers, RepositoryAssumption DEF RepoInit, Started, Succeeded
<1>4. GateRecorded
  BY <1>3, RepositoryAssumption DEF GateRecorded, GateOpen, WorkflowGaps,
     RepoInit
<1> QED
  BY <1>2, <1>4

\* The repository keeps its type, main never goes back, the record of open
\* gates only grows and misses none.
LEMMA RepositoryMoves ==
  ASSUME RepoTypeOK, RepoStep
  PROVE  /\ RepoTypeOK' /\ GateRecorded'
         /\ main' >= main
         /\ gated \subseteq gated'
<1> USE DEF RepoTypeOK
<1>1. ASSUME Push
      PROVE  /\ main' \in Commit /\ main' >= main
             /\ runs' \in [Commit -> [Workflows ->
                             [attempt : Attempt, status : RunStatus]]]
             /\ artifacts' \subseteq Candidate
  <2>1. Started(1) \in [Workflows -> [attempt : Attempt, status : RunStatus]]
    BY CommitsAreNumbers DEF Started, RunStatus
  <2> QED
    BY <1>1, <2>1, RepositoryAssumption DEF Push, Commit
<1>2. ASSUME NEW c \in Commit, NEW w \in Workflows, Rerun(c, w)
      PROVE  /\ main' = main
             /\ runs' \in [Commit -> [Workflows ->
                             [attempt : Attempt, status : RunStatus]]]
             /\ artifacts' \subseteq Candidate
  <2>1. runs[c][w].attempt + 1 \in Attempt
    BY <1>2, RepositoryAssumption DEF Rerun, Attempt
  <2> QED
    BY <1>2, <2>1 DEF Rerun, RunStatus
<1>3. ASSUME NEW c \in Commit, NEW w \in Workflows,
             NEW s \in {"success", "failure"}, Complete(c, w, s)
      PROVE  /\ main' = main
             /\ runs' \in [Commit -> [Workflows ->
                             [attempt : Attempt, status : RunStatus]]]
             /\ artifacts' \subseteq Candidate
  <2>1. [commit |-> c, attempt |-> runs[c][w].attempt] \in Candidate
    BY DEF Candidate
  <2> QED
    BY <1>3, <2>1 DEF Complete, RunStatus
<1>4. /\ main' \in Commit /\ main' >= main
      /\ runs' \in [Commit -> [Workflows ->
                      [attempt : Attempt, status : RunStatus]]]
      /\ artifacts' \subseteq Candidate
  BY <1>1, <1>2, <1>3, CommitsAreNumbers DEF RepoStep
<1>5. gated \subseteq gated' /\ gated' \subseteq Candidate /\ GateRecorded'
  BY DEF RepoStep, RecordGate, GateRecorded
<1> QED
  BY <1>4, <1>5

\* Runs that all succeeded, read while main has not moved past their commit or
\* after it has.
LEMMA RunsShowGate ==
  ASSUME RepoTypeOK, GateRecorded, NEW c \in Commit,
         main >= c, WorkflowGaps(c) = {}
  PROVE  main > c \/ c \in OnceGated
<1> DEFINE k == [commit |-> c, attempt |-> runs[c][CI].attempt]
<1>1. k \in Candidate
  BY RepositoryAssumption DEF RepoTypeOK, Candidate
<1>2. CASE main = c
  <2>1. GateOpen(k)
    BY <1>2 DEF GateOpen
  <2> QED
    BY <1>1, <2>1 DEF GateRecorded, OnceGated
<1>3. CASE main # c
  BY <1>3, CommitsAreNumbers DEF RepoTypeOK
<1> QED
  BY <1>2, <1>3

-----------------------------------------------------------------------------
(* The job.  A step ends it or sets two or three of its fields.            *)

LEMMA JobIsTyped ==
  ASSUME TypeOK
  PROVE  /\ job \in JobType /\ tag \in Commit \cup {NoCommit}
         /\ job.publishing \in BOOLEAN
         /\ "main" \in Pc /\ "runs" \in Pc /\ "tag" \in Pc
         /\ "create_tag" \in Pc /\ "reread" \in Pc /\ "create_release" \in Pc
         /\ job.pc # "idle" => job.sha \in Commit
         /\ Idle \in JobType /\ Idle.pc = "idle" /\ Idle.publishing = FALSE
         /\ Idle.tag = NoCommit
  BY DEF TypeOK, JobType, Pc, Idle

LEMMA MainRead ==
  ASSUME TypeOK, ReadMain
  PROVE  /\ job' \in JobType /\ job.pc = "main" /\ job.sha \in Commit
         /\ \/ job' = Idle
            \/ /\ job'.pc = "runs" /\ main = job.sha /\ job'.sha = job.sha
               /\ job'.publishing = job.publishing /\ job'.tag = job.tag
<1>1. job.pc = "main" /\ job.sha \in Commit
  BY JobIsTyped DEF ReadMain, At
<1>2. \/ job' = Idle
      \/ main = job.sha /\ job' = [job EXCEPT !.pc = "runs"]
  BY DEF ReadMain, Proceed, Goto, Leave
<1> QED
  BY <1>1, <1>2, JobIsTyped DEF JobType

LEMMA RunsRead ==
  ASSUME TypeOK, ReadRuns
  PROVE  /\ job' \in JobType /\ job.pc = "runs" /\ job.sha \in Commit
         /\ \/ job' = Idle
            \/ /\ WorkflowGaps(job.sha) = {}
               /\ job'.sha = job.sha /\ job'.tag = job.tag
               /\ job'.publishing = TRUE
               /\ \/ job'.pc = "main" /\ job.publishing = FALSE
                  \/ job'.pc = "tag" /\ job.publishing = TRUE
<1>1. job.pc = "runs" /\ job.sha \in Commit
  BY JobIsTyped DEF ReadRuns, At
<1>2. \/ job' = Idle
      \/ /\ WorkflowGaps(job.sha) = {} /\ job.publishing = TRUE
         /\ job' = [job EXCEPT !.pc = "tag"]
      \/ /\ WorkflowGaps(job.sha) = {} /\ job.publishing = FALSE
         /\ job' = [job EXCEPT !.publishing = TRUE, !.pc = "main"]
  BY JobIsTyped DEF ReadRuns, Goto, Leave
<1>3. job' = [job EXCEPT !.pc = "tag"] =>
        /\ job' \in JobType /\ job'.pc = "tag" /\ job'.sha = job.sha
        /\ job'.tag = job.tag /\ job'.publishing = job.publishing
  BY JobIsTyped DEF JobType
<1>4. job' = [job EXCEPT !.publishing = TRUE, !.pc = "main"] =>
        /\ job' \in JobType /\ job'.pc = "main" /\ job'.sha = job.sha
        /\ job'.tag = job.tag /\ job'.publishing = TRUE
  BY JobIsTyped DEF JobType
<1> QED
  BY <1>1, <1>2, <1>3, <1>4, JobIsTyped

LEMMA TagRead ==
  ASSUME TypeOK, ReadTagAndRelease
  PROVE  /\ job' \in JobType /\ job.pc = "tag" /\ job.sha \in Commit
         /\ \/ job' = Idle
            \/ /\ job'.pc \in {"create_tag", "reread"} /\ job'.sha = job.sha
               /\ job'.publishing = job.publishing /\ job'.tag = tag
<1>1. job.pc = "tag" /\ job.sha \in Commit
  BY JobIsTyped DEF ReadTagAndRelease, At
<1>2. \/ job' = Idle
      \/ job' = [job EXCEPT !.tag = tag, !.pc = "create_tag"]
      \/ job' = [job EXCEPT !.tag = tag, !.pc = "reread"]
  BY DEF ReadTagAndRelease, Leave
<1>3. \A pc \in Pc : job' = [job EXCEPT !.tag = tag, !.pc = pc] =>
        /\ job' \in JobType /\ job'.pc = pc /\ job'.sha = job.sha
        /\ job'.publishing = job.publishing /\ job'.tag = tag
  BY JobIsTyped DEF JobType
<1> QED
  BY <1>1, <1>2, <1>3, JobIsTyped

LEMMA TagCreated ==
  ASSUME TypeOK, CreateTag
  PROVE  /\ job' \in JobType /\ job.pc = "create_tag" /\ job.sha \in Commit
         /\ \/ job' = Idle /\ tag' = tag
            \/ /\ tag = NoCommit /\ tag' = job.sha
               /\ job'.pc = "reread" /\ job'.sha = job.sha
               /\ job'.publishing = job.publishing /\ job'.tag = job.tag
<1>1. job.pc = "create_tag" /\ job.sha \in Commit
  BY JobIsTyped DEF CreateTag, At
<1>2. \/ job' = Idle /\ tag' = tag
      \/ /\ tag = NoCommit /\ tag' = job.sha
         /\ job' = [job EXCEPT !.pc = "reread"]
  BY DEF CreateTag, Goto, Leave
<1> QED
  BY <1>1, <1>2, JobIsTyped DEF JobType

LEMMA TagCompared ==
  ASSUME TypeOK, CompareTag
  PROVE  /\ job' \in JobType /\ job.pc = "reread" /\ job.sha \in Commit
         /\ \/ job' = Idle
            \/ /\ job.sha = IF job.tag = NoCommit THEN tag ELSE job.tag
               /\ job'.pc = "create_release" /\ job'.sha = job.sha
               /\ job'.publishing = job.publishing /\ job'.tag = job.tag
<1>1. job.pc = "reread" /\ job.sha \in Commit
  BY JobIsTyped DEF CompareTag, At
<1>2. \/ job' = Idle
      \/ /\ job.sha = IF job.tag = NoCommit THEN tag ELSE job.tag
         /\ job' = [job EXCEPT !.pc = "create_release"]
  BY DEF CompareTag, Proceed, Goto, Leave
<1> QED
  BY <1>1, <1>2, JobIsTyped DEF JobType
-----------------------------------------------------------------------------
(* The invariant.                                                          *)

LEMMA Starts == Init => IInv
<1> SUFFICES ASSUME Init PROVE IInv
  OBVIOUS
<1>1. RepoTypeOK /\ GateRecorded
  BY RepositoryStarts DEF Init
<1>2. /\ Idle \in JobType /\ Idle.pc = "idle" /\ Idle.publishing = FALSE
      /\ Idle.tag = NoCommit
  BY DEF JobType, Idle, Pc
<1>3. TypeOK
  BY <1>1, <1>2, LossAssumption DEF Init, TypeOK, JobType
<1> QED
  BY <1>1, <1>2, <1>3 DEF Init, IInv, JobHasSeen, Publishing, TagIsKnown,
     ReleasedIsGated

LEMMA RepoKeeps == IInv /\ RepoStep => IInv'
<1> SUFFICES ASSUME IInv, RepoStep PROVE IInv'
  OBVIOUS
<1>1. /\ RepoTypeOK' /\ GateRecorded'
      /\ main' >= main /\ main \in Nat /\ main' \in Nat
      /\ gated \subseteq gated'
  BY RepositoryMoves, CommitsAreNumbers DEF IInv, TypeOK, RepoTypeOK
<1>2. UNCHANGED <<tag, releasedAt, job, lost>>
  BY DEF RepoStep
<1>3. OnceGated \subseteq OnceGated'
  BY <1>1 DEF OnceGated
<1>4. TypeOK'
  BY <1>1, <1>2 DEF IInv, TypeOK
<1>5. JobHasSeen'
  <2>1. JobHasSeen /\ (job.pc # "idle" => job.sha \in Nat)
    BY CommitsAreNumbers DEF IInv, TypeOK
  <2> QED
    BY <1>1, <1>2, <1>3, <2>1 DEF JobHasSeen, Publishing
<1>6. TagIsKnown' /\ ReleasedIsGated'
  BY <1>1, <1>2 DEF IInv, TagIsKnown, ReleasedIsGated
<1> QED
  BY <1>1, <1>4, <1>5, <1>6 DEF IInv

\* Any step that leaves the repository alone keeps what is known of it.
LEMMA RepositoryRests ==
  ASSUME RepoTypeOK, GateRecorded, UNCHANGED repoVars
  PROVE  /\ RepoTypeOK' /\ GateRecorded'
         /\ main' = main /\ gated' = gated /\ OnceGated' = OnceGated
  BY DEF repoVars, RepoTypeOK, GateRecorded, GateOpen, WorkflowGaps, Succeeded,
     OnceGated

\* A job that ends or starts knows nothing yet.
LEMMA NothingSeen ==
  ASSUME job'.pc \in {"idle", "main"}, job'.publishing = FALSE,
         job'.tag = NoCommit
  PROVE  JobHasSeen' /\ TagIsKnown'
  BY DEF JobHasSeen, Publishing, TagIsKnown

LEMMA JobKeeps == IInv /\ JobStep => IInv'
<1> SUFFICES ASSUME IInv, JobStep PROVE IInv'
  OBVIOUS
<1>1. UNCHANGED <<repoVars, lost>>
  BY DEF JobStep, ReadMain, ReadRuns, ReadTagAndRelease, CreateTag, CompareTag,
     CreateRelease, ReadOnly
<1>2. /\ TypeOK /\ RepoTypeOK /\ GateRecorded /\ JobHasSeen /\ TagIsKnown
      /\ ReleasedIsGated
  BY DEF IInv, TypeOK
<1>3. /\ RepoTypeOK' /\ GateRecorded'
      /\ main' = main /\ gated' = gated /\ OnceGated' = OnceGated
  BY <1>1, <1>2, RepositoryRests
<1>4. /\ main \in Nat /\ (job.pc # "idle" => job.sha \in Nat)
      /\ lost' \in 0 .. MaxLost /\ releasedAt \in Commit \cup {NoCommit}
  BY <1>1, <1>2, CommitsAreNumbers DEF TypeOK, RepoTypeOK
<1>5. /\ Idle \in JobType /\ Idle.pc = "idle" /\ Idle.publishing = FALSE
      /\ Idle.tag = NoCommit /\ tag \in Commit \cup {NoCommit}
  BY <1>2, JobIsTyped
<1>6. ASSUME job' \in JobType, job'.pc # "idle" => job'.sha \in Commit,
             tag' \in Commit \cup {NoCommit},
             releasedAt' \in Commit \cup {NoCommit}
      PROVE  TypeOK'
  BY <1>3, <1>4, <1>6 DEF TypeOK, JobType
<1>7. job' = Idle => JobHasSeen' /\ TagIsKnown'
  BY <1>5, NothingSeen
<1>8. CASE ReadMain
  <2>1. /\ job' \in JobType /\ job.pc = "main" /\ job.sha \in Commit
        /\ \/ job' = Idle
           \/ /\ job'.pc = "runs" /\ main = job.sha /\ job'.sha = job.sha
              /\ job'.publishing = job.publishing /\ job'.tag = job.tag
    BY <1>2, <1>8, MainRead
  <2>2. tag' = tag /\ releasedAt' = releasedAt
    BY <1>8 DEF ReadMain, ReadOnly
  <2>3. JobHasSeen' /\ TagIsKnown'
    BY <1>2, <1>3, <1>4, <1>7, <2>1, <2>2
    DEF JobHasSeen, Publishing, TagIsKnown
  <2>4. TypeOK'
    BY <1>4, <1>5, <1>6, <2>1, <2>2
  <2> QED
    BY <1>2, <1>3, <2>2, <2>3, <2>4 DEF IInv, ReleasedIsGated
<1>9. CASE ReadRuns
  <2>1. /\ job' \in JobType /\ job.pc = "runs" /\ job.sha \in Commit
        /\ \/ job' = Idle
           \/ /\ WorkflowGaps(job.sha) = {}
              /\ job'.sha = job.sha /\ job'.tag = job.tag
              /\ job'.publishing = TRUE
              /\ \/ job'.pc = "main" /\ job.publishing = FALSE
                 \/ job'.pc = "tag" /\ job.publishing = TRUE
    BY <1>2, <1>9, RunsRead
  <2>2. tag' = tag /\ releasedAt' = releasedAt
    BY <1>9 DEF ReadRuns, ReadOnly
  <2>3. WorkflowGaps(job.sha) = {} => main > job.sha \/ job.sha \in OnceGated
    BY <1>2, <2>1, RunsShowGate DEF JobHasSeen
  <2>4. JobHasSeen' /\ TagIsKnown'
    BY <1>2, <1>3, <1>4, <1>7, <2>1, <2>2, <2>3
    DEF JobHasSeen, Publishing, TagIsKnown
  <2>5. TypeOK'
    BY <1>4, <1>5, <1>6, <2>1, <2>2
  <2> QED
    BY <1>2, <1>3, <2>2, <2>4, <2>5 DEF IInv, ReleasedIsGated
<1>10. CASE ReadTagAndRelease
  <2>1. /\ job' \in JobType /\ job.pc = "tag" /\ job.sha \in Commit
        /\ \/ job' = Idle
           \/ /\ job'.pc \in {"create_tag", "reread"} /\ job'.sha = job.sha
              /\ job'.publishing = job.publishing /\ job'.tag = tag
    BY <1>2, <1>10, TagRead
  <2>2. tag' = tag /\ releasedAt' = releasedAt
    BY <1>10 DEF ReadTagAndRelease, ReadOnly
  <2>3. JobHasSeen' /\ TagIsKnown'
    BY <1>2, <1>3, <1>7, <2>1, <2>2 DEF JobHasSeen, Publishing, TagIsKnown
  <2>4. TypeOK'
    BY <1>4, <1>5, <1>6, <2>1, <2>2
  <2> QED
    BY <1>2, <1>3, <2>2, <2>3, <2>4 DEF IInv, ReleasedIsGated
<1>11. CASE CreateTag
  <2>1. /\ job' \in JobType /\ job.pc = "create_tag" /\ job.sha \in Commit
        /\ \/ job' = Idle /\ tag' = tag
           \/ /\ tag = NoCommit /\ tag' = job.sha
              /\ job'.pc = "reread" /\ job'.sha = job.sha
              /\ job'.publishing = job.publishing /\ job'.tag = job.tag
    BY <1>2, <1>11, TagCreated
  <2>2. releasedAt' = releasedAt
    BY <1>11 DEF CreateTag
  <2>3. job.tag # NoCommit => tag = job.tag
    BY <1>2 DEF TagIsKnown
  <2>4. JobHasSeen' /\ TagIsKnown'
    BY <1>2, <1>3, <1>7, <2>1, <2>2, <2>3
    DEF JobHasSeen, Publishing, TagIsKnown
  <2>5. TypeOK'
    BY <1>4, <1>5, <1>6, <2>1, <2>2
  <2> QED
    BY <1>2, <1>3, <2>2, <2>4, <2>5 DEF IInv, ReleasedIsGated
<1>12. CASE CompareTag
  <2>1. /\ job' \in JobType /\ job.pc = "reread" /\ job.sha \in Commit
        /\ \/ job' = Idle
           \/ /\ job.sha = IF job.tag = NoCommit THEN tag ELSE job.tag
              /\ job'.pc = "create_release" /\ job'.sha = job.sha
              /\ job'.publishing = job.publishing /\ job'.tag = job.tag
    BY <1>2, <1>12, TagCompared
  <2>2. tag' = tag /\ releasedAt' = releasedAt
    BY <1>12 DEF CompareTag, ReadOnly
  <2>3. JobHasSeen' /\ TagIsKnown'
    BY <1>2, <1>3, <1>7, <2>1, <2>2 DEF JobHasSeen, Publishing, TagIsKnown
  <2>4. TypeOK'
    BY <1>4, <1>5, <1>6, <2>1, <2>2
  <2> QED
    BY <1>2, <1>3, <2>2, <2>3, <2>4 DEF IInv, ReleasedIsGated
<1>13. CASE CreateRelease
  <2>1. /\ job.pc = "create_release" /\ job' = Idle
        /\ tag' = tag /\ releasedAt' = tag
    BY <1>13 DEF CreateRelease, At, Leave
  <2>2. tag = job.sha /\ job.sha \in OnceGated
    BY <1>2, <2>1 DEF JobHasSeen, Publishing, TagIsKnown
  <2>3. ReleasedIsGated'
    BY <1>3, <2>1, <2>2 DEF ReleasedIsGated, OnceGated
  <2>4. TypeOK'
    BY <1>4, <1>5, <1>6, <2>1
  <2> QED
    BY <1>3, <1>7, <2>1, <2>3, <2>4 DEF IInv
<1> QED
  BY <1>8, <1>9, <1>10, <1>11, <1>12, <1>13 DEF JobStep

LEMMA OthersKeep ==
  ASSUME IInv,
         \/ \E c \in Commit : StartJob(c) \/ OwnerTags(c)
         \/ LoseJob
         \/ UNCHANGED vars
  PROVE  IInv'
<1>1. UNCHANGED <<repoVars, releasedAt>>
  BY DEF StartJob, OwnerTags, LoseJob, ReadOnly, vars
<1>2. /\ TypeOK /\ RepoTypeOK /\ GateRecorded /\ JobHasSeen /\ TagIsKnown
      /\ ReleasedIsGated
  BY DEF IInv, TypeOK
<1>3. /\ RepoTypeOK' /\ GateRecorded'
      /\ main' = main /\ gated' = gated /\ OnceGated' = OnceGated
  BY <1>1, <1>2, RepositoryRests
<1>4. ReleasedIsGated'
  BY <1>1, <1>2, <1>3 DEF ReleasedIsGated
<1>5. /\ Idle \in JobType /\ Idle.pc = "idle" /\ Idle.publishing = FALSE
      /\ Idle.tag = NoCommit
  BY <1>2, JobIsTyped
<1>6. ASSUME NEW c \in Commit, StartJob(c) PROVE IInv'
  <2>1. job' = [Idle EXCEPT !.pc = "main", !.sha = c]
    BY <1>6 DEF StartJob
  <2>2. /\ job' \in JobType /\ job'.pc = "main" /\ job'.publishing = FALSE
        /\ job'.sha = c /\ job'.tag = NoCommit
    BY <2>1 DEF Idle, JobType, Pc
  <2>3. tag' = tag /\ lost' = lost
    BY <1>6 DEF StartJob, ReadOnly
  <2>4. TypeOK'
    BY <1>1, <1>2, <1>3, <2>2, <2>3 DEF TypeOK, JobType
  <2> QED
    BY <1>3, <1>4, <2>2, <2>4, NothingSeen DEF IInv
<1>7. ASSUME NEW c \in Commit, OwnerTags(c) PROVE IInv'
  <2>1. tag = NoCommit /\ tag' = c /\ job' = job /\ lost' = lost
    BY <1>7 DEF OwnerTags
  <2>2. TypeOK'
    BY <1>1, <1>2, <1>3, <2>1 DEF TypeOK
  <2>3. JobHasSeen'
    BY <1>2, <1>3, <2>1 DEF JobHasSeen, Publishing
  <2>4. TagIsKnown'
    <3>1. job.pc = "create_release" => job.sha \in Commit /\ tag = job.sha
      BY <1>2 DEF TypeOK, TagIsKnown
    <3>2. job.tag # NoCommit => tag = job.tag
      BY <1>2 DEF TagIsKnown
    <3> QED
      BY <2>1, <3>1, <3>2, CommitsAreNumbers DEF TagIsKnown
  <2> QED
    BY <1>3, <1>4, <2>2, <2>3, <2>4 DEF IInv
<1>8. CASE LoseJob
  <2>1. job' = Idle /\ tag' = tag /\ lost' \in 0 .. MaxLost
    BY <1>2, <1>8, LossAssumption DEF LoseJob, Leave, TypeOK
  <2>2. TypeOK'
    BY <1>1, <1>2, <1>3, <1>5, <2>1 DEF TypeOK, JobType
  <2> QED
    BY <1>3, <1>4, <1>5, <2>1, <2>2, NothingSeen DEF IInv
<1>9. CASE UNCHANGED vars
  <2>1. UNCHANGED <<tag, job, lost>>
    BY <1>9 DEF vars
  <2> QED
    BY <1>1, <1>2, <1>3, <1>4, <2>1
    DEF IInv, TypeOK, JobHasSeen, Publishing, TagIsKnown
<1> QED
  BY <1>6, <1>7, <1>8, <1>9

LEMMA Inductive == Spec => []IInv
<1>1. IInv /\ [Next]_vars => IInv'
  BY RepoKeeps, JobKeeps, OthersKeep DEF Next
<1> QED
  BY <1>1, Starts, PTL DEF Spec

-----------------------------------------------------------------------------

\* The repository and the job stay within their types.
THEOREM TypeCorrect == Spec => []TypeOK
<1>1. IInv => TypeOK
  BY DEF IInv
<1> QED
  BY <1>1, Inductive, PTL

\* A released commit passed the gate at one instant, however main, the runs and
\* the tag changed between the calls of gate and publish, and whoever made the
\* tag (publish_release.py).
THEOREM ReleaseGated == Spec => []ReleasedIsGated
<1>1. IInv => ReleasedIsGated
  BY DEF IInv
<1> QED
  BY <1>1, Inductive, PTL

\* A tag never moves, a release is never replaced, and a release is made only
\* for a tag on the job's own commit (publish, and the owner's tags).
THEOREM NothingMoved == Spec => NothingIsMoved
<1> DEFINE Kept == /\ tag # NoCommit => tag' = tag
                   /\ releasedAt # NoCommit => releasedAt' = releasedAt
                   /\ releasedAt' # releasedAt =>
                        releasedAt' = tag /\ tag = job.sha
<1>1. IInv /\ [Next]_vars => [Kept]_vars
  <2> SUFFICES ASSUME IInv, Next PROVE Kept
    OBVIOUS
  <2>1. TagIsKnown
    BY DEF IInv
  <2>2. CASE CreateRelease
    BY <2>1, <2>2 DEF CreateRelease, At, TagIsKnown
  <2>3. CASE ~CreateRelease
    <3>1. releasedAt' = releasedAt
      BY <2>3 DEF Next, RepoStep, JobStep, StartJob, OwnerTags, LoseJob,
         ReadMain, ReadRuns, ReadTagAndRelease, CreateTag, CompareTag, ReadOnly
    <3>2. tag # NoCommit => tag' = tag
      BY <2>3 DEF Next, RepoStep, JobStep, StartJob, OwnerTags, LoseJob,
         ReadMain, ReadRuns, ReadTagAndRelease, CreateTag, CompareTag, ReadOnly
    <3> QED
      BY <3>1, <3>2
  <2> QED
    BY <2>2, <2>3
<1> QED
  BY <1>1, Inductive, PTL DEF Spec, NothingIsMoved
=============================================================================
