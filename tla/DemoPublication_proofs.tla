------------------------ MODULE DemoPublication_proofs ------------------------
(***************************************************************************)
(* Proofs about DemoPublication, for any number of commits, workflows,     *)
(* attempts, assets and faults.  No job reads main, the runs and the       *)
(* artifact at once; each read shows something about the instant of an     *)
(* earlier one, because main only moves forward and attempts only count    *)
(* up.  The invariant says what a job has learnt in this way at each point *)
(* of its three rounds of readiness, and what the release then holds.      *)
(***************************************************************************)
EXTENDS DemoPublication, TLAPS

JobType == [pc : Pc, phase : Phase, sha : Commit \cup {NoCommit},
            tag : Commit \cup {NoCommit}, hasRelease : BOOLEAN,
            selected : 0 .. MaxAttempt]

RunsType == [Commit -> [Workflows -> [attempt : Attempt, status : RunStatus]]]

-----------------------------------------------------------------------------
(* The invariant.                                                          *)

\* An open gate is on record.
GateRecorded == \A k \in Candidate : GateOpen(k) => k \in gated

\* Nothing has run for a commit that is not on main yet.
NotYetRun == \A c \in Commit, w \in Workflows :
               c > main => runs[c][w] = [attempt |-> 1, status |-> "none"]

\* Commits for which the gate held at some instant.
OnceGated == {k.commit : k \in gated}

\* The latest CI attempt of the job's commit, and the candidate it selected.
Latest == runs[job.sha][CI].attempt
Selected == [commit |-> job.sha, attempt |-> job.selected]

Readiness == {"publication", "main", "runs", "candidate"}
Writing == {"existing", "tag", "reread", "create", "inspect", "upload",
            "verify"}

\* Where a job can be in each phase.
PhaseFits ==
  /\ job.pc \in {"publish", "confirm"} => job.phase = "final"
  /\ job.pc \in Writing => job.phase = "recheck"
  /\ job.pc = "download" => job.phase = "select"
  /\ job.pc = "idle" => job.phase = "gate"

\* The job's commit: the read of main in the second round shows that main had
\* not moved when the runs were read in the first.
CommitSeen ==
  /\ job.pc = "runs" => main >= job.sha
  /\ (\/ job.phase = "gate" /\ job.pc = "candidate"
      \/ job.phase = "select" /\ job.pc \in {"publication", "main"})
     => main > job.sha \/ job.sha \in OnceGated
  /\ (\/ job.phase = "select" /\ job.pc \notin {"publication", "main"}
      \/ job.phase \in {"recheck", "final"})
     => job.sha \in OnceGated

\* The selected attempt: it is the latest when it is read again in the third
\* round, so it was when the runs were read between, and the read of main in
\* the last round shows that main had not moved then.
AttemptSeen ==
  /\ (job.pc = "download" \/ job.phase \in {"recheck", "final"}) =>
       job.selected \in Attempt /\ Latest >= job.selected
  /\ job.phase = "recheck" /\ job.pc = "candidate" =>
       \/ main > job.sha
       \/ \E k \in gated : /\ k.commit = job.sha
                           /\ job.selected <= k.attempt /\ k.attempt <= Latest
  /\ (\/ job.pc \in Writing
      \/ job.phase = "final" /\ job.pc \in {"publication", "main"})
     => main > job.sha \/ Selected \in gated
  /\ job.phase = "final" /\ job.pc \notin {"publication", "main"} =>
       Selected \in gated

\* The draft in the job's hands.
DraftComplete == \A a \in Assets : UploadedAs(a, Expected(a))

DraftSeen ==
  /\ (\/ job.pc \in {"create", "inspect", "upload", "verify"}
      \/ job.phase = "final")
     => demoTag = job.sha
  /\ (\/ job.pc \in {"upload", "verify"}
      \/ job.phase = "final" /\ job.pc # "confirm")
     => released = "draft"
  /\ job.phase = "final" => DraftComplete

JobKnows == PhaseFits /\ CommitSeen /\ AttemptSeen /\ DraftSeen

\* The publication, whoever left it.
PublicationSound ==
  /\ released = "absent" => \A a \in Assets : ~assets[a].present
  /\ released # "absent" => demoTag # NoCommit
  /\ PublishedIsGated

\* A waiting run names the commit whose workflow run succeeded.
WaitingNamesCommit == pending.success = TRUE => pending.sha \in Commit

IInv ==
  /\ TypeOK /\ WaitingNamesCommit /\ GateRecorded /\ NotYetRun
  /\ JobKnows /\ PublicationSound

-----------------------------------------------------------------------------
(* The repository.                                                         *)

LEMMA CommitsAreNumbers ==
  /\ 1 \in Commit /\ 1 \in Attempt
  /\ Commit \subseteq Nat /\ Attempt \subseteq Nat
  /\ NoCommit \notin Commit
  BY RepositoryAssumption DEF Commit, Attempt

LEMMA NewRunsAreTyped ==
  /\ Started(1) \in [Workflows -> [attempt : Attempt, status : RunStatus]]
  /\ NotStarted \in [Workflows -> [attempt : Attempt, status : RunStatus]]
  /\ \A w \in Workflows :
       /\ Started(1)[w] = [attempt |-> 1, status |-> "running"]
       /\ NotStarted[w] = [attempt |-> 1, status |-> "none"]
  BY CommitsAreNumbers DEF Started, NotStarted, RunStatus

LEMMA RepositoryStarts ==
  RepoInit => RepoTypeOK /\ GateRecorded /\ NotYetRun
<1> SUFFICES ASSUME RepoInit PROVE RepoTypeOK /\ GateRecorded /\ NotYetRun
  OBVIOUS
<1>1. RepoTypeOK
  BY NewRunsAreTyped, CommitsAreNumbers DEF RepoInit, RepoTypeOK
<1>2. ~Succeeded(1, CI)
  BY NewRunsAreTyped, CommitsAreNumbers, RepositoryAssumption
  DEF RepoInit, Succeeded
<1>3. GateRecorded
  BY <1>2, RepositoryAssumption DEF GateRecorded, GateOpen, WorkflowGaps,
     RepoInit
<1>4. NotYetRun
  BY NewRunsAreTyped, CommitsAreNumbers DEF NotYetRun, RepoInit
<1> QED
  BY <1>1, <1>3, <1>4

\* The repository keeps its type, main never goes back, attempts only count
\* up, the record of open gates only grows and misses none.
LEMMA RepositoryMoves ==
  ASSUME RepoTypeOK, NotYetRun, RepoStep
  PROVE  /\ RepoTypeOK' /\ GateRecorded' /\ NotYetRun'
         /\ main' >= main
         /\ gated \subseteq gated'
         /\ \A c \in Commit : runs'[c][CI].attempt >= runs[c][CI].attempt
<1> DEFINE Grown == \A c \in Commit, w \in Workflows :
                      runs'[c][w].attempt >= runs[c][w].attempt
<1>1. main \in Commit /\ runs \in RunsType /\ artifacts \subseteq Candidate
      /\ \A c \in Commit, w \in Workflows :
           runs[c][w].attempt \in Attempt /\ runs[c][w].attempt \in Nat
  BY CommitsAreNumbers DEF RepoTypeOK, RunsType
<1>2. ASSUME Push
      PROVE  /\ main' \in Commit /\ main' >= main /\ runs' \in RunsType
             /\ artifacts' \subseteq Candidate /\ NotYetRun' /\ Grown
  <2>1. /\ main' = main + 1 /\ main + 1 \in Commit /\ artifacts' = artifacts
        /\ runs' = [runs EXCEPT ![main + 1] = Started(1)]
    BY <1>1, <1>2, RepositoryAssumption DEF Push, Commit
  <2>2. runs' \in RunsType
    BY <1>1, <2>1, NewRunsAreTyped DEF RunsType
  <2>3. \A c \in Commit : runs'[c] = IF c = main + 1 THEN Started(1)
                                                     ELSE runs[c]
    BY <1>1, <2>1 DEF RunsType
  <2>4. NotYetRun'
    BY <1>1, <2>1, <2>3, CommitsAreNumbers DEF NotYetRun
  <2>5. \A w \in Workflows : runs[main + 1][w].attempt = 1
    BY <1>1, <2>1, CommitsAreNumbers DEF NotYetRun
  <2>6. Grown
    BY <1>1, <2>3, <2>5, NewRunsAreTyped, CommitsAreNumbers
  <2>7. main \in Nat /\ main' >= main
    BY <1>1, <2>1, CommitsAreNumbers
  <2> HIDE DEF Grown
  <2> QED
    BY <1>1, <2>1, <2>2, <2>4, <2>6, <2>7
<1>3. ASSUME NEW c \in Commit, NEW w \in Workflows, Rerun(c, w)
      PROVE  /\ main' = main /\ runs' \in RunsType
             /\ artifacts' \subseteq Candidate /\ NotYetRun' /\ Grown
  <2>1. runs[c][w].attempt + 1 \in Attempt
    BY <1>1, <1>3, RepositoryAssumption DEF Rerun, Attempt
  <2>2. /\ runs[c][w].status # "none" /\ main' = main /\ artifacts' = artifacts
        /\ runs' = [runs EXCEPT ![c][w] =
                      [attempt |-> @.attempt + 1, status |-> "running"]]
    BY <1>3 DEF Rerun
  <2>3. runs' \in RunsType
    BY <1>1, <2>1, <2>2 DEF RunsType, RunStatus
  <2>4. \A d \in Commit, v \in Workflows :
          runs'[d][v] = IF d = c /\ v = w
                        THEN [attempt |-> runs[c][w].attempt + 1,
                              status |-> "running"]
                        ELSE runs[d][v]
    BY <1>1, <2>2 DEF RunsType
  <2>5. NotYetRun'
    BY <2>2, <2>4 DEF NotYetRun
  <2>6. Grown
    BY <1>1, <2>4, CommitsAreNumbers
  <2> QED
    BY <1>1, <2>2, <2>3, <2>5, <2>6
<1>4. ASSUME NEW c \in Commit, NEW w \in Workflows,
             NEW s \in {"success", "failure"}, Complete(c, w, s)
      PROVE  /\ main' = main /\ runs' \in RunsType
             /\ artifacts' \subseteq Candidate /\ NotYetRun' /\ Grown
  <2>1. /\ runs[c][w].status = "running" /\ main' = main
        /\ runs' = [runs EXCEPT ![c][w].status = s]
    BY <1>4 DEF Complete
  <2>2. [commit |-> c, attempt |-> runs[c][w].attempt] \in Candidate
    BY <1>1 DEF Candidate
  <2>3. artifacts' \subseteq Candidate
    BY <1>1, <1>4, <2>2 DEF Complete
  <2>4. runs' \in RunsType
    BY <1>1, <2>1 DEF RunsType, RunStatus
  <2>5. \A d \in Commit, v \in Workflows :
          /\ runs'[d][v].attempt = runs[d][v].attempt
          /\ ~(d = c /\ v = w) => runs'[d][v] = runs[d][v]
    BY <1>1, <2>1 DEF RunsType
  <2>6. NotYetRun'
    BY <2>1, <2>5 DEF NotYetRun
  <2>7. Grown
    BY <1>1, <2>5
  <2> QED
    BY <2>1, <2>3, <2>4, <2>6, <2>7
<1>5. /\ main' \in Commit /\ main' >= main /\ runs' \in RunsType
      /\ artifacts' \subseteq Candidate /\ NotYetRun' /\ Grown
  BY <1>1, <1>2, <1>3, <1>4, CommitsAreNumbers DEF RepoStep
<1>6. gated \subseteq gated' /\ (gated \subseteq Candidate =>
                                   gated' \subseteq Candidate)
      /\ GateRecorded'
  BY DEF RepoStep, RecordGate, GateRecorded
<1> QED
  BY <1>5, <1>6, RepositoryAssumption DEF RepoTypeOK, RunsType

\* Any step that leaves main and the runs alone keeps what is known of them.
LEMMA RepositoryRests ==
  ASSUME GateRecorded, NotYetRun, UNCHANGED <<main, runs, gated>>
  PROVE  GateRecorded' /\ NotYetRun' /\ OnceGated' = OnceGated
  BY DEF GateRecorded, NotYetRun, GateOpen, WorkflowGaps, Succeeded, OnceGated

\* Runs that all succeeded, read while main has not moved past their commit or
\* after it has.
LEMMA RunsShowGate ==
  ASSUME RepoTypeOK, GateRecorded, NEW c \in Commit,
         main >= c, WorkflowGaps(c) = {}
  PROVE  main > c \/ [commit |-> c, attempt |-> runs[c][CI].attempt] \in gated
<1> DEFINE k == [commit |-> c, attempt |-> runs[c][CI].attempt]
<1>1. k \in Candidate
  BY RepositoryAssumption DEF RepoTypeOK, Candidate
<1>2. CASE main = c
  <2>1. GateOpen(k)
    BY <1>2 DEF GateOpen
  <2> QED
    BY <1>1, <2>1 DEF GateRecorded
<1>3. CASE main # c
  BY <1>3, CommitsAreNumbers DEF RepoTypeOK
<1> QED
  BY <1>2, <1>3

LEMMA GatedCommits ==
  \A k : k \in gated => k.commit \in OnceGated
  BY DEF OnceGated

-----------------------------------------------------------------------------
(* The job.  A step ends it, or moves it on and leaves its commit alone.   *)

Steps(phase, pc) ==
  /\ job' \in JobType /\ job'.phase = phase /\ job'.pc = pc
  /\ job'.sha = job.sha /\ job'.selected = job.selected

LEMMA JobIsTyped ==
  ASSUME TypeOK
  PROVE  /\ job \in JobType
         /\ job.sha \in Commit \cup {NoCommit}
         /\ demoTag \in Commit \cup {NoCommit}
         /\ job.pc # "idle" => job.sha \in Commit
         /\ Idle \in JobType /\ Idle.pc = "idle" /\ Idle.phase = "gate"
  BY RepositoryAssumption DEF TypeOK, JobType, Pc, Phase, Idle

LEMMA GotoSteps ==
  ASSUME TypeOK, NEW next \in Pc, Goto(next)
  PROVE  Steps(job.phase, next)
<1>1. job \in JobType /\ job' = [job EXCEPT !.pc = next]
  BY JobIsTyped DEF Goto
<1> QED
  BY <1>1 DEF Steps, JobType

LEMMA ProceedSteps ==
  ASSUME TypeOK, NEW holds, NEW next \in Pc, Proceed(holds, next)
  PROVE  job' = Idle \/ (holds /\ Steps(job.phase, next))
  BY GotoSteps DEF Proceed, Leave

\* A job that has ended knows nothing.
LEMMA IdleKnowsNothing ==
  ASSUME job' = Idle
  PROVE  JobKnows'
<1>1. job'.pc = "idle" /\ job'.phase = "gate"
  BY DEF Idle
<1> QED
  BY <1>1 DEF JobKnows, PhaseFits, CommitSeen, AttemptSeen, DraftSeen, Writing

\* While the repository rests, a job on the same candidate sees the same.
LEMMA SameView ==
  ASSUME UNCHANGED <<main, runs, gated>>, job'.sha = job.sha
  PROVE  /\ Latest' = Latest /\ OnceGated' = OnceGated
         /\ job'.selected = job.selected => Selected' = Selected
         /\ job'.selected = job.selected /\ assets' = assets =>
              (DraftComplete <=> DraftComplete')
  BY DEF Latest, OnceGated, Selected, DraftComplete, UploadedAs, Expected

LEMMA PublicationRead ==
  ASSUME IInv, ReadPublication
  PROVE  JobKnows' /\ (job' = Idle \/ Steps(job.phase, "main"))
<1>1. TypeOK /\ JobKnows /\ job \in JobType /\ job.pc = "publication"
  BY JobIsTyped DEF IInv, ReadPublication, At
<1>2. job' = Idle \/ job' = [job EXCEPT !.pc = "main", !.tag = demoTag]
  BY DEF ReadPublication, Leave
<1>3. demoTag \in Commit \cup {NoCommit} /\ "main" \in Pc
  BY <1>1, JobIsTyped DEF Pc
<1>4. job' = Idle \/ Steps(job.phase, "main")
  BY <1>1, <1>2, <1>3 DEF Steps, JobType
<1>5. CASE Steps(job.phase, "main")
  <2>1. UNCHANGED <<main, runs, gated, assets, demoTag, released>>
    BY DEF ReadPublication, ReadOnly, repoVars, releaseVars
  <2>2. /\ job'.phase = job.phase /\ job'.pc = "main"
        /\ job'.sha = job.sha /\ job'.selected = job.selected
    BY <1>5 DEF Steps
  <2>3. PhaseFits' /\ CommitSeen'
    BY <1>1, <2>1, <2>2, SameView
    DEF JobKnows, PhaseFits, CommitSeen, Writing
  <2>4. AttemptSeen'
    BY <1>1, <2>1, <2>2, SameView DEF JobKnows, AttemptSeen, Writing
  <2>5. DraftSeen'
    BY <1>1, <2>1, <2>2, SameView DEF JobKnows, DraftSeen
  <2> QED
    BY <1>5, <2>3, <2>4, <2>5 DEF JobKnows
<1> QED
  BY <1>4, <1>5, IdleKnowsNothing

LEMMA MainRead ==
  ASSUME IInv, ReadMain
  PROVE  JobKnows' /\ (job' = Idle \/ Steps(job.phase, "runs"))
<1>1. TypeOK /\ JobKnows /\ job \in JobType /\ job.pc = "main"
  BY JobIsTyped DEF IInv, ReadMain, At
<1>2. job' = Idle \/ (main = job.sha /\ Steps(job.phase, "runs"))
  BY <1>1, ProceedSteps DEF ReadMain, Pc
<1>3. CASE main = job.sha /\ Steps(job.phase, "runs")
  <2>1. UNCHANGED <<main, runs, gated, assets, demoTag, released>>
    BY DEF ReadMain, ReadOnly, repoVars, releaseVars
  <2>2. /\ job'.phase = job.phase /\ job'.pc = "runs"
        /\ job'.sha = job.sha /\ job'.selected = job.selected
    BY <1>3 DEF Steps
  <2>3. main \in Nat
    BY <1>1, CommitsAreNumbers DEF TypeOK, RepoTypeOK
  <2>4. PhaseFits' /\ CommitSeen'
    BY <1>1, <1>3, <2>1, <2>2, <2>3, SameView
    DEF JobKnows, PhaseFits, CommitSeen, Writing
  <2>5. AttemptSeen'
    BY <1>1, <1>3, <2>1, <2>2, <2>3, SameView
    DEF JobKnows, PhaseFits, AttemptSeen, Writing
  <2>6. DraftSeen'
    BY <1>1, <2>1, <2>2, SameView DEF JobKnows, DraftSeen
  <2> QED
    BY <1>3, <2>4, <2>5, <2>6 DEF JobKnows
<1> QED
  BY <1>2, <1>3, IdleKnowsNothing

LEMMA RunsRead ==
  ASSUME IInv, ReadRuns
  PROVE  JobKnows' /\ (job' = Idle \/ Steps(job.phase, "candidate"))
<1>1. /\ TypeOK /\ RepoTypeOK /\ GateRecorded /\ JobKnows
      /\ job.pc = "runs" /\ job.sha \in Commit
  BY JobIsTyped DEF IInv, TypeOK, ReadRuns, At
<1>2. job' = Idle \/ (/\ WorkflowGaps(job.sha) = {}
                      /\ Steps(job.phase, "candidate"))
  BY <1>1, ProceedSteps DEF ReadRuns, Pc
<1>3. CASE WorkflowGaps(job.sha) = {} /\ Steps(job.phase, "candidate")
  <2>1. UNCHANGED <<main, runs, gated, assets, demoTag, released>>
    BY DEF ReadRuns, ReadOnly, repoVars, releaseVars
  <2>2. /\ job'.phase = job.phase /\ job'.pc = "candidate"
        /\ job'.sha = job.sha /\ job'.selected = job.selected
    BY <1>3 DEF Steps
  <2>3. main >= job.sha
    BY <1>1 DEF JobKnows, CommitSeen
  <2>4. \/ main > job.sha
        \/ [commit |-> job.sha, attempt |-> Latest] \in gated
    BY <1>1, <1>3, <2>3, RunsShowGate DEF Latest
  <2>5. main > job.sha \/ job.sha \in OnceGated
    BY <2>4, GatedCommits
  <2>6. Latest \in Nat
    BY <1>1, CommitsAreNumbers, RepositoryAssumption DEF RepoTypeOK, Latest
  <2>7. job.phase \in {"recheck", "final"} =>
          job.selected \in Nat /\ Latest >= job.selected
    BY <1>1, CommitsAreNumbers DEF JobKnows, AttemptSeen
  <2>8. PhaseFits' /\ CommitSeen'
    BY <1>1, <2>1, <2>2, <2>5, SameView
    DEF JobKnows, PhaseFits, CommitSeen, Writing
  <2>9. job.phase = "recheck" =>
          \/ main > job.sha
          \/ \E k \in gated : /\ k.commit = job.sha
                              /\ job.selected <= k.attempt
                              /\ k.attempt <= Latest
    BY <2>4, <2>6, <2>7
  <2>10. AttemptSeen'
    BY <1>1, <2>1, <2>2, <2>9, SameView
    DEF JobKnows, PhaseFits, AttemptSeen, Writing
  <2>11. DraftSeen'
    BY <1>1, <2>1, <2>2, SameView DEF JobKnows, DraftSeen
  <2> QED
    BY <1>3, <2>8, <2>10, <2>11 DEF JobKnows
<1> QED
  BY <1>2, <1>3, IdleKnowsNothing

\* Where a job goes once the artifact has been looked up.
LEMMA CandidateLookedUp ==
  ASSUME IInv, ReadCandidate
  PROVE  /\ job.pc = "candidate" /\ job.sha \in Commit /\ job' \in JobType
         /\ Latest \in Attempt
         /\ \/ job' = Idle
            \/ job.phase = "gate" /\ Steps("select", "publication")
            \/ /\ job.phase = "select"
               /\ job'.phase = "select" /\ job'.pc = "download"
               /\ job'.sha = job.sha /\ job'.selected = Latest
            \/ /\ job.phase = "recheck" /\ job.selected = Latest
               /\ Steps("recheck", "existing")
            \/ /\ job.phase = "final" /\ job.selected = Latest
               /\ Steps("final", "publish")
<1>1. /\ TypeOK /\ RepoTypeOK /\ job.pc = "candidate" /\ job.sha \in Commit
      /\ job \in JobType /\ Idle \in JobType
  BY JobIsTyped DEF IInv, TypeOK, ReadCandidate, At
<1>2. Latest \in Attempt /\ Attempt \subseteq 0 .. MaxAttempt
  BY <1>1, RepositoryAssumption DEF RepoTypeOK, Latest, Attempt
<1>3. \/ job' = Idle
      \/ /\ job.phase = "gate"
         /\ job' = [job EXCEPT !.phase = "select", !.pc = "publication"]
      \/ /\ job.phase = "select"
         /\ job' = [job EXCEPT !.selected = Latest, !.pc = "download"]
      \/ /\ job.phase = "recheck"
         /\ Proceed(job.selected = Latest, "existing")
      \/ /\ job.phase = "final"
         /\ Proceed(job.selected = Latest, "publish")
  <2>1. job.phase \in Phase
    BY <1>1 DEF JobType
  <2> QED
    BY <2>1 DEF ReadCandidate, Leave, Phase, Latest
<1>4. job' = [job EXCEPT !.phase = "select", !.pc = "publication"] =>
        job' \in JobType /\ Steps("select", "publication")
  BY <1>1 DEF Steps, JobType, Pc, Phase
<1>5. job.phase = "select" /\ job' = [job EXCEPT !.selected = Latest,
                                                 !.pc = "download"] =>
        /\ job' \in JobType /\ job'.phase = "select" /\ job'.pc = "download"
        /\ job'.sha = job.sha /\ job'.selected = Latest
  BY <1>1, <1>2 DEF JobType, Pc
<1>6. job.phase = "recheck" /\ Proceed(job.selected = Latest, "existing") =>
        \/ job' = Idle
        \/ job.selected = Latest /\ Steps("recheck", "existing")
  BY <1>1, ProceedSteps DEF Pc
<1>7. job.phase = "final" /\ Proceed(job.selected = Latest, "publish") =>
        \/ job' = Idle
        \/ job.selected = Latest /\ Steps("final", "publish")
  BY <1>1, ProceedSteps DEF Pc
<1>8. \A phase, pc : Steps(phase, pc) => job' \in JobType
  BY DEF Steps
<1> QED
  BY <1>1, <1>2, <1>3, <1>4, <1>5, <1>6, <1>7, <1>8

LEMMA CandidateRead ==
  ASSUME IInv, ReadCandidate
  PROVE  JobKnows' /\ job' \in JobType /\ (job' = Idle \/ job'.sha = job.sha)
<1>1. /\ JobKnows /\ GateRecorded /\ job.pc = "candidate"
      /\ job.sha \in Commit /\ job.sha \in Nat /\ job' \in JobType
      /\ Latest \in Attempt /\ Latest \in Nat /\ gated \subseteq Candidate
  BY CandidateLookedUp, CommitsAreNumbers DEF IInv, TypeOK, RepoTypeOK
<1>2. UNCHANGED <<main, runs, gated, assets, demoTag, released>>
  BY DEF ReadCandidate, ReadOnly, repoVars, releaseVars
<1>3. CASE job.phase = "gate" /\ Steps("select", "publication")
  <2>1. /\ job'.phase = "select" /\ job'.pc = "publication"
        /\ job'.sha = job.sha /\ job'.selected = job.selected
    BY <1>3 DEF Steps
  <2>2. main > job.sha \/ job.sha \in OnceGated
    BY <1>1, <1>3 DEF JobKnows, CommitSeen
  <2>3. PhaseFits' /\ CommitSeen'
    BY <1>2, <2>1, <2>2, SameView DEF PhaseFits, CommitSeen, Writing
  <2>4. AttemptSeen' /\ DraftSeen'
    BY <2>1 DEF AttemptSeen, DraftSeen, Writing
  <2> QED
    BY <1>1, <2>1, <2>3, <2>4 DEF JobKnows
<1>4. CASE /\ job.phase = "select"
           /\ job'.phase = "select" /\ job'.pc = "download"
           /\ job'.sha = job.sha /\ job'.selected = Latest
  <2>1. job.sha \in OnceGated
    BY <1>1, <1>4 DEF JobKnows, CommitSeen
  <2>2. PhaseFits' /\ CommitSeen'
    BY <1>2, <1>4, <2>1, SameView DEF PhaseFits, CommitSeen, Writing
  <2>3. AttemptSeen'
    BY <1>1, <1>2, <1>4, SameView DEF AttemptSeen, Writing
  <2>4. DraftSeen'
    BY <1>4 DEF DraftSeen
  <2> QED
    BY <1>1, <1>4, <2>2, <2>3, <2>4 DEF JobKnows
<1>5. CASE /\ job.phase = "recheck" /\ job.selected = Latest
           /\ Steps("recheck", "existing")
  <2>1. /\ job'.phase = "recheck" /\ job'.pc = "existing"
        /\ job'.sha = job.sha /\ job'.selected = job.selected
    BY <1>5 DEF Steps
  <2>2. \/ main > job.sha
        \/ \E k \in gated : /\ k.commit = job.sha
                            /\ job.selected <= k.attempt
                            /\ k.attempt <= Latest
    BY <1>1, <1>5 DEF JobKnows, AttemptSeen
  <2>3. \A k \in gated : /\ k = [commit |-> k.commit, attempt |-> k.attempt]
                         /\ k.attempt \in Nat
    <3> SUFFICES ASSUME NEW k \in Candidate
                 PROVE  /\ k = [commit |-> k.commit, attempt |-> k.attempt]
                        /\ k.attempt \in Nat
      BY <1>1
    <3> QED
      BY CommitsAreNumbers DEF Candidate
  <2>4. \A k \in gated : k.commit = job.sha /\ job.selected <= k.attempt
                         /\ k.attempt <= Latest => k = Selected
    <3> SUFFICES ASSUME NEW k \in gated, k.commit = job.sha,
                        job.selected <= k.attempt, k.attempt <= Latest
                 PROVE  k = Selected
      OBVIOUS
    <3>1. k.attempt = job.selected
      BY <1>1, <1>5, <2>3
    <3> QED
      BY <2>3, <3>1 DEF Selected
  <2>5. main > job.sha \/ Selected \in gated
    BY <2>2, <2>4
  <2>6. PhaseFits' /\ CommitSeen'
    BY <1>1, <1>2, <1>5, <2>1, SameView
    DEF JobKnows, PhaseFits, CommitSeen, Writing
  <2>7. AttemptSeen'
    BY <1>1, <1>2, <1>5, <2>1, <2>5, SameView
    DEF JobKnows, AttemptSeen, Writing
  <2>8. DraftSeen'
    BY <2>1 DEF DraftSeen
  <2> QED
    BY <1>1, <2>1, <2>6, <2>7, <2>8 DEF JobKnows
<1>6. CASE /\ job.phase = "final" /\ job.selected = Latest
           /\ Steps("final", "publish")
  <2>1. /\ job'.phase = "final" /\ job'.pc = "publish"
        /\ job'.sha = job.sha /\ job'.selected = job.selected
    BY <1>6 DEF Steps
  <2>2. PhaseFits' /\ CommitSeen'
    BY <1>1, <1>2, <1>6, <2>1, SameView
    DEF JobKnows, PhaseFits, CommitSeen, Writing
  <2>3. AttemptSeen'
    BY <1>1, <1>2, <1>6, <2>1, SameView
    DEF JobKnows, AttemptSeen, Writing
  <2>4. DraftSeen'
    BY <1>1, <1>2, <1>6, <2>1, SameView DEF JobKnows, DraftSeen
  <2> QED
    BY <1>1, <2>1, <2>2, <2>3, <2>4 DEF JobKnows
<1>7. \A phase, pc : Steps(phase, pc) => job'.sha = job.sha
  BY DEF Steps
<1> QED
  BY <1>1, <1>3, <1>4, <1>5, <1>6, <1>7, CandidateLookedUp, IdleKnowsNothing

LEMMA Downloaded ==
  ASSUME IInv, Download
  PROVE  JobKnows' /\ (job' = Idle \/ Steps("recheck", "publication"))
<1>1. TypeOK /\ JobKnows /\ job \in JobType /\ job.pc = "download"
  BY JobIsTyped DEF IInv, Download, At
<1>2. \/ job' = Idle
      \/ job' = [job EXCEPT !.phase = "recheck", !.pc = "publication"]
  BY DEF Download, Leave
<1>3. job' = Idle \/ Steps("recheck", "publication")
  BY <1>1, <1>2 DEF Steps, JobType, Pc, Phase
<1>4. CASE Steps("recheck", "publication")
  <2>1. UNCHANGED <<main, runs, gated, assets, demoTag, released>>
    BY DEF Download, ReadOnly, repoVars, releaseVars
  <2>2. /\ job'.phase = "recheck" /\ job'.pc = "publication"
        /\ job'.sha = job.sha /\ job'.selected = job.selected
    BY <1>4 DEF Steps
  <2>3. PhaseFits' /\ CommitSeen'
    BY <1>1, <2>1, <2>2, SameView
    DEF JobKnows, PhaseFits, CommitSeen, Writing
  <2>4. AttemptSeen' /\ DraftSeen'
    BY <1>1, <2>1, <2>2, SameView
    DEF JobKnows, AttemptSeen, DraftSeen, Writing
  <2> QED
    BY <1>4, <2>3, <2>4 DEF JobKnows
<1> QED
  BY <1>3, <1>4, IdleKnowsNothing

\* While it writes, a job moves on in its third round and keeps what it has
\* seen of the repository.
LEMMA WritingGoesOn ==
  ASSUME PhaseFits, CommitSeen, AttemptSeen, job.pc \in Writing,
         NEW pc \in Writing, Steps("recheck", pc),
         UNCHANGED <<main, runs, gated>>
  PROVE  PhaseFits' /\ CommitSeen' /\ AttemptSeen'
<1>1. /\ job'.phase = "recheck" /\ job'.pc = pc /\ job.phase = "recheck"
      /\ job'.sha = job.sha /\ job'.selected = job.selected
  BY DEF Steps, PhaseFits
<1>2. PhaseFits' /\ CommitSeen'
  BY <1>1, SameView DEF PhaseFits, CommitSeen, Writing
<1>3. AttemptSeen'
  BY <1>1, SameView DEF AttemptSeen, Writing
<1> QED
  BY <1>2, <1>3

LEMMA ExistingRead ==
  ASSUME IInv, ReadExisting
  PROVE  JobKnows' /\ (job' = Idle \/ Steps("recheck", "tag"))
<1>1. /\ TypeOK /\ JobKnows /\ job \in JobType /\ job.pc = "existing"
      /\ job.phase = "recheck" /\ demoTag \in Commit \cup {NoCommit}
  BY JobIsTyped DEF IInv, JobKnows, PhaseFits, Writing, ReadExisting, At
<1>2. \/ job' = Idle
      \/ job' = [job EXCEPT !.pc = "tag", !.tag = demoTag,
                            !.hasRelease = (released # "absent")]
  BY DEF ReadExisting, Leave
<1>3. "tag" \in Pc /\ (released # "absent") \in BOOLEAN
  BY DEF Pc
<1>4. job' = Idle \/ Steps("recheck", "tag")
  BY <1>1, <1>2, <1>3 DEF Steps, JobType
<1>5. CASE Steps("recheck", "tag")
  <2>1. UNCHANGED <<main, runs, gated>>
    BY DEF ReadExisting, ReadOnly, repoVars
  <2>2. DraftSeen'
    BY <1>5 DEF Steps, DraftSeen
  <2> QED
    BY <1>1, <1>5, <2>1, <2>2, WritingGoesOn DEF JobKnows, Writing
<1> QED
  BY <1>4, <1>5, IdleKnowsNothing

LEMMA TagReread ==
  ASSUME IInv, RereadTag
  PROVE  JobKnows' /\ (job' = Idle \/ Steps("recheck", "create"))
<1>1. /\ TypeOK /\ JobKnows /\ job.pc = "reread" /\ job.phase = "recheck"
  BY DEF IInv, JobKnows, PhaseFits, Writing, RereadTag, At
<1>2. job' = Idle \/ (demoTag = job.sha /\ Steps("recheck", "create"))
  BY <1>1, ProceedSteps DEF RereadTag, Pc
<1>3. CASE demoTag = job.sha /\ Steps("recheck", "create")
  <2>1. UNCHANGED <<main, runs, gated, demoTag, released>>
    BY DEF RereadTag, ReadOnly, repoVars, releaseVars
  <2>2. DraftSeen'
    BY <1>3, <2>1 DEF Steps, DraftSeen
  <2> QED
    BY <1>1, <1>3, <2>1, <2>2, WritingGoesOn DEF JobKnows, Writing
<1> QED
  BY <1>2, <1>3, IdleKnowsNothing

LEMMA DraftInspected ==
  ASSUME IInv, InspectDraft
  PROVE  JobKnows' /\ (job' = Idle \/ Steps("recheck", "upload"))
<1>1. /\ TypeOK /\ JobKnows /\ job.pc = "inspect" /\ job.phase = "recheck"
  BY DEF IInv, JobKnows, PhaseFits, Writing, InspectDraft, At
<1>2. job' = Idle \/ (released = "draft" /\ Steps("recheck", "upload"))
  BY <1>1, ProceedSteps DEF InspectDraft, Pc
<1>3. CASE released = "draft" /\ Steps("recheck", "upload")
  <2>1. UNCHANGED <<main, runs, gated, demoTag, released>>
    BY DEF InspectDraft, ReadOnly, repoVars, releaseVars
  <2>2. demoTag = job.sha
    BY <1>1 DEF JobKnows, DraftSeen
  <2>3. DraftSeen'
    BY <1>3, <2>1, <2>2 DEF Steps, DraftSeen
  <2> QED
    BY <1>1, <1>3, <2>1, <2>3, WritingGoesOn DEF JobKnows, Writing
<1> QED
  BY <1>2, <1>3, IdleKnowsNothing

LEMMA UploadsAreDone ==
  ASSUME IInv, UploadsDone
  PROVE  JobKnows' /\ Steps("recheck", "verify")
<1>1. /\ TypeOK /\ JobKnows /\ job.pc = "upload" /\ job.phase = "recheck"
  BY DEF IInv, JobKnows, PhaseFits, Writing, UploadsDone, At
<1>2. Steps("recheck", "verify")
  BY <1>1, GotoSteps DEF UploadsDone, Pc
<1>3. UNCHANGED <<main, runs, gated, demoTag, released>>
  BY DEF UploadsDone, ReadOnly, repoVars, releaseVars
<1>4. demoTag = job.sha /\ released = "draft"
  BY <1>1 DEF JobKnows, DraftSeen
<1>5. DraftSeen'
  BY <1>2, <1>3, <1>4 DEF Steps, DraftSeen
<1> QED
  BY <1>1, <1>2, <1>3, <1>5, WritingGoesOn DEF JobKnows, Writing

LEMMA UploadsVerified ==
  ASSUME IInv, VerifyUploads
  PROVE  JobKnows' /\ (job' = Idle \/ Steps("final", "publication"))
<1>1. /\ TypeOK /\ JobKnows /\ job \in JobType /\ job.pc = "verify"
      /\ job.phase = "recheck"
  BY JobIsTyped DEF IInv, JobKnows, PhaseFits, Writing, VerifyUploads, At
<1>2. \/ job' = Idle
      \/ /\ DraftComplete
         /\ job' = [job EXCEPT !.phase = "final", !.pc = "publication"]
  BY DEF VerifyUploads, Leave, DraftComplete
<1>3. job' = Idle \/ (DraftComplete /\ Steps("final", "publication"))
  BY <1>1, <1>2 DEF Steps, JobType, Pc, Phase
<1>4. CASE DraftComplete /\ Steps("final", "publication")
  <2>1. UNCHANGED <<main, runs, gated, assets, demoTag, released>>
    BY DEF VerifyUploads, ReadOnly, repoVars, releaseVars
  <2>2. /\ job'.phase = "final" /\ job'.pc = "publication"
        /\ job'.sha = job.sha /\ job'.selected = job.selected
    BY <1>4 DEF Steps
  <2>3. PhaseFits' /\ CommitSeen'
    BY <1>1, <2>1, <2>2, SameView
    DEF JobKnows, PhaseFits, CommitSeen, Writing
  <2>4. AttemptSeen'
    BY <1>1, <2>1, <2>2, SameView DEF JobKnows, AttemptSeen, Writing
  <2>5. DraftSeen'
    BY <1>1, <1>4, <2>1, <2>2, SameView DEF JobKnows, DraftSeen
  <2> QED
    BY <1>4, <2>3, <2>4, <2>5 DEF JobKnows
<1> QED
  BY <1>3, <1>4, IdleKnowsNothing

-----------------------------------------------------------------------------
(* What the job writes.                                                    *)

LEMMA DigestsAreTyped ==
  ASSUME TypeOK, NEW a \in Assets
  PROVE  Garbled \in Digest /\ (job.pc # "idle" => Expected(a) \in Digest)
<1>1. Garbled \in Digest
  BY RepositoryAssumption DEF Garbled, Digest
<1>2. ASSUME job.pc # "idle" PROVE Expected(a) \in Digest
  <2>1. job.sha \in 0 .. MaxCommit /\ job.selected \in 0 .. MaxAttempt
        /\ 0 \in 0 .. MaxAttempt
    BY <1>2, RepositoryAssumption DEF TypeOK, Commit
  <2> QED
    BY <2>1 DEF Expected, AssetDigest, Digest
<1> QED
  BY <1>1, <1>2

LEMMA TagCreated ==
  ASSUME IInv, CreateTag
  PROVE  /\ JobKnows' /\ PublicationSound' /\ Steps("recheck", "reread")
         /\ demoTag' \in Commit \cup {NoCommit}
<1>1. /\ TypeOK /\ JobKnows /\ PublicationSound
      /\ job.pc = "tag" /\ job.phase = "recheck"
  BY DEF IInv, JobKnows, PhaseFits, Writing, CreateTag, At
<1>2. Steps("recheck", "reread")
  BY <1>1, GotoSteps DEF CreateTag, Pc
<1>3. UNCHANGED <<main, runs, gated, released, assets>>
  BY DEF CreateTag, repoVars
<1>4. /\ demoTag' = demoTag \/ (demoTag = NoCommit /\ demoTag' = job.sha)
      /\ job.sha \in Commit /\ demoTag \in Commit \cup {NoCommit}
  BY <1>1, JobIsTyped DEF CreateTag
<1>5. DraftSeen'
  BY <1>2 DEF Steps, DraftSeen
<1>6. PublicationSound'
  BY <1>1, <1>3, <1>4, CommitsAreNumbers
  DEF PublicationSound, PublishedIsGated, UploadedAs
<1> QED
  BY <1>1, <1>2, <1>3, <1>4, <1>5, <1>6, WritingGoesOn DEF JobKnows, Writing

LEMMA DraftCreated ==
  ASSUME IInv, CreateDraft
  PROVE  /\ JobKnows' /\ PublicationSound' /\ Steps("recheck", "inspect")
         /\ released' \in {"absent", "draft", "published"}
<1>1. /\ TypeOK /\ JobKnows /\ PublicationSound
      /\ job.pc = "create" /\ job.phase = "recheck"
  BY DEF IInv, JobKnows, PhaseFits, Writing, CreateDraft, At
<1>2. Steps("recheck", "inspect")
  BY <1>1, GotoSteps DEF CreateDraft, Pc
<1>3. UNCHANGED <<main, runs, gated, demoTag, assets>>
  BY DEF CreateDraft, repoVars
<1>4. /\ released' = released \/ released' = "draft"
      /\ released \in {"absent", "draft", "published"}
  BY <1>1 DEF CreateDraft, TypeOK
<1>5. demoTag = job.sha /\ job.sha \in Commit
  BY <1>1, JobIsTyped DEF JobKnows, DraftSeen
<1>6. DraftSeen'
  BY <1>2, <1>3, <1>5 DEF Steps, DraftSeen
<1>7. PublicationSound'
  BY <1>1, <1>3, <1>4, <1>5, CommitsAreNumbers
  DEF PublicationSound, PublishedIsGated, UploadedAs
<1> QED
  BY <1>1, <1>2, <1>3, <1>4, <1>6, <1>7, WritingGoesOn DEF JobKnows, Writing

LEMMA AssetWritten ==
  ASSUME IInv, At("upload"), NEW a \in Missing, NEW uploaded \in BOOLEAN,
         NEW digest \in Digest,
         assets' = [assets EXCEPT ![a] = [present |-> TRUE,
                                          uploaded |-> uploaded,
                                          digest |-> digest]],
         UNCHANGED <<main, runs, gated, demoTag, released>>
  PROVE  /\ assets' \in [Assets -> AssetState] /\ PublicationSound'
         /\ job' = job => JobKnows'
<1>1. /\ TypeOK /\ JobKnows /\ PublicationSound
      /\ job.pc = "upload" /\ job.phase = "recheck"
  BY DEF IInv, JobKnows, PhaseFits, Writing, At
<1>2. released = "draft"
  BY <1>1 DEF JobKnows, DraftSeen
<1>3. assets' \in [Assets -> AssetState]
  BY <1>1 DEF TypeOK, AssetState
<1>4. PublicationSound'
  BY <1>1, <1>2 DEF PublicationSound, PublishedIsGated
<1>5. ASSUME job' = job PROVE JobKnows'
  <2>1. PhaseFits' /\ CommitSeen'
    BY <1>1, <1>5, SameView DEF JobKnows, PhaseFits, CommitSeen
  <2>2. AttemptSeen'
    BY <1>1, <1>5, SameView DEF JobKnows, AttemptSeen
  <2>3. DraftSeen'
    BY <1>1, <1>5 DEF JobKnows, DraftSeen
  <2> QED
    BY <2>1, <2>2, <2>3 DEF JobKnows
<1> QED
  BY <1>3, <1>4, <1>5

\* The draft that becomes public is complete, its tag is the job's commit and
\* the gate has held for the candidate it was filled from.
LEMMA DraftPublished ==
  ASSUME IInv, PublishDraft
  PROVE  /\ JobKnows' /\ PublicationSound' /\ Steps("final", "confirm")
         /\ released = "draft" /\ demoTag = job.sha
         /\ Selected \in gated /\ DraftComplete
<1>1. /\ TypeOK /\ JobKnows /\ PublicationSound
      /\ job.pc = "publish" /\ job.phase = "final"
  BY DEF IInv, JobKnows, PhaseFits, PublishDraft, At
<1>2. Steps("final", "confirm")
  BY <1>1, GotoSteps DEF PublishDraft, Pc
<1>3. /\ UNCHANGED <<main, runs, gated, demoTag, assets>>
      /\ released' = "published"
  BY DEF PublishDraft, repoVars
<1>4. /\ released = "draft" /\ demoTag = job.sha /\ Selected \in gated
      /\ DraftComplete
  BY <1>1 DEF JobKnows, DraftSeen, AttemptSeen
<1>5. /\ job'.phase = "final" /\ job'.pc = "confirm"
      /\ job'.sha = job.sha /\ job'.selected = job.selected
  BY <1>2 DEF Steps
<1>6. PhaseFits' /\ CommitSeen'
  BY <1>1, <1>3, <1>5, SameView DEF JobKnows, PhaseFits, CommitSeen, Writing
<1>7. AttemptSeen' /\ DraftSeen'
  BY <1>1, <1>3, <1>4, <1>5, SameView
  DEF JobKnows, AttemptSeen, DraftSeen, Writing
<1>8. PublishedIsGated'
  <2>1. Selected.commit = demoTag
    BY <1>4 DEF Selected
  <2>2. \A a \in Assets : UploadedAs(a, AssetDigest(Selected, a))
    BY <1>4 DEF DraftComplete, Expected, Selected
  <2>3. \E k \in gated : /\ k.commit = demoTag
                         /\ \A a \in Assets : UploadedAs(a, AssetDigest(k, a))
    BY <1>4, <2>1, <2>2
  <2> QED
    BY <1>3, <2>3 DEF PublishedIsGated, UploadedAs
<1>9. PublicationSound'
  BY <1>1, <1>3, <1>4, <1>8 DEF PublicationSound
<1> QED
  BY <1>2, <1>4, <1>6, <1>7, <1>9 DEF JobKnows

-----------------------------------------------------------------------------
(* The invariant is kept.                                                  *)

LEMMA Starts == Init => IInv
<1> SUFFICES ASSUME Init PROVE IInv
  OBVIOUS
<1>1. RepoTypeOK /\ GateRecorded /\ NotYetRun
  BY RepositoryStarts DEF Init
<1>2. Idle \in JobType /\ Idle.pc = "idle" /\ Idle.phase = "gate"
  BY RepositoryAssumption DEF JobType, Idle, Pc, Phase
<1>3. NoAsset \in AssetState /\ NoAsset.present = FALSE
  BY RepositoryAssumption DEF NoAsset, AssetState, Garbled, Digest
<1>4. NoTrigger \in Trigger
  BY DEF NoTrigger, Trigger
<1>5. TypeOK
  BY <1>1, <1>2, <1>3, <1>4, AssetAssumption DEF Init, TypeOK, JobType
<1>6. JobKnows
  BY <1>2 DEF Init, JobKnows, PhaseFits, CommitSeen, AttemptSeen, DraftSeen,
     Writing
<1>7. PublicationSound
  BY <1>3 DEF Init, PublicationSound, PublishedIsGated
<1>8. WaitingNamesCommit
  BY DEF Init, WaitingNamesCommit, NoTrigger
<1> QED
  BY <1>1, <1>5, <1>6, <1>7, <1>8 DEF IInv

LEMMA RepoKeeps ==
  ASSUME IInv, RepoStep
  PROVE  IInv'
<1>1. /\ TypeOK /\ RepoTypeOK /\ GateRecorded /\ NotYetRun /\ JobKnows
      /\ PublicationSound
  BY DEF IInv, TypeOK
<1>2. /\ RepoTypeOK' /\ GateRecorded' /\ NotYetRun'
      /\ main' >= main /\ gated \subseteq gated'
      /\ \A c \in Commit : runs'[c][CI].attempt >= runs[c][CI].attempt
  BY <1>1, RepositoryMoves
<1>3. UNCHANGED <<protectedIntact, demoTag, released, assets, job, faults>>
  BY DEF RepoStep, releaseVars
<1>4. pending' \in Trigger /\ WaitingNamesCommit'
  <2>1. \A c \in Commit, s \in {"success", "failure"} :
          [sha |-> c, success |-> s = "success"] \in Trigger
    BY DEF Trigger
  <2>2. \/ pending' = pending
        \/ \E c \in Commit, s \in {"success", "failure"} :
             pending' = [sha |-> c, success |-> s = "success"]
    BY DEF RepoStep
  <2> QED
    <3>1. pending \in Trigger /\ WaitingNamesCommit
      BY DEF IInv, TypeOK
    <3>2. CASE pending' = pending
      BY <3>1, <3>2 DEF WaitingNamesCommit
    <3>3. ASSUME NEW c \in Commit, NEW s \in {"success", "failure"},
                 pending' = [sha |-> c, success |-> s = "success"]
          PROVE  pending' \in Trigger /\ WaitingNamesCommit'
      <4>1. pending'.sha = c
        BY <3>3
      <4> QED
        BY <2>1, <3>3, <4>1 DEF WaitingNamesCommit
    <3> QED
      BY <2>2, <3>2, <3>3
<1>5. TypeOK'
  BY <1>1, <1>2, <1>3, <1>4 DEF TypeOK
<1>6. PublicationSound'
  BY <1>1, <1>2, <1>3 DEF PublicationSound, PublishedIsGated, UploadedAs
<1>7. JobKnows'
  <2>1. /\ OnceGated \subseteq OnceGated' /\ Selected' = Selected
        /\ main \in Nat /\ main' \in Nat
    BY <1>1, <1>2, <1>3, CommitsAreNumbers
    DEF OnceGated, Selected, RepoTypeOK
  <2>2. job.pc # "idle" =>
          /\ job.sha \in Nat
          /\ Latest \in Nat /\ Latest' \in Nat /\ Latest' >= Latest
    <3>1. \A c \in Commit : /\ runs[c][CI].attempt \in Nat
                            /\ runs'[c][CI].attempt \in Nat
      BY <1>1, <1>2, CommitsAreNumbers, RepositoryAssumption DEF RepoTypeOK
    <3>2. job.pc # "idle" => job.sha \in Commit
      BY <1>1, JobIsTyped
    <3> QED
      BY <1>2, <1>3, <3>1, <3>2, CommitsAreNumbers DEF Latest
  <2>3. PhaseFits'
    BY <1>1, <1>3 DEF JobKnows, PhaseFits
  <2>4. job.pc = "idle" => job.phase = "gate"
    BY <1>1 DEF JobKnows, PhaseFits
  <2>5. CommitSeen'
    BY <1>1, <1>2, <1>3, <2>1, <2>2, <2>4 DEF JobKnows, CommitSeen
  <2>6. AttemptSeen'
    <3>1. job.selected \in Attempt => job.selected \in Nat
      BY CommitsAreNumbers
    <3>2. \A k \in gated : k.attempt \in Nat
      BY <1>1, CommitsAreNumbers DEF RepoTypeOK, Candidate
    <3>3. AttemptSeen
      BY <1>1 DEF JobKnows
    <3>4. (job.pc = "download" \/ job.phase \in {"recheck", "final"}) =>
            job.selected \in Attempt /\ Latest' >= job.selected
      BY <2>2, <2>4, <3>1, <3>3 DEF AttemptSeen
    <3>5. job.phase = "recheck" /\ job.pc = "candidate" =>
            \/ main' > job.sha
            \/ \E k \in gated' : /\ k.commit = job.sha
                                 /\ job.selected <= k.attempt
                                 /\ k.attempt <= Latest'
      BY <1>2, <2>1, <2>2, <3>2, <3>3 DEF AttemptSeen
    <3>6. main > job.sha \/ Selected \in gated =>
            job.pc = "idle" \/ main' > job.sha \/ Selected' \in gated'
      BY <1>2, <2>1, <2>2
    <3> QED
      BY <1>2, <1>3, <2>1, <2>4, <3>3, <3>4, <3>5, <3>6
      DEF AttemptSeen, Writing
  <2>7. DraftSeen'
    BY <1>1, <1>3 DEF JobKnows, DraftSeen, DraftComplete, UploadedAs, Expected
  <2> QED
    BY <2>3, <2>5, <2>6, <2>7 DEF JobKnows
<1> QED
  BY <1>2, <1>4, <1>5, <1>6, <1>7 DEF IInv

\* What is left to show of a step that leaves main and the runs alone.
LEMMA RestKeeps ==
  ASSUME IInv, UNCHANGED <<main, runs, gated>>, artifacts' \subseteq artifacts,
         protectedIntact' \in BOOLEAN, demoTag' \in Commit \cup {NoCommit},
         released' \in {"absent", "draft", "published"},
         assets' \in [Assets -> AssetState],
         pending' \in {pending, NoTrigger},
         job' \in JobType, job'.pc # "idle" => job'.sha \in Commit,
         faults' = faults \/ Faulty,
         JobKnows', PublicationSound'
  PROVE  IInv'
<1>1. GateRecorded' /\ NotYetRun'
  BY RepositoryRests DEF IInv
<1>2. RepoTypeOK'
  BY DEF IInv, TypeOK, RepoTypeOK
<1>3. faults' \in 0 .. MaxFaults
  BY AssetAssumption DEF IInv, TypeOK, Faulty
<1>4. pending' \in Trigger /\ WaitingNamesCommit'
  <2>1. pending \in Trigger /\ WaitingNamesCommit
    BY DEF IInv, TypeOK
  <2>2. NoTrigger \in Trigger /\ NoTrigger.success = FALSE
    BY DEF NoTrigger, Trigger
  <2> QED
    BY <2>1, <2>2 DEF WaitingNamesCommit
<1>5. TypeOK'
  BY <1>2, <1>3, <1>4 DEF TypeOK, JobType
<1> QED
  BY <1>1, <1>4, <1>5 DEF IInv

\* A step that only reads, ends the job or moves it on.
LEMMA ReadsKeep ==
  ASSUME IInv, ReadOnly, job.pc # "idle", JobKnows',
         job' = Idle \/ (job' \in JobType /\ job'.sha = job.sha)
  PROVE  IInv'
<1>1. /\ TypeOK /\ PublicationSound /\ job.sha \in Commit
      /\ job' \in JobType /\ (job'.pc # "idle" => job'.sha \in Commit)
  BY JobIsTyped DEF IInv
<1>2. /\ UNCHANGED <<main, runs, gated, artifacts, protectedIntact, demoTag,
                     released, assets, pending, faults>>
  BY DEF ReadOnly, repoVars, releaseVars
<1>3. PublicationSound'
  BY <1>1, <1>2 DEF PublicationSound, PublishedIsGated, UploadedAs
<1>4. /\ protectedIntact \in BOOLEAN /\ demoTag \in Commit \cup {NoCommit}
      /\ released \in {"absent", "draft", "published"}
      /\ assets \in [Assets -> AssetState] /\ pending \in Trigger
  BY <1>1 DEF TypeOK
<1> QED
  BY <1>1, <1>2, <1>3, <1>4, RestKeeps

LEMMA JobKeeps ==
  ASSUME IInv, JobStep
  PROVE  IInv'
<1>1. /\ TypeOK /\ PublicationSound
      /\ \A phase, pc : Steps(phase, pc) => /\ job' \in JobType
                                            /\ job'.sha = job.sha
  BY DEF IInv, Steps
<1>2. /\ protectedIntact \in BOOLEAN /\ demoTag \in Commit \cup {NoCommit}
      /\ released \in {"absent", "draft", "published"}
      /\ assets \in [Assets -> AssetState] /\ pending \in Trigger
  BY <1>1 DEF TypeOK
<1>3. CASE ReadPublication
  BY <1>1, <1>3, PublicationRead, ReadsKeep DEF ReadPublication, At
<1>4. CASE ReadMain
  BY <1>1, <1>4, MainRead, ReadsKeep DEF ReadMain, At
<1>5. CASE ReadRuns
  BY <1>1, <1>5, RunsRead, ReadsKeep DEF ReadRuns, At
<1>6. CASE ReadCandidate
  BY <1>1, <1>6, CandidateRead, ReadsKeep DEF ReadCandidate, At
<1>7. CASE Download
  BY <1>1, <1>7, Downloaded, ReadsKeep DEF Download, At
<1>8. CASE ReadExisting
  BY <1>1, <1>8, ExistingRead, ReadsKeep DEF ReadExisting, At
<1>9. CASE CreateTag
  <2>1. /\ UNCHANGED <<repoVars, protectedIntact, released, assets, pending,
                       faults>>
        /\ job.pc # "idle"
    BY <1>9 DEF CreateTag, At
  <2> QED
    BY <1>1, <1>2, <1>9, <2>1, TagCreated, JobIsTyped, RestKeeps DEF repoVars
<1>10. CASE RereadTag
  BY <1>1, <1>10, TagReread, ReadsKeep DEF RereadTag, At
<1>11. CASE CreateDraft
  <2>1. /\ UNCHANGED <<repoVars, protectedIntact, demoTag, assets, pending,
                       faults>>
        /\ job.pc # "idle"
    BY <1>11 DEF CreateDraft, At
  <2> QED
    BY <1>1, <1>2, <1>11, <2>1, DraftCreated, JobIsTyped, RestKeeps
    DEF repoVars
<1>12. CASE InspectDraft
  BY <1>1, <1>12, DraftInspected, ReadsKeep DEF InspectDraft, At
<1>13. ASSUME NEW a \in Assets, UploadAsset(a, Expected(a)) PROVE IInv'
  <2>1. /\ UNCHANGED <<repoVars, protectedIntact, demoTag, released, pending,
                       job>>
        /\ job.pc = "upload" /\ At("upload") /\ a \in Missing
        /\ assets' = [assets EXCEPT ![a] = [present |-> TRUE,
                                            uploaded |-> TRUE,
                                            digest |-> Expected(a)]]
        /\ faults' = faults \/ Faulty
    BY <1>13 DEF UploadAsset, At
  <2>2. Expected(a) \in Digest
    BY <1>1, <2>1, DigestsAreTyped
  <2>3. assets' \in [Assets -> AssetState] /\ PublicationSound' /\ JobKnows'
    BY <2>1, <2>2, AssetWritten DEF repoVars
  <2> QED
    BY <1>1, <1>2, <2>1, <2>3, JobIsTyped, RestKeeps DEF repoVars
<1>14. CASE UploadsDone
  BY <1>1, <1>14, UploadsAreDone, ReadsKeep DEF UploadsDone, At
<1>15. CASE VerifyUploads
  BY <1>1, <1>15, UploadsVerified, ReadsKeep DEF VerifyUploads, At
<1>16. CASE PublishDraft
  <2>1. /\ UNCHANGED <<repoVars, protectedIntact, demoTag, assets, pending,
                       faults>>
        /\ released' = "published" /\ job.pc # "idle"
    BY <1>16 DEF PublishDraft, At
  <2> QED
    BY <1>1, <1>2, <1>16, <2>1, DraftPublished, JobIsTyped, RestKeeps
    DEF repoVars
<1>17. CASE Confirm
  BY <1>17, IdleKnowsNothing, ReadsKeep DEF Confirm, At, Leave
<1> QED
  BY <1>3, <1>4, <1>5, <1>6, <1>7, <1>8, <1>9, <1>10, <1>11, <1>12, <1>13,
     <1>14, <1>15, <1>16, <1>17 DEF JobStep

LEMMA OthersKeep ==
  ASSUME IInv, StartJob \/ Fault \/ UNCHANGED vars
  PROVE  IInv'
<1>1. /\ TypeOK /\ PublicationSound /\ JobKnows
      /\ Idle \in JobType /\ Idle.pc = "idle" /\ Idle.phase = "gate"
      /\ job \in JobType /\ (job.pc # "idle" => job.sha \in Commit)
  BY JobIsTyped DEF IInv
<1>2. /\ protectedIntact \in BOOLEAN /\ demoTag \in Commit \cup {NoCommit}
      /\ released \in {"absent", "draft", "published"}
      /\ assets \in [Assets -> AssetState] /\ pending \in Trigger
  BY <1>1 DEF TypeOK
<1>3. ASSUME UNCHANGED <<main, runs, gated, released, demoTag, assets>>
      PROVE  PublicationSound' /\ (job' = job => JobKnows')
  <2>1. PublicationSound'
    BY <1>1, <1>3 DEF PublicationSound, PublishedIsGated, UploadedAs
  <2>2. ASSUME job' = job PROVE JobKnows'
    BY <1>1, <1>3, <2>2
    DEF JobKnows, PhaseFits, CommitSeen, AttemptSeen, DraftSeen, OnceGated,
        Latest, Selected, DraftComplete, UploadedAs, Expected
  <2> QED
    BY <2>1, <2>2
<1>4. CASE StartJob
  <2>1. UNCHANGED <<main, runs, gated, artifacts, protectedIntact, released,
                    demoTag, assets, faults>>
    BY <1>4 DEF StartJob, repoVars, releaseVars
  <2>2. pending' = NoTrigger
    BY <1>4 DEF StartJob
  <2>3. \/ job' = Idle
        \/ /\ pending.success = TRUE
           /\ job' = [Idle EXCEPT !.pc = "publication", !.sha = pending.sha]
    BY <1>2, <1>4 DEF StartJob, Trigger
  <2>4. CASE job' = Idle
    BY <1>1, <1>2, <1>3, <2>1, <2>2, <2>4, IdleKnowsNothing, RestKeeps
  <2>5. CASE /\ pending.success = TRUE
             /\ job' = [Idle EXCEPT !.pc = "publication", !.sha = pending.sha]
    <3>1. pending.sha \in Commit
      BY <2>5 DEF IInv, WaitingNamesCommit
    <3>2. /\ job' \in JobType /\ job'.pc = "publication"
          /\ job'.phase = "gate" /\ job'.sha = pending.sha
      BY <1>1, <3>1, <2>5 DEF JobType, Pc
    <3>3. JobKnows'
      BY <3>2 DEF JobKnows, PhaseFits, CommitSeen, AttemptSeen, DraftSeen,
         Writing
    <3> QED
      BY <1>2, <1>3, <2>1, <2>2, <3>1, <3>2, <3>3, RestKeeps
  <2> QED
    BY <2>3, <2>4, <2>5
<1>5. ASSUME NEW a \in Assets, UploadAsset(a, Garbled) PROVE IInv'
  <2>1. /\ UNCHANGED <<repoVars, protectedIntact, demoTag, released, pending,
                       job>>
        /\ At("upload") /\ a \in Missing
        /\ assets' = [assets EXCEPT ![a] = [present |-> TRUE,
                                            uploaded |-> TRUE,
                                            digest |-> Garbled]]
        /\ faults' = faults \/ Faulty
    BY <1>5 DEF UploadAsset
  <2>2. assets' \in [Assets -> AssetState] /\ PublicationSound' /\ JobKnows'
    BY <1>1, <2>1, DigestsAreTyped, AssetWritten DEF repoVars
  <2> QED
    BY <1>1, <1>2, <2>1, <2>2, RestKeeps DEF repoVars
<1>6. ASSUME NEW a \in Assets, UploadInterrupted(a) PROVE IInv'
  <2>1. /\ UNCHANGED <<repoVars, protectedIntact, demoTag, released, pending>>
        /\ At("upload") /\ a \in Missing /\ job' = Idle /\ Faulty
        /\ assets' = [assets EXCEPT ![a] = [present |-> TRUE,
                                            uploaded |-> FALSE,
                                            digest |-> Garbled]]
    BY <1>6 DEF UploadInterrupted, Leave
  <2>2. assets' \in [Assets -> AssetState] /\ PublicationSound'
    BY <1>1, <2>1, DigestsAreTyped, AssetWritten DEF repoVars
  <2> QED
    BY <1>1, <1>2, <2>1, <2>2, IdleKnowsNothing, RestKeeps DEF repoVars
<1>7. CASE LoseJob
  <2>1. /\ UNCHANGED <<repoVars, protectedIntact, releaseVars, pending>>
        /\ job' = Idle /\ Faulty
    BY <1>7 DEF LoseJob, Leave
  <2> QED
    BY <1>1, <1>2, <1>3, <2>1, IdleKnowsNothing, RestKeeps
    DEF repoVars, releaseVars
<1>8. CASE ProtectedTagDrifts
  <2>1. /\ UNCHANGED <<repoVars, releaseVars, pending, job>>
        /\ protectedIntact' = FALSE /\ Faulty
    BY <1>8 DEF ProtectedTagDrifts
  <2> QED
    BY <1>1, <1>2, <1>3, <2>1, RestKeeps DEF repoVars, releaseVars
<1>9. ASSUME NEW k \in Candidate, CandidateExpires(k) PROVE IInv'
  <2>1. /\ UNCHANGED <<main, runs, gated, protectedIntact, releaseVars,
                       pending, job>>
        /\ artifacts' \subseteq artifacts /\ Faulty
    BY <1>9 DEF CandidateExpires, ExpireArtifact
  <2> QED
    BY <1>1, <1>2, <1>3, <2>1, RestKeeps DEF releaseVars
<1>10. CASE UNCHANGED vars
  <2>1. UNCHANGED <<repoVars, protectedIntact, releaseVars, pending, job,
                    faults>>
    BY <1>10 DEF vars
  <2> QED
    BY <1>1, <1>2, <1>3, <2>1, RestKeeps DEF repoVars, releaseVars
<1> QED
  BY <1>4, <1>5, <1>6, <1>7, <1>8, <1>9, <1>10 DEF Fault

LEMMA Inductive == Spec => []IInv
<1>1. IInv /\ [Next]_vars => IInv'
  BY RepoKeeps, JobKeeps, OthersKeep DEF Next
<1> QED
  BY <1>1, Starts, PTL DEF Spec

-----------------------------------------------------------------------------
(* What a step may do to the release.                                      *)

\* Steps that write nothing to the release.
LEMMA OthersWriteNothing ==
  ASSUME [Next]_vars, ~CreateTag, ~CreateDraft, ~PublishDraft,
         \A a \in Assets : /\ ~UploadAsset(a, Expected(a))
                           /\ ~UploadAsset(a, Garbled)
                           /\ ~UploadInterrupted(a)
  PROVE  UNCHANGED <<demoTag, released, assets>>
<1>1. CASE RepoStep
  BY <1>1 DEF RepoStep, releaseVars
<1>2. CASE StartJob
  BY <1>2 DEF StartJob, releaseVars
<1>3. CASE JobStep
  BY <1>3 DEF JobStep, ReadPublication, ReadMain, ReadRuns, ReadCandidate,
     Download, ReadExisting, RereadTag, InspectDraft, UploadsDone,
     VerifyUploads, Confirm, ReadOnly, releaseVars
<1>4. CASE Fault
  BY <1>4 DEF Fault, LoseJob, ProtectedTagDrifts, CandidateExpires, releaseVars
<1>5. CASE UNCHANGED vars
  BY <1>5 DEF vars, releaseVars
<1> QED
  BY <1>1, <1>2, <1>3, <1>4, <1>5 DEF Next

\* The tag is written once; what becomes public is a complete draft of the
\* tagged commit; an asset is written only where the draft has none.
LEMMA ReleaseWrites ==
  ASSUME IInv, [Next]_vars
  PROVE  \/ UNCHANGED <<demoTag, released, assets>>
         \/ /\ CreateTag /\ demoTag = NoCommit /\ released # "published"
            /\ demoTag' = job.sha /\ UNCHANGED <<released, assets, gated>>
         \/ /\ released = "absent" /\ released' = "draft"
            /\ UNCHANGED <<demoTag, assets, gated>>
         \/ /\ released = "draft" /\ UNCHANGED <<demoTag, released, gated>>
            /\ \A a \in Assets : assets[a].present => assets'[a] = assets[a]
         \/ PublishDraft /\ UNCHANGED <<demoTag, assets, gated>>
<1>1. TypeOK /\ JobKnows /\ PublicationSound
  BY DEF IInv
<1>2. CASE CreateTag
  BY <1>1, <1>2 DEF CreateTag, repoVars, PublicationSound
<1>3. CASE CreateDraft
  BY <1>3 DEF CreateDraft, repoVars
<1>4. CASE PublishDraft
  BY <1>4 DEF PublishDraft, repoVars
<1>5. ASSUME NEW a \in Assets,
             \/ UploadAsset(a, Expected(a)) \/ UploadAsset(a, Garbled)
             \/ UploadInterrupted(a)
      PROVE  /\ released = "draft" /\ UNCHANGED <<demoTag, released, gated>>
             /\ \A b \in Assets : assets[b].present => assets'[b] = assets[b]
  <2>1. /\ job.pc = "upload" /\ a \in Missing
        /\ UNCHANGED <<demoTag, released, gated>>
        /\ \E r : assets' = [assets EXCEPT ![a] = r]
    BY <1>5 DEF UploadAsset, UploadInterrupted, At, repoVars
  <2>2. released = "draft"
    BY <1>1, <2>1 DEF JobKnows, DraftSeen
  <2>3. assets \in [Assets -> AssetState] /\ ~assets[a].present
    BY <1>1, <2>1 DEF TypeOK, Missing
  <2> QED
    BY <2>1, <2>2, <2>3
<1> QED
  BY <1>2, <1>3, <1>4, <1>5, OthersWriteNothing

LEMMA GarbledIsNoCandidate ==
  ASSUME TypeOK, job.pc # "idle", NEW a \in Assets
  PROVE  Expected(a) # Garbled
<1>1. job.sha \in Commit /\ job.sha # 0
  BY JobIsTyped, RepositoryAssumption DEF Commit
<1>2. Expected(a).commit = job.sha
  BY DEF Expected, AssetDigest
<1> QED
  BY <1>1, <1>2 DEF Garbled

-----------------------------------------------------------------------------

\* The repository, the release and the job stay within their types.
THEOREM TypeCorrect == Spec => []TypeOK
<1>1. IInv => TypeOK
  BY DEF IInv
<1> QED
  BY <1>1, Inductive, PTL

\* What is published is complete, is the bytes of one candidate of the tagged
\* commit, and the gate held for that candidate at one instant, although no job
\* ever reads main, the runs and the artifact at once (publish_demo.py).
THEOREM PublishedGated == Spec => []PublishedIsGated
<1>1. IInv => PublishedIsGated
  BY DEF IInv, PublicationSound
<1> QED
  BY <1>1, Inductive, PTL

\* Wherever jobs are lost, existing_publication accepts what they leave.
THEOREM ConsistentlyLeft == Spec => []LeavesConsistentPublication
<1>1. IInv => LeavesConsistentPublication
  <2> SUFFICES ASSUME IInv PROVE PublicationConsistent
    BY DEF LeavesConsistentPublication
  <2>1. PublicationSound /\ assets \in [Assets -> AssetState]
    BY DEF IInv, TypeOK
  <2>2. ASSUME NEW a \in Assets, released = "published"
        PROVE  assets[a].present /\ assets[a].uploaded
    <3>1. PICK k \in gated : UploadedAs(a, AssetDigest(k, a))
      BY <2>1, <2>2 DEF PublicationSound, PublishedIsGated
    <3> QED
      BY <3>1 DEF UploadedAs
  <2> QED
    BY <2>1, <2>2 DEF PublicationConsistent, PublicationSound
<1> QED
  BY <1>1, Inductive, PTL

\* No asset is replaced or repaired in place, the tag never moves and a
\* published release never changes (publish).
THEOREM NothingOverwritten == Spec => NothingIsOverwritten
<1> DEFINE Kept ==
      /\ \A a \in Assets : assets[a].present => assets'[a] = assets[a]
      /\ demoTag # NoCommit => demoTag' = demoTag
      /\ released = "published" => UNCHANGED releaseVars
<1>1. IInv /\ [Next]_vars => [Kept]_vars
  <2> SUFFICES ASSUME IInv, Next PROVE Kept
    OBVIOUS
  <2>1. PublishDraft => released = "draft"
    BY DraftPublished
  <2> QED
    BY <2>1, ReleaseWrites DEF releaseVars
<1> QED
  BY <1>1, Inductive, PTL DEF Spec, NothingIsOverwritten

\* After a garbled or interrupted upload the draft is never made public.
THEOREM FlawedStaysDraft == Spec => FlawedDraftStaysDraft
<1> DEFINE Kept ==
      (\E a \in Assets : assets[a].present
                         /\ (assets[a].digest = Garbled \/ ~assets[a].uploaded))
        => released' = released
<1>1. IInv /\ [Next]_vars => [Kept]_vars
  <2> SUFFICES ASSUME IInv, Next, NEW a \in Assets, assets[a].present,
                      assets[a].digest = Garbled \/ ~assets[a].uploaded
               PROVE  released' = released
    OBVIOUS
  <2>1. ~PublishDraft
    <3> SUFFICES ASSUME PublishDraft PROVE FALSE
      OBVIOUS
    <3>1. UploadedAs(a, Expected(a))
      BY DraftPublished DEF DraftComplete
    <3>2. Expected(a) # Garbled
      BY GarbledIsNoCandidate DEF IInv, PublishDraft, At
    <3> QED
      BY <3>1, <3>2 DEF UploadedAs
  <2>2. released # "absent"
    BY DEF IInv, PublicationSound
  <2> QED
    BY <2>1, <2>2, ReleaseWrites
<1> QED
  BY <1>1, Inductive, PTL DEF Spec, FlawedDraftStaysDraft

-----------------------------------------------------------------------------
(* The publication keeps its promise.                                      *)

\* Bytes tell candidates apart: an asset that is not reproducible differs from
\* attempt to attempt, so the release determines what was published.
LEMMA BytesIdentify ==
  ASSUME NEW k, NEW j,
         \A a \in Assets : UploadedAs(a, AssetDigest(k, a)),
         \A a \in Assets : UploadedAs(a, AssetDigest(j, a))
  PROVE  k = j
<1>1. PICK a \in Assets : a \notin Reproducible
  BY AssetAssumption
<1>2. AssetDigest(k, a) = k /\ AssetDigest(j, a) = j
  BY <1>1 DEF AssetDigest
<1>3. UploadedAs(a, k) /\ UploadedAs(a, j)
  BY <1>2
<1>4. assets[a].digest = k /\ assets[a].digest = j
  BY <1>3 DEF UploadedAs
<1> QED
  BY <1>4

LEMMA ThePublishedCandidate ==
  ASSUME released = "published", NEW k \in Candidate, k \in gated,
         \A a \in Assets : UploadedAs(a, AssetDigest(k, a))
  PROVE  PublishedCandidate = k
<1> DEFINE Fits(c) ==
      c \in gated /\ \A a \in Assets : UploadedAs(a, AssetDigest(c, a))
<1>1. \E c \in Candidate : Fits(c)
  OBVIOUS
<1>2. Fits(CHOOSE c \in Candidate : Fits(c))
  BY <1>1
<1>3. PublishedCandidate = CHOOSE c \in Candidate : Fits(c)
  BY DEF PublishedCandidate
<1> QED
  BY <1>2, <1>3, BytesIdentify

\* The same of the next state.
LEMMA TheNextPublishedCandidate ==
  ASSUME released' = "published", NEW k \in Candidate, k \in gated',
         UNCHANGED assets,
         \A a \in Assets : UploadedAs(a, AssetDigest(k, a))
  PROVE  PublishedCandidate' = k
<1> DEFINE Fits(c) ==
      c \in gated' /\ \A a \in Assets : UploadedAs(a, AssetDigest(c, a))
<1>1. \E c \in Candidate : Fits(c)
  OBVIOUS
<1>2. Fits(CHOOSE c \in Candidate : Fits(c))
  BY <1>1
<1>3. PublishedCandidate' = CHOOSE c \in Candidate : Fits(c)
  BY DEF PublishedCandidate, UploadedAs
<1> QED
  BY <1>2, <1>3, BytesIdentify

LEMMA PublishedStays ==
  ASSUME IInv, UNCHANGED <<released, assets>>, gated \subseteq gated'
  PROVE  PublishedCandidate' = PublishedCandidate
<1>1. CASE released = "published"
  <2>1. PICK k \in gated : \A a \in Assets : UploadedAs(a, AssetDigest(k, a))
    BY <1>1 DEF IInv, PublicationSound, PublishedIsGated
  <2>2. k \in Candidate
    BY DEF IInv, TypeOK, RepoTypeOK
  <2> QED
    BY <1>1, <2>1, <2>2, ThePublishedCandidate, TheNextPublishedCandidate
<1>2. CASE released # "published"
  BY <1>2 DEF PublishedCandidate
<1> QED
  BY <1>1, <1>2

\* Main, the runs and so the open gate belong to one candidate at a time.
LEMMA OneGateAtATime ==
  ASSUME RecordGate
  PROVE  gated' = gated \/ \E k \in Candidate : gated' = gated \cup {k}
<1>1. \A k \in Candidate : GateOpen(k)' =>
        k.commit = main' /\ k.attempt = runs'[k.commit][CI].attempt
  BY DEF GateOpen
<1>2. \A k, j \in Candidate :
        k.commit = j.commit /\ k.attempt = j.attempt => k = j
  BY DEF Candidate
<1>3. \A k, j \in Candidate : GateOpen(k)' /\ GateOpen(j)' => k = j
  BY <1>1, <1>2
<1> QED
  BY <1>3 DEF RecordGate

LEMMA RepoKeepsPromise ==
  ASSUME IInv, RepoStep
  PROVE  Promise!Next \/ UNCHANGED Promise!vars
<1>1. RecordGate /\ UNCHANGED <<demoTag, released, assets>>
  BY DEF RepoStep, releaseVars
<1>2. gated \subseteq gated'
  BY <1>1 DEF RecordGate
<1>3. PublishedCandidate' = PublishedCandidate
  BY <1>1, <1>2, PublishedStays
<1>4. \A k \in Candidate : gated' = gated \cup {k} => Promise!GateHolds(k)
  BY <1>1, <1>3 DEF Promise!GateHolds
<1>5. gated' = gated => UNCHANGED Promise!vars
  BY <1>1, <1>3 DEF Promise!vars
<1> QED
  BY <1>1, <1>4, <1>5, OneGateAtATime DEF Promise!Next

LEMMA OthersLeaveGates ==
  ASSUME StartJob \/ JobStep \/ Fault \/ UNCHANGED vars
  PROVE  gated' = gated
<1>1. StartJob \/ JobStep => UNCHANGED repoVars
  BY DEF StartJob, JobStep, ReadPublication, ReadMain, ReadRuns, ReadCandidate,
     Download, ReadExisting, CreateTag, RereadTag, CreateDraft, InspectDraft,
     UploadAsset, UploadsDone, VerifyUploads, PublishDraft, Confirm, ReadOnly
<1>2. Fault => gated' = gated
  BY DEF Fault, UploadAsset, UploadInterrupted, LoseJob, ProtectedTagDrifts,
     CandidateExpires, repoVars
<1> QED
  BY <1>1, <1>2 DEF repoVars, vars

LEMMA ReleaseKeepsPromise ==
  ASSUME IInv, StartJob \/ JobStep \/ Fault \/ UNCHANGED vars
  PROVE  Promise!Next \/ UNCHANGED Promise!vars
<1>1. gated' = gated
  BY OthersLeaveGates
<1>2. gated \subseteq Candidate
  BY DEF IInv, TypeOK, RepoTypeOK
<1>3. CASE UNCHANGED <<demoTag, released, assets>>
  BY <1>1, <1>3, PublishedStays DEF Promise!vars
<1>4. CASE /\ CreateTag /\ demoTag = NoCommit /\ released # "published"
           /\ demoTag' = job.sha /\ UNCHANGED <<released, assets, gated>>
  <2>1. job.sha \in OnceGated
    BY <1>4 DEF IInv, JobKnows, PhaseFits, CommitSeen, Writing, CreateTag, At
  <2>2. PICK k \in gated : k.commit = job.sha
    BY <2>1 DEF OnceGated
  <2>3. PublishedCandidate' = PublishedCandidate
    BY <1>4, PublishedStays
  <2>4. Promise!CreateTag(k)
    BY <1>4, <2>2, <2>3 DEF Promise!CreateTag
  <2> QED
    BY <1>2, <2>4 DEF Promise!Next
<1>5. CASE /\ released = "absent" /\ released' = "draft"
           /\ UNCHANGED <<demoTag, assets, gated>>
  BY <1>5 DEF PublishedCandidate, Promise!vars
<1>6. CASE released = "draft" /\ UNCHANGED <<demoTag, released, gated>>
  BY <1>6 DEF PublishedCandidate, Promise!vars
<1>7. CASE PublishDraft /\ UNCHANGED <<demoTag, assets, gated>>
  <2>1. /\ released = "draft" /\ released' = "published"
        /\ demoTag = job.sha /\ Selected \in gated /\ DraftComplete
    BY <1>7, DraftPublished DEF PublishDraft
  <2>2. \A a \in Assets : UploadedAs(a, AssetDigest(Selected, a))
    BY <2>1 DEF DraftComplete, Expected, Selected
  <2>3. PublishedCandidate = NoCommit /\ PublishedCandidate' = Selected
    <3>1. PublishedCandidate = NoCommit
      BY <2>1 DEF PublishedCandidate
    <3> QED
      BY <1>2, <1>7, <2>1, <2>2, <3>1, TheNextPublishedCandidate
  <2>4. Selected.commit = demoTag
    BY <2>1 DEF Selected
  <2>5. Promise!Publish(Selected)
    BY <1>7, <2>1, <2>3, <2>4 DEF Promise!Publish
  <2> QED
    BY <1>2, <2>1, <2>5 DEF Promise!Next
<1>8. [Next]_vars
  BY DEF Next
<1> QED
  BY <1>3, <1>4, <1>5, <1>6, <1>7, <1>8, ReleaseWrites

\* The publication implements PublicationPromise: the gate holds for some
\* candidates over time, one such commit is tagged once and one candidate of
\* the tagged commit is published once (docs/PORTFOLIO_DEMO_RELEASE.md).
THEOREM PromiseKept == Spec => KeepsPromise
<1>1. Init => Promise!Init
  BY DEF Init, RepoInit, PublishedCandidate, Promise!Init
<1>2. IInv /\ [Next]_vars => [Promise!Next]_Promise!vars
  BY RepoKeepsPromise, ReleaseKeepsPromise DEF Next
<1> QED
  BY <1>1, <1>2, Inductive, PTL DEF Spec, KeepsPromise, Promise!Spec
=============================================================================
