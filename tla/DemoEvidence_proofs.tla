------------------------- MODULE DemoEvidence_proofs --------------------------
(***************************************************************************)
(* Proofs about the evidence of the demo: the bundle its runs freeze and   *)
(* the candidate packed from it, and the packets its consumers accept.     *)
(* The state of the two is disjoint, and each proof is about the           *)
(* specification of its own module.                                        *)
(***************************************************************************)
EXTENDS EvidenceBundle, RiskConsumer, FiniteSetTheorems, TLAPS

-----------------------------------------------------------------------------
(* EvidenceBundle, for any number of runs, directories, checkouts and      *)
(* disturbances.  A file remembers the run that created it and is never    *)
(* created twice, so a directory can be read as what its runs made, except *)
(* where a file was left empty or was changed; and a changed file differs  *)
(* from directory to directory, so two directories that agree hold what    *)
(* their runs made.                                                        *)

FileNames == {"consumers", "summary", "presentation", "provenance", "report",
              "manifest"}

\* What a run has written, at whatever moment: its first files, in order.
FirstFiles == {{Files[i] : i \in 1 .. k} : k \in 0 .. Len(Files)}

IsFunction(f) == f = [n \in DOMAIN f |-> f[n]]

-----------------------------------------------------------------------------
(* The invariant.                                                          *)

\* What a run s has made as its file n.
MadeSound(n, bytes, s) ==
  /\ bytes.kind = n
  /\ n \in Outcomes =>
       /\ bytes.wheels = s.wheels /\ bytes.mode = s.mode
       /\ s.steady = TRUE => bytes.code = s.source
  /\ n = "provenance" => bytes.source = s.source

\* A run s, while the checkout is at h.
RunSound(s, h) ==
  /\ DOMAIN s = {"state", "dir", "mode", "source", "wheels", "steady", "made"}
  /\ s.state \in {"idle", "running", "done", "failed"}
  /\ s.state # "idle" => s.dir \in Dirs
  /\ s.source \in Heads
  /\ s.state # "idle" /\ s.mode = "isolated-wheels" => s.source.clean = TRUE
  /\ s.state = "running" /\ s.steady = TRUE => s.source = h
  /\ IsFunction(s.made) /\ DOMAIN s.made \in FirstFiles
  /\ s.state = "idle" => DOMAIN s.made = {}
  /\ s.state = "running" => DOMAIN s.made # FileNames
  /\ \A n \in DOMAIN s.made : MadeSound(n, s.made[n], s)

\* A file n of directory d: made by the run that created it, unless it was
\* left empty or changed.
FileSound(d, n, file, runs) ==
  /\ DOMAIN file = {"bytes", "by"}
  /\ n \in FileNames
  /\ file.by \in Runs
  /\ runs[file.by].dir = d /\ runs[file.by].state # "idle"
  /\ \/ /\ n \in DOMAIN runs[file.by].made
        /\ file.bytes = runs[file.by].made[n]
     \/ file.bytes \in {Empty, Changed(d)}

RunsSound ==
  /\ head \in Heads
  /\ run = [r \in Runs |-> run[r]]
  /\ \A r \in Runs : RunSound(run[r], head)

DirsSound ==
  /\ dirs = [d \in Dirs |-> dirs[d]]
  /\ \A d \in Dirs :
       /\ IsFunction(dirs[d])
       /\ \A n \in DOMAIN dirs[d] : FileSound(d, n, dirs[d][n], run)

\* A file that a run made stays its own and is never emptied.
MadeStays ==
  \A r \in Runs : \A n \in DOMAIN run[r].made :
    /\ n \in DOMAIN dirs[run[r].dir]
    /\ dirs[run[r].dir][n].by = r /\ dirs[run[r].dir][n].bytes # Empty

\* Two runs made the same complete evidence, under the manifest accepted.
Replayed(digest, runs) ==
  \E r, s \in Runs :
    /\ r # s /\ runs[s].made = runs[r].made
    /\ DOMAIN runs[r].made = FileNames
    /\ digest = runs[r].made["manifest"]
    /\ digest.artifacts = Without(runs[r].made, "manifest")

PackingSound ==
  /\ DOMAIN packer = {"state", "source", "evidence", "digest", "assets"}
  /\ packer.state \in {"idle", "accepted", "writing", "stopped"}
  /\ packer.state \in {"idle", "accepted"} => DOMAIN candidate = {}
  /\ packer.state # "idle" =>
       packer.evidence \in Dirs /\ Replayed(packer.digest, run)
  /\ packer.state \in {"writing", "stopped"} =>
       /\ IsFunction(packer.assets["evidence"].files)
       /\ packer.assets["release"].evidence = packer.digest
  /\ \A n \in DOMAIN candidate : candidate[n] = packer.assets[n]

IInv == RunsSound /\ DirsSound /\ MadeStays /\ PackingSound
-----------------------------------------------------------------------------
(* The files of a run, in their order.                                     *)

LEMMA SixFiles ==
  /\ Len(Files) = 6
  /\ Files[1] = "consumers" /\ Files[2] = "summary"
  /\ Files[3] = "presentation" /\ Files[4] = "provenance"
  /\ Files[5] = "report" /\ Files[6] = "manifest"
  /\ Range(Files) = FileNames
<1>1. /\ Len(Files) = 6 /\ DOMAIN Files = 1 .. 6
      /\ Files[1] = "consumers" /\ Files[2] = "summary"
      /\ Files[3] = "presentation" /\ Files[4] = "provenance"
      /\ Files[5] = "report" /\ Files[6] = "manifest"
  BY DEF Files
<1>2. 1 .. 6 = {1, 2, 3, 4, 5, 6}
  OBVIOUS
<1>3. Range(Files) = FileNames
  BY <1>1, <1>2 DEF Range, FileNames
<1> QED
  BY <1>1, <1>3

LEMMA FirstFilesListed ==
  FirstFiles = {{}, {"consumers"}, {"consumers", "summary"},
                {"consumers", "summary", "presentation"},
                {"consumers", "summary", "presentation", "provenance"},
                {"consumers", "summary", "presentation", "provenance", "report"},
                FileNames}
<1> DEFINE first(k) == {Files[i] : i \in 1 .. k}
<1>1. 0 .. Len(Files) = {0, 1, 2, 3, 4, 5, 6}
  BY SixFiles
<1>2. FirstFiles = {first(0), first(1), first(2), first(3), first(4), first(5),
                    first(6)}
  BY <1>1 DEF FirstFiles
<1>3. /\ 1 .. 0 = {} /\ 1 .. 1 = {1} /\ 1 .. 2 = {1, 2}
      /\ 1 .. 3 = {1, 2, 3} /\ 1 .. 4 = {1, 2, 3, 4}
      /\ 1 .. 5 = {1, 2, 3, 4, 5} /\ 1 .. 6 = {1, 2, 3, 4, 5, 6}
  OBVIOUS
<1>4. /\ first(0) = {} /\ first(1) = {"consumers"}
      /\ first(2) = {"consumers", "summary"}
      /\ first(3) = {"consumers", "summary", "presentation"}
  BY <1>3, SixFiles
<1>5. /\ first(4) = {"consumers", "summary", "presentation", "provenance"}
      /\ first(5) = {"consumers", "summary", "presentation", "provenance",
                     "report"}
      /\ first(6) = FileNames
  BY <1>3, SixFiles DEF FileNames
<1> HIDE DEF first
<1> QED
  BY <1>2, <1>4, <1>5

LEMMA OneMore ==
  ASSUME NEW S, IsFiniteSet(S), NEW x, x \notin S, NEW T, T = S \cup {x}
  PROVE  IsFiniteSet(T) /\ Cardinality(T) = Cardinality(S) + 1
BY FS_AddElement

\* The file after those written is a new one, and it is the manifest exactly
\* if it completes them.
LEMMA NextInOrder ==
  ASSUME NEW W \in FirstFiles, W # FileNames
  PROVE  LET next == Files[Cardinality(W) + 1] IN
         /\ next \in FileNames \ W
         /\ W \cup {next} \in FirstFiles
         /\ next = "manifest" <=> W \cup {next} = FileNames
<1> DEFINE W1 == {"consumers"}
           W2 == {"consumers", "summary"}
           W3 == {"consumers", "summary", "presentation"}
           W4 == {"consumers", "summary", "presentation", "provenance"}
           W5 == {"consumers", "summary", "presentation", "provenance", "report"}
<1>1. /\ IsFiniteSet(W1) /\ Cardinality(W1) = 1
      /\ Cardinality({}) = 0
  BY FS_EmptySet, FS_Singleton
<1>2. /\ W2 = W1 \cup {"summary"} /\ "summary" \notin W1
      /\ W3 = W2 \cup {"presentation"} /\ "presentation" \notin W2
      /\ W4 = W3 \cup {"provenance"} /\ "provenance" \notin W3
      /\ W5 = W4 \cup {"report"} /\ "report" \notin W4
      /\ FileNames = W5 \cup {"manifest"} /\ "manifest" \notin W5
      /\ W1 = {} \cup {"consumers"}
  BY DEF FileNames
<1>3. W \in {{}, W1, W2, W3, W4, W5}
  BY FirstFilesListed
<1>4. {W1, W2, W3, W4, W5, FileNames} \subseteq FirstFiles
  BY FirstFilesListed
<1>5. /\ W1 \subseteq FileNames /\ W2 \subseteq FileNames
      /\ W3 \subseteq FileNames /\ W4 \subseteq FileNames
      /\ W5 \subseteq FileNames
  BY DEF FileNames
<1>6. /\ "manifest" \notin W1 /\ "manifest" \notin W2
      /\ "manifest" \notin W3 /\ "manifest" \notin W4
  OBVIOUS
<1> HIDE DEF W1, W2, W3, W4, W5
<1>7. IsFiniteSet(W2) /\ Cardinality(W2) = 2
  BY <1>1, <1>2, OneMore
<1>8. IsFiniteSet(W3) /\ Cardinality(W3) = 3
  BY <1>2, <1>7, OneMore
<1>9. IsFiniteSet(W4) /\ Cardinality(W4) = 4
  BY <1>2, <1>8, OneMore
<1>10. IsFiniteSet(W5) /\ Cardinality(W5) = 5
  BY <1>2, <1>9, OneMore
<1>11. /\ "manifest" \in FileNames /\ "consumers" \in FileNames
       /\ "summary" \in FileNames /\ "presentation" \in FileNames
       /\ "provenance" \in FileNames /\ "report" \in FileNames
  BY DEF FileNames
<1>12. CASE W = {}
  BY <1>12, <1>1, <1>2, <1>4, <1>6, <1>11, SixFiles
<1>13. CASE W = W1
  BY <1>13, <1>1, <1>2, <1>4, <1>6, <1>11, SixFiles
<1>14. CASE W = W2
  BY <1>14, <1>7, <1>2, <1>4, <1>6, <1>11, SixFiles
<1>15. CASE W = W3
  BY <1>15, <1>8, <1>2, <1>4, <1>6, <1>11, SixFiles
<1>16. CASE W = W4
  BY <1>16, <1>9, <1>2, <1>4, <1>11, SixFiles
<1>17. CASE W = W5
  BY <1>17, <1>10, <1>2, <1>4, <1>11, FirstFilesListed, SixFiles
<1> QED
  BY <1>3, <1>12, <1>13, <1>14, <1>15, <1>16, <1>17

\* A run that wrote its manifest wrote everything.
LEMMA ManifestIsLast ==
  ASSUME NEW W \in FirstFiles
  PROVE  /\ W \subseteq FileNames
         /\ "manifest" \in W => W = FileNames
BY FirstFilesListed DEF FileNames

-----------------------------------------------------------------------------
(* Maps of files.                                                          *)

\* A document of a kind is there.
LEMMA KindIsThere ==
  ASSUME NEW f, NEW name, NEW kind, HasKind(f, name, kind), kind # "absent"
  PROVE  name \in DOMAIN f /\ f[name].kind = kind
BY DEF HasKind, Read, Absent

\* Two maps that agree on a name and, without it, on the rest are the same.
LEMMA WithoutAndName ==
  ASSUME NEW f, NEW g, NEW name, IsFunction(f), IsFunction(g),
         name \in DOMAIN f, name \in DOMAIN g, f[name] = g[name],
         Without(f, name) = Without(g, name)
  PROVE  f = g
<1> DEFINE fw == Without(f, name)  gw == Without(g, name)
<1>1. /\ DOMAIN fw = DOMAIN f \ {name}
      /\ DOMAIN gw = DOMAIN g \ {name}
      /\ \A n \in DOMAIN f \ {name} : fw[n] = f[n]
      /\ \A n \in DOMAIN g \ {name} : gw[n] = g[n]
  BY DEF Without, Restriction
<1> HIDE DEF fw, gw
<1>2. fw = gw
  BY DEF fw, gw
<1>3. DOMAIN f = DOMAIN g
  BY <1>1, <1>2
<1>4. \A n \in DOMAIN f : f[n] = g[n]
  BY <1>1, <1>2, <1>3
<1> QED
  BY <1>3, <1>4 DEF IsFunction

\* Neither an empty nor a changed file passes for a document.
LEMMA OtherKinds ==
  ASSUME NEW d
  PROVE  /\ Empty.kind = "empty" /\ Changed(d).kind = "changed"
         /\ Changed(d).where = d /\ Changed(d) # Empty
BY DEF Empty, Changed
-----------------------------------------------------------------------------
(* The invariant holds at the start and is kept by every step.             *)

LEMMA StartsSound == Init => IInv
<1> SUFFICES ASSUME Init PROVE IInv
  OBVIOUS
<1> USE DEF Init
<1>1. DOMAIN <<>> = {} /\ IsFunction(<<>>)
  BY DEF IsFunction
<1>2. {} \in FirstFiles /\ {} # FileNames
  BY FirstFilesListed DEF FileNames
<1>3. RunSound(NewRun, head)
  BY <1>1, <1>2 DEF RunSound, NewRun
<1>4. RunsSound
  BY <1>3 DEF RunsSound
<1>5. DirsSound
  BY <1>1 DEF DirsSound
<1>6. MadeStays
  BY <1>1 DEF MadeStays, NewRun
<1>7. PackingSound
  BY <1>1 DEF PackingSound
<1> QED
  BY <1>4, <1>5, <1>6, <1>7 DEF IInv

\* Steps of the wheelhouse.
LEMMA WheelsAreApart ==
  ASSUME IInv, UNCHANGED <<head, dirs, run, candidate, packer>>
  PROVE  IInv'
<1>1. RunsSound'
  BY DEF IInv, RunsSound
<1>2. DirsSound'
  BY DEF IInv, DirsSound
<1>3. MadeStays'
  BY DEF IInv, MadeStays
<1>4. PackingSound'
  BY DEF IInv, PackingSound
<1> QED
  BY <1>1, <1>2, <1>3, <1>4 DEF IInv
\* What a run has done stays done.
Continues(runs, later) ==
  \A r \in Runs :
    /\ runs[r].state # "idle" =>
         later[r].state # "idle" /\ later[r].dir = runs[r].dir
    /\ \A n \in DOMAIN runs[r].made :
         n \in DOMAIN later[r].made /\ later[r].made[n] = runs[r].made[n]
    /\ DOMAIN runs[r].made = FileNames => later[r].made = runs[r].made

LEMMA FileStaysSound ==
  ASSUME NEW runs, NEW later, Continues(runs, later),
         NEW d, NEW n, NEW file, FileSound(d, n, file, runs)
  PROVE  FileSound(d, n, file, later)
BY DEF FileSound, Continues

LEMMA ReplayStays ==
  ASSUME NEW runs, NEW later, Continues(runs, later),
         NEW digest, Replayed(digest, runs)
  PROVE  Replayed(digest, later)
<1>1. PICK r \in Runs, s \in Runs :
        /\ r # s /\ runs[s].made = runs[r].made
        /\ DOMAIN runs[r].made = FileNames
        /\ digest = runs[r].made["manifest"]
        /\ digest.artifacts = Without(runs[r].made, "manifest")
  BY DEF Replayed
<1>2. later[r].made = runs[r].made /\ later[s].made = runs[s].made
  BY <1>1 DEF Continues
<1> QED
  BY <1>1, <1>2 DEF Replayed

\* A step of one run.
LEMMA OneRunMoves ==
  ASSUME IInv, NEW r \in Runs, NEW s, run' = [run EXCEPT ![r] = s],
         UNCHANGED <<head, candidate, packer>>, RunSound(s, head),
         run[r].state # "idle" => s.state # "idle" /\ s.dir = run[r].dir,
         \A n \in DOMAIN run[r].made :
           n \in DOMAIN s.made /\ s.made[n] = run[r].made[n],
         DOMAIN run[r].made = FileNames => s.made = run[r].made
  PROVE  /\ RunsSound' /\ PackingSound'
         /\ Continues(run, run')
         /\ run'[r] = s /\ \A q \in Runs \ {r} : run'[q] = run[q]
<1>1. /\ run' = [q \in Runs |-> run'[q]]
      /\ run'[r] = s /\ \A q \in Runs \ {r} : run'[q] = run[q]
  BY DEF IInv, RunsSound
<1>2. RunsSound'
  BY <1>1 DEF IInv, RunsSound
<1>3. Continues(run, run')
  BY <1>1 DEF Continues
<1>4. PackingSound'
  BY <1>3, ReplayStays DEF IInv, PackingSound
<1> QED
  BY <1>1, <1>2, <1>3, <1>4

LEMMA RunIsSound ==
  ASSUME IInv, NEW r \in Runs
  PROVE  /\ RunSound(run[r], head)
         /\ run[r].made = [n \in DOMAIN run[r].made |-> run[r].made[n]]
         /\ DOMAIN run[r].made \in FirstFiles
         /\ run[r].state = "running" =>
              run[r].dir \in Dirs /\ DOMAIN run[r].made # FileNames
         /\ run[r].state = "idle" => DOMAIN run[r].made = {}
BY DEF IInv, RunsSound, RunSound, IsFunction

LEMMA BeginSound ==
  ASSUME IInv, NEW r \in Runs, NEW d \in Dirs,
         NEW mode \in {"isolated-wheels", "prepared-environment"},
         Begin(r, d, mode)
  PROVE  IInv'
<1> DEFINE w == IF mode = "isolated-wheels" THEN wheels["manifest"] ELSE Absent
           s == [run[r] EXCEPT !.state = "running", !.dir = d, !.mode = mode,
                               !.source = head, !.wheels = w]
<1>1. /\ RunSound(run[r], head) /\ head \in Heads
      /\ run[r].state = "idle" /\ DOMAIN run[r].made = {}
      /\ run[r].made = [n \in DOMAIN run[r].made |-> run[r].made[n]]
  BY RunIsSound DEF Begin, IInv, RunsSound
<1>2. mode = "isolated-wheels" => head.clean = TRUE
  BY DEF Begin, WheelhouseVerifies
<1>3. run' = [run EXCEPT ![r] = s]
  BY DEF Begin
<1> HIDE DEF w
<1>4. /\ DOMAIN s = {"state", "dir", "mode", "source", "wheels", "steady", "made"}
      /\ s.state = "running" /\ s.dir = d /\ s.mode = mode /\ s.source = head
      /\ s.made = run[r].made
  BY <1>1 DEF RunSound
<1>5. UNCHANGED <<head, dirs, candidate, packer>>
  BY DEF Begin
<1> HIDE DEF s
<1>6. RunSound(s, head)
  BY <1>1, <1>2, <1>4, FirstFilesListed DEF RunSound, IsFunction, FileNames
<1>7. /\ RunsSound' /\ PackingSound' /\ Continues(run, run')
      /\ run'[r] = s /\ \A q \in Runs \ {r} : run'[q] = run[q]
  BY <1>1, <1>3, <1>4, <1>5, <1>6, OneRunMoves
<1>8. DirsSound'
  BY <1>5, <1>7, FileStaysSound DEF IInv, DirsSound
<1>9. MadeStays'
  BY <1>1, <1>4, <1>5, <1>7 DEF IInv, MadeStays
<1> QED
  BY <1>7, <1>8, <1>9 DEF IInv
\* A run that ends, however it does.
LEMMA RunEnds ==
  ASSUME IInv, NEW r \in Runs, run[r].state = "running",
         run' = [run EXCEPT ![r].state = "failed"],
         UNCHANGED <<head, candidate, packer>>
  PROVE  /\ RunsSound' /\ PackingSound' /\ Continues(run, run')
         /\ \A q \in Runs : /\ run'[q].made = run[q].made
                            /\ run'[q].dir = run[q].dir
         /\ run'[r].state = "failed"
<1> DEFINE s == [run[r] EXCEPT !.state = "failed"]
<1>1. run' = [run EXCEPT ![r] = s]
  OBVIOUS
<1>2. RunSound(run[r], head)
  BY RunIsSound
<1>3. /\ DOMAIN s = {"state", "dir", "mode", "source", "wheels", "steady", "made"}
      /\ s.state = "failed" /\ s.dir = run[r].dir /\ s.mode = run[r].mode
      /\ s.source = run[r].source /\ s.wheels = run[r].wheels
      /\ s.steady = run[r].steady /\ s.made = run[r].made
  BY <1>2 DEF RunSound
<1> HIDE DEF s
<1>4. RunSound(s, head)
  BY <1>2, <1>3 DEF RunSound, MadeSound
<1>5. /\ RunsSound' /\ PackingSound' /\ Continues(run, run')
      /\ run'[r] = s /\ \A q \in Runs \ {r} : run'[q] = run[q]
  <2>1. /\ s.state # "idle" /\ s.dir = run[r].dir
        /\ \A n \in DOMAIN run[r].made :
             n \in DOMAIN s.made /\ s.made[n] = run[r].made[n]
        /\ s.made = run[r].made
    BY <1>3
  <2> QED
    BY <1>1, <1>4, <2>1, OneRunMoves
<1> QED
  BY <1>3, <1>5

LEMMA RefuseSound ==
  ASSUME IInv, NEW r \in Runs, Refuse(r)
  PROVE  IInv'
<1>1. /\ run[r].state = "running"
      /\ run' = [run EXCEPT ![r].state = "failed"]
      /\ UNCHANGED <<head, dirs, candidate, packer>>
  BY DEF Refuse
<1>2. /\ RunsSound' /\ PackingSound' /\ Continues(run, run')
      /\ \A q \in Runs : /\ run'[q].made = run[q].made
                         /\ run'[q].dir = run[q].dir
  BY <1>1, RunEnds
<1>3. DirsSound'
  BY <1>1, <1>2, FileStaysSound DEF IInv, DirsSound
<1>4. MadeStays'
  BY <1>1, <1>2 DEF IInv, MadeStays
<1> QED
  BY <1>2, <1>3, <1>4 DEF IInv

\* A file is created where there was none.
LEMMA FileCreated ==
  ASSUME IInv, Continues(run, run'), NEW d \in Dirs, NEW name, NEW file,
         name \notin DOMAIN dirs[d], FileSound(d, name, file, run'),
         NEW g, g = Extend(dirs[d], name, file), dirs' = [dirs EXCEPT ![d] = g]
  PROVE  /\ DirsSound'
         /\ \A e \in Dirs : \A n \in DOMAIN dirs[e] :
              n \in DOMAIN dirs'[e] /\ dirs'[e][n] = dirs[e][n]
<1>1. /\ IsFunction(g) /\ DOMAIN g = DOMAIN dirs[d] \cup {name}
      /\ g[name] = file
      /\ \A n \in DOMAIN dirs[d] : n # name => g[n] = dirs[d][n]
  BY DEF Extend, IsFunction
<1>3. /\ dirs' = [e \in Dirs |-> dirs'[e]]
      /\ dirs'[d] = g /\ \A e \in Dirs \ {d} : dirs'[e] = dirs[e]
  BY DEF IInv, DirsSound
<1>4. ASSUME NEW e \in Dirs
      PROVE  /\ IsFunction(dirs'[e])
             /\ \A n \in DOMAIN dirs'[e] : FileSound(e, n, dirs'[e][n], run')
  <2>1. CASE e = d
    <3>1. ASSUME NEW n \in DOMAIN g PROVE FileSound(d, n, g[n], run')
      <4>1. CASE n = name
        BY <4>1, <1>1
      <4>2. CASE n # name
        <5>1. n \in DOMAIN dirs[d] /\ g[n] = dirs[d][n]
          BY <4>2, <1>1
        <5>2. FileSound(d, n, dirs[d][n], run)
          BY <5>1 DEF IInv, DirsSound
        <5> QED
          BY <5>1, <5>2, FileStaysSound
      <4> QED
        BY <4>1, <4>2
    <3> QED
      BY <2>1, <3>1, <1>1, <1>3
  <2>2. CASE e # d
    BY <2>2, <1>3, FileStaysSound DEF IInv, DirsSound
  <2> QED
    BY <2>1, <2>2
<1>5. DirsSound'
  BY <1>3, <1>4 DEF DirsSound
<1> QED
  BY <1>1, <1>3, <1>5

LEMMA CrashSound ==
  ASSUME IInv, NEW r \in Runs, Crash(r)
  PROVE  IInv'
<1> DEFINE d == run[r].dir  name == NextFile(r)
           file == [bytes |-> Empty, by |-> r]
<1>1. /\ run[r].state = "running"
      /\ run' = [run EXCEPT ![r].state = "failed"]
      /\ UNCHANGED <<head, candidate, packer>>
      /\ \/ UNCHANGED dirs
         \/ /\ name \notin DOMAIN dirs[d]
            /\ dirs' = [dirs EXCEPT ![d] = Extend(@, name, file)]
  BY DEF Crash, FreeToCreate
<1>2. /\ RunsSound' /\ PackingSound' /\ Continues(run, run')
      /\ \A q \in Runs : /\ run'[q].made = run[q].made
                         /\ run'[q].dir = run[q].dir
      /\ run'[r].state = "failed"
  BY <1>1, RunEnds
<1>3. d \in Dirs /\ name \in FileNames
  BY <1>1, RunIsSound, NextInOrder DEF NextFile, FilesWritten
<1>4. FileSound(d, name, file, run')
  BY <1>2, <1>3 DEF FileSound
<1>5. /\ DirsSound'
      /\ \A e \in Dirs : \A n \in DOMAIN dirs[e] :
           n \in DOMAIN dirs'[e] /\ dirs'[e][n] = dirs[e][n]
  <2>1. CASE UNCHANGED dirs
    BY <2>1, <1>2, FileStaysSound DEF IInv, DirsSound
  <2>2. CASE ~ UNCHANGED dirs
    <3> DEFINE g == Extend(dirs[d], name, file)
    <3>1. /\ name \notin DOMAIN dirs[d] /\ FileSound(d, name, file, run')
          /\ g = Extend(dirs[d], name, file) /\ dirs' = [dirs EXCEPT ![d] = g]
      BY <2>2, <1>1, <1>4
    <3> HIDE DEF d, name, file, g
    <3> QED
      BY <3>1, <1>2, <1>3, FileCreated
  <2> QED
    BY <2>1, <2>2
<1>6. MadeStays'
  <2> SUFFICES ASSUME NEW q \in Runs, NEW n \in DOMAIN run[q].made
               PROVE  /\ n \in DOMAIN dirs'[run[q].dir]
                      /\ dirs'[run[q].dir][n].by = q
                      /\ dirs'[run[q].dir][n].bytes # Empty
    BY <1>2 DEF MadeStays
  <2>1. run[q].dir \in Dirs
    BY RunIsSound DEF RunSound
  <2> QED
    BY <2>1, <1>5 DEF IInv, MadeStays
<1> QED
  BY <1>2, <1>5, <1>6 DEF IInv
\* What a run makes of a file (write_json, write_presentation, finalize_bundle):
\* an outcome is computed by the code that is checked out at that moment.
LEMMA ContentIsSound ==
  ASSUME IInv, NEW r \in Runs, run[r].state = "running",
         NEW name \in FileNames
  PROVE  MadeSound(name, Content(name, r), run[r])
<1>1. run[r].steady = TRUE => run[r].source = head
  BY RunIsSound DEF RunSound
<1>2. CASE name \in Outcomes
  <2>1. Content(name, r) = Outcome(name, r)
    BY <1>2 DEF Content, Outcomes
  <2> QED
    BY <1>1, <1>2, <2>1 DEF MadeSound, Outcome, Outcomes
<1>3. CASE name = "presentation"
  <2>1. Content(name, r).kind = "presentation"
    BY <1>3 DEF Content, Outcomes, Presentation
  <2> QED
    BY <1>3, <2>1 DEF MadeSound, Outcomes
<1>4. CASE name = "provenance"
  <2>1. Content(name, r) = [kind |-> "provenance", source |-> run[r].source]
    BY <1>4 DEF Content, Outcomes
  <2> QED
    BY <1>4, <2>1 DEF MadeSound, Outcomes
<1>5. CASE name = "report"
  <2>1. Content(name, r).kind = "report"
    BY <1>5 DEF Content, Outcomes
  <2> QED
    BY <1>5, <2>1 DEF MadeSound, Outcomes
<1>6. CASE name = "manifest"
  <2>1. Content(name, r).kind = "manifest"
    BY <1>6 DEF Content, Outcomes, Manifest
  <2> QED
    BY <1>6, <2>1 DEF MadeSound, Outcomes
<1> QED
  BY <1>2, <1>3, <1>4, <1>5, <1>6 DEF FileNames, Outcomes

LEMMA WriteSound ==
  ASSUME IInv, NEW r \in Runs, Write(r)
  PROVE  IInv'
<1> DEFINE d == run[r].dir  name == NextFile(r)  content == Content(name, r)
           made == Extend(run[r].made, name, content)
           state == IF name # "manifest" THEN "running"
                    ELSE IF BundleVerifies(Extend(Bytes(d), name, content),
                                           run[r].source.commit)
                         THEN "done" ELSE "failed"
           s == [run[r] EXCEPT !.made = made, !.state = state]
           file == [bytes |-> content, by |-> r]
<1>1. /\ run[r].state = "running" /\ name \notin DOMAIN dirs[d]
      /\ dirs' = [dirs EXCEPT ![d] = Extend(@, name, file)]
      /\ UNCHANGED <<head, candidate, packer>>
  BY DEF Write, FreeToCreate
<1>2. run' = [run EXCEPT ![r] = s]
  BY DEF Write, IInv, RunsSound
<1>3. /\ d \in Dirs /\ RunSound(run[r], head)
      /\ DOMAIN run[r].made \in FirstFiles /\ DOMAIN run[r].made # FileNames
  BY <1>1, RunIsSound
<1>4. /\ name \in FileNames /\ name \notin DOMAIN run[r].made
      /\ DOMAIN run[r].made \cup {name} \in FirstFiles
      /\ name = "manifest" <=> DOMAIN run[r].made \cup {name} = FileNames
  BY <1>3, NextInOrder DEF NextFile, FilesWritten
<1>5. MadeSound(name, content, run[r])
  BY <1>1, <1>4, ContentIsSound
<1>6. /\ IsFunction(made) /\ DOMAIN made = DOMAIN run[r].made \cup {name}
      /\ made[name] = content
      /\ \A n \in DOMAIN run[r].made : n # name => made[n] = run[r].made[n]
  BY DEF Extend, IsFunction
<1>7. /\ state \in {"running", "done", "failed"}
      /\ state = "running" => name # "manifest"
  OBVIOUS
<1> HIDE DEF name, content, made, state
<1>8. /\ DOMAIN s = {"state", "dir", "mode", "source", "wheels", "steady", "made"}
      /\ s.state = state /\ s.dir = run[r].dir /\ s.mode = run[r].mode
      /\ s.source = run[r].source /\ s.wheels = run[r].wheels
      /\ s.steady = run[r].steady /\ s.made = made
  BY <1>3 DEF RunSound
<1> HIDE DEF s
<1>9. RunSound(s, head)
  <2>1. \A n \in DOMAIN made : MadeSound(n, made[n], s)
    BY <1>3, <1>5, <1>6, <1>8 DEF RunSound, MadeSound
  <2>2. /\ s.state \in {"running", "done", "failed"}
        /\ s.state = "running" => DOMAIN made # FileNames
        /\ DOMAIN made \in FirstFiles
    BY <1>4, <1>6, <1>7, <1>8
  <2> QED
    BY <1>1, <1>3, <1>6, <1>8, <2>1, <2>2 DEF RunSound
<1>10. /\ RunsSound' /\ PackingSound' /\ Continues(run, run')
       /\ run'[r] = s /\ \A q \in Runs \ {r} : run'[q] = run[q]
  <2>1. /\ s.state # "idle" /\ s.dir = run[r].dir
        /\ \A n \in DOMAIN run[r].made :
             n \in DOMAIN s.made /\ s.made[n] = run[r].made[n]
    BY <1>4, <1>6, <1>7, <1>8
  <2> QED
    BY <1>1, <1>2, <1>3, <1>9, <2>1, OneRunMoves
<1>11. FileSound(d, name, file, run')
  BY <1>4, <1>6, <1>7, <1>8, <1>10 DEF FileSound
<1>12. content # Empty
  BY <1>4, <1>5, OtherKinds DEF MadeSound, FileNames
<1>13. /\ DirsSound'
       /\ \A e \in Dirs : \A n \in DOMAIN dirs[e] :
            n \in DOMAIN dirs'[e] /\ dirs'[e][n] = dirs[e][n]
       /\ name \in DOMAIN dirs'[d] /\ dirs'[d][name] = file
  <2> DEFINE g == Extend(dirs[d], name, file)
  <2>1. /\ d \in Dirs /\ name \notin DOMAIN dirs[d]
        /\ g = Extend(dirs[d], name, file) /\ dirs' = [dirs EXCEPT ![d] = g]
        /\ FileSound(d, name, file, run') /\ Continues(run, run')
    BY <1>1, <1>3, <1>10, <1>11
  <2> HIDE DEF d, file, g
  <2>2. DirsSound'
    BY <2>1, FileCreated
  <2>3. \A e \in Dirs : \A n \in DOMAIN dirs[e] :
          n \in DOMAIN dirs'[e] /\ dirs'[e][n] = dirs[e][n]
    BY <2>1, FileCreated
  <2>4. name \in DOMAIN dirs'[d] /\ dirs'[d][name] = file
    <3>1. name \in DOMAIN g /\ g[name] = file
      BY DEF g, Extend
    <3>2. dirs'[d] = g
      BY <2>1 DEF IInv, DirsSound
    <3> QED
      BY <3>1, <3>2
  <2> QED
    BY <2>2, <2>3, <2>4
<1>14. MadeStays'
  <2> SUFFICES ASSUME NEW q \in Runs, NEW n \in DOMAIN run'[q].made
               PROVE  /\ n \in DOMAIN dirs'[run'[q].dir]
                      /\ dirs'[run'[q].dir][n].by = q
                      /\ dirs'[run'[q].dir][n].bytes # Empty
    BY DEF MadeStays
  <2>1. CASE q = r /\ n = name
    BY <2>1, <1>8, <1>10, <1>12, <1>13
  <2>2. CASE ~(q = r /\ n = name)
    <3>1. n \in DOMAIN run[q].made /\ run'[q].dir = run[q].dir
      BY <2>2, <1>6, <1>8, <1>10
    <3>2. run[q].dir \in Dirs
      BY <3>1, RunIsSound DEF RunSound
    <3> QED
      BY <3>1, <3>2, <1>13 DEF IInv, MadeStays
  <2> QED
    BY <2>1, <2>2
<1> QED
  BY <1>10, <1>13, <1>14 DEF IInv
-----------------------------------------------------------------------------
(* What a verified directory holds.                                        *)

LEMMA BytesHeld ==
  ASSUME NEW d
  PROVE  /\ IsFunction(Bytes(d)) /\ DOMAIN Bytes(d) = DOMAIN dirs[d]
         /\ \A n \in DOMAIN dirs[d] : Bytes(d)[n] = dirs[d][n].bytes
BY DEF Bytes, IsFunction

\* The run that made its manifest made all of it.
LEMMA VerifiedIsMade ==
  ASSUME IInv, NEW d \in Dirs, NEW commit, BundleVerifies(Bytes(d), commit)
  PROVE  \E r \in Runs :
           /\ run[r].dir = d /\ DOMAIN run[r].made = FileNames
           /\ DOMAIN dirs[d] = FileNames
           /\ \A n \in FileNames :
                /\ dirs[d][n].by = r
                /\ dirs[d][n].bytes \in {run[r].made[n], Changed(d)}
<1> DEFINE m == "manifest"
<1>1. HasKind(Bytes(d), m, "manifest")
  BY DEF BundleVerifies
<1>2. m \in DOMAIN dirs[d] /\ dirs[d][m].bytes.kind = "manifest"
  BY <1>1, KindIsThere, BytesHeld
<1>3. FileSound(d, m, dirs[d][m], run)
  BY <1>2 DEF IInv, DirsSound
<1> DEFINE r == dirs[d][m].by
<1>4. r \in Runs /\ run[r].dir = d /\ m \in DOMAIN run[r].made
  BY <1>2, <1>3, OtherKinds DEF FileSound
<1>5. DOMAIN run[r].made = FileNames
  BY <1>4, RunIsSound, ManifestIsLast
<1>6. DOMAIN dirs[d] \subseteq FileNames
  BY DEF IInv, DirsSound, FileSound
<1>7. ASSUME NEW n \in FileNames
      PROVE  /\ n \in DOMAIN dirs[d] /\ dirs[d][n].by = r
             /\ dirs[d][n].bytes \in {run[r].made[n], Changed(d)}
  <2>1. /\ n \in DOMAIN dirs[d] /\ dirs[d][n].by = r
        /\ dirs[d][n].bytes # Empty
    BY <1>4, <1>5 DEF IInv, MadeStays
  <2>2. FileSound(d, n, dirs[d][n], run)
    BY <2>1 DEF IInv, DirsSound
  <2> QED
    BY <2>1, <2>2 DEF FileSound
<1> HIDE DEF r, m
<1> QED
  BY <1>4, <1>5, <1>6, <1>7

\* Two verified directories that agree hold what their runs made: a changed
\* file would tell them apart.
LEMMA AgreeingIsMade ==
  ASSUME IInv, NEW e \in Dirs, NEW p \in Dirs, e # p, NEW commit,
         BundleVerifies(Bytes(e), commit), BundleVerifies(Bytes(p), commit),
         Bytes(e) = Bytes(p)
  PROVE  \E r, s \in Runs :
           /\ r # s /\ DOMAIN run[r].made = FileNames
           /\ run[r].made = Bytes(e) /\ run[s].made = Bytes(e)
<1>1. PICK r \in Runs :
        /\ run[r].dir = e /\ DOMAIN run[r].made = FileNames
        /\ DOMAIN dirs[e] = FileNames
        /\ \A n \in FileNames :
             dirs[e][n].bytes \in {run[r].made[n], Changed(e)}
  BY VerifiedIsMade
<1>2. PICK s \in Runs :
        /\ run[s].dir = p /\ DOMAIN run[s].made = FileNames
        /\ DOMAIN dirs[p] = FileNames
        /\ \A n \in FileNames :
             dirs[p][n].bytes \in {run[s].made[n], Changed(p)}
  BY VerifiedIsMade
<1>3. ASSUME NEW n \in FileNames
      PROVE  /\ Bytes(e)[n] = run[r].made[n]
             /\ Bytes(e)[n] = run[s].made[n]
  <2>1. run[r].made[n].kind = n /\ run[s].made[n].kind = n
    <3>1. RunSound(run[r], head) /\ RunSound(run[s], head)
      BY RunIsSound
    <3>2. n \in DOMAIN run[r].made /\ n \in DOMAIN run[s].made
      BY <1>1, <1>2
    <3>3. /\ MadeSound(n, run[r].made[n], run[r])
          /\ MadeSound(n, run[s].made[n], run[s])
      BY <3>1, <3>2 DEF RunSound
    <3> QED
      BY <3>3 DEF MadeSound
  <2>2. n # "changed"
    BY DEF FileNames
  <2>3. /\ Changed(e) # Changed(p)
        /\ Changed(e).kind = "changed" /\ Changed(p).kind = "changed"
    BY OtherKinds
  <2>4. /\ Bytes(e)[n] = dirs[e][n].bytes /\ Bytes(e)[n] = dirs[p][n].bytes
    BY <1>1, <1>2, BytesHeld
  <2> QED
    BY <1>1, <1>2, <2>1, <2>2, <2>3, <2>4
<1>4. /\ IsFunction(run[r].made) /\ IsFunction(run[s].made)
      /\ IsFunction(Bytes(e)) /\ DOMAIN Bytes(e) = FileNames
  BY <1>1, RunIsSound, BytesHeld DEF IsFunction
<1>5. run[r].made = Bytes(e) /\ run[s].made = Bytes(e)
  BY <1>1, <1>2, <1>3, <1>4 DEF IsFunction
<1> QED
  BY <1>1, <1>2, <1>5

LEMMA AcceptSound ==
  ASSUME IInv, NEW e \in Dirs, NEW p \in Dirs, e # p, Accept(e, p)
  PROVE  IInv'
<1>1. /\ BundleVerifies(Bytes(e), head.commit)
      /\ BundleVerifies(Bytes(p), head.commit)
      /\ Bytes(e) = Bytes(p)
      /\ packer.state = "idle" /\ candidate = <<>>
      /\ packer' = [packer EXCEPT !.state = "accepted", !.source = head,
                      !.evidence = e, !.digest = dirs[e]["manifest"].bytes]
      /\ UNCHANGED <<head, dirs, run, candidate>>
  BY DEF Accept, SameEvidence
<1>2. PICK r \in Runs, s \in Runs :
        /\ r # s /\ DOMAIN run[r].made = FileNames
        /\ run[r].made = Bytes(e) /\ run[s].made = Bytes(e)
  BY <1>1, AgreeingIsMade
<1>3. /\ dirs[e]["manifest"].bytes = run[r].made["manifest"]
      /\ run[r].made["manifest"].artifacts = Without(run[r].made, "manifest")
  BY <1>1, <1>2, BytesHeld DEF BundleVerifies, FileNames
<1>4. Replayed(dirs[e]["manifest"].bytes, run)
  BY <1>2, <1>3 DEF Replayed
<1>5. /\ DOMAIN packer' = {"state", "source", "evidence", "digest", "assets"}
      /\ packer'.state = "accepted" /\ packer'.evidence = e
      /\ packer'.digest = dirs[e]["manifest"].bytes
  BY <1>1 DEF IInv, PackingSound
<1>6. RunsSound' /\ DirsSound' /\ MadeStays'
  BY <1>1 DEF IInv, RunsSound, DirsSound, MadeStays
<1>7. DOMAIN candidate = {}
  BY <1>1
<1>8. PackingSound'
  BY <1>1, <1>4, <1>5, <1>7 DEF PackingSound
<1> QED
  BY <1>6, <1>8 DEF IInv

LEMMA PackSound ==
  ASSUME IInv, Pack
  PROVE  IInv'
<1> DEFINE packed  == [evidence |-> Archive(Bytes(packer.evidence)),
                       wheels   |-> Archive(wheels)]
           release == ReleaseManifest(packer.source, packed, packer.digest)
           listed  == Extend(packed, "release", release)
           assets  == Extend(listed, "sums", Sums(listed))
<1>1. /\ packer.state = "accepted"
      /\ packer' = [packer EXCEPT !.state = "writing", !.assets = assets]
      /\ UNCHANGED <<head, dirs, run, candidate>>
  BY DEF Pack
<1>2. /\ assets["evidence"] = Archive(Bytes(packer.evidence))
      /\ assets["release"] = release
  BY DEF Extend
<1>3. assets["evidence"].files = Bytes(packer.evidence)
  BY <1>2 DEF Archive
<1>4. assets["release"].evidence = packer.digest
  BY <1>2 DEF ReleaseManifest
<1>5. IsFunction(assets["evidence"].files)
  BY <1>3, BytesHeld
<1> HIDE DEF assets
<1>6. /\ DOMAIN packer' = {"state", "source", "evidence", "digest", "assets"}
      /\ packer'.state = "writing" /\ packer'.evidence = packer.evidence
      /\ packer'.digest = packer.digest /\ packer'.assets = assets
  BY <1>1 DEF IInv, PackingSound
<1>7. RunsSound' /\ DirsSound' /\ MadeStays'
  BY <1>1 DEF IInv, RunsSound, DirsSound, MadeStays
<1>8. PackingSound'
  BY <1>1, <1>4, <1>5, <1>6 DEF IInv, PackingSound
<1> QED
  BY <1>7, <1>8 DEF IInv

LEMMA WriteAssetSound ==
  ASSUME IInv, WriteAsset
  PROVE  IInv'
<1>1. /\ packer.state = "writing"
      /\ UNCHANGED <<head, dirs, run, packer>>
      /\ candidate' = Extend(candidate, NextAsset, packer.assets[NextAsset])
  BY DEF WriteAsset
<1>2. RunsSound' /\ DirsSound' /\ MadeStays'
  BY <1>1 DEF IInv, RunsSound, DirsSound, MadeStays
<1>3. \A n \in DOMAIN candidate' : candidate'[n] = packer.assets[n]
  BY <1>1 DEF IInv, PackingSound, Extend
<1>4. PackingSound'
  BY <1>1, <1>3 DEF IInv, PackingSound
<1> QED
  BY <1>2, <1>4 DEF IInv

LEMMA StopPackingSound ==
  ASSUME IInv, StopPacking
  PROVE  IInv'
<1>1. /\ packer.state = "writing"
      /\ packer' = [packer EXCEPT !.state = "stopped"]
      /\ UNCHANGED <<head, dirs, run, candidate>>
  BY DEF StopPacking
<1>2. RunsSound' /\ DirsSound' /\ MadeStays'
  BY <1>1 DEF IInv, RunsSound, DirsSound, MadeStays
<1>3. /\ DOMAIN packer' = {"state", "source", "evidence", "digest", "assets"}
      /\ packer'.state = "stopped" /\ packer'.evidence = packer.evidence
      /\ packer'.digest = packer.digest /\ packer'.assets = packer.assets
  BY <1>1 DEF IInv, PackingSound
<1>4. PackingSound'
  BY <1>1, <1>3 DEF IInv, PackingSound
<1> QED
  BY <1>2, <1>4 DEF IInv
-----------------------------------------------------------------------------
(* The surroundings.                                                       *)

LEMMA MoveCheckoutSound ==
  ASSUME IInv, NEW h \in Heads, MoveCheckout(h)
  PROVE  IInv'
<1>1. /\ head' = h /\ run' = [q \in Runs |-> Disturbed(run[q])]
      /\ UNCHANGED <<dirs, candidate, packer>>
  BY DEF MoveCheckout
<1>2. ASSUME NEW q \in Runs
      PROVE  /\ RunSound(run'[q], h)
             /\ run'[q].state = run[q].state /\ run'[q].dir = run[q].dir
             /\ run'[q].made = run[q].made
  <2> DEFINE s == run'[q]
  <2>1. RunSound(run[q], head)
    BY RunIsSound
  <2>2. s = IF run[q].state = "running"
            THEN [run[q] EXCEPT !.steady = FALSE] ELSE run[q]
    BY <1>1 DEF Disturbed
  <2> HIDE DEF s
  <2>3. /\ DOMAIN s = {"state", "dir", "mode", "source", "wheels", "steady", "made"}
        /\ s.state = run[q].state /\ s.dir = run[q].dir
        /\ s.mode = run[q].mode /\ s.source = run[q].source
        /\ s.wheels = run[q].wheels /\ s.made = run[q].made
        /\ s.state = "running" => s.steady = FALSE
        /\ s.state # "running" => s.steady = run[q].steady
    BY <2>1, <2>2 DEF RunSound
  <2>4. \A n \in DOMAIN s.made : MadeSound(n, s.made[n], s)
    BY <2>1, <2>3 DEF RunSound, MadeSound
  <2>5. RunSound(s, h)
    BY <2>1, <2>3, <2>4 DEF RunSound
  <2> QED
    BY <2>3, <2>5 DEF s
<1>3. RunsSound'
  BY <1>1, <1>2 DEF RunsSound
<1>4. Continues(run, run')
  BY <1>2 DEF Continues
<1>5. DirsSound'
  BY <1>1, <1>4, FileStaysSound DEF IInv, DirsSound
<1>6. MadeStays'
  BY <1>1, <1>2 DEF IInv, MadeStays
<1>7. PackingSound'
  BY <1>1, <1>4, ReplayStays DEF IInv, PackingSound
<1> QED
  BY <1>3, <1>5, <1>6, <1>7 DEF IInv

LEMMA AlterEvidenceSound ==
  ASSUME IInv, NEW d \in Dirs, NEW name, AlterEvidence(d, name)
  PROVE  IInv'
<1> DEFINE file == [dirs[d][name] EXCEPT !.bytes = Changed(d)]
           g == [dirs[d] EXCEPT ![name] = file]
<1>1. /\ name \in DOMAIN dirs[d] /\ dirs' = [dirs EXCEPT ![d] = g]
      /\ UNCHANGED <<head, run, candidate, packer>>
  BY DEF AlterEvidence
<1>2. FileSound(d, name, dirs[d][name], run)
  BY <1>1 DEF IInv, DirsSound
<1>3. /\ DOMAIN file = {"bytes", "by"} /\ file.bytes = Changed(d)
      /\ file.by = dirs[d][name].by
  BY <1>2 DEF FileSound
<1> HIDE DEF file
<1>4. FileSound(d, name, file, run)
  BY <1>2, <1>3 DEF FileSound
<1>5. /\ DOMAIN g = DOMAIN dirs[d] /\ IsFunction(g) /\ g[name] = file
      /\ \A n \in DOMAIN dirs[d] : n # name => g[n] = dirs[d][n]
  BY <1>1 DEF IsFunction
<1> HIDE DEF g
<1>6. /\ dirs' = [e \in Dirs |-> dirs'[e]]
      /\ dirs'[d] = g /\ \A e \in Dirs \ {d} : dirs'[e] = dirs[e]
  BY <1>1 DEF IInv, DirsSound
<1>7. RunsSound' /\ PackingSound'
  BY <1>1 DEF IInv, RunsSound, PackingSound
<1>8. DirsSound'
  <2>1. \A n \in DOMAIN g : FileSound(d, n, g[n], run)
    BY <1>4, <1>5 DEF IInv, DirsSound
  <2>2. \A e \in Dirs :
          /\ IsFunction(dirs'[e])
          /\ \A n \in DOMAIN dirs'[e] : FileSound(e, n, dirs'[e][n], run)
    BY <2>1, <1>5, <1>6 DEF IInv, DirsSound
  <2> QED
    BY <2>2, <1>1, <1>6 DEF DirsSound
<1>9. MadeStays'
  <2> SUFFICES ASSUME NEW q \in Runs, NEW n \in DOMAIN run[q].made
               PROVE  /\ n \in DOMAIN dirs'[run[q].dir]
                      /\ dirs'[run[q].dir][n].by = q
                      /\ dirs'[run[q].dir][n].bytes # Empty
    BY <1>1 DEF MadeStays
  <2>1. /\ n \in DOMAIN dirs[run[q].dir]
        /\ dirs[run[q].dir][n].by = q
        /\ dirs[run[q].dir][n].bytes # Empty
    BY DEF IInv, MadeStays
  <2>2. run[q].dir \in Dirs
    BY RunIsSound DEF RunSound
  <2> QED
    BY <2>1, <2>2, <1>3, <1>5, <1>6, OtherKinds
<1> QED
  BY <1>7, <1>8, <1>9 DEF IInv

THEOREM Inductive == Spec => []IInv
<1>1. Init => IInv
  BY StartsSound
<1>2. IInv /\ [Next]_vars => IInv'
  <2> SUFFICES ASSUME IInv, [Next]_vars PROVE IInv'
    OBVIOUS
  <2>1. CASE PrepareWheelhouse \/ BuildWheels \/ FreezeWheelhouse
    BY <2>1, WheelsAreApart
    DEF PrepareWheelhouse, BuildWheels, FreezeWheelhouse
  <2>2. ASSUME NEW r \in Runs, NEW d \in Dirs,
               NEW mode \in {"isolated-wheels", "prepared-environment"},
               Begin(r, d, mode)
        PROVE  IInv'
    BY <2>2, BeginSound
  <2>3. ASSUME NEW r \in Runs, Write(r) \/ Refuse(r) \/ Crash(r)
        PROVE  IInv'
    BY <2>3, WriteSound, RefuseSound, CrashSound
  <2>4. ASSUME NEW e \in Dirs, NEW p \in Dirs, e # p, Accept(e, p)
        PROVE  IInv'
    BY <2>4, AcceptSound
  <2>5. CASE Pack \/ WriteAsset \/ StopPacking
    BY <2>5, PackSound, WriteAssetSound, StopPackingSound
  <2>6. ASSUME NEW h \in Heads, MoveCheckout(h)
        PROVE  IInv'
    BY <2>6, MoveCheckoutSound
  <2>7. ASSUME NEW d \in Dirs, NEW name, AlterEvidence(d, name)
        PROVE  IInv'
    BY <2>7, AlterEvidenceSound
  <2>8. ASSUME NEW name, AlterWheels(name)
        PROVE  IInv'
    BY <2>8, WheelsAreApart DEF AlterWheels
  <2>9. CASE UNCHANGED vars
    BY <2>9, WheelsAreApart DEF vars
  <2> QED
    BY <2>1, <2>2, <2>3, <2>4, <2>5, <2>6, <2>7, <2>8, <2>9 DEF Next
<1> QED
  BY <1>1, <1>2, PTL DEF Spec

-----------------------------------------------------------------------------
(* What the evidence is worth.                                             *)

\* A directory that verifies, at whatever moment, was written by one run alone
\* and to its end (finalize_bundle, verify_bundle): only that run's manifest
\* has the kind of one, and no file is created where there is one.
THEOREM OneRunBundles == Spec => []VerifiedBundleIsOneRun
<1>1. IInv => VerifiedBundleIsOneRun
  <2> SUFFICES ASSUME IInv, NEW d \in Dirs, NEW h \in Heads,
                      BundleVerifies(Bytes(d), h.commit)
               PROVE  \E r \in Runs :
                        /\ run[r].dir = d /\ FilesWritten(r) = Range(Files)
                        /\ \A n \in Range(Files) : dirs[d][n].by = r
    BY DEF VerifiedBundleIsOneRun
  <2> QED
    BY VerifiedIsMade, SixFiles DEF FilesWritten
<1> QED
  BY <1>1, Inductive, PTL

\* The evidence in a candidate that verifies: the release keeps the digest of
\* the accepted manifest, and the manifest lists every file.
LEMMA CandidateHolds ==
  ASSUME IInv, CandidateVerifies(candidate)
  PROVE  LET e == candidate["evidence"].files IN
         /\ DOMAIN e = FileNames
         /\ \E r, s \in Runs : /\ r # s /\ run[r].made = e /\ run[s].made = e
<1> DEFINE e == candidate["evidence"].files
<1>1. /\ "evidence" \in DOMAIN candidate /\ "release" \in DOMAIN candidate
      /\ BundleVerifies(e, head.commit)
      /\ e["manifest"] = candidate["release"].evidence
  <2>1. {"evidence", "release"} \subseteq Range(AssetOrder)
    <3>1. AssetOrder[1] = "evidence" /\ AssetOrder[3] = "release"
          /\ 1 \in DOMAIN AssetOrder /\ 3 \in DOMAIN AssetOrder
      BY DEF AssetOrder
    <3> QED
      BY <3>1 DEF Range
  <2> QED
    BY <2>1 DEF CandidateVerifies
<1>2. /\ candidate["evidence"] = packer.assets["evidence"]
      /\ candidate["release"] = packer.assets["release"]
      /\ packer.state \in {"writing", "stopped"}
      /\ IsFunction(packer.assets["evidence"].files)
      /\ packer.assets["release"].evidence = packer.digest
      /\ Replayed(packer.digest, run)
  BY <1>1 DEF IInv, PackingSound
<1>3. IsFunction(e) /\ e["manifest"] = packer.digest
  BY <1>1, <1>2
<1> HIDE DEF e
<1>4. PICK r \in Runs, s \in Runs :
        /\ r # s /\ run[s].made = run[r].made
        /\ DOMAIN run[r].made = FileNames
        /\ packer.digest = run[r].made["manifest"]
        /\ packer.digest.artifacts = Without(run[r].made, "manifest")
  BY <1>2 DEF Replayed
<1>5. /\ "manifest" \in DOMAIN e
      /\ e["manifest"].artifacts = Without(e, "manifest")
  BY <1>1 DEF BundleVerifies
<1>6. IsFunction(run[r].made)
  BY RunIsSound DEF IsFunction
<1>7. e = run[r].made
  BY <1>3, <1>4, <1>5, <1>6, WithoutAndName DEF FileNames
<1> QED
  BY <1>4, <1>7 DEF e

\* The evidence in a candidate that verifies is, file for file, what two runs
\* wrote with the wheels the candidate carries (create_candidate,
\* verify_candidate).
THEOREM CandidateReplayed == Spec => []CandidateIsReplayed
<1>1. IInv => CandidateIsReplayed
  <2> SUFFICES ASSUME IInv, CandidateVerifies(candidate)
               PROVE  \E r, s \in Runs :
                        /\ r # s /\ Wrote(r) /\ Wrote(s)
                        /\ run[r].wheels = candidate["wheels"].files["manifest"]
    BY DEF CandidateIsReplayed
  <2> DEFINE e == candidate["evidence"].files
             w == candidate["wheels"].files
  <2>1. DOMAIN e = FileNames
    BY CandidateHolds
  <2>2. PICK r \in Runs, s \in Runs :
          r # s /\ run[r].made = e /\ run[s].made = e
    BY CandidateHolds
  <2>3. e["summary"].wheels = Read(w, "manifest")
    BY DEF CandidateVerifies, WheelsMatch
  <2>4. HasKind(w, "manifest", "wheelManifest")
    BY DEF CandidateVerifies, WheelhouseVerifies
  <2> HIDE DEF e, w
  <2>5. e["summary"].wheels = w["manifest"]
    BY <2>3, <2>4, KindIsThere DEF Read
  <2>6. e["summary"].wheels = run[r].wheels
    <3>1. RunSound(run[r], head)
      BY RunIsSound
    <3>2. MadeSound("summary", e["summary"], run[r])
      BY <3>1, <2>1, <2>2 DEF RunSound, FileNames
    <3> QED
      BY <3>2 DEF MadeSound, Outcomes
  <2> QED
    BY <2>2, <2>5, <2>6 DEF Wrote, e, w
<1> QED
  BY <1>1, Inductive, PTL

\* It names the clean checkout it verifies at, and one undisturbed run makes
\* all of its outcomes those of that commit (source_identity).
THEOREM CandidateAttributed == Spec => []CandidateIsAttributed
<1>1. IInv => CandidateIsAttributed
  <2> DEFINE e == candidate["evidence"].files
  <2> SUFFICES ASSUME IInv, CandidateVerifies(candidate)
               PROVE  /\ e["provenance"].source = head
                      /\ \A q \in Runs : Wrote(q) /\ run[q].steady =>
                           \A n \in Outcomes : e[n].code = head
    BY DEF CandidateIsAttributed
  <2>1. DOMAIN e = FileNames
    BY CandidateHolds
  <2>2. PICK r \in Runs : run[r].made = e
    BY CandidateHolds
  <2>3. ASSUME NEW q \in Runs, run[q].made = e
        PROVE  /\ RunSound(run[q], head) /\ run[q].state # "idle"
               /\ e["provenance"].source = run[q].source
               /\ e["summary"].mode = run[q].mode
               /\ run[q].steady = TRUE =>
                    \A n \in Outcomes : e[n].code = run[q].source
    <3>1. RunSound(run[q], head)
      BY RunIsSound
    <3> HIDE DEF e
    <3> QED
      BY <3>1, <2>1, <2>3 DEF RunSound, MadeSound, FileNames, Outcomes
  <2>4. /\ BundleVerifies(e, head.commit) /\ OutcomesAsserted(e)
        /\ head.clean
    BY DEF CandidateVerifies
  <2> HIDE DEF e
  <2>5. /\ e["provenance"].source.commit = head.commit
        /\ e["summary"].mode = "isolated-wheels" /\ head.clean = TRUE
    BY <2>4 DEF BundleVerifies, OutcomesAsserted
  <2>6. /\ run[r].source \in Heads /\ head \in Heads
        /\ run[r].source.clean = TRUE
    BY <2>2, <2>3, <2>5 DEF RunSound, IInv, RunsSound
  <2>7. run[r].source = head
    BY <2>2, <2>3, <2>5, <2>6, BundleAssumption
  <2> QED
    BY <2>2, <2>3, <2>7 DEF Wrote, e
<1> QED
  BY <1>1, Inductive, PTL

-----------------------------------------------------------------------------
(* The consumers: any cases, keys, times and contracts.  A signature names *)
(* the transcript it was made over, and the transcript every member, so a  *)
(* packet whose signature is accepted is one that somebody signed.         *)

\* Packets and inputs as records.
IsEnvelope(e) ==
  e = [type |-> e.type, keyId |-> e.keyId, at |-> e.at, payload |-> e.payload,
       digest |-> e.digest, signature |-> e.signature]
IsPacket(p) ==
  p = [case |-> p.case, policy |-> p.policy, materials |-> p.materials,
       dossier |-> p.dossier, handoff |-> p.handoff, envelope |-> p.envelope]
IsInput(i) ==
  i = [source |-> i.source, receipt |-> i.receipt, completion |-> i.completion,
       handoff |-> i.handoff, envelope |-> i.envelope]

\* What a producer signed, and what was assembled and signed for DORAOps.
SignedPacket(p) ==
  /\ IsPacket(p)
  /\ \E k \in DOMAIN GovKeys, m \in Material, at \in SigningTimes :
       p.envelope = Envelope(GovType, k, m, at, Transcript(p))
SignedInput(i) ==
  /\ IsInput(i)
  /\ \E k \in DOMAIN DoraKeys, m \in Material, at \in ConsumptionTimes :
       i.envelope = Envelope(DoraType, k, m, at, DoraTranscript(i))

\* The signatures that somebody made.
Signatures ==
  {p.envelope.signature : p \in produced}
    \cup {i.envelope.signature : i \in assembled}

\* On its way an envelope may be lost or altered, but nobody else signs.
EnvelopeSound(e) ==
  \/ e = NoEnvelope
  \/ /\ IsEnvelope(e)
     /\ e.signature \in Signatures \/ e.signature.material = NoMaterial

PacketSound(p) == IsPacket(p) /\ EnvelopeSound(p.envelope)

SignedSound ==
  /\ \A p \in produced : SignedPacket(p)
  /\ \A i \in assembled : SignedInput(i)

TravelSound ==
  /\ packet # NoPacket =>
       /\ PacketSound(packet)
       /\ altered = FALSE => packet \in produced
  /\ input # NoPacket =>
       /\ IsInput(input) /\ EnvelopeSound(input.envelope)
       /\ PacketSound(input.source)
       /\ altered = FALSE => input \in assembled /\ input.source \in produced

ReceiptsSound == GovReceiptIsEarned /\ DoraReceiptIsEarned /\ ClosedIsRetested

ConsumerInv ==
  altered \in BOOLEAN /\ SignedSound /\ TravelSound /\ ReceiptsSound

-----------------------------------------------------------------------------
(* What a signature is worth.                                              *)

LEMMA EnvelopeFields ==
  ASSUME NEW type, NEW k, NEW m, NEW at, NEW payload
  PROVE  LET e == Envelope(type, k, m, at, payload) IN
         /\ IsEnvelope(e)
         /\ e.type = type /\ e.keyId = k /\ e.at = at
         /\ e.payload = payload /\ e.digest = payload
         /\ e.signature = [material |-> m, type |-> type, digest |-> payload,
                           keyId |-> k, at |-> at]
  BY DEF Envelope, IsEnvelope

LEMMA TypesDiffer == GovType # DoraType
  BY DEF GovType, DoraType

\* A transcript determines the members it was made of.
LEMMA TranscriptSeals ==
  /\ \A p, q : Transcript(p) = Transcript(q) =>
       /\ p.case = q.case /\ p.policy = q.policy /\ p.materials = q.materials
       /\ p.dossier = q.dossier /\ p.handoff = q.handoff
  /\ \A i, j : DoraTranscript(i) = DoraTranscript(j) =>
       /\ i.source = j.source /\ i.receipt = j.receipt
       /\ i.completion = j.completion /\ i.handoff = j.handoff
<1>1. ASSUME NEW p, NEW q, Transcript(p) = Transcript(q)
      PROVE  /\ p.case = q.case /\ p.policy = q.policy
             /\ p.materials = q.materials
             /\ p.dossier = q.dossier /\ p.handoff = q.handoff
  <2>1. \A x \in {"case", "policy", "materials", "dossier", "handoff"} :
          Transcript(p)[x] = Transcript(q)[x]
    BY <1>1
  <2>2. QED
    BY <2>1 DEF Transcript
<1>2. ASSUME NEW i, NEW j, DoraTranscript(i) = DoraTranscript(j)
      PROVE  /\ i.source = j.source /\ i.receipt = j.receipt
             /\ i.completion = j.completion /\ i.handoff = j.handoff
  <2>1. \A x \in {"source", "receipt", "completion", "handoff"} :
          DoraTranscript(i)[x] = DoraTranscript(j)[x]
    BY <1>2
  <2>2. QED
    BY <2>1 DEF DoraTranscript
<1>3. QED
  BY <1>1, <1>2

\* An accepted signature is one that somebody made.
LEMMA AcceptedIsSigned ==
  ASSUME NEW keys, NEW e, EnvelopeSound(e), e # NoEnvelope,
         e.keyId \in DOMAIN keys, keys[e.keyId].material \in Material,
         SignedBy(keys, e)
  PROVE  /\ IsEnvelope(e)
         /\ e.signature \in Signatures
         /\ e.signature.material = keys[e.keyId].material
         /\ e.signature.type = e.type /\ e.signature.digest = e.digest
         /\ e.signature.keyId = e.keyId /\ e.signature.at = e.at
<1>1. /\ e.signature.material = keys[e.keyId].material
      /\ e.signature.type = e.type /\ e.signature.digest = e.digest
      /\ e.signature.keyId = e.keyId /\ e.signature.at = e.at
  BY DEF SignedBy
<1>2. e.signature.material # NoMaterial
  BY <1>1, GovAssumption
<1>3. QED
  BY <1>1, <1>2 DEF EnvelopeSound

LEMMA ValidPacketWasProduced ==
  ASSUME SignedSound, NEW p, PacketSound(p), NEW t, ValidPacket(p, t)
  PROVE  /\ p \in produced
         /\ p.envelope.signature.material = GovKeys[p.envelope.keyId].material
<1> DEFINE e == p.envelope
<1>1. /\ e # NoEnvelope /\ e.type = GovType
      /\ e.keyId \in DOMAIN GovKeys
      /\ e.payload = e.digest /\ e.payload = Transcript(p)
      /\ SignedBy(GovKeys, e)
  BY DEF ValidPacket, SignatureAccepted, KeyTrusted
<1>2. EnvelopeSound(e) /\ IsPacket(p)
  BY DEF PacketSound
<1> HIDE DEF e
<1>3. /\ IsEnvelope(e) /\ e.signature \in Signatures
      /\ e.signature.material = GovKeys[e.keyId].material
      /\ e.signature.type = GovType /\ e.signature.digest = Transcript(p)
      /\ e.signature.keyId = e.keyId /\ e.signature.at = e.at
  BY <1>1, <1>2, GovAssumption, AcceptedIsSigned
<1>4. ASSUME NEW i \in assembled
      PROVE  e.signature # i.envelope.signature
  <2>1. PICK k \in DOMAIN DoraKeys, m \in Material, at \in ConsumptionTimes :
          i.envelope = Envelope(DoraType, k, m, at, DoraTranscript(i))
    BY DEF SignedSound, SignedInput
  <2>2. i.envelope.signature =
          [material |-> m, type |-> DoraType, digest |-> DoraTranscript(i),
           keyId |-> k, at |-> at]
    BY <2>1, EnvelopeFields
  <2>3. QED
    BY <1>3, <2>2, TypesDiffer
<1>5. PICK q \in produced : e.signature = q.envelope.signature
  BY <1>3, <1>4 DEF Signatures
<1>6. IsPacket(q)
  BY DEF SignedSound, SignedPacket
<1>7. PICK k \in DOMAIN GovKeys, m \in Material, at \in SigningTimes :
        q.envelope = Envelope(GovType, k, m, at, Transcript(q))
  BY DEF SignedSound, SignedPacket
<1>8. /\ IsEnvelope(q.envelope)
      /\ q.envelope.type = GovType /\ q.envelope.keyId = k
      /\ q.envelope.at = at /\ q.envelope.payload = Transcript(q)
      /\ q.envelope.digest = Transcript(q)
      /\ q.envelope.signature =
           [material |-> m, type |-> GovType, digest |-> Transcript(q),
            keyId |-> k, at |-> at]
  BY <1>7, EnvelopeFields
<1>9. Transcript(q) = Transcript(p) /\ e.keyId = k /\ e.at = at
  BY <1>3, <1>5, <1>8
<1>10. e = q.envelope
  BY <1>1, <1>3, <1>5, <1>8, <1>9 DEF IsEnvelope
<1>11. p = q
  BY <1>2, <1>6, <1>9, <1>10, TranscriptSeals DEF IsPacket, e
<1>12. QED
  BY <1>3, <1>11 DEF e

LEMMA ValidInputWasAssembled ==
  ASSUME SignedSound, NEW i, IsInput(i), EnvelopeSound(i.envelope), NEW t,
         ValidInput(i, t)
  PROVE  /\ i \in assembled
         /\ i.envelope.signature.material = DoraKeys[i.envelope.keyId].material
<1> DEFINE e == i.envelope
<1>1. /\ e # NoEnvelope /\ e.type = DoraType
      /\ e.keyId \in DOMAIN DoraKeys
      /\ e.payload = e.digest /\ e.payload = DoraTranscript(i)
      /\ SignedBy(DoraKeys, e)
      /\ EnvelopeSound(e)
  BY DEF ValidInput, DoraSignatureAccepted, KeyTrusted
<1> HIDE DEF e
<1>2. /\ IsEnvelope(e) /\ e.signature \in Signatures
      /\ e.signature.material = DoraKeys[e.keyId].material
      /\ e.signature.type = DoraType /\ e.signature.digest = DoraTranscript(i)
      /\ e.signature.keyId = e.keyId /\ e.signature.at = e.at
  BY <1>1, DoraAssumption, AcceptedIsSigned
<1>3. ASSUME NEW p \in produced
      PROVE  e.signature # p.envelope.signature
  <2>1. PICK k \in DOMAIN GovKeys, m \in Material, at \in SigningTimes :
          p.envelope = Envelope(GovType, k, m, at, Transcript(p))
    BY DEF SignedSound, SignedPacket
  <2>2. p.envelope.signature =
          [material |-> m, type |-> GovType, digest |-> Transcript(p),
           keyId |-> k, at |-> at]
    BY <2>1, EnvelopeFields
  <2>3. QED
    BY <1>2, <2>2, TypesDiffer
<1>4. PICK j \in assembled : e.signature = j.envelope.signature
  BY <1>2, <1>3 DEF Signatures
<1>5. IsInput(j)
  BY DEF SignedSound, SignedInput
<1>6. PICK k \in DOMAIN DoraKeys, m \in Material, at \in ConsumptionTimes :
        j.envelope = Envelope(DoraType, k, m, at, DoraTranscript(j))
  BY DEF SignedSound, SignedInput
<1>7. /\ IsEnvelope(j.envelope)
      /\ j.envelope.type = DoraType /\ j.envelope.keyId = k
      /\ j.envelope.at = at /\ j.envelope.payload = DoraTranscript(j)
      /\ j.envelope.digest = DoraTranscript(j)
      /\ j.envelope.signature =
           [material |-> m, type |-> DoraType, digest |-> DoraTranscript(j),
            keyId |-> k, at |-> at]
  BY <1>6, EnvelopeFields
<1>8. DoraTranscript(j) = DoraTranscript(i) /\ e.keyId = k /\ e.at = at
  BY <1>2, <1>4, <1>7
<1>9. e = j.envelope
  BY <1>1, <1>2, <1>4, <1>7, <1>8 DEF IsEnvelope
<1>10. i = j
  BY <1>5, <1>8, <1>9, TranscriptSeals DEF IsInput, e
<1>11. QED
  BY <1>2, <1>10 DEF e

-----------------------------------------------------------------------------
(* What a receipt vouches for.                                             *)

LEMMA GovReceiptEarned ==
  ASSUME SignedSound, NEW p, PacketSound(p), NEW at, ValidPacket(p, at)
  PROVE  LET key == GovKeys[p.envelope.keyId] IN
         /\ p \in produced
         /\ p.envelope.signature.material = key.material
         /\ key.from <= p.envelope.at /\ at < key.until
         /\ key.revokedAt # NoTime => at < key.revokedAt
         /\ p.case.collectedAt <= p.dossier.assessedAt
         /\ p.dossier.assessedAt <= p.handoff.createdAt
         /\ p.handoff.createdAt <= p.envelope.at
         /\ p.envelope.at <= at
         /\ p.handoff.until # NoTime /\ at < p.handoff.until
  BY ValidPacketWasProduced DEF ValidPacket, HandoffCurrent, MaterialsBound,
     SignatureAccepted, KeyTrusted

LEMMA DoraReceiptEarned ==
  ASSUME SignedSound, NEW i, IsInput(i), EnvelopeSound(i.envelope),
         PacketSound(i.source), NEW at, ValidInput(i, at)
  PROVE  LET p == i.source
             govKey == GovKeys[p.envelope.keyId]
             doraKey == DoraKeys[i.envelope.keyId] IN
         /\ i \in assembled /\ p \in produced
         /\ i.envelope.signature.material = doraKey.material
         /\ p.envelope.signature.material = govKey.material
         /\ \A key \in {govKey, doraKey} :
              /\ at < key.until
              /\ key.revokedAt # NoTime => at < key.revokedAt
         /\ at < p.handoff.until /\ at < DoraUntil
         /\ p.envelope.at <= i.receipt.verifiedAt
         /\ i.receipt.verifiedAt <= DoraCreatedAt
         /\ DoraCreatedAt <= i.envelope.at /\ i.envelope.at <= at
<1> DEFINE p == i.source
           govKey == GovKeys[p.envelope.keyId]
           doraKey == DoraKeys[i.envelope.keyId]
<1>1. /\ ValidPacket(p, GovVerifiedAt) /\ ValidPacket(p, at)
      /\ i.receipt.verifiedAt = GovVerifiedAt
      /\ GovVerifiedAt <= i.handoff.createdAt
  <2>1. UpstreamReconsumed(i, at)
    BY DEF ValidInput
  <2>2. QED
    BY <2>1 DEF UpstreamReconsumed, GovReceipt
<1>2. /\ i.handoff.createdAt = DoraCreatedAt /\ at < DoraUntil
      /\ KeyTrusted(DoraKeys, i.envelope, i.handoff.createdAt, at)
  BY DEF ValidInput, DoraHandoffCurrent, DoraSignatureAccepted
<1>3. /\ at < doraKey.until
      /\ doraKey.revokedAt # NoTime => at < doraKey.revokedAt
      /\ DoraCreatedAt <= i.envelope.at /\ i.envelope.at <= at
  BY <1>2 DEF KeyTrusted
<1>4. /\ i \in assembled
      /\ i.envelope.signature.material = doraKey.material
  BY ValidInputWasAssembled
<1>5. /\ p \in produced
      /\ p.envelope.signature.material = govKey.material
      /\ at < govKey.until
      /\ govKey.revokedAt # NoTime => at < govKey.revokedAt
      /\ at < p.handoff.until
  BY <1>1, GovReceiptEarned
<1>6. p.envelope.at <= GovVerifiedAt
  BY <1>1, GovReceiptEarned
<1> HIDE DEF p, govKey, doraKey
<1>7. /\ p.envelope.at <= i.receipt.verifiedAt
      /\ i.receipt.verifiedAt <= DoraCreatedAt
  BY <1>1, <1>2, <1>6
<1>8. QED
  BY <1>2, <1>3, <1>4, <1>5, <1>7 DEF p, govKey, doraKey

LEMMA ClosedMeansRetested ==
  ASSUME NEW i, NEW at, ValidInput(i, at), NativeAccepts(i),
         FindingStatus(i.source.case) = "closed"
  PROVE  /\ i.source.case.retest # NoRetest
         /\ i.source.case.retest.outcome = "effective"
         /\ i.source.case.retest.by = Reviewer
         /\ Reviewer # i.source.case.owner
         /\ i.source.case.plannedAt <= i.completion.completedAt
         /\ i.completion.completedAt <= i.source.case.retest.at
         /\ i.source.case.retest.at <= i.source.dossier.assessedAt
         /\ i.source.case.confirmed /\ ~i.source.case.acceptance
<1>1. /\ RetestRecorded(i.source.case)
      /\ i.source.case.retest.outcome # "ineffective"
  BY DEF FindingStatus
<1>2. /\ i.source.case.retest # NoRetest
      /\ i.source.case.retest.outcome = "effective"
  BY <1>1 DEF RetestRecorded
<1>3. /\ i.source.case.retest.by = Reviewer
      /\ i.completion.completedAt <= i.source.case.retest.at
  BY <1>1 DEF NativeAccepts
<1>4. /\ Reviewer # i.source.case.owner
      /\ i.source.case.plannedAt <= i.completion.completedAt
      /\ i.source.case.confirmed /\ ~i.source.case.acceptance
  BY DEF ValidInput, ReviewerIndependent, CompletionCurrent,
     ConfirmedMitigation
<1>5. i.source.case.retest.at <= i.source.dossier.assessedAt
  <2>1. i.source.case.retest.at \in StageTimes(i.source.case)
    BY <1>2 DEF StageTimes
  <2>2. QED
    BY <2>1 DEF ValidInput, StagesSupported
<1>6. QED
  BY <1>2, <1>3, <1>4, <1>5

-----------------------------------------------------------------------------
(* Alterations on the way.                                                 *)

IsSignature(g) ==
  g = [material |-> g.material, type |-> g.type, digest |-> g.digest,
       keyId |-> g.keyId, at |-> g.at]

\* What may become of an envelope e.
EnvelopesFrom(e) ==
  {NoEnvelope, [e EXCEPT !.type = "other"],
   [e EXCEPT !.signature.material = NoMaterial]}
  \cup {[e EXCEPT !.keyId = k] :
          k \in DOMAIN GovKeys \cup DOMAIN DoraKeys \cup {UnknownKey}}
  \cup {[e EXCEPT !.at = t] : t \in Time}

\* An altered envelope has the signature it had, or none that fits a key.
LEMMA AlteredEnvelopeIsSound ==
  ASSUME NEW e, IsEnvelope(e), e.signature \in Signatures,
         IsSignature(e.signature), NEW f \in EnvelopesFrom(e)
  PROVE  EnvelopeSound(f)
<1>1. CASE f = NoEnvelope
  BY <1>1 DEF EnvelopeSound
<1>2. CASE f = [e EXCEPT !.signature.material = NoMaterial]
  <2>1. IsEnvelope(f) /\ f.signature = [e.signature EXCEPT !.material = NoMaterial]
    BY <1>2 DEF IsEnvelope
  <2>2. f.signature.material = NoMaterial
    BY <2>1 DEF IsSignature
  <2>3. QED
    BY <2>1, <2>2 DEF EnvelopeSound
<1>3. CASE f # NoEnvelope /\ f # [e EXCEPT !.signature.material = NoMaterial]
  <2>1. \/ f = [e EXCEPT !.type = "other"]
        \/ \E k : f = [e EXCEPT !.keyId = k]
        \/ \E t : f = [e EXCEPT !.at = t]
    BY <1>3 DEF EnvelopesFrom
  <2>2. IsEnvelope(f) /\ f.signature = e.signature
    BY <2>1 DEF IsEnvelope
  <2>3. QED
    BY <2>2 DEF EnvelopeSound
<1>4. QED
  BY <1>1, <1>2, <1>3

LEMMA SignedFields ==
  ASSUME SignedSound
  PROVE  /\ \A p \in produced :
              /\ IsPacket(p) /\ IsEnvelope(p.envelope)
              /\ p.envelope.signature \in Signatures
              /\ IsSignature(p.envelope.signature)
         /\ \A i \in assembled :
              /\ IsInput(i) /\ IsEnvelope(i.envelope)
              /\ i.envelope.signature \in Signatures
              /\ IsSignature(i.envelope.signature)
<1>1. ASSUME NEW p \in produced
      PROVE  /\ IsPacket(p) /\ IsEnvelope(p.envelope)
             /\ p.envelope.signature \in Signatures
             /\ IsSignature(p.envelope.signature)
  <2>1. PICK k \in DOMAIN GovKeys, m \in Material, at \in SigningTimes :
          p.envelope = Envelope(GovType, k, m, at, Transcript(p))
    BY DEF SignedSound, SignedPacket
  <2>2. IsEnvelope(p.envelope) /\ IsSignature(p.envelope.signature)
    BY <2>1 DEF Envelope, IsEnvelope, IsSignature
  <2>3. QED
    BY <2>2 DEF SignedSound, SignedPacket, Signatures
<1>2. ASSUME NEW i \in assembled
      PROVE  /\ IsInput(i) /\ IsEnvelope(i.envelope)
             /\ i.envelope.signature \in Signatures
             /\ IsSignature(i.envelope.signature)
  <2>1. PICK k \in DOMAIN DoraKeys, m \in Material, at \in ConsumptionTimes :
          i.envelope = Envelope(DoraType, k, m, at, DoraTranscript(i))
    BY DEF SignedSound, SignedInput
  <2>2. IsEnvelope(i.envelope) /\ IsSignature(i.envelope.signature)
    BY <2>1 DEF Envelope, IsEnvelope, IsSignature
  <2>3. QED
    BY <2>2 DEF SignedSound, SignedInput, Signatures
<1>3. QED
  BY <1>1, <1>2

\* A packet with one member altered is one still.
LEMMA AlteredPacketIsSound ==
  ASSUME SignedSound, NEW p \in produced, NEW q \in AlteredPackets(p)
  PROVE  PacketSound(q)
<1>1. /\ IsPacket(p) /\ IsEnvelope(p.envelope)
      /\ p.envelope.signature \in Signatures
      /\ IsSignature(p.envelope.signature)
  BY SignedFields
<1>2. ASSUME NEW r \in AlteredMembers(p)
      PROVE  IsPacket(r) /\ r.envelope = p.envelope
  <2>1. \/ \E c \in Cases : r = [p EXCEPT !.case = c]
        \/ \E x \in Policies : r = [p EXCEPT !.policy = x]
        \/ \E m \in Materials : r = [p EXCEPT !.materials = m]
        \/ \E d : r = [p EXCEPT !.dossier = d]
        \/ \E h : r = [p EXCEPT !.handoff = h]
    BY DEF AlteredMembers
  <2>2. QED
    BY <1>1, <2>1 DEF IsPacket
<1>3. ASSUME NEW r \in AlteredMembers(p)
      PROVE  PacketSound(r) /\ PacketSound(Refitted(r))
  <2>1. IsPacket(r) /\ r.envelope = p.envelope
    BY <1>2
  <2>2. PacketSound(r)
    BY <1>1, <2>1 DEF PacketSound, EnvelopeSound
  <2>3. Refitted(r) =
          [case |-> r.case, policy |-> r.policy, materials |-> r.materials,
           dossier |-> r.dossier, handoff |-> r.handoff,
           envelope |->
             [type |-> p.envelope.type, keyId |-> p.envelope.keyId,
              at |-> p.envelope.at, payload |-> Transcript(r),
              digest |-> Transcript(r), signature |-> p.envelope.signature]]
    <3> DEFINE t == Transcript(r)
               half == [r EXCEPT !.envelope.payload = t]
    <3>1. Refitted(r) = [half EXCEPT !.envelope.digest = t]
      BY DEF Refitted
    <3> HIDE DEF t
    <3>2. half = [r EXCEPT !.envelope = [p.envelope EXCEPT !.payload = t]]
      BY <2>1
    <3>3. half =
            [case |-> r.case, policy |-> r.policy, materials |-> r.materials,
             dossier |-> r.dossier, handoff |-> r.handoff,
             envelope |->
               [type |-> p.envelope.type, keyId |-> p.envelope.keyId,
                at |-> p.envelope.at, payload |-> t,
                digest |-> p.envelope.digest,
                signature |-> p.envelope.signature]]
      <4>1. [p.envelope EXCEPT !.payload = t] =
              [type |-> p.envelope.type, keyId |-> p.envelope.keyId,
               at |-> p.envelope.at, payload |-> t,
               digest |-> p.envelope.digest,
               signature |-> p.envelope.signature]
        BY <1>1 DEF IsEnvelope
      <4>2. QED
        BY <2>1, <3>2, <4>1 DEF IsPacket
    <3> HIDE DEF half
    <3>4. QED
      BY <3>1, <3>3 DEF t
  <2>4. /\ IsPacket(Refitted(r)) /\ IsEnvelope(Refitted(r).envelope)
        /\ Refitted(r).envelope.signature = p.envelope.signature
    BY <2>3 DEF IsPacket, IsEnvelope
  <2>5. QED
    BY <1>1, <2>2, <2>3, <2>4 DEF PacketSound, EnvelopeSound
<1>4. ASSUME NEW e, q = [p EXCEPT !.envelope = e], EnvelopeSound(e)
      PROVE  PacketSound(q)
  <2>1. IsPacket(q) /\ q.envelope = e
    BY <1>1, <1>4 DEF IsPacket
  <2>2. QED
    BY <1>4, <2>1 DEF PacketSound
<1>5. \/ q \in AlteredMembers(p)
      \/ \E r \in AlteredMembers(p) : q = Refitted(r)
      \/ \E e \in EnvelopesFrom(p.envelope) : q = [p EXCEPT !.envelope = e]
  BY DEF AlteredPackets, EnvelopesFrom
<1>6. QED
  BY <1>1, <1>3, <1>4, <1>5, AlteredEnvelopeIsSound

LEMMA AlteredInputIsSound ==
  ASSUME SignedSound, NEW i \in assembled, i.source \in produced,
         NEW j \in AlteredInputs(i)
  PROVE  IsInput(j) /\ EnvelopeSound(j.envelope) /\ PacketSound(j.source)
<1>1. /\ IsInput(i) /\ IsEnvelope(i.envelope)
      /\ i.envelope.signature \in Signatures
      /\ IsSignature(i.envelope.signature)
      /\ EnvelopeSound(i.envelope)
      /\ PacketSound(i.source) /\ EnvelopeSound(i.source.envelope)
  BY SignedFields DEF EnvelopeSound, PacketSound
<1>2. \/ \E p \in AlteredPackets(i.source) : j = [i EXCEPT !.source = p]
      \/ \E x : j = [i EXCEPT !.receipt = x]
      \/ \E x : j = [i EXCEPT !.completion = x]
      \/ \E x : j = [i EXCEPT !.handoff = x]
      \/ \E e \in EnvelopesFrom(i.envelope) : j = [i EXCEPT !.envelope = e]
      \/ j = [i EXCEPT !.envelope = i.source.envelope]
  BY DEF AlteredInputs, EnvelopesFrom
<1>3. CASE \E p \in AlteredPackets(i.source) : j = [i EXCEPT !.source = p]
  <2>1. PICK p \in AlteredPackets(i.source) : j = [i EXCEPT !.source = p]
    BY <1>3
  <2>2. IsInput(j) /\ j.envelope = i.envelope /\ j.source = p
    BY <1>1, <2>1 DEF IsInput
  <2>3. QED
    BY <1>1, <2>2, AlteredPacketIsSound
<1>4. CASE \/ \E x : j = [i EXCEPT !.receipt = x]
           \/ \E x : j = [i EXCEPT !.completion = x]
           \/ \E x : j = [i EXCEPT !.handoff = x]
  <2>1. IsInput(j) /\ j.envelope = i.envelope /\ j.source = i.source
    BY <1>1, <1>4 DEF IsInput
  <2>2. QED
    BY <1>1, <2>1
<1>5. ASSUME NEW e, j = [i EXCEPT !.envelope = e], EnvelopeSound(e)
      PROVE  IsInput(j) /\ EnvelopeSound(j.envelope) /\ PacketSound(j.source)
  <2>1. IsInput(j) /\ j.envelope = e /\ j.source = i.source
    BY <1>1, <1>5 DEF IsInput
  <2>2. QED
    BY <1>1, <1>5, <2>1
<1>6. \A e \in EnvelopesFrom(i.envelope) : EnvelopeSound(e)
  BY <1>1, AlteredEnvelopeIsSound
<1>7. QED
  BY <1>1, <1>2, <1>3, <1>4, <1>5, <1>6

-----------------------------------------------------------------------------
(* The invariant is inductive.                                             *)

\* Whoever signs something adds to what was signed, and unsettles nothing.
LEMMA SignaturesGrow ==
  ASSUME SignedSound, TravelSound,
         produced \subseteq produced', assembled \subseteq assembled'
  PROVE  /\ Signatures \subseteq Signatures'
         /\ \A e : EnvelopeSound(e) => EnvelopeSound(e)'
         /\ \A p : PacketSound(p) => PacketSound(p)'
<1>1. Signatures \subseteq Signatures'
  BY DEF Signatures
<1>2. \A e : EnvelopeSound(e) => EnvelopeSound(e)'
  BY <1>1 DEF EnvelopeSound
<1>3. QED
  BY <1>1, <1>2 DEF PacketSound

\* Receipts stay worth what they were, as what was signed stays.
LEMMA ReceiptsStay ==
  ASSUME ReceiptsSound, produced \subseteq produced',
         assembled \subseteq assembled'
  PROVE  /\ govReceipt' = govReceipt => GovReceiptIsEarned'
         /\ doraReceipt' = doraReceipt =>
              DoraReceiptIsEarned' /\ ClosedIsRetested'
<1>1. govReceipt' = govReceipt => GovReceiptIsEarned'
  BY DEF ReceiptsSound, GovReceiptIsEarned
<1>2. doraReceipt' = doraReceipt => DoraReceiptIsEarned'
  BY DEF ReceiptsSound, DoraReceiptIsEarned
<1>3. doraReceipt' = doraReceipt => ClosedIsRetested'
  BY DEF ReceiptsSound, ClosedIsRetested
<1>4. QED
  BY <1>1, <1>2, <1>3

LEMMA ProduceKeeps ==
  ASSUME ConsumerInv,
         NEW c \in Cases, NEW x \in Policies, NEW a \in ProductionTimes,
         NEW t \in CreationTimes, NEW u \in ExpiryTimes,
         NEW k \in DOMAIN GovKeys, NEW m \in Material, NEW s \in SigningTimes,
         Produce(c, x, a, t, u, k, m, s)
  PROVE  ConsumerInv'
<1> DEFINE members == Members(c, x, a, t, u)
           e == Envelope(GovType, k, m, s, Transcript(members))
           signed == [members EXCEPT !.envelope = e]
<1>1. /\ produced' = produced \cup {signed} /\ packet' = signed
      /\ UNCHANGED <<govReceipt, assembled, input, doraReceipt, altered>>
  BY DEF Produce
<1>2. IsPacket(signed) /\ signed.envelope = e
      /\ Transcript(signed) = Transcript(members)
  <2>1. IsPacket(members)
    BY DEF Members, IsPacket
  <2> HIDE DEF members, e
  <2>2. /\ IsPacket(signed) /\ signed.envelope = e
        /\ signed.case = members.case /\ signed.policy = members.policy
        /\ signed.materials = members.materials
        /\ signed.dossier = members.dossier /\ signed.handoff = members.handoff
    BY <2>1 DEF IsPacket
  <2> HIDE DEF signed
  <2>3. QED
    BY <2>2 DEF Transcript
<1>3. SignedPacket(signed)
  <2>1. e = Envelope(GovType, k, m, s, Transcript(signed))
    BY <1>2
  <2> HIDE DEF e, signed
  <2>2. QED
    BY <1>2, <2>1 DEF SignedPacket
<1> HIDE DEF signed, e, members
<1>4. SignedSound'
  BY <1>1, <1>3 DEF ConsumerInv, SignedSound
<1>5. /\ \A f : EnvelopeSound(f) => EnvelopeSound(f)'
      /\ \A p : PacketSound(p) => PacketSound(p)'
  BY <1>1, SignaturesGrow DEF ConsumerInv
<1>6. PacketSound(signed)'
  <2>1. IsEnvelope(signed.envelope)
    BY <1>2 DEF e, Envelope, IsEnvelope
  <2>2. signed.envelope.signature \in Signatures'
    BY <1>1 DEF Signatures
  <2>3. QED
    BY <1>2, <2>1, <2>2 DEF PacketSound, EnvelopeSound
<1>7. TravelSound'
  BY <1>1, <1>5, <1>6 DEF ConsumerInv, TravelSound
<1>8. ReceiptsSound'
  BY <1>1, ReceiptsStay DEF ConsumerInv, ReceiptsSound
<1>9. QED
  BY <1>1, <1>4, <1>7, <1>8 DEF ConsumerInv

LEMMA AssembleKeeps ==
  ASSUME ConsumerInv,
         NEW receipt, NEW completion \in Completions,
         NEW k \in DOMAIN DoraKeys, NEW m \in Material,
         NEW s \in ConsumptionTimes, Assemble(receipt, completion, k, m, s)
  PROVE  ConsumerInv'
<1> DEFINE members == [source |-> packet, receipt |-> receipt,
                       completion |-> completion,
                       handoff |-> DoraHandoff(packet, receipt, completion),
                       envelope |-> NoEnvelope]
           e == Envelope(DoraType, k, m, s, DoraTranscript(members))
           signed == [members EXCEPT !.envelope = e]
<1>1. /\ packet # NoPacket
      /\ assembled' = assembled \cup {signed} /\ input' = signed
      /\ UNCHANGED <<produced, packet, govReceipt, doraReceipt, altered>>
  BY DEF Assemble
<1>2. /\ IsInput(signed) /\ signed.envelope = e /\ signed.source = packet
      /\ DoraTranscript(signed) = DoraTranscript(members)
  <2>1. IsInput(members) /\ members.source = packet
    BY DEF IsInput
  <2> HIDE DEF members, e
  <2>2. /\ IsInput(signed) /\ signed.envelope = e
        /\ signed.source = members.source /\ signed.receipt = members.receipt
        /\ signed.completion = members.completion
        /\ signed.handoff = members.handoff
    BY <2>1 DEF IsInput
  <2> HIDE DEF signed
  <2>3. QED
    BY <2>1, <2>2 DEF DoraTranscript
<1>3. SignedInput(signed)
  <2>1. e = Envelope(DoraType, k, m, s, DoraTranscript(signed))
    BY <1>2
  <2> HIDE DEF e, signed
  <2>2. QED
    BY <1>2, <2>1 DEF SignedInput
<1>4. IsEnvelope(signed.envelope)
  BY <1>2 DEF Envelope, IsEnvelope
<1> HIDE DEF signed, e, members
<1>5. PICK i : /\ i = signed /\ SignedInput(i) /\ IsInput(i)
               /\ i.source = packet /\ IsEnvelope(i.envelope)
  BY <1>2, <1>3, <1>4
<1>6. assembled' = assembled \cup {i} /\ input' = i
  BY <1>1, <1>5
<1>7. SignedSound'
  BY <1>1, <1>5, <1>6 DEF ConsumerInv, SignedSound
<1>8. \A p : PacketSound(p) => PacketSound(p)'
  BY <1>1, SignaturesGrow DEF ConsumerInv
<1>9. EnvelopeSound(i.envelope)'
  <2>1. i.envelope.signature \in Signatures'
    BY <1>6 DEF Signatures
  <2>2. QED
    BY <1>5, <2>1 DEF EnvelopeSound
<1>10. TravelSound'
  <2>1. /\ PacketSound(i.source)
        /\ altered = FALSE => i.source \in produced
        /\ PacketSound(packet)
        /\ altered = FALSE => packet \in produced
    BY <1>1, <1>5 DEF ConsumerInv, TravelSound
  <2>2. PacketSound(i.source)'
    BY <1>8, <2>1
  <2>3. PacketSound(packet)'
    BY <1>1, <1>5, <2>2
  <2>4. QED
    BY <1>1, <1>5, <1>6, <1>9, <2>1, <2>2, <2>3 DEF TravelSound
<1>11. ReceiptsSound'
  BY <1>1, ReceiptsStay DEF ConsumerInv, ReceiptsSound
<1>12. QED
  BY <1>1, <1>7, <1>10, <1>11 DEF ConsumerInv

LEMMA AlterKeeps ==
  ASSUME ConsumerInv, AlterPacket \/ AlterInput
  PROVE  ConsumerInv'
<1>1. /\ UNCHANGED <<produced, govReceipt, assembled, doraReceipt>>
      /\ altered = FALSE /\ altered' = TRUE
  BY DEF AlterPacket, AlterInput, ConsumerInv
<1>2. SignedSound'
  BY <1>1 DEF ConsumerInv, SignedSound
<1>3. /\ \A f : EnvelopeSound(f) => EnvelopeSound(f)'
      /\ \A p : PacketSound(p) => PacketSound(p)'
  BY <1>1, SignaturesGrow DEF ConsumerInv
<1>4. CASE AlterPacket
  <2>1. /\ packet \in produced /\ packet' \in AlteredPackets(packet)
        /\ input' = input /\ input = NoPacket
    BY <1>1, <1>4 DEF AlterPacket, ConsumerInv, TravelSound
  <2>2. PICK q : q = packet' /\ PacketSound(q)
    BY <2>1, AlteredPacketIsSound DEF ConsumerInv
  <2>3. PacketSound(q)'
    BY <1>3, <2>2
  <2>4. TravelSound'
    BY <1>1, <2>1, <2>2, <2>3 DEF TravelSound
  <2>5. QED
    BY <1>1, <1>2, <2>4, ReceiptsStay DEF ConsumerInv, ReceiptsSound
<1>5. CASE AlterInput
  <2>1. /\ input \in assembled /\ input.source \in produced
        /\ input' \in AlteredInputs(input) /\ packet' = packet
    BY <1>1, <1>5 DEF AlterInput, ConsumerInv, TravelSound
  <2>2. PICK j : /\ j = input' /\ IsInput(j) /\ EnvelopeSound(j.envelope)
                 /\ PacketSound(j.source)
    BY <2>1, AlteredInputIsSound DEF ConsumerInv
  <2>3. EnvelopeSound(j.envelope)' /\ PacketSound(j.source)'
    BY <1>3, <2>2
  <2>4. TravelSound'
    BY <1>1, <1>3, <2>1, <2>2, <2>3 DEF ConsumerInv, TravelSound
  <2>5. QED
    BY <1>1, <1>2, <2>4, ReceiptsStay DEF ConsumerInv, ReceiptsSound
<1>6. QED
  BY <1>4, <1>5

LEMMA ConsumeGovKeeps ==
  ASSUME ConsumerInv, NEW t \in ConsumptionTimes, ConsumeGov(t)
  PROVE  ConsumerInv'
<1>1. PICK p : p = packet /\ PacketSound(p) /\ ValidPacket(p, t)
  BY DEF ConsumeGov, ConsumerInv, TravelSound
<1>2. /\ govReceipt' = [packet |-> p, verifiedAt |-> t]
      /\ UNCHANGED <<produced, packet, assembled, input, doraReceipt, altered>>
  BY <1>1 DEF ConsumeGov, GovReceipt
<1>3. SignedSound'
  BY <1>2 DEF ConsumerInv, SignedSound
<1>4. /\ \A e : EnvelopeSound(e) => EnvelopeSound(e)'
      /\ \A q : PacketSound(q) => PacketSound(q)'
  BY <1>2, SignaturesGrow DEF ConsumerInv
<1>5. TravelSound'
  BY <1>2, <1>4 DEF ConsumerInv, TravelSound
<1>6. GovReceiptIsEarned'
  <2>1. govReceipt'.packet = p /\ govReceipt'.verifiedAt = t
    BY <1>2
  <2>2. LET key == GovKeys[p.envelope.keyId] IN
        /\ p \in produced
        /\ p.envelope.signature.material = key.material
        /\ key.from <= p.envelope.at /\ t < key.until
        /\ key.revokedAt # NoTime => t < key.revokedAt
        /\ p.case.collectedAt <= p.dossier.assessedAt
        /\ p.dossier.assessedAt <= p.handoff.createdAt
        /\ p.handoff.createdAt <= p.envelope.at
        /\ p.envelope.at <= t
        /\ p.handoff.until # NoTime /\ t < p.handoff.until
    BY <1>1, GovReceiptEarned DEF ConsumerInv
  <2>3. QED
    BY <1>2, <2>1, <2>2 DEF GovReceiptIsEarned
<1>7. DoraReceiptIsEarned' /\ ClosedIsRetested'
  BY <1>2, ReceiptsStay DEF ConsumerInv
<1>8. QED
  BY <1>2, <1>3, <1>5, <1>6, <1>7 DEF ConsumerInv, ReceiptsSound

LEMMA ConsumeDoraKeeps ==
  ASSUME ConsumerInv, NEW t \in ConsumptionTimes, ConsumeDora(t)
  PROVE  ConsumerInv'
<1>1. PICK i : /\ i = input /\ IsInput(i) /\ EnvelopeSound(i.envelope)
               /\ PacketSound(i.source)
               /\ ValidInput(i, t) /\ NativeAccepts(i)
  BY DEF ConsumeDora, ConsumerInv, TravelSound
<1>2. /\ doraReceipt' = [input |-> i, verifiedAt |-> t,
                         status |-> FindingStatus(i.source.case)]
      /\ UNCHANGED <<produced, packet, govReceipt, assembled, input, altered>>
  BY <1>1 DEF ConsumeDora, DoraReceipt
<1>3. SignedSound'
  BY <1>2 DEF ConsumerInv, SignedSound
<1>4. /\ \A e : EnvelopeSound(e) => EnvelopeSound(e)'
      /\ \A q : PacketSound(q) => PacketSound(q)'
  BY <1>2, SignaturesGrow DEF ConsumerInv
<1>5. TravelSound'
  BY <1>2, <1>4 DEF ConsumerInv, TravelSound
<1>6. GovReceiptIsEarned'
  BY <1>2, ReceiptsStay DEF ConsumerInv
<1>7. /\ doraReceipt'.input = i /\ doraReceipt'.verifiedAt = t
      /\ doraReceipt'.status = FindingStatus(i.source.case)
  BY <1>2
<1>8. DoraReceiptIsEarned'
  <2>1. LET p == i.source
            govKey == GovKeys[p.envelope.keyId]
            doraKey == DoraKeys[i.envelope.keyId] IN
        /\ i \in assembled /\ p \in produced
        /\ i.envelope.signature.material = doraKey.material
        /\ p.envelope.signature.material = govKey.material
        /\ \A key \in {govKey, doraKey} :
             /\ t < key.until
             /\ key.revokedAt # NoTime => t < key.revokedAt
        /\ t < p.handoff.until /\ t < DoraUntil
        /\ p.envelope.at <= i.receipt.verifiedAt
        /\ i.receipt.verifiedAt <= DoraCreatedAt
        /\ DoraCreatedAt <= i.envelope.at /\ i.envelope.at <= t
    BY <1>1, DoraReceiptEarned DEF ConsumerInv
  <2>2. QED
    BY <1>2, <1>7, <2>1 DEF DoraReceiptIsEarned
<1>9. ClosedIsRetested'
  <2>1. SUFFICES ASSUME FindingStatus(i.source.case) = "closed"
                 PROVE  ClosedIsRetested'
    BY <1>7 DEF ClosedIsRetested
  <2>2. /\ i.source.case.retest # NoRetest
        /\ i.source.case.retest.outcome = "effective"
        /\ i.source.case.retest.by = Reviewer
        /\ Reviewer # i.source.case.owner
        /\ i.source.case.plannedAt <= i.completion.completedAt
        /\ i.completion.completedAt <= i.source.case.retest.at
        /\ i.source.case.retest.at <= i.source.dossier.assessedAt
        /\ i.source.case.confirmed /\ ~i.source.case.acceptance
    BY <1>1, <2>1, ClosedMeansRetested
  <2>3. QED
    BY <1>7, <2>2 DEF ClosedIsRetested
<1>10. QED
  BY <1>2, <1>3, <1>5, <1>6, <1>8, <1>9 DEF ConsumerInv, ReceiptsSound

\* ConsumerInv is an invariant of the consumers: every signature that travels
\* was made by a producer or by whoever assembled an input, or is corrupted, so
\* that what validate_packet accepts is what was signed.
THEOREM ConsumerInductive == ConsumerSpec => []ConsumerInv
<1>1. ConsumerInit => ConsumerInv
  BY DEF ConsumerInit, ConsumerInv, SignedSound, TravelSound, ReceiptsSound,
     GovReceiptIsEarned, DoraReceiptIsEarned, ClosedIsRetested
<1>2. ConsumerInv /\ [ConsumerNext]_consumerVars => ConsumerInv'
  <2> SUFFICES ASSUME ConsumerInv, [ConsumerNext]_consumerVars
               PROVE  ConsumerInv'
    OBVIOUS
  <2>1. CASE \E c \in Cases, x \in Policies, a \in ProductionTimes,
                t \in CreationTimes, u \in ExpiryTimes,
                k \in DOMAIN GovKeys, m \in Material,
                s \in SigningTimes : Produce(c, x, a, t, u, k, m, s)
    BY <2>1, ProduceKeeps
  <2>2. CASE AlterPacket \/ AlterInput
    BY <2>2, AlterKeeps
  <2>3. CASE \E t \in ConsumptionTimes : ConsumeGov(t)
    BY <2>3, ConsumeGovKeeps
  <2>4. CASE \E t \in ConsumptionTimes, c \in Completions,
                k \in DOMAIN DoraKeys, m \in Material,
                s \in ConsumptionTimes :
               Assemble(GovReceipt(packet, t), c, k, m, s)
    <3>1. PICK t \in ConsumptionTimes, c \in Completions,
               k \in DOMAIN DoraKeys, m \in Material, s \in ConsumptionTimes :
            Assemble(GovReceipt(packet, t), c, k, m, s)
      BY <2>4
    <3>2. PICK receipt : receipt = GovReceipt(packet, t)
      OBVIOUS
    <3>3. Assemble(receipt, c, k, m, s)
      BY <3>1, <3>2
    <3>4. QED
      BY <3>3, AssembleKeeps
  <2>5. CASE \E t \in ConsumptionTimes : ConsumeDora(t)
    BY <2>5, ConsumeDoraKeeps
  <2>6. CASE UNCHANGED consumerVars
    <3>1. UNCHANGED <<produced, packet, govReceipt, assembled, input,
                      doraReceipt, altered>>
      BY <2>6 DEF consumerVars
    <3>2. SignedSound'
      BY <3>1 DEF ConsumerInv, SignedSound
    <3>3. TravelSound'
      BY <3>1, SignaturesGrow DEF ConsumerInv, TravelSound
    <3>4. ReceiptsSound'
      BY <3>1, ReceiptsStay DEF ConsumerInv, ReceiptsSound
    <3>5. QED
      BY <3>1, <3>2, <3>3, <3>4 DEF ConsumerInv
  <2>7. QED
    BY <2>1, <2>2, <2>3, <2>4, <2>5, <2>6 DEF ConsumerNext
<1>3. QED
  BY <1>1, <1>2, PTL DEF ConsumerSpec

\* A receipt of DataGovOps vouches for a packet that some producer signed as
\* it is, with a key trusted when it was consumed (datagovops_demo consume).
THEOREM GovReceiptVouches == ConsumerSpec => []GovReceiptIsEarned
<1>1. ConsumerInv => GovReceiptIsEarned
  BY DEF ConsumerInv, ReceiptsSound
<1>2. QED
  BY <1>1, ConsumerInductive, PTL

\* A receipt of DORAOps rests on an input as it was signed for DORAOps and on a
\* packet as it was produced, whatever receipt came with it (doraops_demo
\* consume, which runs validate_packet of datagovops_demo again).
THEOREM DoraReceiptVouches == ConsumerSpec => []DoraReceiptIsEarned
<1>1. ConsumerInv => DoraReceiptIsEarned
  BY DEF ConsumerInv, ReceiptsSound
<1>2. QED
  BY <1>1, ConsumerInductive, PTL

\* DORAOps closes a finding on an effective, independent and later retest only
\* (build_native_records).
THEOREM ClosureRetested == ConsumerSpec => []ClosedIsRetested
<1>1. ConsumerInv => ClosedIsRetested
  BY DEF ConsumerInv, ReceiptsSound
<1>2. QED
  BY <1>1, ConsumerInductive, PTL
=============================================================================
