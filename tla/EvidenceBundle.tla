---------------------------- MODULE EvidenceBundle ----------------------------
(***************************************************************************)
(* From a checkout to a release candidate.  prepare_wheelhouse builds and  *)
(* freezes the wheels, each demo run writes an evidence directory file by  *)
(* file, its manifest last, and create_candidate packs one run's evidence  *)
(* with the wheels once a second run has produced the same bytes.          *)
(* Meanwhile a developer may move or edit the checkout, any process may    *)
(* stop between two writes or in the middle of one, two runs may be given  *)
(* same directory, and files may be changed after they were written, no    *)
(* two of them alike.                                                      *)
(*   a head is a checkout, [commit, clean], and the code that runs from it *)
(*   a file is [bytes, by]: what it holds and the run that created it      *)
(***************************************************************************)
EXTENDS Naturals, Sequences, Functions, FiniteSets

CONSTANTS
  Runs, Dirs,
  Heads,           \* the checkouts that occur
  NoDir,
  MaxDisturbances  \* bound: moves of the checkout, changed files and stops

ASSUME BundleAssumption ==
  /\ IsFiniteSet(Runs) /\ IsFiniteSet(Dirs) /\ NoDir \notin Dirs
  /\ \A h \in Heads : /\ h = [commit |-> h.commit, clean |-> h.clean]
                     /\ h.clean \in BOOLEAN
  /\ MaxDisturbances \in Nat

VARIABLES
  head,        \* the checkout
  wheels,      \* file -> bytes of the wheelhouse
  builder,     \* "idle", "building", "freezing", "done" or "stopped"
  dirs,        \* directory -> file -> [bytes, by]
  run,         \* run -> [state, dir, mode, source, wheels, steady, made]
  candidate,   \* asset -> bytes
  packer,      \* [state, source, evidence, digest, assets]
  disturbances

vars == <<head, wheels, builder, dirs, run, candidate, packer, disturbances>>

\* The files of a run, in the order it writes them; each stands for a group of
\* the generated files.
Files == <<"consumers", "summary", "presentation", "provenance", "report", "manifest">>

Outcomes == {"consumers", "summary"}

Extend(f, name, value) == [n \in DOMAIN f \cup {name} |->
                             IF n = name THEN value ELSE f[n]]

Restriction(f, names) == [n \in DOMAIN f \cap names |-> f[n]]

Without(f, name) == Restriction(f, DOMAIN f \ {name})

Empty   == [kind |-> "empty"]
Changed(where) == [kind |-> "changed", where |-> where]
Absent  == [kind |-> "absent"]

\* The program parses what it reads: neither an empty nor a changed document
\* passes for one.
Read(f, name) == IF name \in DOMAIN f THEN f[name] ELSE Absent

HasKind(f, name, kind) == Read(f, name).kind = kind

-----------------------------------------------------------------------------
(* The wheelhouse.                                                         *)

WheelManifest(w, source) ==
  [kind |-> "wheelManifest", source |-> source, project |-> w["project"]]

Requirements(project) == [kind |-> "requirements", project |-> project]

\* Mutant: the recorded commit suffices, edits or not.
WheelhouseVerifiesEdited(w) ==
  /\ HasKind(w, "manifest", "wheelManifest")
  /\ w["manifest"].source.commit = head.commit
  /\ Read(w, "project") = w["manifest"].project
  /\ Read(w, "requirements") = Requirements(w["manifest"].project)

WheelhouseVerifies(w) ==
  /\ HasKind(w, "manifest", "wheelManifest")
  /\ w["manifest"].source = head /\ head.clean
  /\ Read(w, "project") = w["manifest"].project
  /\ Read(w, "requirements") = Requirements(w["manifest"].project)

-----------------------------------------------------------------------------
(* An evidence directory, given as file -> bytes.                          *)

Presentation(f, source) ==
  [kind |-> "presentation", source |-> source, of |-> Restriction(f, Outcomes)]

PresentationVerifies(f) ==
  /\ \A n \in Outcomes : HasKind(f, n, n)
  /\ HasKind(f, "provenance", "provenance")
  /\ Read(f, "presentation") = Presentation(f, f["provenance"].source)

Manifest(f, source) ==
  [kind |-> "manifest", commit |-> source.commit, artifacts |-> f]

BundleVerifies(f, commit) ==
  /\ {"manifest", "report", "provenance", "summary"} \subseteq DOMAIN f
  /\ HasKind(f, "manifest", "manifest")
  /\ f["manifest"].artifacts = Without(f, "manifest")
  /\ HasKind(f, "provenance", "provenance")
  /\ f["provenance"].source.commit = f["manifest"].commit
  /\ f["manifest"].commit = commit

OutcomesAsserted(f) ==
  /\ HasKind(f, "summary", "summary")
  /\ f["summary"].mode = "isolated-wheels"
  /\ PresentationVerifies(f)

Bytes(d) == [n \in DOMAIN dirs[d] |-> dirs[d][n].bytes]

-----------------------------------------------------------------------------
(* What a run writes, from the checkout it finds at that moment, and where *)
(* it stops.                                                               *)

FilesWritten(r) == DOMAIN run[r].made

NextFile(r) == Files[Cardinality(FilesWritten(r)) + 1]

Outcome(name, r) ==
  [kind |-> name, code |-> head, mode |-> run[r].mode, wheels |-> run[r].wheels]

Content(name, r) ==
  LET f == Bytes(run[r].dir) IN
  CASE name \in Outcomes      -> Outcome(name, r)
    [] name = "presentation"  -> Presentation(f, run[r].source)
    [] name = "provenance"    -> [kind |-> "provenance", source |-> run[r].source]
    [] name = "report"        -> [kind |-> "report", source |-> run[r].source]
    [] name = "manifest"      -> Manifest(f, run[r].source)

\* Mutant: an existing file is opened for writing.
FreeToCreateAny(d, name) == TRUE

\* Files are opened with "xb".
FreeToCreate(d, name) == name \notin DOMAIN dirs[d]

\* The presentation is derived from the outcomes and refuses unreadable ones.
Derivable(r, name) ==
  name = "presentation" =>
    \A n \in Outcomes : HasKind(Bytes(run[r].dir), n, n)

NewRun == [state |-> "idle", dir |-> NoDir, mode |-> "isolated-wheels",
           source |-> head, wheels |-> Absent, steady |-> TRUE, made |-> <<>>]

Init ==
  /\ head \in {h \in Heads : h.clean}
  /\ wheels = <<>> /\ builder = "idle"
  /\ dirs = [d \in Dirs |-> <<>>]
  /\ run = [r \in Runs |-> NewRun]
  /\ candidate = <<>>
  /\ packer = [state |-> "idle", source |-> head, evidence |-> NoDir,
               digest |-> Absent, assets |-> <<>>]
  /\ disturbances = 0

\* Bounds what the surroundings may do.
Disturb == disturbances < MaxDisturbances /\ disturbances' = disturbances + 1

-----------------------------------------------------------------------------
(* prepare_wheelhouse and freeze_wheelhouse.                               *)

PrepareWheelhouse ==
  /\ builder = "idle" /\ head.clean
  /\ builder' = "building"
  /\ UNCHANGED <<head, wheels, dirs, run, candidate, packer, disturbances>>

BuildWheels ==
  /\ builder = "building"
  /\ wheels' = [project |-> head]
  /\ builder' = "freezing"
  /\ UNCHANGED <<head, dirs, run, candidate, packer, disturbances>>

\* requirements.txt, then the manifest; the process may stop between them, or
\* find the checkout edited.
FreezeWheelhouse ==
  /\ builder = "freezing"
  /\ IF head.clean
     THEN \/ /\ wheels' = [project |-> wheels["project"],
                           requirements |-> Requirements(wheels["project"]),
                           manifest |-> WheelManifest(wheels, head)]
             /\ builder' = "done"
          \/ /\ wheels' = Extend(wheels, "requirements", Requirements(wheels["project"]))
             /\ builder' = "stopped"
     ELSE builder' = "stopped" /\ UNCHANGED wheels
  /\ UNCHANGED <<head, dirs, run, candidate, packer, disturbances>>

-----------------------------------------------------------------------------
(* run_demo: the identity of the checkout is read once, at the start.      *)

Begin(r, d, mode) ==
  /\ run[r].state = "idle"
  /\ dirs[d] = <<>>
  /\ mode = "isolated-wheels" => WheelhouseVerifies(wheels)
  /\ run' = [run EXCEPT ![r] =
       [@ EXCEPT !.state = "running", !.dir = d, !.mode = mode, !.source = head,
                 !.wheels = IF mode = "isolated-wheels" THEN wheels["manifest"]
                            ELSE Absent]]
  /\ UNCHANGED <<head, wheels, builder, dirs, candidate, packer, disturbances>>

\* The next file, whole; after the manifest the bundle is verified.
Write(r) ==
  /\ run[r].state = "running"
  /\ LET d == run[r].dir  name == NextFile(r)  content == Content(name, r)
         verified == BundleVerifies(Extend(Bytes(d), name, content), run[r].source.commit)
     IN
     /\ FreeToCreate(d, name) /\ Derivable(r, name)
     /\ dirs' = [dirs EXCEPT ![d] = Extend(@, name, [bytes |-> content, by |-> r])]
     /\ run' = [run EXCEPT
          ![r].made = Extend(@, name, content),
          ![r].state = IF name # "manifest" THEN "running"
                       ELSE IF verified THEN "done" ELSE "failed"]
  /\ UNCHANGED <<head, wheels, builder, candidate, packer, disturbances>>

\* The next file exists, or cannot be derived.
Refuse(r) ==
  /\ run[r].state = "running"
  /\ ~(FreeToCreate(run[r].dir, NextFile(r)) /\ Derivable(r, NextFile(r)))
  /\ run' = [run EXCEPT ![r].state = "failed"]
  /\ UNCHANGED <<head, wheels, builder, dirs, candidate, packer, disturbances>>

\* The process ends between two files, or between opening one and writing it.
Crash(r) ==
  /\ run[r].state = "running"
  /\ Disturb
  /\ run' = [run EXCEPT ![r].state = "failed"]
  /\ LET d == run[r].dir  name == NextFile(r) IN
     \/ UNCHANGED dirs
     \/ /\ FreeToCreate(d, name)
        /\ dirs' = [dirs EXCEPT ![d] = Extend(@, name, [bytes |-> Empty, by |-> r])]
  /\ UNCHANGED <<head, wheels, builder, candidate, packer>>

-----------------------------------------------------------------------------
(* create_candidate and verify_candidate.                                  *)

AssetOrder == <<"evidence", "wheels", "release", "sums">>

\* Mutant: the replay is verified, but not compared.
SameEvidenceUnread(e, p) == e["manifest"].commit = p["manifest"].commit

SameEvidence(e, p) == e = p

WheelsMatch(f, w) == f["summary"].wheels = Read(w, "manifest")

ReleaseManifest(source, assets, digest) ==
  [kind |-> "release", source |-> source, assets |-> assets, evidence |-> digest]

Sums(assets) == [kind |-> "sums", of |-> assets]

\* Everything is verified, then read again to be packed.
Accept(e, p) ==
  /\ packer.state = "idle" /\ candidate = <<>>
  /\ head.clean
  /\ BundleVerifies(Bytes(e), head.commit) /\ BundleVerifies(Bytes(p), head.commit)
  /\ WheelhouseVerifies(wheels)
  /\ OutcomesAsserted(Bytes(e))
  /\ SameEvidence(Bytes(e), Bytes(p)) /\ WheelsMatch(Bytes(e), wheels)
  /\ packer' = [packer EXCEPT !.state = "accepted", !.source = head,
                              !.evidence = e, !.digest = dirs[e]["manifest"].bytes]
  /\ UNCHANGED <<head, wheels, builder, dirs, run, candidate, disturbances>>

Archive(f) == [kind |-> "archive", files |-> f]

Pack ==
  /\ packer.state = "accepted"
  /\ LET packed  == [evidence |-> Archive(Bytes(packer.evidence)),
                     wheels   |-> Archive(wheels)]
         release == ReleaseManifest(packer.source, packed, packer.digest)
         listed  == Extend(packed, "release", release)
     IN packer' = [packer EXCEPT !.state = "writing",
                                 !.assets = Extend(listed, "sums", Sums(listed))]
  /\ UNCHANGED <<head, wheels, builder, dirs, run, candidate, disturbances>>

NextAsset == AssetOrder[Cardinality(DOMAIN candidate) + 1]

WriteAsset ==
  /\ packer.state = "writing" /\ Cardinality(DOMAIN candidate) < Len(AssetOrder)
  /\ candidate' = Extend(candidate, NextAsset, packer.assets[NextAsset])
  /\ UNCHANGED <<head, wheels, builder, dirs, run, packer, disturbances>>

StopPacking ==
  /\ packer.state = "writing"
  /\ Disturb
  /\ packer' = [packer EXCEPT !.state = "stopped"]
  /\ UNCHANGED <<head, wheels, builder, dirs, run, candidate>>

\* verify_candidate, at the checkout of this moment.
CandidateVerifies(c) ==
  /\ DOMAIN c = Range(AssetOrder)
  /\ c["release"].kind = "release"
  /\ c["release"].source = head /\ head.clean
  /\ c["release"].assets = Restriction(c, {"evidence", "wheels"})
  /\ c["sums"] = Sums(Without(c, "sums"))
  /\ LET e == c["evidence"].files  w == c["wheels"].files IN
     /\ BundleVerifies(e, head.commit)
     /\ e["manifest"] = c["release"].evidence
     /\ OutcomesAsserted(e)
     /\ WheelhouseVerifies(w)
     /\ WheelsMatch(e, w)

-----------------------------------------------------------------------------
(* The surroundings.                                                       *)

Disturbed(s) == IF s.state = "running" THEN [s EXCEPT !.steady = FALSE] ELSE s

MoveCheckout(h) ==
  /\ Disturb /\ h # head
  /\ head' = h
  /\ run' = [r \in Runs |-> Disturbed(run[r])]
  /\ UNCHANGED <<wheels, builder, dirs, candidate, packer>>

AlterEvidence(d, name) ==
  /\ Disturb /\ name \in DOMAIN dirs[d]
  /\ dirs' = [dirs EXCEPT ![d][name].bytes = Changed(d)]
  /\ UNCHANGED <<head, wheels, builder, run, candidate, packer>>

AlterWheels(name) ==
  /\ Disturb /\ name \in DOMAIN wheels
  /\ wheels' = [wheels EXCEPT ![name] = Changed("wheels")]
  /\ UNCHANGED <<head, builder, dirs, run, candidate, packer>>

Next ==
  \/ PrepareWheelhouse \/ BuildWheels \/ FreezeWheelhouse
  \/ \E r \in Runs, d \in Dirs, mode \in {"isolated-wheels", "prepared-environment"} :
       Begin(r, d, mode)
  \/ \E r \in Runs : Write(r) \/ Refuse(r) \/ Crash(r)
  \/ \E e \in Dirs, p \in Dirs : e # p /\ Accept(e, p)
  \/ Pack \/ WriteAsset \/ StopPacking
  \/ \E h \in Heads : MoveCheckout(h)
  \/ \E d \in Dirs, name \in Range(Files) : AlterEvidence(d, name)
  \/ \E name \in {"project", "requirements", "manifest"} : AlterWheels(name)

Spec == Init /\ [][Next]_vars

-----------------------------------------------------------------------------
(* What the evidence is worth.                                             *)

\* A directory that verify_bundle accepts, at whatever moment, was written by
\* one run alone and to its end: neither an interrupted run nor two runs that
\* were given the same directory leave one (finalize_bundle, write_json).
VerifiedBundleIsOneRun ==
  \A d \in Dirs, h \in Heads :
    BundleVerifies(Bytes(d), h.commit) =>
      \E r \in Runs :
        /\ run[r].dir = d /\ FilesWritten(r) = Range(Files)
        /\ \A n \in Range(Files) : dirs[d][n].by = r

Wrote(r) == run[r].made = candidate["evidence"].files

\* The evidence in a candidate that verifies is, file for file, what two runs
\* wrote, both with the wheels that the candidate carries, whatever was
\* changed after it was written or between the comparison and the packing
\* (create_candidate, verify_candidate).
CandidateIsReplayed ==
  CandidateVerifies(candidate) =>
    \E r, s \in Runs :
      /\ r # s /\ Wrote(r) /\ Wrote(s)
      /\ run[r].wheels = candidate["wheels"].files["manifest"]

\* Its evidence names the clean checkout it verifies at; and although a run
\* reads its source identity only once, one run that nobody disturbed is enough
\* for all of it to be the outcome of that commit (source_identity).
CandidateIsAttributed ==
  CandidateVerifies(candidate) =>
    LET e == candidate["evidence"].files IN
    /\ e["provenance"].source = head
    /\ (\E r \in Runs : Wrote(r) /\ run[r].steady) =>
         \A n \in Outcomes : e[n].code = head
=============================================================================
