# VulnEvidenceOps in TLA+

This directory models VulnEvidenceOps: what the library reports of a vulnerability case, of a
portfolio and of external context as records accumulate and time passes; what a signature, a
handoff, an intake and a consumer's receipt are worth; how the demo's evidence is frozen, replayed
and packed; and how the repository's publishers bring a release and a demo to the public while the
repository changes underneath them.
TLC checks each model on small instances; TLAPS proves the theorems listed below for every value
of the constants.

Run from this directory:

```
tlc -workers 2 -config MCCaseLifecycle.cfg MCCaseLifecycle
tlapm CaseLifecycle_proofs.tla
```

## 1. Inventory

Paths are relative to the repository. The library (`src/vulnevidenceops`) keeps no state of its
own and does no input or output: each operation is a pure function of an immutable bundle and an
explicit time. State and history arise around it, where bundles grow, are assessed again, and are
handed on. The publishers (`tools/`, `.github/workflows/`) are concurrent programs in the full
sense: they share tags, releases, workflow runs and artifacts with the owner, with GitHub and with
each other.

| Component | State | Operations | Interacts with | Hard behaviour | Correct means |
|---|---|---|---|---|---|
| Case assurance (`assurance.py`, `models.py`) | case bundle: finding, evidence catalog, triage, remediation, acceptance, verification | constructors, `assess_case` | portfolio, CLI | records in any order and with any date; overlapping branches; day rounding; instants of expiry | position, gaps and controls agree; a breach stays visible; closure is final; deficient evidence fails closed |
| Portfolio (`portfolio.py`) | set of cases, one policy | `assess_portfolio` | case assurance | cases that leave the scope; duplicates of duplicates; calendar days against instants | a view that is current has settled every case; no case past due goes unreported |
| Exposure context (`exposure.py`) | catalog and two sets of claims | `assess_exposure_context` | none (no effect on cases) | validity that runs out, evidence that arrives late, contradictions | claims only wear out; contradictions are not resolved by further claims |
| Stable release (`publish_release.py`, `publish-release.yml`) | tag, release; reads main and workflow runs | `gate`, `publish` | GitHub, owner | check-then-act over several calls, lost jobs, reruns | only a gated commit is released; nothing moves |
| Demo publication (`publish_demo.py`, `publish-demo.yml`, `ci.yml`) | demo tag, draft or release, its assets; reads main, runs, artifacts | `readiness`, `publish` | GitHub, CI candidate, other jobs | the same, and partial uploads, resumed drafts, a queue of one | what is public is complete and one gated candidate; something gets published |
| Signed evidence (`signed_evidence.py`) | keys with validity and revocation, envelopes, anchor receipts | `sign_evidence`, `verify_signed_evidence`, constructors | consumers, CLI | key life cycle at a claimed time, recombined envelopes, a result checked twice from different fields | not invalid exactly if the named key's holder signed exactly this while it might; the verifier never contradicts its result's constructor |
| Integration handoff (`integration.py`) | handoff, table of peer contracts | build, verify | peers, consumers | any record from a file, payload and contract read anew, expiry | verified exactly if it is what would be built; temporal states run one way |
| Intake (`intake.py`) | intake batch | `adapt_sarif`, `adapt_cyclonedx` | case bundles | identities over repeated records and repeated intakes, mixed ratings | no record lost or merged; identities reproducible; severities the source's own |
| Evidence bundle and candidate (`demo_evidence.py`, `demo_release_bundle.py`, `demo_environment.py`) | evidence directories, wheelhouse, candidate | `run_demo`, `finalize_bundle`, `verify_bundle`, `freeze_wheelhouse`, `create_candidate`, `verify_candidate` | CI, demo publication | stops between and within writes, a shared directory, a checkout that moves, files that change between comparison and packing | a verified bundle is one whole run; a verified candidate is what two runs produced, with these wheels |
| Consumers (`tools/datagovops_demo`, `tools/doraops_demo`) | packet, receipt, pinned key policies | `produce`, `make_packet`, `validate_packet`, `consume` | each other, peers' libraries | a second consumption at another time, keys revoked between the two, altered packets | a receipt vouches for what was signed, by a key still trusted; closed means retested |
| Release contract, stable candidate, SBOM | committed files | one-pass checks | CI | none | - |
| CLI, schemas, canonical JSON | none | parsing, validation | all | none | - |
| Demo drivers and presentation (`demo_doraops.py`, `demo_presentation.py`, ...) | subprocesses, HTML | install, run, derive, render | bundle | in the bundle | in the bundle |

The hazards of this code are listed line by line in `PROJECT.json` under `hazards`, each with the
properties that guard against it or the reason why none does.

## 2. Plan

Order by importance. All of it is done; what item 10 leaves to TLC is said there and in section 5.

1. `CaseAssurance` (operators) and `CaseLifecycle` (behaviour), refining `LifecycleDiagram`; proofs
   in `CaseAssurance_proofs` and `CaseLifecycle_proofs`.
2. `GitHubGate` (the shared repository), on which `DemoPublication` (refining
   `PublicationPromise`) and `ReleasePublication` are built.
3. `Portfolio`, on `CaseAssurance`; `Portfolio_proofs`.
4. `Exposure`.
5. The liveness run of `DemoPublication`.
6. `SignedEvidence`, refining `SignedRegister`: keys issued and revoked, envelopes signed and
   recombined, receipts that arrive early, late or for another envelope.
7. `Integration`: handoffs built and received, verified again and again.
8. `EvidenceBundle`: freeze and verify with interrupted and concurrent runs, then the candidate
   that `DemoPublication` takes as given.
9. `PacketConsumer` and, built on it, `RiskConsumer`: the chain of checks before a receipt.
   `Intake`: identities and completeness.
10. Proofs: every safety invariant and action property that a run checks and that holds, in all
    ten components modelled, the three refinements included. TLC alone checks the liveness of the
    demo's publication, and finds the violation of section 7 (its first).

There is one run per module, and a further one where liveness or a violation is at stake. All
stay below five minutes.

## 3. Modules

| Module | Models | State | Actions and the code they stand for |
|---|---|---|---|
| `CaseAssurance` | `assess_case` | none | operators, one per local variable or branch group of the function |
| `CaseLifecycle` | the life of one bundle | `case`, `assessedAt` | `CollectEvidence`, `RecordTriage`, `RecordRemediation`, `RecordRiskAcceptance`, `RecordVerification`: a new bundle under the constructor's checks; `Assess`: a later `assess_case` |
| `LifecycleDiagram` | the lifecycle of the repository's README, as drawn, and the moves of the code that it does not have | `state`, `remediation`, `acceptance` | `Follow`: along the edges of the README; `AcceptPlanned`, `CloseAccepted`, `Redecide`: branches of `assess_case` that leave them (section 7) |
| `Portfolio` | `assess_portfolio` | `cases`, `duplicateOf`, `assessedAt` | `AddCase`, `RemoveCase`, the record actions per case, `Assess` |
| `Exposure` | `assess_exposure_context` | `catalog`, `intelligence`, `classification`, `assessedAt` | `CollectEvidence`, `AddIntelligence`, `AddClassification`, `Assess` (any time) |
| `GitHubGate` | `gate`, `workflow_gaps` and the repository | `main`, `runs`, `artifacts`, history `gated` | `Push`, `Complete`, `Rerun`, `ExpireArtifact` |
| `ReleasePublication` | `publish_release.py`, its workflow | `tag`, `releasedAt`, `job`, `lost` | one action per API call; `OwnerTags`, `LoseJob` |
| `DemoPublication` | `publish_demo.py`, its workflow | `demoTag`, `released`, `assets`, `pending`, `job`, `faults`, `protectedIntact` | one action per API call or asset; faults |
| `PublicationPromise` | what the demo publication promises | `open`, `tag`, `published` | `GateHolds`, `CreateTag`, `Publish` |
| `SignedEvidence` | `signed_evidence.py` | `signings`, `revokedAt`, `envelope`, `accepted` | `SignEvidence`, `RevokeKey`, `Receive` (any envelope the record admits), `Discard`, `Verify` (any key, time and receipts) |
| `SignedRegister` | what signed evidence promises | `signings`, `revokedAt`, `accepted` | `Sign`, `Revoke`, `Accept` |
| `Integration` | `integration.py` | `now`, `handoff`, `result` | `Build`, `Receive` (any record), `Verify`, `Tick` |
| `PacketConsumer` | `tools/datagovops_demo`: signing and checks | none | operators, one per check of `validate_packet` |
| `RiskConsumer` | both consumers in a row | `produced`, `packet`, `govReceipt`, `assembled`, `input`, `doraReceipt`, `altered` | `Produce`, `ConsumeGov`, `Assemble` (`make_packet`), `ConsumeDora`; `AlterPacket`, `AlterInput` |
| `EvidenceBundle` | `demo_evidence.py`, `demo_release_bundle.py`, the wheelhouse of `demo_environment.py`, the writes of `run_demo` | `head`, `wheels`, `builder`, `dirs`, `run`, `candidate`, `packer`, `disturbances` | `PrepareWheelhouse`, `BuildWheels`, `FreezeWheelhouse`; `Begin`, `Write` (one file), `Refuse`, `Crash`; `Accept`, `Pack`, `WriteAsset`, `StopPacking`; `MoveCheckout`, `AlterEvidence`, `AlterWheels` |
| `Intake` | `intake.py` | `batches`, `refused` | `Adapt`, `Refuse` |
| `Exchange_proofs` | theorems about `Integration`, `Exposure` and `Intake` | - | - |
| `DemoEvidence_proofs` | theorems about `EvidenceBundle`, `PacketConsumer` and `RiskConsumer` | - | - |
| other `*_proofs` | theorems about the module of that name | - | - |
| `MC*` | instances for TLC | - | - |

Each module also holds a few operators marked `Mutant`: a changed form of the definition that
follows, as a plausible slip would leave it. No specification uses them. Putting one in the place
of its original must break the property it is paired with in `PROJECT.json`, which shows that the
property depends on that line of the code.

### Abstractions

- Time is an integer in units of `1/Day` of a day, so `timedelta.days` is division and the UTC
  calendar date is the quotient. Times are compared as the code compares parsed timestamps.
- Texts, digests and labels no decision reads are left out. Gap codes are strings in
  `CaseAssurance` and pairs of code and subject in `Portfolio` and `Exposure`.
- A bundle changes by building the next one. It has one slot per record kind: a slot is filled
  once, except that a lapsed acceptance may be followed by a new one and an ineffective
  verification by a retest. The library does not enforce this, its users do; a bundle that
  replaced other records would be another case. `Portfolio` fills every slot once.
- The assessment time advances in `CaseLifecycle` and `Portfolio`, where the properties speak of
  history; in `Exposure` it may also go back, and the properties say when they need it not to.
- `portfolio.py` fails as a whole if one case was observed after the assessment time; `AddCase`
  admits only cases for which a view exists.
- Publisher jobs make one API call per step. Two reads are merged into one step where nothing
  another actor does can tell them apart: the tag and the release (written by jobs of the same
  concurrency group only, in `DemoPublication`), and a CI run and the artifact of that attempt (an
  artifact is uploaded before its attempt completes, and afterwards can only expire).
- A push starts each required workflow once, so a run is identified by commit and workflow, and
  GitHub's listing shows its latest attempt. A CI attempt after the first may re-run only failed
  jobs and then has no candidate. A candidate that a failing attempt may have uploaded is never
  selected, because its name carries the attempt; it is left out.
- The bytes of an asset are represented by the commit and attempt they come from; assets in
  `Reproducible` have the same bytes in every attempt of a commit.
- `load_policy` reads committed files and is a constant. Pagination limits are left out.
- Digests are the values they are taken of, and a signature is the private key and the input it
  was made over; the signatures that exist are those somebody made. Collisions and forgeries are
  thereby excluded. An Ed25519 key fits exactly one public key.
- `SignedEvidence` lets anybody sign with any key they hold, under any key id, for any claimed
  time: the library checks none of this. The verifier holds one envelope at a time.
- In `Integration`, producer, consumer and relationship of a profile are one value, as are the
  commit, tree and path of a contract; its blob is apart, because it is checked a second time.
- In `RiskConsumer` the per-item checks of evidence materials and stages are one value per case
  (`materials`, `linked`). One alteration strikes, either of the packet or of the input, with or
  without a payload made to fit; a packet changed in several places fails each check by itself. A
  corrupted signature is one that no key makes (`NoMaterial`), and keeps what it claims to cover.
- In `EvidenceBundle` each file stands for a group of generated files: the consumers' outputs,
  the summary with the wheelhouse manifest and the environment, the presentation, the provenance,
  the report, the manifest. What a demo process computes depends on the code it ran, the mode and
  the wheels, not on the moment. A directory is read in one step, and so is a checkout. The
  wheelhouse is one project wheel; peers and dependencies are pinned by the lock file, a constant.
  The replay notes are left out of the assets. The CI run recorded in the provenance is left out:
  both runs of a candidate are steps of one CI job. `create_candidate` is given two distinct
  directories, as the workflow does. No two alterations give the same bytes.
- In `Intake` a member is a text, `Missing`, or `Malformed` (blank, or no text at all); texts are
  what `strip` and, for levels and ratings, `lower` leave of them, so that `Warning` and `warning`
  are one level, and the rating `info` is read as `informational`. The title of a SARIF result is
  the first of text and markdown that is present, its rule `ruleId` or else `rule.id`. Arrays and
  objects have the shape the adapters ask for (`_array`, `_object`), the `bomFormat` is right, and
  contexts are well formed: what else they raise on is left out. A time is an instant written with
  an offset, and an identity the record that the code takes the digest of. The order of a batch
  follows from its identities and is left out.

## 4. Runs

| Run | Checks | Bounds, and why they are enough |
|---|---|---|
| `case_lifecycle` | type, position against control evidence and against gaps, breach visibility, failing closed, final closure, no relaxation by time alone, inert future records, the diagram with its departures | two evidence ids (one catalogued and one not is the only distinction made), two severities, six times over three half-split days, so that a record can be dated before, at and after an assessment, an acceptance can have a fractional last day, and expiry, due time and assessment can coincide; every record kind comes well formed, ill evidenced, and with dates its constructor rejects |
| `future_evidence` | that evidence from the future fails closed | the same, with evidence collected late; violated, see section 7 |
| `portfolio` | type, settled current views, accounted breaches, advancing cohorts | two cases (a duplicate and its target, each the other's), symmetric; the default policy for a medium finding; assessment times in each cohort, at the due time and on the same day after it |
| `exposure` | type, position against gaps, wearing claims, lasting contradictions | three ids per domain (two to contradict each other and one to join them, on the same topic or another), two evidence ids and two sources; five times, one before the finding |
| `demo_publication` | gated publication, consistent leftovers, nothing overwritten, flawed drafts stay drafts, the promise | two commits (one that overtakes the other), two workflows, two attempts, one rerun, one fault of any kind, two assets of which one is reproducible |
| `demo_liveness` | eventual publication | one commit, three workflows, one of which may be run again |
| `release_publication` | gated release, nothing moved | two commits, two workflows, two reruns, two lost jobs |
| `signed_evidence` | exact verdicts, results that agree with their constructor, what a revocation does, the register | two signings, so that an envelope can combine fields of both (three would add no new pair of fields); two keys, one that ends and one that begins at the second of two times, either of them revoked at either (a verification looks at one key, so a second revocation is like the first); two types, payloads and private keys; one receipt, bound or not, at either time; types and payloads symmetric |
| `integration` | verified exactly as built, one-way temporal states | two profiles that differ in every field, and every combination of their fields; four instants, so that a handoff can be future, current for an instant and expired |
| `risk_consumer` | what each receipt vouches for, what a closed finding rests on | one producer time early and one in time at each stage, keys that expire or are revoked between the consumptions, six cases that differ in what DORAOps looks at, three completions, one alteration of any member or field |
| `evidence_bundle` | one run per verified bundle, replayed and attributed candidates | two runs, two directories (a shared one, or one each), a commit, its edited form and another commit, two disturbances (a checkout that moves away and back, or a stop and an alteration); runs and directories symmetric |
| `intake` | completeness, identities, severities | two adaptations of documents with up to two records, repeated ones among them; every combination of result level and rule default, of up to two ratings, one flaw of each kind that the adapters refuse, alone or after a part without one; four contexts that differ in nothing that matters or in one thing |

`CHECK_DEADLOCK FALSE` appears where the bounds let everything come to rest: all slots filled and
the last time reached, or all workflows completed and no job waiting, or every run and the packing
at their end, or the receipts issued.

The gate properties deserve a remark. No job ever sees main and the workflow runs at one instant,
and both may change between the reads and long after them. `PublishedIsGated` and
`ReleasedIsGated` say that there was nevertheless one instant at which main was the published
commit and every required workflow's latest attempt had succeeded, for the demo with the very
attempt whose bytes are public. They do not say that this is still so when the release appears,
which no check in the code could ensure. The history variable `gated` records these instants.

Three more remarks. `VerdictIsExact` is an equivalence: it excludes a verifier that turns away what
was properly signed as well as one that accepts what was not. A revocation counts from its own
time, compared with the signing time that the signer claims; that a holder may claim an earlier
time is stated in the library's non-claims, and `OnlyRevocationInvalidates` says precisely this
much. `CandidateIsReplayed` holds although the evidence is read again between comparison and
packing, because the archive is verified against its own manifest and the manifest's digest was
taken before; without the comparison of the two runs a single edited run could be packed.
`CandidateIsAttributed` is conditional on one undisturbed run, since a run reads its identity only
once: the condition is what the code leaves to its users.

The type invariants of `SignedEvidence`, `Integration`, `DemoPublication` and `ReleasePublication`
are proved and therefore not checked by a run. `RiskConsumer`, `EvidenceBundle` and `Intake` have
none of their own: what of their types a property needs is part of the invariant its proof rests on
(`ConsumerInv`, `RunsSound` and `DirsSound`, `IntakeInv`).

`Exposure`, `RiskConsumer` and `Intake` name their specifications after themselves
(`ExposureSpec`, `ConsumerSpec`, `IntakeSpec`), because one module of proofs extends several.

### Fairness

Only `demo_liveness` assumes any. `FairSpec` says that a waiting run starts once its concurrency
group is free, and that a started job goes on: GitHub schedules both. Nothing obliges main to
move, a workflow to be run again, or a fault to happen or not. The property itself assumes an
undisturbed repository (`Undisturbed`): no second commit, no CI rerun, no fault, no expired
candidate. What remains hard is the queue: four completions, or five with a rerun, compete for one
waiting slot, and the one that is kept may belong to a failed run.

## 5. Proofs

TLAPS checks these for all constants that satisfy the named assumptions:

- `PolicyAssumption`, `InputAssumption`, `PortfolioAssumption`: any policy with positive day
  counts, any sets of records of the right shape, any times, any number of cases and evidence ids.
- `SignedAssumption`, `SignatureAssumption`: any keys whose records pass their constructor, the one
  algorithm the code knows, and a value that is nobody's signature.
- `IntegrationAssumption`, `ResultAssumption`: any table of peer contracts, and a result that is a
  record rather than the mark of none.
- `RepositoryAssumption`, `LossAssumption`: any number of commits, attempts, reruns and lost jobs,
  any workflows with CI among them.
- `AssetAssumption`: any assets, not all of which have the same bytes in every CI attempt. The
  provenance is one that does not: it records the attempt (`demo_evidence.py`). Only the
  refinement needs this.
- `BundleAssumption`: finitely many runs and directories, any checkouts that are a commit and
  whether it is clean.
- `ExposureAssumption`: any claims whose records pass their constructors, any sources, evidence and
  times, in any order.
- `GovAssumption`, `DoraAssumption`: any cases, policies, contracts and times; keys with a period
  of validity, revoked at any time or never; and no key that makes a corrupted signature.
- `IntakeAssumption`: any documents whose arrays are sequences, any contexts; an absent or
  malformed member is not one of the four SARIF levels.

| Theorem | Says | Argument |
|---|---|---|
| `CaseLifecycle_proofs!TypeCorrect` | `Spec => []TypeOK` | inductive as it stands, one step per action |
| `ClosurePermanence` | `ClosureIsPermanent` | every step leads to a bundle that succeeds the former (`StepSucceeds`): finding, triage and remediation kept, catalog grown, effective verification kept, time not earlier. What made the case closed is thereby kept (`LinkedStays`, `ClosureStays`) |
| `BreachVisibility` | `BreachIsVisible` | by the branches of the state, and the bound a whole-day quotient puts on a duration |
| `PositionAgreesWithGaps` | `PositionMatchesGaps` | a case without a gap has every record current and linked (`NoGapSupports`), hence is closed or accepted (`NoGapSettles`) and current (`NoGapIsCurrent`); the converse is the code's last test |
| `DeficiencyFailsClosed` | `FailsClosed` | the gap named for each kind of deficiency (`GapsNamed`) |
| `CurrentIsSupported` | `CurrentPositionIsSupported` | a current case has no gap, so no control evidence is missing (`NoGapNoControlGap`) and it is closed or accepted |
| `TimeNeverRelaxes` | `TimeAloneNeverRelaxes` | a step that keeps the bundle only moves the time (`TimePasses`); which records count is a matter of dates that pass once |
| `FutureIsInert` | `FutureRecordsAreInert` | state and overdue flag read only records already in force (`OnlyCurrentRecordsDecide`), and a step fills one slot (`OneRecordAtATime`); the record itself is a gap |
| `DiagramFollowed` | `FollowsDiagram` | each reported state as a condition on the bundle (`EveryState`, `OpenStates`), what a step preserves of it, state by state, and the records a departure needs (`StatesNeedRecords`, `LapsedUntilRedecided`); the diagram itself is its edges, followed up to three times (`PathsAhead`) |
| `Portfolio_proofs!TypeCorrect` | `Spec => []TypeOK` | inductive as it stands; per action, how it changes the set of duplicates |
| `CurrentViewSettles` | `CurrentViewIsSettled` | a current view has no gap, so none of its cases has one, and the case lemmas apply; a duplicate without a gap has its target linked |
| `PastDueAccounted` | `PastDueIsAccounted` | by lifecycle state; in `risk_accepted` the validity of the acceptance gives what the exception list computes on its own |
| `TimeAdvances` | `TimeOnlyAdvances` | calendar days are in the order of the instants (`DayOrder`), so cohorts only worsen (`CohortWorsens`), although due dates compare by day and breaches by instant |
| `SignedEvidence_proofs!TypeCorrect` | `Spec => []TypeOK` | inductive: signatures are only added, so an envelope in hand stays one |
| `VerdictExact` | `VerdictIsExact` | a valid signature is one of those made, and determines the statement and with it the whole envelope (`SignatureSeals`); conversely what was sealed passes (`SealedPasses`); key states by cases (`CurrentKey`) |
| `ResultConsistent` | `ResultIsConsistent` | there is one algorithm, so ids differ exactly if keys do not match |
| `RevocationIsLimited` | `OnlyRevocationInvalidates` | a key's state changes with its own revocation only (`OnlyRevocationRevokes`), and for no time before it (`RevocationStates`) |
| `RegisterImplemented` | `ImplementsRegister` | step by step: an accepting `Verify` adds the statement that `SignatureSeals` finds among those signed |
| `Exchange_proofs!TypeCorrect` | `Spec => []TypeOK` | from `IInv`, below |
| `OnlyBuiltVerifies` | `VerifiedAsBuilt` | no gap exactly if nothing differs from what is built (`VerifiedMeansBuilt`), and the constructor never refuses (`AlwaysConstructible`) |
| `TimeRunsOneWay` | `TimeOnlyExpires` | successive results of one handoff are in order (`ResultsInOrder`), and the time of creation lies between any future and any expired one |
| `ReleasePublication_proofs!TypeCorrect` | `Spec => []TypeOK` | from `IInv`, below |
| `ReleaseGated` | `ReleasedIsGated` | what each read tells the job, below |
| `NothingMoved` | `NothingIsMoved` | a job that creates a release has compared the tag, and a tag stays (`TagIsKnown`) |
| `DemoPublication_proofs!TypeCorrect` | `Spec => []TypeOK` | from `IInv`: a started job has a commit only because a waiting run with success names one (`WaitingNamesCommit`) |
| `PublishedGated` | `PublishedIsGated` | what each read tells the job of its commit, of the selected attempt and of the draft, below |
| `ConsistentlyLeft` | `LeavesConsistentPublication` | no asset without a release, no release without its tag (`PublicationSound`), and a published one is complete |
| `NothingOverwritten` | `NothingIsOverwritten` | how a step can change the release (`ReleaseWrites`), with what the job knows of the draft before it |
| `FlawedStaysDraft` | `FlawedDraftStaysDraft` | a draft is published in the last round only, where it is complete; garbled bytes are no candidate's (`GarbledIsNoCandidate`) |
| `PromiseKept` | `KeepsPromise` | step by step; the bytes of an asset that is not reproducible identify the candidate (`BytesIdentify`), so the one that `PublishedCandidate` chooses is the one the job gated, and stays it (`PublishedStays`) |
| `DemoEvidence_proofs!Inductive` | `Spec => []IInv` | below, one lemma per action |
| `OneRunBundles` | `VerifiedBundleIsOneRun` | a manifest is the last file of a run, and lists what the run made (`VerifiedIsMade`) |
| `CandidateReplayed` | `CandidateIsReplayed` | two directories that agree hold what two runs made (`AgreeingIsMade`); the manifest's digest pins what is packed later (`CandidateHolds`) |
| `CandidateAttributed` | `CandidateIsAttributed` | an isolated run began on a clean checkout and recorded it; if that run was steady, its outcomes are those of the recorded commit, and the replay's are equal |
| `ExposureTypeCorrect` | `ExposureSpec => []ExposureTypeOK` | inductive as it stands |
| `ExposurePositionAgrees` | `PositionMatchesGaps` | the position looks at statuses, the gaps at claims: each domain that is not current names a gap (`DomainGapsNamed`), each contradiction too (`ConflictGapsNamed`) |
| `ExposureClaimsWear` | `ClaimsOnlyWear` | a step keeps every claim and all evidence (`BundleGrows`), so one claim's state moves with time alone (`ClaimStates`, `ClaimWears`) |
| `ExposureConflictsLast` | `ConflictEndsByExpiry` | a current claim that does not expire still counts after a step (`UnexpiredStays`); so while one claim of each side is left, the contradiction on their topic is |
| `IntakeKeepsRecords` | `EveryRecordIsKept` | an identity contains the place of its record (`EntryNames`), so no two records share one (`ReadableAdapts`), and identities are in bijection with places, which are finite (`AsManyAsPlaces`) |
| `IntakeReproducible` | `IdentitiesAreReproducible` | the mapping context is equal exactly if all that matters is (`ContextIsWhatMatters`), and nothing else of the context enters a batch (`BatchReproduced`) |
| `IntakeKeepsSeverity` | `SeverityIsAsserted` | rule ids are distinct, so a result has one default; among recognised ratings one is the highest (`HighestIsHighest`) |
| `DemoEvidence_proofs!ConsumerInductive` | `ConsumerSpec => []ConsumerInv` | below, one lemma per action |
| `GovReceiptVouches` | `GovReceiptIsEarned` | a packet that passes `validate_packet` is one that was produced (`ValidPacketWasProduced`) |
| `DoraReceiptVouches` | `DoraReceiptIsEarned` | the same for the input (`ValidInputWasAssembled`), and for its source because DataGovOps is run again, at both times |
| `ClosureRetested` | `ClosedIsRetested` | the status "closed" is given to a recorded effective retest only (`ClosedMeansRetested`) |

Most safety invariants of the library follow from type correctness at each state, because it is a
pure function of its arguments; the strengthening that matters is the typing: of dispositions and
times, and of envelopes, whose signatures were made by somebody or are nobody's. The action
properties are about steps and need the relation between successive bundles instead. In
`Integration` the type says too little: `IInv` adds that every result is the verification of the
handoff in hand at a time already reached, without which neither the verdict nor the order of two
results could be told.

The publishers need an invariant on knowledge. Each read shows a job something about the instant of
an earlier one. Main only moves forward, so when the second read of main finds the job's commit
again, main had not moved when the runs were read before it: the gate was open then (`JobHasSeen`,
`CommitSeen`). Attempts only count up, so when the third round finds the selected attempt to be the
latest still, it was the latest when the runs were read between (`AttemptSeen`). Between the two
reads the invariant can claim only that main has moved or the gate was open. The gate is proved
from this for every interleaving with pushes, completions and reruns, and the argument shows which
read is needed for what: without the second read of main `ReleasedIsGated` would have no support.

`EvidenceBundle` needs an invariant on origins. A file remembers the run that created it, and since
the code creates files exclusively, no other run ever creates it again: a directory is what its runs
made, save files left empty by a stop and files changed from outside (`FileSound`, `MadeStays`). A
changed file differs from directory to directory, an empty one never verifies; hence two directories
that verify and agree hold what two runs made. From there on the packer carries the manifest's
digest, and a bundle that fits it has the same files (`WithoutAndName`).

The consumers need an invariant on signatures (`ConsumerInv`). What travels may lose its envelope,
have any field of it replaced or its payload made to fit, and may be the envelope of another
message; but its signature was made by a producer or by whoever assembled an input, or is corrupted
(`EnvelopeSound`), because altering makes none (`AlteredPacketIsSound`, `AlteredInputIsSound`). A
signature names its type, key, time and payload, the payload is the transcript, and the transcript
names every member but the envelope (`TranscriptSeals`). So an accepted message equals the one that
was signed, field by field, envelope included, and an upstream signature cannot stand for a
downstream one, whose type differs (`TypesDiffer`). The supplied receipt contributes nothing to this
argument: `DoraReceiptVouches` rests on the second consumption alone, as the code intends. A receipt
once issued stays earned, because what was signed stays signed (`ReceiptsStay`).

`Exposure` and `Intake` need less: a bundle that only grows, and batches that are what their
documents and contexts make of them (`IntakeInv`). The weight is in the lemmas about the operators.

Only model-checked: `LastCompletionPublishes`, the liveness of the demo's publication, since
liveness under fairness is beyond the prover here; and the counterexample behind the first finding
of section 7, which is what TLC is for. No module uses a recursive definition, so nothing rests on
induction over data.

## 6. Not modelled

- Release contract, stable candidate and SBOM (`release_contract.py`, `stable_candidate.py`,
  `build_sbom.py`): one-pass checks of committed files against pinned values. Nothing evolves, and
  a model would repeat the values.
- CLI, schemas and canonical JSON: parsing and serialisation. Canonical bytes appear as equality
  of values.
- The rest of the demo drivers: virtual environments, package installation, the negative scenarios
  (each one a fixed alteration that the consumers' models include in kind), HTML.
- `BuildProvenance`, a record without a decision, and the record conversions (`to_dict`,
  `from_dict`) everywhere.
- Size and number limits on files and archives: they refuse, and nothing continues after a refusal.

Ed25519, SHA-256, pip, the peers' libraries and GitHub itself are external; of each, what the code
can observe is modelled. Two hazards have no property because the code does not exclude them
(re-running only CI's failed jobs; wheels built before the checkout moves and frozen after), one
because the failure is total and visible (a case from the future in a portfolio).

## 7. Findings

**Evidence collected after the assessment counts in a dossier.** The repository's README (lines
169-170) says that future-dated evidence fails closed as a gap. `assess_case` does so for decision
records, but tests evidence references by id only (`assurance.py:14`) and never compares
`collected_at` with `assessed_at`. The run `future_evidence` shows a case without a gap whose
finding rests on evidence collected later than the assessment. The portfolio's exception and
deduplication lists and the exposure context do make the comparison, so the same reference may be
`future` there and linked in the dossier; `PastDueIsAccounted` therefore allows for both.

**A case takes moves that the diagram of the lifecycle does not have.** The repository's README
(lines 163-167) draws

```text
detected -> triaged -> verification_pending -> closed_verified
                   \-> risk_accepted -> revalidation_required
                   \-> closed_dispositioned
```

in which a case takes one branch and `revalidation_required` is the end of its own. `assess_case`
decides the state anew from whatever records there are (`assurance.py:151-173`), with these moves
that are no path of the diagram: `verification_pending` to `risk_accepted` or
`revalidation_required`, when a planned case is accepted (`AcceptPlanned`); `risk_accepted` or
`revalidation_required` to `closed_verified`, when an accepted case is remediated after all
(`CloseAccepted`); and `revalidation_required` back to `triaged`, `verification_pending` or
`risk_accepted`, when the acceptance is decided anew (`Redecide`, which rests on users replacing a
lapsed acceptance). `FollowsDiagram` says that there are no others, and that each of these is made
only with the records it is named for: a case with one of the two branches and one acceptance
decision follows the diagram as drawn. The run `case_lifecycle` fails if any of the three is taken
out of `LifecycleDiagram!Move`.

Observed while modelling, and by design of the code: a case verified as closed stays `with_gaps`
while its bundle still holds a lapsed acceptance; an acceptance may exceed the policy maximum by
less than a day; re-running only CI's failed jobs leaves the demo without a candidate until CI runs
in full; a tag left by a lost job on an older commit stops later releases until the owner resolves
it; wheels built from one checkout and frozen after it has moved to another clean commit are
recorded under the latter; a CycloneDX vulnerability whose `id` is one of its own CWE identifiers is
refused with its whole document; a CycloneDX rating of unknown severity leaves the notice
`cyclonedx_severity_unmapped_defaulted_to_informational` even where another rating decides the
severity; a directory left by an interrupted run is retained and stays unverifiable.
