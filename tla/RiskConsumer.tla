----------------------------- MODULE RiskConsumer -----------------------------
(***************************************************************************)
(* The two demo consumers in a row.  The DORAOps consumer                  *)
(* (tools/doraops_demo) takes the DataGovOps packet, the receipt that      *)
(* DataGovOps is said to have issued for it, and evidence that the change  *)
(* is completed, under a signature of its own.  It does not believe the    *)
(* receipt: it runs the DataGovOps consumption again, at the pinned time   *)
(* and at its own.                                                         *)
(*   input [source, receipt, completion, handoff, envelope]                *)
(* A case also carries [confirmed, acceptance, owner, change, observedAt,  *)
(* plannedAt, linked, retest], a retest is [by, at, outcome].              *)
(***************************************************************************)
EXTENDS PacketConsumer

CONSTANTS
  Completions,     \* [change, owner, completedAt, collectedAt]
  DoraContract,    \* profile, boundary, consumer commit and context
  DoraKeys,        \* the second pinned key policy
  Reviewer,        \* independent_reviewer_id of the governance context
  GovVerifiedAt,   \* the pinned time of the DataGovOps consumption
  DoraCreatedAt, DoraUntil,  \* the pinned times of the DORAOps handoff
  NoRetest,
  ProductionTimes, \* assessment, creation and signing times of a packet:
  CreationTimes, ExpiryTimes, SigningTimes,
  ConsumptionTimes \* values of --as-of

ASSUME DoraAssumption ==
  /\ {GovVerifiedAt, DoraCreatedAt, DoraUntil} \subseteq Time
  /\ DoraCreatedAt < DoraUntil
  /\ \A k \in DOMAIN DoraKeys :
       DoraKeys[k].material \in Material /\ DoraKeys[k].from < DoraKeys[k].until

VARIABLES
  produced,    \* packets as their producers signed them
  packet,      \* the packet that is on its way, or NoPacket
  govReceipt,  \* the last receipt of DataGovOps
  assembled,   \* inputs of DORAOps as they were signed
  input,       \* the input that is on its way, or NoPacket
  doraReceipt, \* the last receipt of DORAOps
  altered      \* bound: one alteration, of the packet or of the input

consumerVars ==
  <<produced, packet, govReceipt, assembled, input, doraReceipt, altered>>

-----------------------------------------------------------------------------
(* Assembling the input of DORAOps.                                        *)

DoraType == "doraops-demo-transcript"

DoraTranscript(i) ==
  [audience |-> "doraops", contract |-> DoraContract, source |-> i.source,
   receipt |-> i.receipt, completion |-> i.completion, handoff |-> i.handoff]

DoraHandoff(source, receipt, completion) ==
  [boundary |-> DoraContract, source |-> source, receipt |-> receipt,
   completion |-> completion, subject |-> source.case,
   createdAt |-> DoraCreatedAt, until |-> DoraUntil]

-----------------------------------------------------------------------------
(* validate_packet of doraops_demo.                                        *)

BoundaryPinned(i) == i.handoff.boundary = DoraContract

InputsBound(i) ==
  /\ i.handoff.source = i.source
  /\ i.handoff.receipt = i.receipt
  /\ i.handoff.completion = i.completion

DoraHandoffCurrent(i, verifiedAt) ==
  /\ i.handoff.createdAt = DoraCreatedAt /\ i.handoff.until = DoraUntil
  /\ DoraCreatedAt <= verifiedAt /\ verifiedAt < DoraUntil

\* Mutant: the DataGovOps consumption is repeated at its pinned time only.
UpstreamReconsumedOnce(i, verifiedAt) ==
  /\ ValidPacket(i.source, GovVerifiedAt)
  /\ i.receipt = GovReceipt(i.source, GovVerifiedAt)
  /\ GovVerifiedAt <= i.handoff.createdAt

\* DataGovOps is run again: at its pinned time, where its receipt must be the
\* one supplied, and, for the keys and the expiry, at the time of this
\* consumption.
UpstreamReconsumed(i, verifiedAt) ==
  /\ ValidPacket(i.source, GovVerifiedAt)
  /\ i.receipt = GovReceipt(i.source, GovVerifiedAt)
  /\ GovVerifiedAt <= i.handoff.createdAt
  /\ verifiedAt # GovVerifiedAt => ValidPacket(i.source, verifiedAt)

SubjectBound(i) == i.handoff.subject = i.source.case

ConfirmedMitigation(case) == case.confirmed /\ ~case.acceptance

CompletionBound(i) ==
  /\ i.completion.change = i.source.case.change
  /\ i.completion.owner = i.source.case.owner

CompletionCurrent(i) ==
  /\ i.source.case.plannedAt <= i.completion.completedAt
  /\ i.completion.completedAt <= i.completion.collectedAt
  /\ i.completion.collectedAt <= i.handoff.createdAt

ReviewerIndependent(case) == Reviewer # case.owner

\* Each stage precedes the collection of its evidence and the assessment, and
\* its materials name it.
StageTimes(case) ==
  {case.observedAt, case.plannedAt}
    \cup (IF case.retest = NoRetest THEN {} ELSE {case.retest.at})

StagesSupported(p) ==
  /\ p.case.linked
  /\ \A t \in StageTimes(p.case) :
       t <= p.dossier.assessedAt /\ t <= p.case.collectedAt

DoraSignatureAccepted(i, verifiedAt) ==
  /\ i.envelope.type = DoraType
  /\ KeyTrusted(DoraKeys, i.envelope, i.handoff.createdAt, verifiedAt)
  /\ i.envelope.payload = i.envelope.digest
  /\ i.envelope.payload = DoraTranscript(i)
  /\ SignedBy(DoraKeys, i.envelope)

ValidInput(i, verifiedAt) ==
  /\ i.envelope # NoEnvelope
  /\ BoundaryPinned(i)
  /\ InputsBound(i)
  /\ DoraHandoffCurrent(i, verifiedAt)
  /\ UpstreamReconsumed(i, verifiedAt)
  /\ SubjectBound(i)
  /\ ConfirmedMitigation(i.source.case)
  /\ CompletionBound(i)
  /\ CompletionCurrent(i)
  /\ ReviewerIndependent(i.source.case)
  /\ StagesSupported(i.source)
  /\ DoraSignatureAccepted(i, verifiedAt)

-----------------------------------------------------------------------------
(* build_native_records.                                                   *)

\* Mutant: a retest is a retest, whatever its outcome.
RetestRecordedAny(case) == case.retest # NoRetest

\* A partial retest is not recorded.
RetestRecorded(case) ==
  /\ case.retest # NoRetest
  /\ case.retest.outcome \in {"effective", "ineffective"}

\* The library refuses a retest by another than the configured reviewer, and
\* one before the completion.
NativeAccepts(i) ==
  RetestRecorded(i.source.case) =>
    /\ i.source.case.retest.by = Reviewer
    /\ i.completion.completedAt <= i.source.case.retest.at

FindingStatus(case) ==
  IF ~RetestRecorded(case) THEN "remediation_submitted"
  ELSE IF case.retest.outcome = "ineffective" THEN "retest_failed"
  ELSE "closed"

DoraReceipt(i, verifiedAt) ==
  [input |-> i, verifiedAt |-> verifiedAt,
   status |-> FindingStatus(i.source.case)]

-----------------------------------------------------------------------------

AlteredInputs(i) ==
  {[i EXCEPT !.source = p] : p \in AlteredPackets(i.source)}
  \cup {[i EXCEPT !.receipt.verifiedAt = t] : t \in Time}
  \cup {[i EXCEPT !.completion = c] : c \in Completions}
  \cup {[i EXCEPT !.handoff.completion = c] : c \in Completions}
  \cup {[i EXCEPT !.handoff.boundary = OtherBinding],
        [i EXCEPT !.envelope = NoEnvelope],
        [i EXCEPT !.envelope.signature.material = NoMaterial],
        \* upstream signing cannot substitute
        [i EXCEPT !.envelope = i.source.envelope]}
  \cup {[i EXCEPT !.handoff.until = t] : t \in Time}
  \cup {[i EXCEPT !.envelope.keyId = k] :
          k \in DOMAIN DoraKeys \cup {UnknownKey}}
  \cup {[i EXCEPT !.envelope.at = t] : t \in Time}

ConsumerInit ==
  /\ produced = {} /\ packet = NoPacket /\ govReceipt = NoReceipt
  /\ assembled = {} /\ input = NoPacket /\ doraReceipt = NoReceipt
  /\ altered = FALSE

\* A producer assesses a case and signs the packet, at times of its own choice
\* and with any key.
Produce(case, policy, assessedAt, createdAt, until, keyId, material, signedAt) ==
  LET members == Members(case, policy, assessedAt, createdAt, until)
      signed == [members EXCEPT !.envelope =
                   Envelope(GovType, keyId, material, signedAt,
                            Transcript(members))] IN
  /\ packet = NoPacket
  /\ produced' = produced \cup {signed}
  /\ packet' = signed
  /\ UNCHANGED <<govReceipt, assembled, input, doraReceipt, altered>>

AlterPacket ==
  /\ packet # NoPacket /\ input = NoPacket /\ ~altered
  /\ packet' \in AlteredPackets(packet)
  /\ altered' = TRUE
  /\ UNCHANGED <<produced, govReceipt, assembled, input, doraReceipt>>

\* consume of datagovops_demo, as of a time; a rejection leaves no receipt.
ConsumeGov(verifiedAt) ==
  /\ packet # NoPacket /\ input = NoPacket
  /\ ValidPacket(packet, verifiedAt)
  /\ govReceipt' = GovReceipt(packet, verifiedAt)
  /\ UNCHANGED <<produced, packet, assembled, input, doraReceipt, altered>>

\* make_packet, with the receipt of an earlier consumption or with one that was
\* never issued.
Assemble(receipt, completion, keyId, material, signedAt) ==
  LET members == [source |-> packet, receipt |-> receipt,
                  completion |-> completion,
                  handoff |-> DoraHandoff(packet, receipt, completion),
                  envelope |-> NoEnvelope]
      signed == [members EXCEPT !.envelope =
                   Envelope(DoraType, keyId, material, signedAt,
                            DoraTranscript(members))] IN
  /\ packet # NoPacket /\ input = NoPacket
  /\ assembled' = assembled \cup {signed}
  /\ input' = signed
  /\ UNCHANGED <<produced, packet, govReceipt, doraReceipt, altered>>

AlterInput ==
  /\ input # NoPacket /\ ~altered
  /\ input' \in AlteredInputs(input)
  /\ altered' = TRUE
  /\ UNCHANGED <<produced, packet, govReceipt, assembled, doraReceipt>>

\* consume of doraops_demo.
ConsumeDora(verifiedAt) ==
  /\ input # NoPacket
  /\ ValidInput(input, verifiedAt)
  /\ NativeAccepts(input)
  /\ doraReceipt' = DoraReceipt(input, verifiedAt)
  /\ UNCHANGED <<produced, packet, govReceipt, assembled, input, altered>>

ConsumerNext ==
  \/ \E c \in Cases, x \in Policies, a \in ProductionTimes,
        t \in CreationTimes, u \in ExpiryTimes,
        k \in DOMAIN GovKeys, m \in Material,
        s \in SigningTimes : Produce(c, x, a, t, u, k, m, s)
  \/ AlterPacket
  \/ \E t \in ConsumptionTimes : ConsumeGov(t)
  \/ /\ packet # NoPacket
     /\ \E t \in ConsumptionTimes, c \in Completions, k \in DOMAIN DoraKeys,
           m \in Material, s \in ConsumptionTimes :
          Assemble(GovReceipt(packet, t), c, k, m, s)
  \/ AlterInput
  \/ \E t \in ConsumptionTimes : ConsumeDora(t)

ConsumerSpec == ConsumerInit /\ [][ConsumerNext]_consumerVars

-----------------------------------------------------------------------------
(* Properties.                                                             *)

\* A DataGovOps receipt vouches for a packet exactly as its producer signed it,
\* in all members and in the envelope, signed with the named key of the policy;
\* the key is neither expired nor revoked at the time of consumption, and
\* collection, assessment, creation, signing and consumption follow each other.
GovReceiptIsEarned ==
  govReceipt # NoReceipt =>
    LET p == govReceipt.packet
        key == GovKeys[p.envelope.keyId]
        at == govReceipt.verifiedAt IN
    /\ p \in produced
    /\ p.envelope.signature.material = key.material
    /\ key.from <= p.envelope.at /\ at < key.until
    /\ key.revokedAt # NoTime => at < key.revokedAt
    /\ p.case.collectedAt <= p.dossier.assessedAt
    /\ p.dossier.assessedAt <= p.handoff.createdAt
    /\ p.handoff.createdAt <= p.envelope.at
    /\ p.envelope.at <= at
    /\ p.handoff.until # NoTime /\ at < p.handoff.until

\* A DORAOps receipt rests on an input exactly as it was assembled and signed
\* for DORAOps, and on a source packet exactly as it was produced, whose key is
\* still trusted and whose handoff is still current when DORAOps consumes it,
\* after DataGovOps did.
DoraReceiptIsEarned ==
  doraReceipt # NoReceipt =>
    LET i == doraReceipt.input
        p == i.source
        at == doraReceipt.verifiedAt
        govKey == GovKeys[p.envelope.keyId]
        doraKey == DoraKeys[i.envelope.keyId] IN
    /\ i \in assembled /\ p \in produced
    /\ i.envelope.signature.material = doraKey.material
    /\ p.envelope.signature.material = govKey.material
    /\ \A key \in {govKey, doraKey} :
         /\ at < key.until
         /\ key.revokedAt # NoTime => at < key.revokedAt
    /\ at < p.handoff.until /\ at < DoraUntil
    /\ p.envelope.at <= i.receipt.verifiedAt
    /\ i.receipt.verifiedAt <= DoraCreatedAt
    /\ DoraCreatedAt <= i.envelope.at /\ i.envelope.at <= at

\* DORAOps reports a finding closed only on an effective retest by the
\* configured reviewer, who is not the owner of the change, after the change was
\* completed and before the dossier was assessed, and never with an accepted
\* risk, although the completion is not part of the dossier.
ClosedIsRetested ==
  doraReceipt # NoReceipt /\ doraReceipt.status = "closed" =>
    LET case == doraReceipt.input.source.case
        completion == doraReceipt.input.completion IN
    /\ case.retest # NoRetest
    /\ case.retest.outcome = "effective"
    /\ case.retest.by = Reviewer /\ Reviewer # case.owner
    /\ case.plannedAt <= completion.completedAt
    /\ completion.completedAt <= case.retest.at
    /\ case.retest.at <= doraReceipt.input.source.dossier.assessedAt
    /\ case.confirmed /\ ~case.acceptance
=============================================================================
