---------------------------- MODULE PacketConsumer ----------------------------
(***************************************************************************)
(* The DataGovOps consumer of the demo (tools/datagovops_demo): a packet   *)
(* of five members and a signed envelope is produced, travels, and is      *)
(* consumed as of a time.  Digests are the values they are taken of:       *)
(*   case      [materials, collectedAt, ...]  the case bundle              *)
(*   dossier   [case, policy, assessedAt]     with the digests of both     *)
(*   handoff   [dossier, binding, createdAt, until]                        *)
(*   envelope  [type, keyId, at, payload, digest, signature]               *)
(***************************************************************************)
EXTENDS Integers

CONSTANTS
  Cases,          \* case bundles that may be produced
  Policies, Materials,
  GovContract,    \* the pinned peer contract, as digested and as bound
  OtherBinding,   \* any other profile, peer or contract
  GovKeys,        \* the consumer's pinned policy: key id ->
                  \*   [material, from, until, revokedAt]
  Material,       \* private keys
  NoMaterial,     \* what a corrupted signature was made with: no key
  UnknownKey,     \* a key id outside the policy
  Time, NoTime,
  NoPacket, NoEnvelope, NoReceipt

ASSUME GovAssumption ==
  /\ Time \subseteq Nat /\ NoTime \notin Nat
  /\ UnknownKey \notin DOMAIN GovKeys
  /\ NoMaterial \notin Material
  /\ \A k \in DOMAIN GovKeys :
       /\ GovKeys[k].material \in Material
       /\ GovKeys[k].from \in Nat /\ GovKeys[k].until \in Nat
       /\ GovKeys[k].from < GovKeys[k].until
       /\ GovKeys[k].revokedAt \in Nat \cup {NoTime}
  /\ \A c \in Cases : c.materials \in Materials /\ c.collectedAt \in Nat

-----------------------------------------------------------------------------
(* Producing a packet.                                                     *)

GovType == "datagovops-demo-transcript"

\* Mutant: the handoff is left to its own digest of the dossier.
TranscriptUnbound(p) ==
  [audience |-> "datagovops", contract |-> GovContract, case |-> p.case,
   policy |-> p.policy, materials |-> p.materials, dossier |-> p.dossier,
   handoff |-> p.dossier]

\* What is signed: all five members, for this consumer and this contract.
Transcript(p) ==
  [audience |-> "datagovops", contract |-> GovContract, case |-> p.case,
   policy |-> p.policy, materials |-> p.materials, dossier |-> p.dossier,
   handoff |-> p.handoff]

\* sign_evidence on a transcript.
Envelope(type, keyId, material, at, payload) ==
  [type |-> type, keyId |-> keyId, at |-> at, payload |-> payload,
   digest |-> payload,
   signature |-> [material |-> material, type |-> type, digest |-> payload,
                  keyId |-> keyId, at |-> at]]

Members(case, policy, assessedAt, createdAt, until) ==
  LET dossier == [case |-> case, policy |-> policy, assessedAt |-> assessedAt]
  IN [case |-> case, policy |-> policy, materials |-> case.materials,
      dossier |-> dossier,
      handoff |-> [dossier |-> dossier, binding |-> GovContract,
                   createdAt |-> createdAt, until |-> until],
      envelope |-> NoEnvelope]

-----------------------------------------------------------------------------
(* validate_packet, its checks in their order.                             *)

PayloadBound(p) == p.dossier = p.handoff.dossier

ProfilePinned(p) == p.handoff.binding = GovContract

SnapshotBound(p) == p.dossier.case = p.case /\ p.dossier.policy = p.policy

\* An explicit expiry is required, and excluded.
HandoffCurrent(p, verifiedAt) ==
  /\ p.handoff.until # NoTime
  /\ p.dossier.assessedAt <= p.handoff.createdAt
  /\ p.handoff.createdAt <= verifiedAt
  /\ verifiedAt < p.handoff.until

MaterialsBound(p) ==
  /\ p.materials = p.case.materials
  /\ p.case.collectedAt <= p.dossier.assessedAt

\* The key lookup and the time checks of verify_packet_signature: a key that
\* is revoked by now is refused, whenever the packet was signed.
KeyTrusted(keys, e, createdAt, verifiedAt) ==
  /\ e.keyId \in DOMAIN keys
  /\ LET key == keys[e.keyId] IN
     /\ key.revokedAt # NoTime => verifiedAt < key.revokedAt
     /\ key.from <= e.at /\ e.at <= verifiedAt /\ verifiedAt < key.until
  /\ createdAt <= e.at

\* The signature input is reconstructed from the envelope.
SignedBy(keys, e) ==
  e.signature = [material |-> keys[e.keyId].material, type |-> e.type,
                 digest |-> e.digest, keyId |-> e.keyId, at |-> e.at]

SignatureAccepted(p, verifiedAt) ==
  /\ p.envelope.type = GovType
  /\ KeyTrusted(GovKeys, p.envelope, p.handoff.createdAt, verifiedAt)
  /\ p.envelope.payload = p.envelope.digest
  /\ p.envelope.payload = Transcript(p)
  /\ SignedBy(GovKeys, p.envelope)

ValidPacket(p, verifiedAt) ==
  /\ p.envelope # NoEnvelope
  /\ PayloadBound(p)
  /\ ProfilePinned(p)
  /\ SnapshotBound(p)
  /\ HandoffCurrent(p, verifiedAt)
  /\ MaterialsBound(p)
  /\ SignatureAccepted(p, verifiedAt)

\* The receipt digests the dossier, the handoff and, through the validation
\* report, the other members, the envelope and the time.
GovReceipt(p, verifiedAt) == [packet |-> p, verifiedAt |-> verifiedAt]

-----------------------------------------------------------------------------
(* The environment: a packet may change on its way, in one member or in    *)
(* one field of its handoff or envelope.                                   *)

AlteredMembers(p) ==
  {[p EXCEPT !.case = c] : c \in Cases}
  \cup {[p EXCEPT !.policy = x] : x \in Policies}
  \cup {[p EXCEPT !.materials = m] : m \in Materials}
  \cup {[p EXCEPT !.dossier.case = c] : c \in Cases}
  \cup {[p EXCEPT !.dossier.assessedAt = t] : t \in Time}
  \cup {[p EXCEPT !.handoff.binding = OtherBinding]}
  \cup {[p EXCEPT !.handoff.createdAt = t] : t \in Time}
  \cup {[p EXCEPT !.handoff.until = t] : t \in Time \cup {NoTime}}

\* The envelope stays, or its payload is made to fit what changed.
Refitted(p) ==
  [p EXCEPT !.envelope.payload = Transcript(p),
            !.envelope.digest = Transcript(p)]

AlteredPackets(p) ==
  AlteredMembers(p) \cup {Refitted(q) : q \in AlteredMembers(p)}
  \cup {[p EXCEPT !.envelope = NoEnvelope],
        [p EXCEPT !.envelope.type = "other"],
        [p EXCEPT !.envelope.signature.material = NoMaterial]}
  \cup {[p EXCEPT !.envelope.keyId = k] :
          k \in DOMAIN GovKeys \cup {UnknownKey}}
  \cup {[p EXCEPT !.envelope.at = t] : t \in Time}
=============================================================================
