---------------------------- MODULE SignedEvidence ----------------------------
(***************************************************************************)
(* Signed evidence (signed_evidence.py): statements are signed with        *)
(* private keys, envelopes travel and may arrive with any field changed,   *)
(* verification keys are revoked, and envelopes are verified at any time   *)
(* and with any anchor receipts.                                           *)
(*                                                                         *)
(* Digests are symbolic: the digest of a payload is the payload, that of   *)
(* an envelope the envelope.  So are signatures: a signature is the key    *)
(* material and the input it was made over, and those that exist are the   *)
(* ones sign_evidence made.  An envelope is                                *)
(*   [type, payload, digest, keyId, algorithm, at, signature]              *)
(* and a receipt [envelope, at], with the digest it was issued for.        *)
(***************************************************************************)
EXTENDS Integers, FiniteSets

CONSTANTS
  PayloadType, Payload,
  Material,         \* Ed25519 private keys
  KeyId,            \* key ids
  Algorithm,        \* SIGNATURE_ALGORITHMS
  Time,             \* values of every timestamp
  NoTime,           \* valid_until and revoked_at may be absent
  KeyRecord,        \* key id -> [algorithm, material, from, until]
  NoSignature,      \* 64 bytes that are nobody's signature
  NoEnvelope,
  ReceiptId,        \* ids of the receipts that are handed to the verifier
  NoReceipt,
  MaxSignings,      \* bound: statements that are signed
  MaxRevocations    \* bound: keys that are revoked

\* The constructor's checks of a verification key; the code knows one
\* signature algorithm.
ASSUME SignedAssumption ==
  /\ Time \subseteq Nat /\ NoTime \notin Time
  /\ \A k \in KeyId :
       /\ KeyRecord[k].algorithm \in Algorithm
       /\ KeyRecord[k].material \in Material
       /\ KeyRecord[k].from \in Time
       /\ KeyRecord[k].until \in Time \cup {NoTime}
       /\ KeyRecord[k].until # NoTime =>
            KeyRecord[k].until > KeyRecord[k].from
  /\ Algorithm = {"ed25519"}
  /\ MaxSignings \in Nat /\ MaxRevocations \in Nat

VARIABLES
  signings,   \* statements signed: [material, type, payload, keyId, at]
  revokedAt,  \* key id -> revoked_at
  envelope,   \* the envelope that the verifier holds, or NoEnvelope
  accepted    \* statements of envelopes that were not found invalid

vars == <<signings, revokedAt, envelope, accepted>>

Statement == [material : Material, type : PayloadType, payload : Payload,
              keyId : KeyId, at : Time]

-----------------------------------------------------------------------------
(* Signing.                                                                *)

Digest(payload) == payload

\* Mutant: the payload type is not part of what is signed.
SignatureInputUntyped(type, digest, keyId, algorithm, at) ==
  [type |-> "any", digest |-> digest, keyId |-> keyId,
   algorithm |-> algorithm, at |-> at]

SignatureInput(type, digest, keyId, algorithm, at) ==
  [type |-> type, digest |-> digest, keyId |-> keyId,
   algorithm |-> algorithm, at |-> at]

\* The envelope that sign_evidence returns for a statement.
Sealed(s) ==
  [type |-> s.type, payload |-> s.payload, digest |-> Digest(s.payload),
   keyId |-> s.keyId, algorithm |-> "ed25519", at |-> s.at,
   signature |->
     [material |-> s.material,
      input |-> SignatureInput(s.type, Digest(s.payload), s.keyId,
                               "ed25519", s.at)]]

\* Nobody's signature is nobody's.
ASSUME SignatureAssumption ==
  \A s \in Statement : NoSignature # Sealed(s).signature

Signatures == {Sealed(s).signature : s \in signings}

\* Envelopes that satisfy the record's own checks: the payload digest is not
\* compared with the payload there.
Envelopes ==
  [type : PayloadType, payload : Payload, digest : Payload, keyId : KeyId,
   algorithm : Algorithm, at : Time, signature : Signatures \cup {NoSignature}]

-----------------------------------------------------------------------------
(* Verification.                                                           *)

\* The verification key under an id, as the caller supplies it.
Key(k) ==
  [id |-> k, algorithm |-> KeyRecord[k].algorithm,
   material |-> KeyRecord[k].material, from |-> KeyRecord[k].from,
   until |-> KeyRecord[k].until, revokedAt |-> revokedAt[k]]

\* Mutant: a key may still sign at the instant of its revocation.
KeyStateInclusive(key, at) ==
  IF at < key.from THEN "future"
  ELSE IF key.revokedAt # NoTime /\ at > key.revokedAt THEN "revoked"
  ELSE IF key.until # NoTime /\ at >= key.until THEN "expired"
  ELSE "current"

\* Mutant: a revoked key takes back everything it ever signed.
KeyStateOnceRevoked(key, at) ==
  IF at < key.from THEN "future"
  ELSE IF key.revokedAt # NoTime THEN "revoked"
  ELSE IF key.until # NoTime /\ at >= key.until THEN "expired"
  ELSE "current"

\* VerificationKey.state_at, asked for the claimed signing time.
KeyState(key, at) ==
  IF at < key.from THEN "future"
  ELSE IF key.revokedAt # NoTime /\ at >= key.revokedAt THEN "revoked"
  ELSE IF key.until # NoTime /\ at >= key.until THEN "expired"
  ELSE "current"

DigestValid(e) == Digest(e.payload) = e.digest

\* Mutant: the key id is only a hint.
KeyMatchesByAlgorithm(e, key) == key.algorithm = e.algorithm

KeyMatches(e, key) == key.id = e.keyId /\ key.algorithm = e.algorithm

\* The public key accepts what the private key signed, over this input.
SignatureValid(e, key) ==
  /\ KeyMatches(e, key)
  /\ e.signature =
       [material |-> key.material,
        input |-> SignatureInput(e.type, e.digest, e.keyId, e.algorithm, e.at)]

Binding(e, receipt) == IF receipt.envelope = e THEN "bound" ELSE "unbound"

AnchorState(e, receipt, verifiedAt) ==
  IF receipt.at < e.at THEN "before_signing"
  ELSE IF receipt.at > verifiedAt THEN "future"
  ELSE "current"

\* What the verifier hands to the result's constructor: a receipt id maps to
\* the states of the receipt, or to NoReceipt.
ReceiptResults(e, receipts, verifiedAt) ==
  [r \in ReceiptId |->
     IF receipts[r] = NoReceipt THEN NoReceipt
     ELSE [binding |-> Binding(e, receipts[r]),
           temporal |-> AnchorState(e, receipts[r], verifiedAt)]]

ReceiptGaps(results) ==
  {<<"anchor_receipt_unbound", r>> : r \in
     {x \in ReceiptId : /\ results[x] # NoReceipt
                        /\ results[x].binding # "bound"}}
  \cup
  {<<"anchor_receipt", results[r].temporal, r>> : r \in
     {x \in ReceiptId : /\ results[x] # NoReceipt
                        /\ results[x].temporal # "current"}}

\* The gaps as verify_signed_evidence collects them.
VerifierGaps(e, key, verifiedAt, receipts) ==
  {g \in {<<"verification_key_id_mismatch">>} : ~KeyMatches(e, key)}
  \cup {g \in {<<"signature_invalid">>} : ~SignatureValid(e, key)}
  \cup {g \in {<<"payload_digest_mismatch">>} : ~DigestValid(e)}
  \cup {<<"verification_key", s>> : s \in {KeyState(key, e.at)} \ {"current"}}
  \cup {g \in {<<"claimed_signing_time_future">>} : e.at > verifiedAt}
  \cup ReceiptGaps(ReceiptResults(e, receipts, verifiedAt))

Position(invalid, gaps) ==
  IF invalid THEN "invalid"
  ELSE IF gaps # {} THEN "with_gaps"
  ELSE "cryptographically_valid"

\* The record that verify_signed_evidence constructs.
Verification(e, key, verifiedAt, receipts) ==
  LET gaps == VerifierGaps(e, key, verifiedAt, receipts)
      invalid == \/ ~SignatureValid(e, key)
                 \/ ~DigestValid(e)
                 \/ KeyState(key, e.at) # "current" IN
  [envelopeKeyId |-> e.keyId, verificationKeyId |-> key.id,
   signedAt |-> e.at, verifiedAt |-> verifiedAt,
   signatureValid |-> SignatureValid(e, key), digestValid |-> DigestValid(e),
   keyState |-> KeyState(key, e.at),
   receipts |-> ReceiptResults(e, receipts, verifiedAt), gaps |-> gaps,
   position |-> Position(invalid, gaps)]

\* SignatureVerification.__post_init__ derives the gaps again, from the fields
\* of the result alone, and refuses any other set or position.
RepresentedGaps(v) ==
  {g \in {<<"verification_key_id_mismatch">>} :
     v.envelopeKeyId # v.verificationKeyId}
  \cup {g \in {<<"signature_invalid">>} : ~v.signatureValid}
  \cup {g \in {<<"payload_digest_mismatch">>} : ~v.digestValid}
  \cup {<<"verification_key", s>> : s \in {v.keyState} \ {"current"}}
  \cup {g \in {<<"claimed_signing_time_future">>} : v.signedAt > v.verifiedAt}
  \cup ReceiptGaps(v.receipts)

Constructible(v) ==
  /\ v.gaps = RepresentedGaps(v)
  /\ v.position =
       Position(~v.signatureValid \/ ~v.digestValid \/ v.keyState # "current",
                v.gaps)

\* The receipts a caller may hand over with an envelope: for this envelope or
\* for another, from any time.
NoReceipts == [r \in ReceiptId |-> NoReceipt]
Receipts(e) ==
  [ReceiptId -> [envelope : {e, NoEnvelope}, at : Time] \cup {NoReceipt}]

-----------------------------------------------------------------------------

Init ==
  /\ signings = {}
  /\ revokedAt = [k \in KeyId |-> NoTime]
  /\ envelope = NoEnvelope
  /\ accepted = {}

\* sign_evidence: the key id and the time are what the caller says.
SignEvidence(s) ==
  /\ Cardinality(signings) < MaxSignings
  /\ signings' = signings \cup {s}
  /\ UNCHANGED <<revokedAt, envelope, accepted>>

\* The issuer's record of a key gets a revocation time, past or future.
RevokeKey(k, t) ==
  /\ revokedAt[k] = NoTime
  /\ Cardinality({j \in KeyId : revokedAt[j] # NoTime}) < MaxRevocations
  /\ revokedAt' = [revokedAt EXCEPT ![k] = t]
  /\ UNCHANGED <<signings, envelope, accepted>>

\* An envelope arrives: any record, with a signature that somebody made or
\* with none.
Receive(e) ==
  /\ envelope = NoEnvelope
  /\ envelope' = e
  /\ UNCHANGED <<signings, revokedAt, accepted>>

Discard ==
  /\ envelope # NoEnvelope
  /\ envelope' = NoEnvelope
  /\ UNCHANGED <<signings, revokedAt, accepted>>

\* verify_signed_evidence, with a key of any id.
Verify(k, verifiedAt, receipts) ==
  LET key == Key(k) IN
  /\ envelope # NoEnvelope
  /\ accepted' =
       IF Verification(envelope, key, verifiedAt, receipts).position = "invalid"
       THEN accepted
       ELSE accepted \cup
              {[material |-> key.material, type |-> envelope.type,
                payload |-> envelope.payload, keyId |-> k, at |-> envelope.at]}
  /\ UNCHANGED <<signings, revokedAt, envelope>>

Next ==
  \/ \E s \in Statement : SignEvidence(s)
  \/ \E k \in KeyId, t \in Time : RevokeKey(k, t)
  \/ \E e \in Envelopes : Receive(e)
  \/ Discard
  \/ /\ envelope # NoEnvelope
     /\ \E k \in KeyId, t \in Time :
          \E receipts \in Receipts(envelope) : Verify(k, t, receipts)

Spec == Init /\ [][Next]_vars

-----------------------------------------------------------------------------
(* Properties.                                                             *)

TypeOK ==
  /\ signings \subseteq Statement
  /\ revokedAt \in [KeyId -> Time \cup {NoTime}]
  /\ envelope = NoEnvelope \/ envelope \in Envelopes
  /\ accepted \subseteq Statement

\* The envelope in hand is found valid or with gaps exactly when it is, field
\* by field, what the holder of the key made for a time at which the key's
\* record let it sign: no recombination of what was signed passes, and nothing
\* that was so signed is turned away, at whatever time it is verified.
VerdictIsExact ==
  envelope # NoEnvelope =>
    \A k \in KeyId, t \in Time :
      (Verification(envelope, Key(k), t, NoReceipts).position # "invalid") =
        (\E s \in signings :
           /\ s.material = KeyRecord[k].material /\ s.keyId = k
           /\ envelope = Sealed(s)
           /\ KeyRecord[k].from <= s.at
           /\ KeyRecord[k].until = NoTime \/ s.at < KeyRecord[k].until
           /\ revokedAt[k] = NoTime \/ s.at < revokedAt[k])

\* The verifier never trips over its own result: the gaps it collects, from the
\* records, are those the constructor derives from the result's fields, although
\* the one compares ids and algorithms and the other only ids.
ResultIsConsistent ==
  envelope # NoEnvelope =>
    \A k \in KeyId, t \in Time :
      \A receipts \in Receipts(envelope) :
        Constructible(Verification(envelope, Key(k), t, receipts))

\* A revocation never strikes what was signed, by its own claim, before it, nor
\* what was signed with another key: only then does an envelope that was not
\* invalid become so, at whatever times it is verified, and nothing else about
\* it gets worse.
OnlyRevocationInvalidates ==
  [][envelope # NoEnvelope /\ revokedAt' # revokedAt =>
       \A k \in KeyId, t, u \in Time :
         LET before == Verification(envelope, Key(k), t, NoReceipts)
             after == Verification(envelope, Key(k), u, NoReceipts)' IN
         t <= u =>
           /\ before.position # "invalid" /\ after.position = "invalid" =>
                /\ revokedAt[k] = NoTime
                /\ revokedAt'[k] # NoTime /\ revokedAt'[k] <= envelope.at
           /\ after.gaps \subseteq
                before.gaps \cup {<<"verification_key", "revoked">>}]_vars

\* What is accepted, over any number of envelopes and revocations, is a
\* behaviour of the register.
Register == INSTANCE SignedRegister
ImplementsRegister == Register!Spec
=============================================================================
