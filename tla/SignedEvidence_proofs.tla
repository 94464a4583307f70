------------------------ MODULE SignedEvidence_proofs ------------------------
(***************************************************************************)
(* Proofs about SignedEvidence, for any keys, payloads and times: the      *)
(* verifier's verdict is exact, its result is consistent, and what it      *)
(* accepts is what SignedRegister promises.  The invariant is the type:    *)
(* an envelope in hand carries a signature that was made, or nobody's.     *)
(***************************************************************************)
EXTENDS SignedEvidence, TLAPS

\* Signatures are only ever added, so an envelope in hand stays one.
THEOREM TypeCorrect == Spec => []TypeOK
<1>1. Init => TypeOK
  BY DEF Init, TypeOK
<1>2. TypeOK /\ [Next]_vars => TypeOK'
  <2> SUFFICES ASSUME TypeOK, [Next]_vars PROVE TypeOK'
    OBVIOUS
  <2> USE DEF TypeOK
  <2>1. ASSUME NEW s \in Statement, SignEvidence(s) PROVE TypeOK'
    <3>1. Signatures \subseteq Signatures'
      BY <2>1 DEF SignEvidence, Signatures
    <3>2. Envelopes \subseteq Envelopes'
      BY <3>1 DEF Envelopes
    <3> QED
      BY <2>1, <3>2 DEF SignEvidence
  <2>2. ASSUME NEW k \in KeyId, NEW t \in Time, RevokeKey(k, t) PROVE TypeOK'
    BY <2>2 DEF RevokeKey, Envelopes, Signatures
  <2>3. ASSUME NEW e \in Envelopes, Receive(e) PROVE TypeOK'
    BY <2>3 DEF Receive, Envelopes, Signatures
  <2>4. CASE Discard
    BY <2>4 DEF Discard, Envelopes, Signatures
  <2>5. ASSUME NEW k \in KeyId, NEW t \in Time,
               NEW receipts \in Receipts(envelope), Verify(k, t, receipts)
        PROVE  TypeOK'
    <3>1. envelope \in Envelopes
      BY <2>5 DEF Verify
    <3>2. [material |-> Key(k).material, type |-> envelope.type,
           payload |-> envelope.payload, keyId |-> k, at |-> envelope.at]
            \in Statement
      BY <3>1, SignedAssumption DEF Key, Envelopes, Statement
    <3>3. accepted' \subseteq Statement
      BY <2>5, <3>2 DEF Verify
    <3> QED
      BY <2>5, <3>3 DEF Verify, Envelopes, Signatures
  <2>6. CASE UNCHANGED vars
    BY <2>6 DEF vars, Envelopes, Signatures
  <2> QED
    BY <2>1, <2>2, <2>3, <2>4, <2>5, <2>6 DEF Next
<1> QED
  BY <1>1, <1>2, PTL DEF Spec

-----------------------------------------------------------------------------

\* A key's state is current exactly within its validity and before its
\* revocation.
LEMMA CurrentKey ==
  ASSUME TypeOK, NEW k \in KeyId, NEW at \in Time
  PROVE  KeyState(Key(k), at) = "current" <=>
           /\ KeyRecord[k].from <= at
           /\ KeyRecord[k].until = NoTime \/ at < KeyRecord[k].until
           /\ revokedAt[k] = NoTime \/ at < revokedAt[k]
<1>1. /\ KeyRecord[k].from \in Nat /\ at \in Nat
      /\ KeyRecord[k].until # NoTime => KeyRecord[k].until \in Nat
      /\ revokedAt[k] # NoTime => revokedAt[k] \in Nat
  BY SignedAssumption DEF TypeOK
<1> QED
  BY <1>1 DEF KeyState, Key

\* An envelope escapes the verdict "invalid" exactly when the payload is the
\* one digested, the signature the key's over this envelope, and the key in
\* force at the claimed time.
LEMMA NotInvalid ==
  ASSUME NEW e, NEW key, NEW t, NEW receipts
  PROVE  Verification(e, key, t, receipts).position # "invalid" <=>
           /\ SignatureValid(e, key)
           /\ DigestValid(e)
           /\ KeyState(key, e.at) = "current"
  BY DEF Verification, Position

\* The signature of a received envelope, when valid, was made over the whole of
\* that envelope.
LEMMA SignatureSeals ==
  ASSUME TypeOK, NEW e \in Envelopes, NEW k \in KeyId,
         SignatureValid(e, Key(k)), DigestValid(e)
  PROVE  \E s \in signings :
           /\ s = [material |-> KeyRecord[k].material, type |-> e.type,
                   payload |-> e.payload, keyId |-> k, at |-> e.at]
           /\ e = Sealed(s)
<1>1. /\ e = [type |-> e.type, payload |-> e.payload, digest |-> e.digest,
              keyId |-> e.keyId, algorithm |-> e.algorithm, at |-> e.at,
              signature |-> e.signature]
      /\ e.algorithm = "ed25519"
      /\ e.signature \in Signatures \cup {NoSignature}
  BY SignedAssumption DEF Envelopes
<1>2. /\ e.keyId = k
      /\ e.digest = e.payload
      /\ e.signature =
           [material |-> KeyRecord[k].material,
            input |-> SignatureInput(e.type, e.digest, e.keyId, e.algorithm,
                                     e.at)]
  BY DEF SignatureValid, KeyMatches, Key, DigestValid, Digest
<1> DEFINE made == [material |-> KeyRecord[k].material, type |-> e.type,
                    payload |-> e.payload, keyId |-> k, at |-> e.at]
<1>3. made \in Statement
  BY <1>2, SignedAssumption DEF Statement, Envelopes
<1>4. Sealed(made).signature = e.signature
  BY <1>1, <1>2 DEF Sealed, Digest
<1>5. e.signature \in Signatures
  BY <1>1, <1>3, <1>4, SignatureAssumption
<1>6. PICK s \in signings : Sealed(s).signature = e.signature
  BY <1>5 DEF Signatures
<1>7. s \in Statement
  BY <1>6 DEF TypeOK
<1>8. /\ s.material = KeyRecord[k].material
      /\ SignatureInput(s.type, s.payload, s.keyId, "ed25519", s.at)
           = SignatureInput(e.type, e.digest, e.keyId, e.algorithm, e.at)
  BY <1>2, <1>6 DEF Sealed, Digest
<1>9. s.type = e.type /\ s.payload = e.payload /\ s.keyId = k /\ s.at = e.at
  BY <1>2, <1>8 DEF SignatureInput
<1>10. s = made
  BY <1>7, <1>8, <1>9 DEF Statement
<1>11. e = Sealed(made)
  BY <1>1, <1>2, <1>4 DEF Sealed, Digest
<1> QED
  BY <1>6, <1>10, <1>11

\* What sign_evidence returns passes with the key that signed it.
LEMMA SealedPasses ==
  ASSUME NEW k \in KeyId, NEW s \in Statement,
         s.material = KeyRecord[k].material, s.keyId = k
  PROVE  SignatureValid(Sealed(s), Key(k)) /\ DigestValid(Sealed(s))
<1>1. KeyRecord[k].algorithm = "ed25519"
  BY SignedAssumption
<1> QED
  BY <1>1 DEF SignatureValid, DigestValid, KeyMatches, Key, Sealed, Digest,
     SignatureInput

-----------------------------------------------------------------------------

\* No recombination of what was signed passes, and nothing that the holder of a
\* key made for a time at which it could sign is turned away
\* (verify_signed_evidence).
THEOREM VerdictExact == Spec => []VerdictIsExact
<1>1. TypeOK => VerdictIsExact
  <2> SUFFICES ASSUME TypeOK, envelope # NoEnvelope,
                      NEW k \in KeyId, NEW t \in Time
               PROVE  (Verification(envelope, Key(k), t, NoReceipts).position
                         # "invalid") <=>
                        (\E s \in signings :
                           /\ s.material = KeyRecord[k].material
                           /\ s.keyId = k
                           /\ envelope = Sealed(s)
                           /\ KeyRecord[k].from <= s.at
                           /\ \/ KeyRecord[k].until = NoTime
                              \/ s.at < KeyRecord[k].until
                           /\ revokedAt[k] = NoTime \/ s.at < revokedAt[k])
    BY DEF VerdictIsExact
  <2>1. envelope \in Envelopes /\ envelope.at \in Time
    BY DEF TypeOK, Envelopes
  <2>2. ASSUME Verification(envelope, Key(k), t, NoReceipts).position
                 # "invalid"
        PROVE  \E s \in signings :
                 /\ s.material = KeyRecord[k].material /\ s.keyId = k
                 /\ envelope = Sealed(s)
                 /\ KeyRecord[k].from <= s.at
                 /\ KeyRecord[k].until = NoTime \/ s.at < KeyRecord[k].until
                 /\ revokedAt[k] = NoTime \/ s.at < revokedAt[k]
    <3>1. /\ SignatureValid(envelope, Key(k)) /\ DigestValid(envelope)
          /\ KeyState(Key(k), envelope.at) = "current"
      BY <2>2, NotInvalid
    <3>2. PICK s \in signings :
            /\ s = [material |-> KeyRecord[k].material, type |-> envelope.type,
                    payload |-> envelope.payload, keyId |-> k,
                    at |-> envelope.at]
            /\ envelope = Sealed(s)
      BY <2>1, <3>1, SignatureSeals
    <3>3. /\ s.material = KeyRecord[k].material /\ s.keyId = k
          /\ s.at = envelope.at
      BY <3>2
    <3> QED
      BY <2>1, <3>1, <3>2, <3>3, CurrentKey
  <2>3. ASSUME NEW s \in signings,
               s.material = KeyRecord[k].material, s.keyId = k,
               envelope = Sealed(s),
               KeyRecord[k].from <= s.at,
               KeyRecord[k].until = NoTime \/ s.at < KeyRecord[k].until,
               revokedAt[k] = NoTime \/ s.at < revokedAt[k]
        PROVE  Verification(envelope, Key(k), t, NoReceipts).position
                 # "invalid"
    <3>1. s \in Statement /\ s.at = envelope.at
      BY <2>3 DEF TypeOK, Sealed
    <3>2. SignatureValid(envelope, Key(k)) /\ DigestValid(envelope)
      BY <2>3, <3>1, SealedPasses
    <3>3. KeyState(Key(k), envelope.at) = "current"
      BY <2>1, <2>3, <3>1, CurrentKey
    <3> QED
      BY <3>2, <3>3, NotInvalid
  <2> QED
    BY <2>2, <2>3
<1> QED
  BY <1>1, TypeCorrect, PTL

\* The constructor of the result, which sees ids and not algorithms, derives
\* the gaps that the verifier collected from the records
\* (SignatureVerification.__post_init__).
THEOREM ResultConsistent == Spec => []ResultIsConsistent
<1>1. TypeOK => ResultIsConsistent
  <2> SUFFICES ASSUME TypeOK, envelope \in Envelopes,
                      NEW k \in KeyId, NEW t \in Time,
                      NEW receipts \in Receipts(envelope)
               PROVE  Constructible(Verification(envelope, Key(k), t, receipts))
    BY DEF ResultIsConsistent, TypeOK
  <2>1. ~KeyMatches(envelope, Key(k)) <=> envelope.keyId # Key(k).id
    BY SignedAssumption DEF KeyMatches, Key, Envelopes
  <2> QED
    BY <2>1 DEF Constructible, Verification, VerifierGaps, RepresentedGaps
<1> QED
  BY <1>1, TypeCorrect, PTL

\* A revocation gives one key a time and leaves everything else alone.
LEMMA OnlyRevocationRevokes ==
  ASSUME TypeOK, [Next]_vars, revokedAt' # revokedAt
  PROVE  /\ envelope' = envelope
         /\ \A k \in KeyId :
              /\ revokedAt'[k] \in Time \cup {NoTime}
              /\ revokedAt[k] # NoTime => revokedAt'[k] = revokedAt[k]
<1>1. PICK j \in KeyId, r \in Time : RevokeKey(j, r)
  BY DEF Next, vars, SignEvidence, Receive, Discard, Verify
<1> QED
  BY <1>1 DEF RevokeKey, TypeOK

\* When the same key is given a revocation time, all that changes of its state
\* at a time is that it may have become revoked by then.
LEMMA RevocationStates ==
  ASSUME NEW key, NEW later, NEW at \in Time,
         key.revokedAt = NoTime \/ later.revokedAt = key.revokedAt,
         later.revokedAt \in Time \cup {NoTime},
         later.from = key.from, later.until = key.until
  PROVE  \/ KeyState(later, at) = KeyState(key, at)
         \/ /\ KeyState(later, at) = "revoked"
            /\ key.revokedAt = NoTime
            /\ later.revokedAt # NoTime /\ later.revokedAt <= at
<1>1. at \in Nat /\ (later.revokedAt # NoTime => later.revokedAt \in Nat)
  BY SignedAssumption
<1> QED
  BY <1>1 DEF KeyState

LEMMA NoReceiptNoGap ==
  ASSUME NEW e, NEW t
  PROVE  ReceiptGaps(ReceiptResults(e, NoReceipts, t)) = {}
<1>1. \A r \in ReceiptId : ReceiptResults(e, NoReceipts, t)[r] = NoReceipt
  BY DEF ReceiptResults, NoReceipts
<1> QED
  BY <1>1 DEF ReceiptGaps

\* A revocation invalidates only what was signed, by its own claim, with the
\* revoked key and not before it, and adds no other gap, whenever the envelope
\* is verified before and after (VerificationKey.state_at).
THEOREM RevocationIsLimited == Spec => OnlyRevocationInvalidates
<1> DEFINE Limited ==
      envelope # NoEnvelope /\ revokedAt' # revokedAt =>
        \A k \in KeyId, t, u \in Time :
          LET before == Verification(envelope, Key(k), t, NoReceipts)
              after == Verification(envelope, Key(k), u, NoReceipts)' IN
          t <= u =>
            /\ before.position # "invalid" /\ after.position = "invalid" =>
                 /\ revokedAt[k] = NoTime
                 /\ revokedAt'[k] # NoTime /\ revokedAt'[k] <= envelope.at
            /\ after.gaps \subseteq
                 before.gaps \cup {<<"verification_key", "revoked">>}
<1>1. TypeOK /\ [Next]_vars => [Limited]_vars
  <2> SUFFICES ASSUME TypeOK, [Next]_vars,
                      envelope # NoEnvelope, revokedAt' # revokedAt,
                      NEW k \in KeyId, NEW t \in Time, NEW u \in Time, t <= u
               PROVE  LET before == Verification(envelope, Key(k), t, NoReceipts)
                          after == Verification(envelope', Key(k)', u, NoReceipts)
                      IN
                      /\ before.position # "invalid" /\ after.position = "invalid" =>
                           /\ revokedAt[k] = NoTime
                           /\ revokedAt'[k] # NoTime
                           /\ revokedAt'[k] <= envelope.at
                      /\ after.gaps \subseteq
                           before.gaps \cup {<<"verification_key", "revoked">>}
    OBVIOUS
  <2> DEFINE later == [id |-> k, algorithm |-> KeyRecord[k].algorithm,
                       material |-> KeyRecord[k].material,
                       from |-> KeyRecord[k].from, until |-> KeyRecord[k].until,
                       revokedAt |-> revokedAt'[k]]
             e == envelope
  <2>1. /\ e \in Envelopes /\ e.at \in Time /\ envelope' = envelope
        /\ revokedAt'[k] \in Time \cup {NoTime}
        /\ revokedAt[k] # NoTime => revokedAt'[k] = revokedAt[k]
    BY OnlyRevocationRevokes DEF TypeOK, Envelopes
  <2>2. Key(k)' = later
    BY DEF Key
  <2>3. \/ KeyState(later, e.at) = KeyState(Key(k), e.at)
        \/ /\ KeyState(later, e.at) = "revoked"
           /\ revokedAt[k] = NoTime
           /\ revokedAt'[k] # NoTime /\ revokedAt'[k] <= e.at
    <3>1. /\ Key(k).revokedAt = NoTime \/ later.revokedAt = Key(k).revokedAt
          /\ later.revokedAt \in Time \cup {NoTime}
          /\ later.from = Key(k).from /\ later.until = Key(k).until
          /\ Key(k).revokedAt = revokedAt[k]
      BY <2>1 DEF Key
    <3> HIDE DEF later, e
    <3>2. later.revokedAt = revokedAt'[k]
      BY DEF later
    <3> QED
      BY <2>1, <3>1, <3>2, RevocationStates
  <2>4. /\ SignatureValid(e, later) <=> SignatureValid(e, Key(k))
        /\ KeyMatches(e, later) <=> KeyMatches(e, Key(k))
    BY DEF SignatureValid, KeyMatches, Key
  <2> HIDE DEF later, e
  <2>5. ASSUME Verification(e, Key(k), t, NoReceipts).position # "invalid",
               Verification(e, later, u, NoReceipts).position = "invalid"
        PROVE  KeyState(later, e.at) # KeyState(Key(k), e.at)
    BY <2>4, <2>5, NotInvalid
  <2>6. e.at > u => e.at > t
    <3>1. e.at \in Nat /\ t \in Nat /\ u \in Nat
      BY <2>1, SignedAssumption
    <3> QED
      BY <3>1
  <2>7. VerifierGaps(e, later, u, NoReceipts) \subseteq
          VerifierGaps(e, Key(k), t, NoReceipts)
            \cup {<<"verification_key", "revoked">>}
    BY <2>3, <2>4, <2>6, NoReceiptNoGap DEF VerifierGaps
  <2>8. /\ Verification(e, later, u, NoReceipts).gaps
             = VerifierGaps(e, later, u, NoReceipts)
        /\ Verification(e, Key(k), t, NoReceipts).gaps
             = VerifierGaps(e, Key(k), t, NoReceipts)
    BY DEF Verification
  <2> QED
    BY <2>1, <2>2, <2>3, <2>5, <2>7, <2>8 DEF e
<1> QED
  BY <1>1, TypeCorrect, PTL DEF Spec, OnlyRevocationInvalidates

-----------------------------------------------------------------------------

\* Over any number of envelopes and revocations, what is accepted is what the
\* register lets be accepted: signing and revoking are the register's, a
\* received envelope is none of its business, and a verification accepts one of
\* the statements made or nothing.
THEOREM RegisterImplemented == Spec => ImplementsRegister
<1>1. Init => Register!Init
  BY DEF Init, Register!Init
<1>2. TypeOK /\ [Next]_vars => [Register!Next]_(Register!vars)
  <2> SUFFICES ASSUME TypeOK, [Next]_vars
               PROVE  Register!Next \/ UNCHANGED Register!vars
    OBVIOUS
  <2>1. ASSUME NEW s \in Statement, SignEvidence(s) PROVE Register!Sign
    BY <2>1 DEF SignEvidence, Register!Sign, Statement
  <2>2. ASSUME NEW k \in KeyId, NEW t \in Time, RevokeKey(k, t)
        PROVE  Register!Revoke
    BY <2>2 DEF RevokeKey, Register!Revoke
  <2>3. ASSUME NEW e \in Envelopes, Receive(e) PROVE UNCHANGED Register!vars
    BY <2>3 DEF Receive, Register!vars
  <2>4. ASSUME Discard PROVE UNCHANGED Register!vars
    BY <2>4 DEF Discard, Register!vars
  <2>5. ASSUME NEW k \in KeyId, NEW t \in Time,
               NEW receipts \in Receipts(envelope), Verify(k, t, receipts)
        PROVE  Register!Accept \/ UNCHANGED Register!vars
    <3> DEFINE v == Verification(envelope, Key(k), t, receipts)
               made == [material |-> KeyRecord[k].material,
                        type |-> envelope.type, payload |-> envelope.payload,
                        keyId |-> k, at |-> envelope.at]
    <3>1. CASE v.position = "invalid"
      BY <2>5, <3>1 DEF Verify, Register!vars
    <3>2. CASE v.position # "invalid"
      <4>1. envelope \in Envelopes /\ envelope.at \in Time
        BY <2>5 DEF Verify, TypeOK, Envelopes
      <4>2. /\ SignatureValid(envelope, Key(k)) /\ DigestValid(envelope)
            /\ KeyState(Key(k), envelope.at) = "current"
        BY <3>2, NotInvalid
      <4>3. made \in signings
        BY <4>1, <4>2, SignatureSeals
      <4>4. Register!MaySign(k, envelope.at)
        BY <4>1, <4>2, CurrentKey DEF Register!MaySign
      <4>5. /\ accepted' = accepted \cup {made}
            /\ UNCHANGED <<signings, revokedAt>>
        BY <2>5, <3>2 DEF Verify, Key
      <4>6. /\ made.material = KeyRecord[made.keyId].material
            /\ Register!MaySign(made.keyId, made.at)
        BY <4>4
      <4> QED
        BY <4>3, <4>5, <4>6 DEF Register!Accept
    <3> QED
      BY <3>1, <3>2
  <2>6. CASE UNCHANGED vars
    BY <2>6 DEF vars, Register!vars
  <2> QED
    BY <2>1, <2>2, <2>3, <2>4, <2>5, <2>6 DEF Next, Register!Next
<1> QED
  BY <1>1, <1>2, TypeCorrect, PTL DEF Spec, ImplementsRegister, Register!Spec
=============================================================================
