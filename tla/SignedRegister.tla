---------------------------- MODULE SignedRegister ----------------------------
(***************************************************************************)
(* What signed evidence promises, without envelopes, digests or            *)
(* signatures: a statement is accepted only if the holder of the key it    *)
(* names made exactly this statement, for a time at which the key's record *)
(* let it sign.                                                            *)
(***************************************************************************)
EXTENDS Integers

CONSTANTS
  PayloadType, Payload,
  KeyId, Material,  \* names of keys, and the private keys themselves
  KeyRecord,        \* key id -> [material, from, until] as registered
  Time, NoTime

VARIABLES
  signings,   \* statements made: [material, type, payload, keyId, at]
  revokedAt,  \* key id -> revocation time or NoTime
  accepted    \* statements that a verifier accepted

vars == <<signings, revokedAt, accepted>>

MaySign(k, at) ==
  /\ KeyRecord[k].from <= at
  /\ KeyRecord[k].until = NoTime \/ at < KeyRecord[k].until
  /\ revokedAt[k] = NoTime \/ at < revokedAt[k]

Init ==
  /\ signings = {}
  /\ revokedAt = [k \in KeyId |-> NoTime]
  /\ accepted = {}

\* Anybody signs with what they hold, in the name of any key.
Sign ==
  /\ \E s \in [material : Material, type : PayloadType, payload : Payload,
               keyId : KeyId, at : Time] : signings' = signings \cup {s}
  /\ UNCHANGED <<revokedAt, accepted>>

Revoke ==
  /\ \E k \in KeyId, t \in Time :
       revokedAt[k] = NoTime /\ revokedAt' = [revokedAt EXCEPT ![k] = t]
  /\ UNCHANGED <<signings, accepted>>

Accept ==
  /\ \E s \in signings :
       /\ s.material = KeyRecord[s.keyId].material
       /\ MaySign(s.keyId, s.at)
       /\ accepted' = accepted \cup {s}
  /\ UNCHANGED <<signings, revokedAt>>

Next == Sign \/ Revoke \/ Accept

Spec == Init /\ [][Next]_vars
=============================================================================
