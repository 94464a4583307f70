----------------------------- MODULE Integration -----------------------------
(***************************************************************************)
(* Integration handoffs (integration.py): a payload digest bound to one    *)
(* profile of a frozen table of peer contracts.  A handoff is built here,  *)
(* or arrives as a record with any fields its constructor lets pass, and   *)
(* is verified again and again as time passes, each time with the payload  *)
(* and the contract bytes the caller finds then.                           *)
(*                                                                         *)
(* A handoff is                                                            *)
(*   [profile, route, payloadType, payload, contract, createdAt, until]    *)
(* where route stands for producer, consumer and relationship, a contract  *)
(* is [pin, blob], the place of a file in a peer's repository and its Git  *)
(* blob, and digests are the values they are taken of.                     *)
(***************************************************************************)
EXTENDS Integers

CONSTANTS
  Profile,
  Route, PayloadType, Pin, Blob,
  Binding,      \* profile -> [route, payloadType, contract]: the table
  Payload,
  MaxTime, NoTime,
  NoHandoff, NoResult,
  Refused       \* the result's constructor raised

Time == 0..MaxTime
Contract == [pin : Pin, blob : Blob]

ASSUME IntegrationAssumption ==
  /\ MaxTime \in Nat /\ NoTime \notin Nat
  /\ Binding \in [Profile -> [route : Route, payloadType : PayloadType,
                              contract : Contract]]

VARIABLES
  now,      \* the time at which the verifier verifies
  handoff,  \* the handoff in hand, or NoHandoff
  result    \* its last verification, Refused or NoResult

vars == <<now, handoff, result>>

-----------------------------------------------------------------------------
(* Handoffs.                                                               *)

\* Mutant: a handoff may be valid for no instant at all.
ValidPeriodWeak(createdAt, until) == until # NoTime => until >= createdAt

\* IntegrationHandoff's check of its two times.
ValidPeriod(createdAt, until) == until # NoTime => until > createdAt

Period == {p \in Time \X (Time \cup {NoTime}) : ValidPeriod(p[1], p[2])}

Handoffs ==
  {[profile |-> p, route |-> r, payloadType |-> y, payload |-> d,
    contract |-> c, createdAt |-> t[1], until |-> t[2]] :
     p \in Profile, r \in Route, y \in PayloadType, d \in Payload,
     c \in Contract, t \in Period}

\* build_integration_handoff.
BuildHandoff(profile, payload, createdAt, until) ==
  [profile |-> profile, route |-> Binding[profile].route,
   payloadType |-> Binding[profile].payloadType, payload |-> payload,
   contract |-> Binding[profile].contract,
   createdAt |-> createdAt, until |-> until]

-----------------------------------------------------------------------------
(* Verification.                                                           *)

\* Mutant: the contract's place in the peer's repository is not compared.
ProfileMatchesBlob(h) ==
  /\ h.route = Binding[h.profile].route
  /\ h.payloadType = Binding[h.profile].payloadType
  /\ h.contract.blob = Binding[h.profile].contract.blob

ProfileMatches(h) ==
  /\ h.route = Binding[h.profile].route
  /\ h.payloadType = Binding[h.profile].payloadType
  /\ h.contract = Binding[h.profile].contract

TemporalState(h, verifiedAt) ==
  IF verifiedAt < h.createdAt THEN "future"
  ELSE IF h.until # NoTime /\ verifiedAt >= h.until THEN "expired"
  ELSE "current"

Failures(profileValid, digestValid, blobValid) ==
  {f \in {"profile_binding_mismatch"} : ~profileValid}
  \cup {f \in {"payload_digest_mismatch"} : ~digestValid}
  \cup {f \in {"peer_contract_blob_mismatch"} : ~blobValid}

TemporalGaps(state) ==
  {g \in {"handoff_future", "handoff_expired"} :
     \/ g = "handoff_future" /\ state = "future"
     \/ g = "handoff_expired" /\ state = "expired"}

Position(failures, gaps) ==
  IF failures # {} THEN "invalid"
  ELSE IF gaps # {} THEN "with_gaps" ELSE "verified"

\* The record verify_integration_handoff constructs, from the payload and the
\* contract bytes that the caller supplies.
Verification(h, payload, blob, verifiedAt) ==
  LET failures == Failures(ProfileMatches(h), payload = h.payload,
                           blob = h.contract.blob)
      state == TemporalState(h, verifiedAt)
      gaps == failures \cup TemporalGaps(state) IN
  [handoff |-> h, payload |-> payload, blob |-> blob, verifiedAt |-> verifiedAt,
   profileValid |-> ProfileMatches(h), digestValid |-> payload = h.payload,
   blobValid |-> blob = h.contract.blob, temporal |-> state, gaps |-> gaps,
   position |-> Position(failures, gaps)]

\* IntegrationVerification.__post_init__ on the fields of the record.
Constructible(v) ==
  LET failures == Failures(v.profileValid, v.digestValid, v.blobValid) IN
  /\ v.gaps = failures \cup TemporalGaps(v.temporal)
  /\ v.position = Position(failures, v.gaps)

\* A verification is a record, and no mark of the lack of one.
ASSUME ResultAssumption ==
  \A h \in Handoffs, payload \in Payload, blob \in Blob, t \in Time :
    Verification(h, payload, blob, t) \notin {NoResult, Refused}

-----------------------------------------------------------------------------

Init == now = 0 /\ handoff = NoHandoff /\ result = NoResult

Build(profile, payload, createdAt, until) ==
  /\ ValidPeriod(createdAt, until)
  /\ handoff' = BuildHandoff(profile, payload, createdAt, until)
  /\ result' = NoResult
  /\ UNCHANGED now

\* A record read from a file: any fields, checked by the constructor alone.
Receive(h) ==
  /\ handoff = NoHandoff
  /\ handoff' = h
  /\ UNCHANGED <<now, result>>

\* verify_integration_handoff: payload and contract are read anew each time.
Verify(payload, blob) ==
  LET v == Verification(handoff, payload, blob, now) IN
  /\ handoff # NoHandoff
  /\ result' = IF Constructible(v) THEN v ELSE Refused
  /\ UNCHANGED <<now, handoff>>

Tick ==
  /\ now < MaxTime
  /\ now' = now + 1
  /\ UNCHANGED <<handoff, result>>

Next ==
  \/ \E p \in Profile, d \in Payload, t \in Time, u \in Time \cup {NoTime} :
       Build(p, d, t, u)
  \/ \E h \in Handoffs : Receive(h)
  \/ \E d \in Payload, b \in Blob : Verify(d, b)
  \/ Tick

Spec == Init /\ [][Next]_vars

-----------------------------------------------------------------------------
(* Properties.                                                             *)

TypeOK ==
  /\ now \in Time
  /\ handoff \in Handoffs \cup {NoHandoff}
  /\ result \notin {NoResult, Refused} => result.handoff = handoff

\* The verifier accepts exactly what the builder builds: a result is "verified"
\* if and only if building a handoff for the payload at hand, with this profile
\* and these times, gives this very handoff, the contract bytes at hand are the
\* pinned ones, and the time is within the handoff's.  No field of a received
\* record escapes the comparison, and the result never refuses itself.
VerifiedAsBuilt ==
  result # NoResult =>
    /\ result # Refused
    /\ (result.position = "verified") =
         (/\ handoff = BuildHandoff(handoff.profile, result.payload,
                                    handoff.createdAt, handoff.until)
          /\ result.blob = Binding[handoff.profile].contract.blob
          /\ handoff.createdAt <= result.verifiedAt
          /\ handoff.until = NoTime \/ result.verifiedAt < handoff.until)

\* One step between two verifications of the same handoff.
InTemporalOrder ==
  {result, result'} \cap {NoResult, Refused} = {} /\ handoff' = handoff =>
    /\ result.temporal = "current" => result'.temporal # "future"
    /\ result.temporal = "expired" => result'.temporal = "expired"
    /\ result.temporal = "future" /\ result'.temporal = "expired" =>
         \E t \in Time : /\ result.verifiedAt < t /\ t < result'.verifiedAt
                         /\ TemporalState(handoff, t) = "current"

\* Verified again later, a handoff goes from future to current to expired and
\* never back, and it never expires without having been current.
TimeOnlyExpires == [][InTemporalOrder]_vars
=============================================================================
