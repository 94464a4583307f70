--------------------------- MODULE Exchange_proofs ----------------------------
(***************************************************************************)
(* Proofs about the records the library exchanges with others: what it     *)
(* hands over for integration and gets back, what it knows of the exposure *)
(* of a finding, and what it takes in from scanners.  The state of the     *)
(* three is disjoint, and each proof is about the specification of its own *)
(* module.                                                                 *)
(***************************************************************************)
EXTENDS Integration, Exposure, Intake, FiniteSetTheorems, TLAPS

-----------------------------------------------------------------------------
(* Integration, for every table of contracts and every bound on time.  A   *)
(* result determines nothing about the next one but through the handoff    *)
(* and the clock, so the invariant says what a result is: the verification *)
(* of the handoff in hand, at some time already reached.                   *)

ResultOfHandoff ==
  result # NoResult =>
    /\ handoff # NoHandoff
    /\ \E d \in Payload, b \in Blob, t \in Time :
         result = Verification(handoff, d, b, t) /\ t <= now

IInv ==
  /\ now \in Time
  /\ handoff \in Handoffs \cup {NoHandoff}
  /\ ResultOfHandoff

-----------------------------------------------------------------------------

\* The gaps and the position that the verifier hands over are those that the
\* result's constructor derives.
LEMMA AlwaysConstructible ==
  ASSUME NEW h, NEW d, NEW b, NEW t
  PROVE  Constructible(Verification(h, d, b, t))
  BY DEF Constructible, Verification

\* What a member of Handoffs is made of.
LEMMA HandoffFields ==
  ASSUME NEW h \in Handoffs
  PROVE  /\ h = [profile |-> h.profile, route |-> h.route,
                 payloadType |-> h.payloadType, payload |-> h.payload,
                 contract |-> h.contract, createdAt |-> h.createdAt,
                 until |-> h.until]
         /\ h.profile \in Profile
         /\ h.createdAt \in Time /\ h.until \in Time \cup {NoTime}
         /\ h.until # NoTime => h.until > h.createdAt
  BY DEF Handoffs, Period, ValidPeriod

\* The builder builds a handoff that its constructor lets pass.
LEMMA BuiltIsHandoff ==
  ASSUME NEW p \in Profile, NEW d \in Payload, NEW t \in Time,
         NEW u \in Time \cup {NoTime}, ValidPeriod(t, u)
  PROVE  BuildHandoff(p, d, t, u) \in Handoffs
<1>1. <<t, u>> \in Period
  BY DEF Period
<1>2. /\ Binding[p].route \in Route
      /\ Binding[p].payloadType \in PayloadType
      /\ Binding[p].contract \in Contract
  BY IntegrationAssumption
<1> QED
  BY <1>1, <1>2 DEF BuildHandoff, Handoffs

-----------------------------------------------------------------------------

\* Every result is a verification of the handoff in hand.
LEMMA Inductive == Spec => []IInv
<1>1. Init => IInv
  BY IntegrationAssumption DEF Init, IInv, ResultOfHandoff, Time
<1>2. IInv /\ [Next]_vars => IInv'
  <2> SUFFICES ASSUME IInv, [Next]_vars PROVE IInv'
    OBVIOUS
  <2> USE DEF IInv, ResultOfHandoff
  <2>1. ASSUME NEW p \in Profile, NEW d \in Payload, NEW t \in Time,
               NEW u \in Time \cup {NoTime}, Build(p, d, t, u)
        PROVE  IInv'
    BY <2>1, BuiltIsHandoff DEF Build
  <2>2. ASSUME NEW h \in Handoffs, Receive(h) PROVE IInv'
    BY <2>2 DEF Receive
  <2>3. ASSUME NEW d \in Payload, NEW b \in Blob, Verify(d, b) PROVE IInv'
    <3>1. result' = Verification(handoff, d, b, now)
      BY <2>3, AlwaysConstructible DEF Verify
    <3>2. handoff # NoHandoff /\ now <= now
      BY <2>3 DEF Verify, Time
    <3> QED
      BY <2>3, <3>1, <3>2 DEF Verify
  <2>4. ASSUME Tick PROVE IInv'
    <3>1. now' \in Time /\ \A t \in Time : t <= now => t <= now'
      BY <2>4, IntegrationAssumption DEF Tick, Time
    <3> QED
      BY <2>4, <3>1 DEF Tick
  <2>5. CASE UNCHANGED vars
    BY <2>5 DEF vars
  <2> QED
    BY <2>1, <2>2, <2>3, <2>4, <2>5 DEF Next
<1> QED
  BY <1>1, <1>2, PTL DEF Spec

\* A handoff in hand passed the constructor, and a result speaks of it.
THEOREM TypeCorrect == Spec => []TypeOK
<1>1. IInv => TypeOK
  <2>1. ASSUME IInv, result # NoResult PROVE result.handoff = handoff
    <3>1. PICK d \in Payload, b \in Blob, t \in Time :
            result = Verification(handoff, d, b, t)
      BY <2>1 DEF IInv, ResultOfHandoff
    <3> QED
      BY <3>1 DEF Verification
  <2> QED
    BY <2>1 DEF IInv, TypeOK
<1> QED
  BY <1>1, Inductive, PTL

-----------------------------------------------------------------------------

\* A verification has no gap exactly when nothing differs from what the builder
\* would build and the time is within the handoff's.
LEMMA VerifiedMeansBuilt ==
  ASSUME NEW h \in Handoffs, NEW d \in Payload, NEW b \in Blob, NEW t \in Time
  PROVE  (Verification(h, d, b, t).position = "verified") =
           (/\ h = BuildHandoff(h.profile, d, h.createdAt, h.until)
            /\ b = Binding[h.profile].contract.blob
            /\ h.createdAt <= t
            /\ h.until = NoTime \/ t < h.until)
<1> DEFINE failures == Failures(ProfileMatches(h), d = h.payload,
                                b = h.contract.blob)
           state == TemporalState(h, t)
<1>1. (Verification(h, d, b, t).position = "verified") <=>
        failures = {} /\ TemporalGaps(state) = {}
  BY DEF Verification, Position
<1>2. failures = {} <=>
        ProfileMatches(h) /\ d = h.payload /\ b = h.contract.blob
  BY DEF Failures
<1>3. TemporalGaps(state) = {} <=>
        h.createdAt <= t /\ (h.until = NoTime \/ t < h.until)
  BY HandoffFields, IntegrationAssumption DEF TemporalGaps, TemporalState, Time
<1>4. (ProfileMatches(h) /\ d = h.payload) <=>
        h = BuildHandoff(h.profile, d, h.createdAt, h.until)
  BY HandoffFields DEF ProfileMatches, BuildHandoff
<1>5. h = BuildHandoff(h.profile, d, h.createdAt, h.until) =>
        h.contract = Binding[h.profile].contract
  BY <1>4 DEF ProfileMatches
<1> QED
  BY <1>1, <1>2, <1>3, <1>4, <1>5

\* No field of a record that passes the constructor escapes the verifier, and
\* no verification refuses its own result (verify_integration_handoff).
THEOREM OnlyBuiltVerifies == Spec => []VerifiedAsBuilt
<1>1. IInv => VerifiedAsBuilt
  <2> SUFFICES ASSUME IInv, result # NoResult
               PROVE  /\ result # Refused
                      /\ (result.position = "verified") =
                           (/\ handoff = BuildHandoff(handoff.profile,
                                           result.payload, handoff.createdAt,
                                           handoff.until)
                            /\ result.blob =
                                 Binding[handoff.profile].contract.blob
                            /\ handoff.createdAt <= result.verifiedAt
                            /\ \/ handoff.until = NoTime
                               \/ result.verifiedAt < handoff.until)
    BY DEF VerifiedAsBuilt
  <2>1. PICK d \in Payload, b \in Blob, t \in Time :
          result = Verification(handoff, d, b, t)
    BY DEF IInv, ResultOfHandoff
  <2>2. handoff \in Handoffs
    BY DEF IInv, ResultOfHandoff
  <2>3. result.payload = d /\ result.blob = b /\ result.verifiedAt = t
    BY <2>1 DEF Verification
  <2>4. result # Refused
    BY <2>1, <2>2, ResultAssumption
  <2>5. (Verification(handoff, d, b, t).position = "verified") =
          (/\ handoff = BuildHandoff(handoff.profile, d, handoff.createdAt,
                                     handoff.until)
           /\ b = Binding[handoff.profile].contract.blob
           /\ handoff.createdAt <= t
           /\ handoff.until = NoTime \/ t < handoff.until)
    BY <2>2, VerifiedMeansBuilt
  <2> QED
    BY ONLY <2>1, <2>3, <2>4, <2>5
<1> QED
  BY <1>1, Inductive, PTL

-----------------------------------------------------------------------------

\* A result's time only grows while the handoff stays.
LEMMA ResultsInOrder ==
  ASSUME IInv, IInv', [Next]_vars, handoff' = handoff,
         {result, result'} \cap {NoResult, Refused} = {}
  PROVE  result' = result \/ result.verifiedAt <= result'.verifiedAt
<1>1. ASSUME NEW d \in Payload, NEW b \in Blob, Verify(d, b)
      PROVE  result.verifiedAt <= result'.verifiedAt
  <2>1. result' = Verification(handoff, d, b, now)
    BY <1>1, AlwaysConstructible DEF Verify
  <2>2. result'.verifiedAt = now
    BY <2>1 DEF Verification
  <2>3. PICK e \in Payload, c \in Blob, t \in Time :
          result = Verification(handoff, e, c, t) /\ t <= now
    BY DEF IInv, ResultOfHandoff
  <2>4. result.verifiedAt = t
    BY <2>3 DEF Verification
  <2> QED
    BY <2>2, <2>3, <2>4
<1>2. ASSUME NEW p \in Profile, NEW d \in Payload, NEW t \in Time,
             NEW u \in Time \cup {NoTime}, Build(p, d, t, u)
      PROVE  FALSE
  BY <1>2 DEF Build
<1> QED
  BY <1>1, <1>2 DEF Next, Receive, Tick, vars

\* From one verification to a later one a handoff only goes from future to
\* current to expired, and cannot skip being current
\* (verify_integration_handoff's temporal state).
THEOREM TimeRunsOneWay == Spec => TimeOnlyExpires
<1>1. ASSUME IInv, IInv', [Next]_vars PROVE InTemporalOrder
  <2> SUFFICES ASSUME {result, result'} \cap {NoResult, Refused} = {},
                      handoff' = handoff
               PROVE  /\ result.temporal = "current"
                           => result'.temporal # "future"
                      /\ result.temporal = "expired"
                           => result'.temporal = "expired"
                      /\ result.temporal = "future"
                           /\ result'.temporal = "expired"
                           => \E t \in Time :
                                /\ result.verifiedAt < t
                                /\ t < result'.verifiedAt
                                /\ TemporalState(handoff, t) = "current"
    BY DEF InTemporalOrder
  <2>1. /\ handoff \in Handoffs
        /\ result.verifiedAt \in Time /\ result'.verifiedAt \in Time
        /\ result.temporal = TemporalState(handoff, result.verifiedAt)
        /\ result'.temporal = TemporalState(handoff, result'.verifiedAt)
    <3>1. PICK d \in Payload, b \in Blob, t \in Time :
            result = Verification(handoff, d, b, t)
      BY <1>1 DEF IInv, ResultOfHandoff
    <3>2. PICK e \in Payload, c \in Blob, u \in Time :
            result' = Verification(handoff, e, c, u)
      BY <1>1 DEF IInv, ResultOfHandoff
    <3>3. handoff \in Handoffs
      BY <1>1 DEF IInv, ResultOfHandoff
    <3> QED
      BY <3>1, <3>2, <3>3 DEF Verification
  <2>2. result' = result \/ result.verifiedAt <= result'.verifiedAt
    BY <1>1, ResultsInOrder
  <2> DEFINE h == handoff
             r == result.verifiedAt
             q == result'.verifiedAt
  <2>3. /\ h.createdAt \in Time /\ h.until \in Time \cup {NoTime}
        /\ h.until # NoTime => h.until > h.createdAt
    BY <2>1, HandoffFields
  <2>4. r <= q
    BY <2>1, <2>2 DEF Time
  <2>5. TemporalState(h, r) = "current" => TemporalState(h, q) # "future"
    BY <2>1, <2>3, <2>4, IntegrationAssumption DEF TemporalState, Time
  <2>6. TemporalState(h, r) = "expired" => TemporalState(h, q) = "expired"
    BY <2>1, <2>3, <2>4, IntegrationAssumption DEF TemporalState, Time
  <2>7. TemporalState(h, r) = "future" /\ TemporalState(h, q) = "expired" =>
          /\ r < h.createdAt /\ h.createdAt < q
          /\ TemporalState(h, h.createdAt) = "current"
    BY <2>1, <2>3, <2>4, IntegrationAssumption DEF TemporalState, Time
  <2> QED
    BY <2>1, <2>3, <2>5, <2>6, <2>7
<1>2. IInv /\ IInv' /\ [Next]_vars => [InTemporalOrder]_vars
  BY <1>1
<1> QED
  BY <1>2, Inductive, PTL DEF Spec, TimeOnlyExpires

-----------------------------------------------------------------------------
(* Exposure: any ids, claims, sources and times.                           *)

\* Every step keeps the types.
LEMMA ExposureStepTyped ==
  ExposureTypeOK /\ [ExposureNext]_exposureVars => ExposureTypeOK'
<1> SUFFICES ASSUME ExposureTypeOK, [ExposureNext]_exposureVars
             PROVE  ExposureTypeOK'
  OBVIOUS
<1> USE DEF ExposureTypeOK
<1>1. ASSUME NEW e \in Evidence, NEW at \in CollectionTimes, NEW s \in Source,
             CollectEvidence(e, at, s)
      PROVE  ExposureTypeOK'
  <2>1. [at |-> at, source |-> s] \in [at : Nat, source : Source]
    BY ExposureAssumption
  <2>2. QED
    BY <1>1, <2>1 DEF CollectEvidence
<1>2. ASSUME NEW id \in ClaimIds, NEW r \in Intelligence, AddIntelligence(id, r)
      PROVE  ExposureTypeOK'
  BY <1>2 DEF AddIntelligence
<1>3. ASSUME NEW id \in ClaimIds, NEW r \in Classifications,
             AddClassification(id, r)
      PROVE  ExposureTypeOK'
  BY <1>3 DEF AddClassification
<1>4. ASSUME NEW t \in AssessmentTimes, Assess(t)
      PROVE  ExposureTypeOK'
  BY <1>4, ExposureAssumption DEF Assess
<1>5. CASE UNCHANGED exposureVars
  BY <1>5 DEF exposureVars
<1>6. QED
  BY <1>1, <1>2, <1>3, <1>4, <1>5 DEF ExposureNext

\* The bundle keeps its type and is never assessed before its finding
\* (ExposureContextBundle, assess_exposure_context).
THEOREM ExposureTypeCorrect == ExposureSpec => []ExposureTypeOK
<1>1. ExposureInit => ExposureTypeOK
  BY ExposureAssumption DEF ExposureInit, ExposureTypeOK
<1>2. QED
  BY <1>1, ExposureStepTyped, PTL DEF ExposureSpec

\* A domain is without a gap exactly if one of its claims is current.
LEMMA DomainGapsNamed ==
  ASSUME NEW name, NEW domain
  PROVE  DomainGaps(name, domain) = {} <=> HasCurrent(domain)
<1>1. CASE HasCurrent(domain)
  BY <1>1 DEF DomainGaps
<1>2. CASE ~HasCurrent(domain) /\ Held(domain) = {}
  BY <1>2 DEF DomainGaps
<1>3. CASE ~HasCurrent(domain) /\ Held(domain) # {}
  <2>1. DomainGaps(name, domain) =
          {<<name, s>> : s \in {"no_current_record"} \cup Statuses(domain)}
    BY <1>3 DEF DomainGaps
  <2>2. <<name, "no_current_record">> \in DomainGaps(name, domain)
    BY <2>1
  <2>3. QED
    BY <1>3, <2>2
<1>4. QED
  BY <1>1, <1>2, <1>3

LEMMA ConflictGapsNamed ==
  ConflictGaps = {} <=> ~ExploitConflict /\ ~CriticalityConflict
<1> DEFINE conflicting ==
      {x \in {"exploit_intelligence", "business_criticality"} :
         IF x = "exploit_intelligence" THEN ExploitConflict
                                       ELSE CriticalityConflict}
<1>1. ConflictGaps = {<<d, "conflict">> : d \in conflicting}
  BY DEF ConflictGaps
<1>2. conflicting = {} <=> ~ExploitConflict /\ ~CriticalityConflict
  OBVIOUS
<1> HIDE DEF conflicting
<1>3. ConflictGaps = {} <=> conflicting = {}
  BY <1>1
<1>4. QED
  BY <1>2, <1>3

\* Only a context in position "current" is free of gaps, and only one
\* "with_gaps" holds a contradiction: the code computes gaps and position apart
\* (assess_exposure_context).
THEOREM ExposurePositionAgrees == ExposureSpec => []PositionMatchesGaps
<1>1. PositionMatchesGaps
  <2>1. Gaps = {} <=> /\ HasCurrent(intelligence)
                      /\ HasCurrent(classification)
                      /\ ~ExploitConflict /\ ~CriticalityConflict
    BY DomainGapsNamed, ConflictGapsNamed DEF Gaps
  <2>2. (ContextPosition = "current") <=>
          /\ ~(ExploitConflict \/ CriticalityConflict)
          /\ HasCurrent(intelligence) /\ HasCurrent(classification)
    BY DEF ContextPosition
  <2>3. (ContextPosition = "with_gaps") <=>
          ExploitConflict \/ CriticalityConflict
    BY DEF ContextPosition
  <2>4. QED
    BY <2>1, <2>2, <2>3, ConflictGapsNamed DEF PositionMatchesGaps
<1>2. QED
  BY <1>1, PTL

\* What a claim r needs to count at time t with the catalog c, and what it is
\* said to be when it does not.
InForce(r, t) == r.at <= t /\ r.until > t
Borne(r, c) == /\ r.refs # {}
               /\ \A e \in r.refs : c[e] # NoRecord /\ c[e].source = r.source

LEMMA ClaimStates ==
  ASSUME NEW r, r.at \in Nat, r.until \in Nat,
         assessedAt \in Nat, assessedAt' \in Nat
  PROVE  /\ (Currentness(r) = "expired") <=>
              r.at <= assessedAt /\ r.until <= assessedAt
         /\ (Currentness(r) = "evidence_source_mismatch") <=>
              /\ InForce(r, assessedAt) /\ r.refs # {}
              /\ \A e \in r.refs : catalog[e] # NoRecord
              /\ \E e \in r.refs : catalog[e].source # r.source
         /\ (Currentness(r) = "current") <=>
              /\ InForce(r, assessedAt) /\ Borne(r, catalog)
              /\ \A e \in r.refs : ~(catalog[e].at > assessedAt)
         /\ (Currentness(r)' = "expired") <=>
              r.at <= assessedAt' /\ r.until <= assessedAt'
         /\ (Currentness(r)' = "evidence_source_mismatch") <=>
              /\ InForce(r, assessedAt') /\ r.refs # {}
              /\ \A e \in r.refs : catalog'[e] # NoRecord
              /\ \E e \in r.refs : catalog'[e].source # r.source
         /\ (Currentness(r)' = "current") <=>
              /\ InForce(r, assessedAt') /\ Borne(r, catalog')
              /\ \A e \in r.refs : ~(catalog'[e].at > assessedAt')
<1>1. /\ (Currentness(r) = "expired") <=>
           r.at <= assessedAt /\ r.until <= assessedAt
      /\ (Currentness(r)' = "expired") <=>
           r.at <= assessedAt' /\ r.until <= assessedAt'
  BY DEF Currentness
<1>2. /\ (Currentness(r) = "evidence_source_mismatch") <=>
           /\ InForce(r, assessedAt) /\ r.refs # {}
           /\ \A e \in r.refs : catalog[e] # NoRecord
           /\ \E e \in r.refs : catalog[e].source # r.source
      /\ (Currentness(r)' = "evidence_source_mismatch") <=>
           /\ InForce(r, assessedAt') /\ r.refs # {}
           /\ \A e \in r.refs : catalog'[e] # NoRecord
           /\ \E e \in r.refs : catalog'[e].source # r.source
  BY DEF Currentness, InForce
<1>3. /\ (Currentness(r) = "current") <=>
           /\ InForce(r, assessedAt) /\ Borne(r, catalog)
           /\ \A e \in r.refs : ~(catalog[e].at > assessedAt)
      /\ (Currentness(r)' = "current") <=>
           /\ InForce(r, assessedAt') /\ Borne(r, catalog')
           /\ \A e \in r.refs : ~(catalog'[e].at > assessedAt')
  BY DEF Currentness, InForce, Borne
<1>4. QED
  BY <1>1, <1>2, <1>3

\* Evidence and claims are only added, never replaced.
BundleKept ==
  /\ \A e \in Evidence : catalog[e] # NoRecord => catalog'[e] = catalog[e]
  /\ \A id \in Held(intelligence) : intelligence'[id] = intelligence[id]
  /\ \A id \in Held(classification) : classification'[id] = classification[id]

LEMMA BundleGrows ==
  ExposureTypeOK /\ [ExposureNext]_exposureVars => BundleKept
<1> SUFFICES ASSUME ExposureTypeOK, [ExposureNext]_exposureVars
             PROVE  BundleKept
  OBVIOUS
<1> USE DEF ExposureTypeOK, Held, BundleKept
<1>1. ASSUME NEW e \in Evidence, NEW at \in CollectionTimes, NEW s \in Source,
             CollectEvidence(e, at, s)
      PROVE  BundleKept
  BY <1>1 DEF CollectEvidence
<1>2. ASSUME NEW id \in ClaimIds, NEW r \in Intelligence, AddIntelligence(id, r)
      PROVE  BundleKept
  BY <1>2 DEF AddIntelligence
<1>3. ASSUME NEW id \in ClaimIds, NEW r \in Classifications,
             AddClassification(id, r)
      PROVE  BundleKept
  BY <1>3 DEF AddClassification
<1>4. ASSUME NEW t \in AssessmentTimes, Assess(t)
      PROVE  BundleKept
  BY <1>4 DEF Assess
<1>5. CASE UNCHANGED exposureVars
  BY <1>5 DEF exposureVars
<1>6. QED
  BY <1>1, <1>2, <1>3, <1>4, <1>5 DEF ExposureNext

\* One claim, one step that does not turn back the time.
LEMMA ClaimWears ==
  ASSUME ExposureTypeOK, [ExposureNext]_exposureVars, Onward,
         NEW r \in Intelligence \cup Classifications
  PROVE  /\ Currentness(r) = "expired" => Currentness(r)' = "expired"
         /\ Currentness(r) = "evidence_source_mismatch" =>
              Currentness(r)' \in {"evidence_source_mismatch", "expired"}
         /\ Currentness(r) = "current" =>
              IF r.until <= assessedAt' THEN Currentness(r)' = "expired"
                                        ELSE Currentness(r)' = "current"
<1>1. /\ r.at \in Nat /\ r.until \in Nat /\ r.refs \subseteq Evidence
      /\ assessedAt \in Nat /\ assessedAt' \in Nat /\ assessedAt <= assessedAt'
  <2>1. ExposureTypeOK'
    BY ExposureStepTyped
  <2>2. QED
    BY <2>1, ExposureAssumption DEF ExposureTypeOK, Onward
<1>2. \A e \in r.refs : catalog[e] # NoRecord => catalog'[e] = catalog[e]
  BY <1>1, BundleGrows DEF BundleKept
<1>3. \A e \in r.refs : catalog[e] # NoRecord => catalog[e].at \in Nat
  BY <1>1 DEF ExposureTypeOK
<1>4. Currentness(r) = "expired" => Currentness(r)' = "expired"
  BY <1>1, ClaimStates
<1>5. ASSUME Currentness(r) = "evidence_source_mismatch"
      PROVE  Currentness(r)' \in {"evidence_source_mismatch", "expired"}
  <2>1. /\ InForce(r, assessedAt) /\ r.refs # {}
        /\ \A e \in r.refs : catalog[e] # NoRecord
        /\ \E e \in r.refs : catalog[e].source # r.source
    BY <1>1, <1>5, ClaimStates
  <2>2. /\ \A e \in r.refs : catalog'[e] = catalog[e]
        /\ r.at <= assessedAt'
    BY <1>1, <1>2, <2>1 DEF InForce
  <2>3. CASE r.until <= assessedAt'
    BY <1>1, <2>2, <2>3, ClaimStates
  <2>4. CASE r.until > assessedAt'
    BY <1>1, <2>1, <2>2, <2>4, ClaimStates DEF InForce
  <2>5. QED
    BY <1>1, <2>3, <2>4
<1>6. ASSUME Currentness(r) = "current"
      PROVE  IF r.until <= assessedAt' THEN Currentness(r)' = "expired"
                                       ELSE Currentness(r)' = "current"
  <2>1. /\ InForce(r, assessedAt) /\ Borne(r, catalog)
        /\ \A e \in r.refs : ~(catalog[e].at > assessedAt)
    BY <1>1, <1>6, ClaimStates
  <2>2. /\ \A e \in r.refs : catalog'[e] = catalog[e]
        /\ r.at <= assessedAt'
    BY <1>1, <1>2, <2>1 DEF InForce, Borne
  <2>3. CASE r.until <= assessedAt'
    BY <1>1, <2>2, <2>3, ClaimStates
  <2>4. CASE r.until > assessedAt'
    <3>1. InForce(r, assessedAt') /\ Borne(r, catalog')
      BY <2>1, <2>2, <2>4 DEF InForce, Borne
    <3>2. \A e \in r.refs : ~(catalog'[e].at > assessedAt')
      BY <1>1, <1>3, <2>1, <2>2 DEF Borne
    <3>3. QED
      BY <1>1, <2>4, <3>1, <3>2, ClaimStates
  <2>5. QED
    BY <1>1, <2>3, <2>4
<1>7. QED
  BY <1>4, <1>5, <1>6

\* A claim that has expired or that its evidence contradicts never comes to
\* count, and one that counts does so until it expires, however the bundle
\* grows (_currentness).
THEOREM ExposureClaimsWear == ExposureSpec => ClaimsOnlyWear
<1> DEFINE Worn ==
      Onward =>
        \A domain \in {intelligence, classification} :
          \A id \in Held(domain) :
            LET before == Currentness(domain[id])
                after == Currentness(domain[id])' IN
            /\ before = "expired" => after = "expired"
            /\ before = "evidence_source_mismatch" =>
                 after \in {"evidence_source_mismatch", "expired"}
            /\ before = "current" => after \in {"current", "expired"}
<1>1. ExposureTypeOK /\ [ExposureNext]_exposureVars => [Worn]_exposureVars
  <2> SUFFICES ASSUME ExposureTypeOK, ExposureNext, Onward,
                      NEW domain \in {intelligence, classification},
                      NEW id \in Held(domain)
               PROVE  LET before == Currentness(domain[id])
                          after == Currentness(domain[id])' IN
                      /\ before = "expired" => after = "expired"
                      /\ before = "evidence_source_mismatch" =>
                           after \in {"evidence_source_mismatch", "expired"}
                      /\ before = "current" => after \in {"current", "expired"}
    OBVIOUS
  <2>1. PICK r \in Intelligence \cup Classifications : r = domain[id]
    BY DEF Held, ExposureTypeOK
  <2>2. /\ Currentness(r) = "expired" => Currentness(r)' = "expired"
        /\ Currentness(r) = "evidence_source_mismatch" =>
             Currentness(r)' \in {"evidence_source_mismatch", "expired"}
        /\ Currentness(r) = "current" =>
             Currentness(r)' \in {"current", "expired"}
    BY ClaimWears
  <2>3. QED
    BY <2>1, <2>2
<1>2. QED
  BY <1>1, ExposureTypeCorrect, PTL DEF ExposureSpec, ClaimsOnlyWear

\* A current claim that does not expire in a step counts after it, about the
\* same topic and with the same value.
LEMMA UnexpiredStays ==
  ASSUME ExposureTypeOK, [ExposureNext]_exposureVars, Onward, NEW topic
  PROVE  /\ \A id \in CurrentClaims(intelligence, topic) :
              ~(intelligence[id].until <= assessedAt') =>
                intelligence[id].value \in CurrentValues(intelligence, topic)'
         /\ \A id \in CurrentClaims(classification, topic) :
              ~(classification[id].until <= assessedAt') =>
                classification[id].value \in CurrentValues(classification, topic)'
<1>1. ASSUME NEW id \in CurrentClaims(intelligence, topic),
             ~(intelligence[id].until <= assessedAt')
      PROVE  intelligence[id].value \in CurrentValues(intelligence, topic)'
  <2>1. PICK r \in Intelligence : r = intelligence[id]
    BY DEF CurrentClaims, Held, ExposureTypeOK
  <2>2. /\ id \in Held(intelligence) /\ r.topic = topic
        /\ Currentness(r) = "current"
    BY <2>1 DEF CurrentClaims
  <2>3. intelligence'[id] = r /\ id \in Held(intelligence)'
    BY <2>1, <2>2, BundleGrows DEF BundleKept, Held
  <2>4. Currentness(r)' = "current"
    BY <1>1, <2>1, <2>2, ClaimWears
  <2>5. id \in CurrentClaims(intelligence, topic)'
    BY <2>2, <2>3, <2>4 DEF CurrentClaims
  <2>6. QED
    BY <2>1, <2>3, <2>5 DEF CurrentValues
<1>2. ASSUME NEW id \in CurrentClaims(classification, topic),
             ~(classification[id].until <= assessedAt')
      PROVE  classification[id].value \in CurrentValues(classification, topic)'
  <2>1. PICK r \in Classifications : r = classification[id]
    BY DEF CurrentClaims, Held, ExposureTypeOK
  <2>2. /\ id \in Held(classification) /\ r.topic = topic
        /\ Currentness(r) = "current"
    BY <2>1 DEF CurrentClaims
  <2>3. classification'[id] = r /\ id \in Held(classification)'
    BY <2>1, <2>2, BundleGrows DEF BundleKept, Held
  <2>4. Currentness(r)' = "current"
    BY <1>2, <2>1, <2>2, ClaimWears
  <2>5. id \in CurrentClaims(classification, topic)'
    BY <2>2, <2>3, <2>4 DEF CurrentClaims
  <2>6. QED
    BY <2>1, <2>3, <2>5 DEF CurrentValues
<1>3. QED
  BY <1>1, <1>2

\* No contradiction about a topic is resolved by further claims or by
\* evidence: it ends only when one of its sides has expired altogether
\* (_exploit_conflict, _criticality_conflict).
THEOREM ExposureConflictsLast == ExposureSpec => ConflictEndsByExpiry
<1> DEFINE ExploitLasts ==
      \A topic \in Topics(intelligence) :
        ExploitConflictOn(topic) /\ ~ExploitConflictOn(topic)' =>
          \/ Expire(intelligence, Denying(topic))
          \/ Expire(intelligence, Asserting(topic))
           CriticalityLasts ==
      \A topic \in Topics(classification) :
        CriticalityConflictOn(topic) /\ ~CriticalityConflictOn(topic)' =>
          \E v \in CurrentValues(classification, topic) :
            Expire(classification,
                   {id \in CurrentClaims(classification, topic) :
                      classification[id].value # v})
<1>1. ASSUME ExposureTypeOK, ExposureNext, Onward
      PROVE  ExploitLasts
  <2> SUFFICES ASSUME NEW topic \in Topics(intelligence),
                      ~Expire(intelligence, Denying(topic)),
                      ~Expire(intelligence, Asserting(topic))
               PROVE  ExploitConflictOn(topic)'
    OBVIOUS
  <2>1. PICK a \in Denying(topic) : ~(intelligence[a].until <= assessedAt')
    BY DEF Expire
  <2>2. PICK b \in Asserting(topic) : ~(intelligence[b].until <= assessedAt')
    BY DEF Expire
  <2>3. /\ a \in CurrentClaims(intelligence, topic)
        /\ intelligence[a].value = NoSignal
        /\ b \in CurrentClaims(intelligence, topic)
        /\ intelligence[b].value \notin {NoSignal, Unknown}
    BY DEF Denying, Asserting
  <2>4. /\ intelligence[a].value \in CurrentValues(intelligence, topic)'
        /\ intelligence[b].value \in CurrentValues(intelligence, topic)'
    BY <1>1, <2>1, <2>2, <2>3, UnexpiredStays
  <2>5. QED
    BY <2>3, <2>4 DEF ExploitConflictOn
<1>2. ASSUME ExposureTypeOK, ExposureNext, Onward
      PROVE  CriticalityLasts
  <2> DEFINE values(t) == CurrentValues(classification, t)
  <2> SUFFICES ASSUME NEW topic \in Topics(classification),
                      CriticalityConflictOn(topic),
                      \A v \in values(topic) :
                        ~Expire(classification,
                                {id \in CurrentClaims(classification, topic) :
                                   classification[id].value # v})
               PROVE  CriticalityConflictOn(topic)'
    OBVIOUS
  <2>1. ASSUME NEW v \in values(topic)
        PROVE  \E w \in values(topic) :
                 w # v /\ w \in CurrentValues(classification, topic)'
    <3>1. PICK id \in CurrentClaims(classification, topic) :
            /\ classification[id].value # v
            /\ ~(classification[id].until <= assessedAt')
      BY DEF Expire
    <3>2. classification[id].value \in values(topic)
      BY <3>1 DEF CurrentValues
    <3>3. classification[id].value \in CurrentValues(classification, topic)'
      BY <1>2, <3>1, UnexpiredStays
    <3>4. QED
      BY <3>1, <3>2, <3>3
  <2>2. PICK v \in values(topic) : TRUE
    BY DEF CriticalityConflictOn
  <2>3. PICK w \in values(topic) : w \in CurrentValues(classification, topic)'
    BY <2>1, <2>2
  <2>4. PICK x \in values(topic) :
          x # w /\ x \in CurrentValues(classification, topic)'
    BY <2>1, <2>3
  <2>5. QED
    BY <2>3, <2>4 DEF CriticalityConflictOn
<1>3. ExposureTypeOK /\ [ExposureNext]_exposureVars =>
        [Onward => ExploitLasts /\ CriticalityLasts]_exposureVars
  BY <1>1, <1>2
<1>4. QED
  BY <1>3, ExposureTypeCorrect, PTL DEF ExposureSpec, ConflictEndsByExpiry

-----------------------------------------------------------------------------
(* Intake: documents of any size.  A batch is what its document and its    *)
(* context make of it, and a document that raised is one that does.        *)

IntakeInv ==
  /\ \A b \in batches :
       /\ b.document \in Sarif \cup CycloneDX
       /\ Readable(b.document)
       /\ b.batch = Batch(b.document, b.context)
  /\ \A x \in refused :
       /\ x.document \in Sarif \cup CycloneDX
       /\ ~Adapts(x.document, x.context)

LEMMA IntakeInductive == IntakeSpec => []IntakeInv
<1>1. IntakeInit => IntakeInv
  BY DEF IntakeInit, IntakeInv
<1>2. IntakeInv /\ [IntakeNext]_intakeVars => IntakeInv'
  <2> SUFFICES ASSUME IntakeInv, [IntakeNext]_intakeVars
               PROVE  IntakeInv'
    OBVIOUS
  <2>1. ASSUME NEW document \in Sarif \cup CycloneDX, NEW context \in Contexts,
               Adapt(document, context)
        PROVE  IntakeInv'
    <3>1. PICK b : b = [document |-> document, context |-> context,
                        batch |-> Batch(document, context)]
      OBVIOUS
    <3>2. /\ b.document = document
          /\ b.batch = Batch(b.document, b.context)
      BY <3>1
    <3>3. /\ batches' = batches \cup {b} /\ refused' = refused
          /\ Readable(document)
      BY <2>1, <3>1 DEF Adapt, Adapts
    <3>4. QED
      BY <3>2, <3>3 DEF IntakeInv
  <2>2. ASSUME NEW document \in Sarif \cup CycloneDX, NEW context \in Contexts,
               Refuse(document, context)
        PROVE  IntakeInv'
    <3>1. PICK x : x = [document |-> document, context |-> context]
      OBVIOUS
    <3>2. x.document = document /\ x.context = context
      BY <3>1
    <3>3. /\ batches' = batches /\ refused' = refused \cup {x}
          /\ ~Adapts(document, context)
      BY <2>2, <3>1 DEF Refuse
    <3>4. QED
      BY <3>2, <3>3 DEF IntakeInv
  <2>3. CASE UNCHANGED intakeVars
    BY <2>3 DEF IntakeInv, intakeVars
  <2>4. QED
    BY <2>1, <2>2, <2>3 DEF IntakeNext
<1>3. QED
  BY <1>1, <1>2, PTL DEF IntakeSpec

-----------------------------------------------------------------------------
(* Identities.                                                             *)

\* Finding and mapping are named for the place of the record, the document and
\* the context.
LEMMA EntryNames ==
  ASSUME NEW d, NEW c, NEW p
  PROVE  LET e == EntryAt(d, c, p) IN
         /\ e.finding.id.refs = p /\ e.finding.id.document = d
         /\ e.finding.id.context = Context(c)
         /\ e.mapping.id = <<e.finding.id, p>>
         /\ e.finding.observedAt = NormalTime(c.observedAt)
         /\ e.finding.evidence = c.artifact
<1>1. ASSUME NEW record, NEW mapped
      PROVE  LET e == Entry(d, c, p, record, mapped) IN
             /\ e.finding.id.refs = p /\ e.finding.id.document = d
             /\ e.finding.id.context = Context(c)
             /\ e.mapping.id = <<e.finding.id, p>>
             /\ e.finding.observedAt = NormalTime(c.observedAt)
             /\ e.finding.evidence = c.artifact
  BY DEF Entry, FindingId
<1>2. \E record, mapped : EntryAt(d, c, p) = Entry(d, c, p, record, mapped)
  <2>1. CASE d.format = "sarif"
    BY <2>1 DEF EntryAt, SarifEntry
  <2>2. CASE d.format # "sarif"
    BY <2>2 DEF EntryAt, CycloneDXEntry
  <2>3. QED
    BY <2>1, <2>2
<1>3. PICK record, mapped : EntryAt(d, c, p) = Entry(d, c, p, record, mapped)
  BY <1>2
<1>4. QED
  BY <1>1, <1>3

\* The entries of a batch are the records of its document, each at its place.
LEMMA EntriesOfBatch ==
  ASSUME NEW d, NEW c
  PROVE  /\ DOMAIN Batch(d, c).entries = Places(d)
         /\ \A p \in Places(d) : Batch(d, c).entries[p] = EntryAt(d, c, p)
         /\ Range(Batch(d, c).entries) = {EntryAt(d, c, p) : p \in Places(d)}
  BY DEF Batch, Range

\* The constructor of IntakeBatch refuses nothing but an empty batch: no two
\* records of a document share an identity, alike as they may be.
LEMMA ReadableAdapts ==
  ASSUME NEW d, NEW c, Readable(d), Places(d) # {}
  PROVE  Adapts(d, c)
<1> DEFINE entries == Batch(d, c).entries
<1>1. entries # <<>>
  <2>1. DOMAIN entries # {} /\ DOMAIN <<>> = {}
    BY EntriesOfBatch
  <2>2. QED
    BY <2>1
<1>2. ASSUME NEW p \in DOMAIN entries, NEW q \in DOMAIN entries,
             \/ entries[p].finding.id = entries[q].finding.id
             \/ entries[p].mapping.id = entries[q].mapping.id
      PROVE  p = q
  <2>1. entries[p] = EntryAt(d, c, p) /\ entries[q] = EntryAt(d, c, q)
    BY EntriesOfBatch
  <2>2. /\ entries[p].finding.id.refs = p /\ entries[q].finding.id.refs = q
        /\ entries[p].mapping.id = <<entries[p].finding.id, p>>
        /\ entries[q].mapping.id = <<entries[q].finding.id, q>>
    BY <2>1, EntryNames
  <2> HIDE DEF entries
  <2>3. QED
    BY <1>2, <2>2
<1>3. ASSUME NEW e \in Range(entries)
      PROVE  /\ e.finding.observedAt = Batch(d, c).observedAt
             /\ e.finding.evidence = Batch(d, c).artifact
  <2>1. PICK p \in Places(d) : e = EntryAt(d, c, p)
    BY EntriesOfBatch
  <2>2. QED
    BY <2>1, EntryNames DEF Batch
<1>4. QED
  BY <1>1, <1>2, <1>3 DEF Adapts, BatchConstructible

\* The places of records that are listed under the elements of a sequence.
PlacesUnder(s, f) == UNION {{n} \X f[n] : n \in DOMAIN s}

\* A document has finitely many records.
LEMMA UnionIsFinite ==
  ASSUME NEW s, s \in Seq(Range(s)), NEW f,
         \A n \in DOMAIN s : IsFiniteSet(f[n])
  PROVE  IsFiniteSet(PlacesUnder(s, f))
<1> DEFINE T == {{n} \X f[n] : n \in DOMAIN s}
           g == [n \in DOMAIN s |-> {n} \X f[n]]
<1>1. IsFiniteSet(DOMAIN s)
  <2>1. Len(s) \in Nat /\ DOMAIN s = 1..Len(s)
    OBVIOUS
  <2>2. IsFiniteSet(1..Len(s))
    BY <2>1, FS_Interval
  <2>3. QED
    BY <2>1, <2>2
<1>2. g \in Surjection(DOMAIN s, T)
  BY DEF Surjection
<1>3. IsFiniteSet(T)
  <2> HIDE DEF g, T
  <2> QED
    BY <1>1, <1>2, FS_Surjection
<1>4. ASSUME NEW n \in DOMAIN s
      PROVE  IsFiniteSet({n} \X f[n])
  BY FS_Singleton, FS_Product
<1>5. \A t \in T : IsFiniteSet(t)
  BY <1>4
<1>6. QED
  BY <1>3, <1>5, FS_UNION DEF PlacesUnder

LEMMA PlacesFinite ==
  ASSUME NEW d \in Sarif \cup CycloneDX
  PROVE  IsFiniteSet(Places(d))
<1>1. ASSUME NEW s, s \in Seq(Range(s))
      PROVE  IsFiniteSet(DOMAIN s)
  <2>1. Len(s) \in Nat /\ DOMAIN s = 1..Len(s)
    BY <1>1
  <2>2. IsFiniteSet(1..Len(s))
    BY <2>1, FS_Interval
  <2>3. QED
    BY <2>1, <2>2
<1>2. CASE d.format = "sarif"
  <2>1. /\ d.runs \in Seq(Range(d.runs))
        /\ \A r \in Range(d.runs) : r.results \in Seq(Range(r.results))
    BY <1>2, IntakeAssumption
  <2> DEFINE f == [n \in DOMAIN d.runs |-> DOMAIN d.runs[n].results]
  <2>2. \A n \in DOMAIN d.runs : IsFiniteSet(f[n])
    BY <1>1, <2>1 DEF Range
  <2>3. Places(d) = PlacesUnder(d.runs, f)
    BY <1>2 DEF Places, PlacesUnder
  <2> HIDE DEF f
  <2>4. QED
    BY <2>1, <2>2, <2>3, UnionIsFinite
<1>3. CASE d.format # "sarif"
  <2>1. /\ d.vulnerabilities \in Seq(Range(d.vulnerabilities))
        /\ \A v \in Range(d.vulnerabilities) :
             v.affects \in Seq(Range(v.affects))
    BY <1>3, IntakeAssumption
  <2> DEFINE f == [n \in DOMAIN d.vulnerabilities |->
                     DOMAIN d.vulnerabilities[n].affects]
  <2>2. \A n \in DOMAIN d.vulnerabilities : IsFiniteSet(f[n])
    BY <1>1, <2>1 DEF Range
  <2>3. Places(d) = PlacesUnder(d.vulnerabilities, f)
    BY <1>3 DEF Places, PlacesUnder
  <2> HIDE DEF f
  <2>4. QED
    BY <2>1, <2>2, <2>3, UnionIsFinite
<1>4. QED
  BY <1>2, <1>3

LEMMA AsManyAsPlaces ==
  ASSUME NEW d \in Sarif \cup CycloneDX, NEW c
  PROVE  Cardinality({e.finding.id : e \in Range(Batch(d, c).entries)})
           = Cardinality(Places(d))
<1> DEFINE ids == {e.finding.id : e \in Range(Batch(d, c).entries)}
           f == [p \in Places(d) |-> EntryAt(d, c, p).finding.id]
<1>1. ids = {EntryAt(d, c, p).finding.id : p \in Places(d)}
  BY EntriesOfBatch
<1>2. \A p \in Places(d) : EntryAt(d, c, p).finding.id.refs = p
  BY EntryNames
<1>3. f \in Bijection(Places(d), ids)
  <2>1. f \in [Places(d) -> ids]
    BY <1>1
  <2>2. \A p \in Places(d) : f[p].refs = p
    BY <1>2
  <2>3. \A i \in ids : \E p \in Places(d) : f[p] = i
    BY <1>1
  <2> HIDE DEF f, ids
  <2>4. \A p, q \in Places(d) : f[p] = f[q] => p = q
    BY <2>2
  <2>5. f \in Injection(Places(d), ids)
    BY <2>1, <2>4 DEF Injection, IsInjective
  <2>6. f \in Surjection(Places(d), ids)
    BY <2>1, <2>3 DEF Surjection
  <2>7. QED
    BY <2>5, <2>6 DEF Bijection
<1> HIDE DEF f
<1>4. QED
  BY <1>3, PlacesFinite, FS_Bijection DEF ExistsBijection

\* However large and repetitive a document is, _batch keeps each of its records
\* under an identity of its own, and IntakeBatch refuses it for no other reason
\* than an incomplete record or the lack of any.
THEOREM IntakeKeepsRecords == IntakeSpec => []EveryRecordIsKept
<1>1. IntakeInv => EveryRecordIsKept
  <2> SUFFICES ASSUME IntakeInv
               PROVE  EveryRecordIsKept
    OBVIOUS
  <2>1. ASSUME NEW x \in refused
        PROVE  ~Readable(x.document) \/ Places(x.document) = {}
    BY ReadableAdapts DEF IntakeInv
  <2>2. ASSUME NEW b \in batches
        PROVE  Cardinality({e.finding.id : e \in Range(b.batch.entries)})
                 = Cardinality(Places(b.document))
    BY AsManyAsPlaces DEF IntakeInv
  <2>3. QED
    BY <2>1, <2>2 DEF EveryRecordIsKept
<1>2. QED
  BY <1>1, IntakeInductive, PTL

LEMMA ContextIsWhatMatters ==
  ASSUME NEW c, NEW d
  PROVE  SameContext(c, d) <=> Context(c) = Context(d)
<1>1. ASSUME Context(c) = Context(d)
      PROVE  SameContext(c, d)
  <2>1. \A x \in {"artifact", "asset", "collectedAt", "observedAt"} :
          Context(c)[x] = Context(d)[x]
    BY <1>1
  <2>2. QED
    BY <2>1 DEF Context, SameContext, SameMoment, NormalTime
<1>2. QED
  BY <1>1 DEF Context, SameContext, SameMoment, NormalTime

\* What enters a batch of the context is what the identities are made of.
LEMMA BatchReproduced ==
  ASSUME NEW d, NEW b, NEW c, SameContext(b, c)
  PROVE  Batch(d, b) = Batch(d, c)
<1>1. /\ Context(b) = Context(c) /\ b.artifact = c.artifact /\ b.asset = c.asset
      /\ NormalTime(b.observedAt) = NormalTime(c.observedAt)
  BY ContextIsWhatMatters DEF SameContext, SameMoment, NormalTime
<1>2. ASSUME NEW refs, NEW record, NEW mapped
      PROVE  Entry(d, b, refs, record, mapped) = Entry(d, c, refs, record, mapped)
  BY <1>1 DEF Entry, FindingId
<1>3. \A p : EntryAt(d, b, p) = EntryAt(d, c, p)
  BY <1>1, <1>2 DEF EntryAt, SarifEntry, CycloneDXEntry
<1>4. QED
  BY <1>1, <1>3 DEF Batch, IntakeId

\* Adapted again, any document gives the same batch in the same context, however
\* its times are written, and other identities in any other (_context).
THEOREM IntakeReproducible == IntakeSpec => []IdentitiesAreReproducible
<1>1. IntakeInv => IdentitiesAreReproducible
  <2> SUFFICES ASSUME IntakeInv, NEW b \in batches, NEW c \in batches
               PROVE  LET same == /\ b.document = c.document
                                  /\ SameContext(b.context, c.context) IN
                      /\ same => b.batch = c.batch
                      /\ ~same =>
                           /\ b.batch.id # c.batch.id
                           /\ \A e \in Range(b.batch.entries),
                                 f \in Range(c.batch.entries) :
                                /\ e.finding.id # f.finding.id
                                /\ e.mapping.id # f.mapping.id
    BY DEF IdentitiesAreReproducible
  <2> DEFINE same == b.document = c.document /\ SameContext(b.context, c.context)
  <2>1. /\ b.batch = Batch(b.document, b.context)
        /\ c.batch = Batch(c.document, c.context)
    BY DEF IntakeInv
  <2>2. same => b.batch = c.batch
    BY <2>1, BatchReproduced
  <2>3. ASSUME ~same
        PROVE  \/ b.document # c.document
               \/ Context(b.context) # Context(c.context)
    BY <2>3, ContextIsWhatMatters
  <2>4. ASSUME ~same
        PROVE  b.batch.id # c.batch.id
    <3>1. /\ b.batch.id.document = b.document
          /\ b.batch.id.context = Context(b.context)
          /\ c.batch.id.document = c.document
          /\ c.batch.id.context = Context(c.context)
      BY <2>1 DEF Batch, IntakeId
    <3>2. QED
      BY <2>3, <2>4, <3>1
  <2>5. ASSUME ~same, NEW e \in Range(b.batch.entries),
               NEW f \in Range(c.batch.entries)
        PROVE  e.finding.id # f.finding.id /\ e.mapping.id # f.mapping.id
    <3>1. PICK p : e = EntryAt(b.document, b.context, p)
      BY <2>1, EntriesOfBatch
    <3>2. PICK q : f = EntryAt(c.document, c.context, q)
      BY <2>1, EntriesOfBatch
    <3>3. /\ e.finding.id.document = b.document
          /\ e.finding.id.context = Context(b.context)
          /\ e.mapping.id = <<e.finding.id, p>>
      BY <3>1, EntryNames
    <3>4. /\ f.finding.id.document = c.document
          /\ f.finding.id.context = Context(c.context)
          /\ f.mapping.id = <<f.finding.id, q>>
      BY <3>2, EntryNames
    <3>5. QED
      BY <2>3, <2>5, <3>3, <3>4
  <2>6. QED
    BY <2>2, <2>4, <2>5
<1>2. QED
  BY <1>1, IntakeInductive, PTL

-----------------------------------------------------------------------------
(* Severities.                                                             *)

LEMMA Ranks ==
  /\ Rank("informational") = 1 /\ Rank("low") = 2 /\ Rank("medium") = 3
  /\ Rank("high") = 4 /\ Rank("critical") = 5
  /\ Range(Severities) =
       {"informational", "low", "medium", "high", "critical"}
<1>1. /\ DOMAIN Severities = 1..5
      /\ Severities[1] = "informational" /\ Severities[2] = "low"
      /\ Severities[3] = "medium" /\ Severities[4] = "high"
      /\ Severities[5] = "critical"
  BY DEF Severities
<1>2. \A n \in 1..5 : n = 1 \/ n = 2 \/ n = 3 \/ n = 4 \/ n = 5
  OBVIOUS
<1>3. Rank("informational") = 1
  BY <1>1, <1>2 DEF Rank
<1>4. Rank("low") = 2
  BY <1>1, <1>2 DEF Rank
<1>5. Rank("medium") = 3
  BY <1>1, <1>2 DEF Rank
<1>6. Rank("high") = 4
  BY <1>1, <1>2 DEF Rank
<1>7. Rank("critical") = 5
  BY <1>1, <1>2 DEF Rank
<1>8. Range(Severities) =
        {"informational", "low", "medium", "high", "critical"}
  BY <1>1, <1>2 DEF Range
<1>9. QED
  BY <1>3, <1>4, <1>5, <1>6, <1>7, <1>8

LEMMA LevelsAreRanked ==
  \A l \in DOMAIN SeverityOf : Rank(SeverityOf[l]) \in Nat
<1>1. \A l \in DOMAIN SeverityOf :
        SeverityOf[l] \in {"informational", "low", "medium", "high", "critical"}
  BY DEF SeverityOf
<1>2. QED
  BY <1>1, Ranks

\* Some recognised severity is the highest.
LEMMA HighestIsHighest ==
  ASSUME NEW ratings, NEW recognised \in SUBSET Range(Severities),
         recognised # {}
  PROVE  /\ Highest(ratings, recognised) \in recognised
         /\ \A t \in recognised :
              Rank(t) <= Rank(Highest(ratings, recognised))
<1>1. recognised \subseteq
        {"informational", "low", "medium", "high", "critical"}
  BY Ranks
<1>2. \E s \in recognised : \A t \in recognised : Rank(t) <= Rank(s)
  <2>1. CASE "critical" \in recognised
    BY <1>1, <2>1, Ranks
  <2>2. CASE "critical" \notin recognised /\ "high" \in recognised
    BY <1>1, <2>2, Ranks
  <2>3. CASE /\ "critical" \notin recognised /\ "high" \notin recognised
             /\ "medium" \in recognised
    BY <1>1, <2>3, Ranks
  <2>4. CASE /\ "critical" \notin recognised /\ "high" \notin recognised
             /\ "medium" \notin recognised /\ "low" \in recognised
    BY <1>1, <2>4, Ranks
  <2>5. CASE /\ "critical" \notin recognised /\ "high" \notin recognised
             /\ "medium" \notin recognised /\ "low" \notin recognised
    <3>1. recognised = {"informational"}
      BY <1>1, <2>5
    <3>2. QED
      BY <3>1, Ranks
  <2>6. QED
    BY <2>1, <2>2, <2>3, <2>4, <2>5
<1>3. QED
  BY <1>2 DEF Highest

\* What the mapping of one record promises of its severity.
SeverityKept(e, asserted) ==
  IF asserted = {}
  THEN /\ e.finding.severity = "informational"
       /\ e.mapping.notices
            \cap {"missing, informational", "unmapped, informational"} # {}
  ELSE /\ e.finding.severity \in asserted
       /\ \A s \in asserted : Rank(s) <= Rank(e.finding.severity)

LEMMA EntryMapped ==
  ASSUME NEW d, NEW c, NEW p, NEW record, NEW mapped
  PROVE  /\ Entry(d, c, p, record, mapped).finding.severity = mapped.severity
         /\ Entry(d, c, p, record, mapped).mapping.notices = mapped.notices
  BY DEF Entry

LEMMA SarifSeverityKept ==
  ASSUME NEW d \in Sarif \cup CycloneDX, NEW c, NEW p \in Places(d),
         d.format = "sarif", Readable(d)
  PROVE  SeverityKept(EntryAt(d, c, p), Asserted(d, p))
<1> DEFINE r == d.runs[p[1]]
           x == r.results[p[2]]
           level == SarifLevel(r, x)
           e == EntryAt(d, c, p)
<1>1. /\ e.finding.severity = SarifSeverity(r, x)
      /\ e.mapping.notices = SarifNotices(r, x)
  BY EntryMapped DEF EntryAt, SarifEntry
<1>2. DistinctRules(r)
  <2>1. PICK n \in DOMAIN d.runs : \E m \in DOMAIN d.runs[n].results : p = <<n, m>>
    BY DEF Places
  <2>2. r \in Range(d.runs)
    BY <2>1 DEF Range
  <2>3. QED
    BY <2>2 DEF Readable, SarifReadable
<1>3. Asserted(d, p) =
        {SeverityOf[l] : l \in DOMAIN SeverityOf \cap
          (IF x.level # Missing THEN {x.level}
           ELSE {rule.default : rule \in {rule \in Range(r.rules) :
                                            rule.id = x.rule}})}
  BY DEF Asserted
<1>4. \/ level = Missing /\ Asserted(d, p) = {}
      \/ level # Missing /\ level \notin DOMAIN SeverityOf /\ Asserted(d, p) = {}
      \/ level \in DOMAIN SeverityOf /\ Asserted(d, p) = {SeverityOf[level]}
  <2>1. CASE x.level # Missing
    BY <1>3, <2>1 DEF SarifLevel
  <2>2. CASE x.level = Missing /\ \A rule \in Range(r.rules) : rule.id # x.rule
    <3>1. level = Missing
      BY <2>2 DEF SarifLevel, DefaultLevel
    <3>2. Asserted(d, p) = {}
      BY <1>3, <2>2
    <3>3. QED
      BY <3>1, <3>2
  <2>3. CASE x.level = Missing /\ \E rule \in Range(r.rules) : rule.id = x.rule
    <3>1. PICK n \in DOMAIN r.rules : r.rules[n].id = x.rule
      BY <2>3 DEF Range
    <3>2. \A rule \in Range(r.rules) :
            rule.id = x.rule <=> rule = r.rules[n]
      BY <1>2, <3>1 DEF DistinctRules, Range
    <3>3. r.rules[n] \in Range(r.rules)
      BY DEF Range
    <3>4. level = r.rules[n].default
      BY <2>3, <3>1, <3>2, <3>3 DEF SarifLevel, DefaultLevel
    <3>5. {rule.default : rule \in {rule \in Range(r.rules) :
                                      rule.id = x.rule}} = {level}
      BY <3>2, <3>3, <3>4
    <3> HIDE DEF level, x, r
    <3>6. Asserted(d, p) = {SeverityOf[l] : l \in DOMAIN SeverityOf \cap {level}}
      BY <1>3, <2>3, <3>5
    <3>7. QED
      BY <3>6, IntakeAssumption
  <2>4. QED
    BY <2>1, <2>2, <2>3
<1> HIDE DEF e
<1>5. CASE level \in DOMAIN SeverityOf /\ Asserted(d, p) = {SeverityOf[level]}
  <2>1. e.finding.severity = SeverityOf[level]
    BY <1>1, <1>5 DEF SarifSeverity
  <2>2. Rank(SeverityOf[level]) <= Rank(SeverityOf[level])
    BY <1>5, LevelsAreRanked
  <2> HIDE DEF level
  <2>3. QED
    BY <1>5, <2>1, <2>2 DEF SeverityKept, e
<1>6. CASE level = Missing /\ Asserted(d, p) = {}
  <2>1. e.finding.severity = "informational"
    BY <1>1, <1>6, IntakeAssumption DEF SarifSeverity
  <2>2. "missing, informational" \in e.mapping.notices
    BY <1>1, <1>6 DEF SarifNotices, Notice
  <2>3. QED
    BY <1>6, <2>1, <2>2 DEF SeverityKept, e
<1>7. CASE /\ level # Missing /\ level \notin DOMAIN SeverityOf
           /\ Asserted(d, p) = {}
  <2>1. e.finding.severity = "informational"
    BY <1>1, <1>7 DEF SarifSeverity
  <2>2. "unmapped, informational" \in e.mapping.notices
    BY <1>1, <1>7 DEF SarifNotices, Notice
  <2>3. QED
    BY <1>7, <2>1, <2>2 DEF SeverityKept, e
<1>8. QED
  BY <1>4, <1>5, <1>6, <1>7 DEF e

LEMMA CycloneDXSeverityKept ==
  ASSUME NEW d, NEW c, NEW p, d.format # "sarif"
  PROVE  SeverityKept(EntryAt(d, c, p), Asserted(d, p))
<1> DEFINE v == d.vulnerabilities[p[1]]
           recognised == Recognised(v)
           e == EntryAt(d, c, p)
<1>1. /\ e.finding.severity = CycloneDXSeverity(v)
      /\ e.mapping.notices = CycloneDXNotices(v)
  BY EntryMapped DEF EntryAt, CycloneDXEntry
<1>2. /\ Asserted(d, p) = recognised
      /\ recognised \in SUBSET Range(Severities)
  <2> DEFINE rated == Range(v.ratings)
  <2>1. Range(Ratings(v)) =
          {IF r = "info" THEN "informational" ELSE r : r \in rated}
    BY DEF Ratings, Range
  <2>2. "informational" \in Range(Severities) /\ "info" \notin Range(Severities)
    BY Ranks
  <2>3. Asserted(d, p) = (rated \cap Range(Severities))
                           \cup {s \in {"informational"} : "info" \in rated}
    BY DEF Asserted
  <2> HIDE DEF v
  <2>4. QED
    BY <2>1, <2>2, <2>3 DEF Recognised
<1>3. CASE recognised = {}
  <2>1. e.finding.severity = "informational"
    BY <1>1, <1>3 DEF CycloneDXSeverity
  <2>2. "missing, informational" \in e.mapping.notices
    BY <1>1, <1>3 DEF CycloneDXNotices, Notice
  <2> HIDE DEF e, recognised
  <2>3. QED
    BY <1>2, <1>3, <2>1, <2>2 DEF SeverityKept, e
<1>4. CASE recognised # {}
  <2>1. e.finding.severity = Highest(Ratings(v), recognised)
    BY <1>1, <1>4 DEF CycloneDXSeverity
  <2> HIDE DEF e, recognised
  <2>2. QED
    BY <1>2, <1>4, <2>1, HighestIsHighest DEF SeverityKept, e
<1>5. QED
  BY <1>3, <1>4

\* Whatever levels, defaults and ratings a document gives, a finding has the
\* highest severity its record asserts, or says that it has a default
\* (_sarif_severity, _cyclonedx_severity).
THEOREM IntakeKeepsSeverity == IntakeSpec => []SeverityIsAsserted
<1>1. IntakeInv => SeverityIsAsserted
  <2> SUFFICES ASSUME IntakeInv, NEW b \in batches, NEW p \in Places(b.document)
               PROVE  SeverityKept(b.batch.entries[p], Asserted(b.document, p))
    BY DEF SeverityIsAsserted, SeverityKept
  <2>1. /\ b.document \in Sarif \cup CycloneDX /\ Readable(b.document)
        /\ b.batch.entries[p] = EntryAt(b.document, b.context, p)
    BY EntriesOfBatch DEF IntakeInv
  <2>2. QED
    BY <2>1, SarifSeverityKept, CycloneDXSeverityKept
<1>2. QED
  BY <1>1, IntakeInductive, PTL
=============================================================================
