------------------------------- MODULE Exposure -------------------------------
(***************************************************************************)
(* The exposure context of one finding (exposure.py,                       *)
(* assess_exposure_context): time-bounded claims of external sources, in   *)
(* two domains, exploit intelligence and business criticality, that count  *)
(* only while they are current.  The bundle grows and is assessed again at *)
(* later times.  A claim is                                                *)
(*   [topic, value, source, at, until, refs]                               *)
(* where the topic is the technical identifier or the business service the *)
(* claim is about, and the value the signal or the criticality class.      *)
(***************************************************************************)
EXTENDS Integers

CONSTANTS
  Evidence,         \* evidence ids
  Source,           \* source identities
  ClaimIds,         \* intelligence and classification ids
  NoRecord,         \* an id that the bundle does not hold
  ObservedAt,       \* first_observed_at of the finding
  Signals,          \* exploit signals that assert something
  Intelligence,     \* claims that may be submitted, per domain
  Classifications,
  CollectionTimes,  \* times at which evidence may have been collected
  AssessmentTimes   \* values of assessed_at

\* The two signals that assert no exploitation.
NoSignal == "no_exploitation_signal_reported"
Unknown == "unknown"

\* The records' own checks.
ASSUME ExposureAssumption ==
  /\ \A r \in Intelligence \cup Classifications :
       /\ r.at \in Nat /\ r.until \in Nat /\ r.until > r.at
       /\ r.source \in Source /\ r.refs \subseteq Evidence
  /\ \A r \in Intelligence : r.value \in Signals \cup {NoSignal, Unknown}
  /\ ObservedAt \in Nat
  /\ AssessmentTimes \subseteq Nat
  /\ CollectionTimes \subseteq Nat
  /\ NoRecord \notin Intelligence \cup Classifications

VARIABLES
  catalog,         \* evidence id -> [at, source] or NoRecord
  intelligence,    \* intelligence id -> claim or NoRecord
  classification,  \* classification id -> claim or NoRecord
  assessedAt       \* the assessment time of the current context

exposureVars == <<catalog, intelligence, classification, assessedAt>>

Held(domain) == {id \in ClaimIds : domain[id] # NoRecord}

-----------------------------------------------------------------------------
(* Currentness of one claim: its own validity first, then its evidence.    *)

Currentness(r) ==
  CASE r.at > assessedAt -> "future"
    [] r.at <= assessedAt /\ r.until <= assessedAt -> "expired"
    [] OTHER ->
       IF r.refs = {} THEN "evidence_missing"
       ELSE IF \E e \in r.refs : catalog[e] = NoRecord
       THEN "evidence_unlinked"
       ELSE IF \E e \in r.refs : catalog[e].source # r.source
       THEN "evidence_source_mismatch"
       ELSE IF \E e \in r.refs : catalog[e].at > assessedAt
       THEN "evidence_future"
       ELSE "current"

Statuses(domain) == {Currentness(domain[id]) : id \in Held(domain)}
HasCurrent(domain) == "current" \in Statuses(domain)

CurrentClaims(domain, topic) ==
  {id \in Held(domain) :
     Currentness(domain[id]) = "current" /\ domain[id].topic = topic}

\* The values that current claims of a domain give to a topic.
CurrentValues(domain, topic) ==
  {domain[id].value : id \in CurrentClaims(domain, topic)}

Topics(domain) == {domain[id].topic : id \in Held(domain)}

\* Mutant: of the current claims about a topic, the newest are believed.
ExploitConflictOnNewest(topic) ==
  LET current == CurrentClaims(intelligence, topic)
      newest == {id \in current : \A x \in current :
                   intelligence[x].at <= intelligence[id].at}
      signals == {intelligence[id].value : id \in newest}
  IN signals \ {NoSignal, Unknown} # {} /\ NoSignal \in signals

ExploitConflictOn(topic) ==
  LET signals == CurrentValues(intelligence, topic) IN
  signals \ {NoSignal, Unknown} # {} /\ NoSignal \in signals

CriticalityConflictOn(topic) ==
  \E v, w \in CurrentValues(classification, topic) : v # w

ExploitConflict == \E topic \in Topics(intelligence) : ExploitConflictOn(topic)

CriticalityConflict ==
  \E topic \in Topics(classification) : CriticalityConflictOn(topic)

-----------------------------------------------------------------------------
(* Gaps and position: a gap is a domain with what is wrong in it.          *)

\* A domain with one current claim has no gap for those that are not.
DomainGaps(name, domain) ==
  IF HasCurrent(domain) THEN {}
  ELSE IF Held(domain) = {} THEN {<<name, "missing">>}
  ELSE {<<name, s>> : s \in {"no_current_record"} \cup Statuses(domain)}

ConflictGaps ==
  {<<d, "conflict">> : d \in
     {x \in {"exploit_intelligence", "business_criticality"} :
        IF x = "exploit_intelligence" THEN ExploitConflict
                                      ELSE CriticalityConflict}}

Gaps ==
  DomainGaps("exploit_intelligence", intelligence)
    \cup DomainGaps("business_criticality", classification)
    \cup ConflictGaps

\* Mutant: the records held are asked for before a conflict among them.
ContextPositionUnconflicted ==
  IF HasCurrent(intelligence) /\ HasCurrent(classification) THEN "current"
  ELSE IF HasCurrent(intelligence) \/ HasCurrent(classification) THEN "partial"
  ELSE IF Held(intelligence) \cup Held(classification) = {} THEN "unavailable"
  ELSE "stale"

ContextPosition ==
  IF ExploitConflict \/ CriticalityConflict THEN "with_gaps"
  ELSE IF HasCurrent(intelligence) /\ HasCurrent(classification) THEN "current"
  ELSE IF HasCurrent(intelligence) \/ HasCurrent(classification) THEN "partial"
  ELSE IF Held(intelligence) \cup Held(classification) = {} THEN "unavailable"
  ELSE "stale"

-----------------------------------------------------------------------------

ExposureInit ==
  /\ catalog = [e \in Evidence |-> NoRecord]
  /\ intelligence = [id \in ClaimIds |-> NoRecord]
  /\ classification = [id \in ClaimIds |-> NoRecord]
  /\ assessedAt \in {t \in AssessmentTimes : t >= ObservedAt}

\* Mutant: evidence ids need not be unique, and the last entry counts.
CollectEvidenceAgain(e, collectedAt, source) ==
  /\ catalog' = [catalog EXCEPT ![e] = [at |-> collectedAt, source |-> source]]
  /\ UNCHANGED <<intelligence, classification, assessedAt>>

CollectEvidence(e, collectedAt, source) ==
  /\ catalog[e] = NoRecord
  /\ catalog' = [catalog EXCEPT ![e] = [at |-> collectedAt, source |-> source]]
  /\ UNCHANGED <<intelligence, classification, assessedAt>>

AddIntelligence(id, r) ==
  /\ intelligence[id] = NoRecord
  /\ intelligence' = [intelligence EXCEPT ![id] = r]
  /\ UNCHANGED <<catalog, classification, assessedAt>>

AddClassification(id, r) ==
  /\ classification[id] = NoRecord
  /\ classification' = [classification EXCEPT ![id] = r]
  /\ UNCHANGED <<catalog, intelligence, assessedAt>>

\* Mutant: the assessment time is not compared with first_observed_at.
AssessUnchecked(t) ==
  /\ t # assessedAt
  /\ assessedAt' = t
  /\ UNCHANGED <<catalog, intelligence, classification>>

\* assess_exposure_context for another time, later or earlier.
Assess(t) ==
  /\ t # assessedAt
  /\ t >= ObservedAt
  /\ assessedAt' = t
  /\ UNCHANGED <<catalog, intelligence, classification>>

ExposureNext ==
  \/ \E e \in Evidence, at \in CollectionTimes, s \in Source :
       CollectEvidence(e, at, s)
  \/ \E id \in ClaimIds, r \in Intelligence : AddIntelligence(id, r)
  \/ \E id \in ClaimIds, r \in Classifications : AddClassification(id, r)
  \/ \E t \in AssessmentTimes : Assess(t)

ExposureSpec == ExposureInit /\ [][ExposureNext]_exposureVars

-----------------------------------------------------------------------------
(* Properties.                                                             *)

\* The bundle keeps its type and is never assessed before its finding.
ExposureTypeOK ==
  /\ catalog \in [Evidence -> [at : Nat, source : Source] \cup {NoRecord}]
  /\ intelligence \in [ClaimIds -> Intelligence \cup {NoRecord}]
  /\ classification \in [ClaimIds -> Classifications \cup {NoRecord}]
  /\ assessedAt \in Nat /\ assessedAt >= ObservedAt

\* The gaps and the position are computed apart, and agree: only a context in
\* position "current" is free of gaps, and only one "with_gaps" holds claims
\* that contradict each other.
PositionMatchesGaps ==
  /\ (ContextPosition = "current") = (Gaps = {})
  /\ (ContextPosition = "with_gaps") = (ConflictGaps # {})

\* A step that does not turn back the assessment time.
Onward == assessedAt' >= assessedAt

\* A claim only wears out while the bundle grows: what has expired stays
\* expired, what was contradicted by the source of its evidence never comes to
\* count, and what counts does so until it expires.
ClaimsOnlyWear ==
  [][Onward =>
       \A domain \in {intelligence, classification} :
         \A id \in Held(domain) :
           LET before == Currentness(domain[id])
               after == Currentness(domain[id])' IN
           /\ before = "expired" => after = "expired"
           /\ before = "evidence_source_mismatch" =>
                after \in {"evidence_source_mismatch", "expired"}
           /\ before = "current" => after \in {"current", "expired"}]_exposureVars

\* The two sides of a contradiction about exploitation.
Denying(topic) ==
  {id \in CurrentClaims(intelligence, topic) : intelligence[id].value = NoSignal}
Asserting(topic) ==
  {id \in CurrentClaims(intelligence, topic) :
     intelligence[id].value \notin {NoSignal, Unknown}}

Expire(domain, ids) == \A id \in ids : domain[id].until <= assessedAt'

\* No source is preferred: a contradiction about a topic cannot be talked away
\* by further claims or evidence.  It ends only when every claim of one side
\* has expired, or every claim but those of one criticality.
ConflictEndsByExpiry ==
  [][Onward =>
       /\ \A topic \in Topics(intelligence) :
            ExploitConflictOn(topic) /\ ~ExploitConflictOn(topic)' =>
              \/ Expire(intelligence, Denying(topic))
              \/ Expire(intelligence, Asserting(topic))
       /\ \A topic \in Topics(classification) :
            CriticalityConflictOn(topic) /\ ~CriticalityConflictOn(topic)' =>
              \E v \in CurrentValues(classification, topic) :
                Expire(classification,
                       {id \in CurrentClaims(classification, topic) :
                          classification[id].value # v})]_exposureVars
=============================================================================
