---------------------------- MODULE CaseAssurance ----------------------------
(***************************************************************************)
(* The assessment of one vulnerability case (assurance.py, assess_case) as *)
(* operators on an immutable case bundle c and an explicit assessment time *)
(* t.  Times are integers counted in units of 1/Day of a day, so that the  *)
(* whole-day rounding of timedelta.days is visible.  A case is a record    *)
(*   [finding, catalog, triage, remediation, acceptance, verification]     *)
(* whose last four fields hold a record or NoRecord, and whose catalog     *)
(* maps an evidence id to its collection time, or to NoRecord if the id is *)
(* not catalogued.                                                         *)
(***************************************************************************)
EXTENDS Integers

CONSTANTS
  Evidence,         \* evidence ids
  Role,             \* accountable roles
  Severity,         \* severities of a finding
  NoRecord,         \* an absent optional record (None)
  Day,              \* time units in a day
  SeveritySlaDays,  \* policy: days to remediate, per severity
  MaxRiskAcceptanceDays,          \* policy: longest allowed acceptance
  IndependentVerificationRequired \* policy: verifier must not be the owner

\* VulnerabilityPolicy.__post_init__: positive day counts, a Boolean switch.
ASSUME PolicyAssumption ==
  /\ Day \in Nat \ {0}
  /\ SeveritySlaDays \in [Severity -> Nat \ {0}]
  /\ MaxRiskAcceptanceDays \in Nat \ {0}
  /\ IndependentVerificationRequired \in BOOLEAN

-----------------------------------------------------------------------------
(* The records a case bundle holds (models.py).  Evidence references and   *)
(* compensating controls are unique tuples in the code and sets here;      *)
(* texts that no decision reads (rationale, method, change_ref) are left   *)
(* out.                                                                    *)

Disposition == {"confirmed", "duplicate", "false_positive"}
Outcome == {"effective", "partial", "ineffective"}

FindingType ==
  [observedAt : Nat, severity : Severity, refs : SUBSET Evidence]
TriageType ==
  [at : Nat, disposition : Disposition, refs : SUBSET Evidence]
RemediationType ==
  [at : Nat, dueAt : Nat, owner : Role, refs : SUBSET Evidence]
AcceptanceType ==
  [at : Nat, expiresAt : Nat, controlled : BOOLEAN, refs : SUBSET Evidence]
VerificationType ==
  [at : Nat, verifier : Role, outcome : Outcome, refs : SUBSET Evidence]

CaseType ==
  [finding      : FindingType,
   catalog      : [Evidence -> Nat \cup {NoRecord}],
   triage       : TriageType \cup {NoRecord},
   remediation  : RemediationType \cup {NoRecord},
   acceptance   : AcceptanceType \cup {NoRecord},
   verification : VerificationType \cup {NoRecord}]

-----------------------------------------------------------------------------
(* Linkage, currentness and the validity of each record.                   *)

Catalogued(c) == {e \in Evidence : c.catalog[e] # NoRecord}
\* Mutant: one catalogued reference is taken to link them all.
LinkedByOne(c, refs) == refs \cap Catalogued(c) # {}

Linked(c, refs) == refs # {} /\ refs \subseteq Catalogued(c)

\* Mutant: the date of a record is not compared with the assessment time.
CurrentOncePresent(r, t) == r # NoRecord /\ t >= 0

Current(r, t) == r # NoRecord /\ r.at <= t
Future(r, t) == r # NoRecord /\ ~(r.at <= t)
Unlinked(c, refs) == refs # {} /\ ~Linked(c, refs)

CurrentAndLinked(c, r, t) == Current(r, t) /\ Linked(c, r.refs)

RemediationDue(c) ==
  c.finding.observedAt + Day * SeveritySlaDays[c.finding.severity]

\* Mutant: an acceptance still counts at the instant it expires.
AcceptanceExpiredStrictly(c, t) ==
  Current(c.acceptance, t) /\ c.acceptance.expiresAt < t

AcceptanceExpired(c, t) ==
  Current(c.acceptance, t) /\ c.acceptance.expiresAt <= t

\* (expires - accepted).days drops the part of a day that is left over.
AcceptanceDays(r) == (r.expiresAt - r.at) \div Day

AcceptanceValid(c, t) ==
  /\ CurrentAndLinked(c, c.acceptance, t)
  /\ ~AcceptanceExpired(c, t)
  /\ AcceptanceDays(c.acceptance) <= MaxRiskAcceptanceDays
  /\ c.acceptance.controlled

VerificationIndependent(c, t) ==
  /\ Current(c.verification, t)
  /\ \/ ~IndependentVerificationRequired
     \/ c.remediation = NoRecord
     \/ c.verification.verifier # c.remediation.owner

\* Mutant: a verification is effective without the remediation it verifies.
VerificationEffectiveAlone(c, t) ==
  /\ CurrentAndLinked(c, c.verification, t)
  /\ c.verification.outcome = "effective"
  /\ VerificationIndependent(c, t)

VerificationEffective(c, t) ==
  /\ CurrentAndLinked(c, c.verification, t)
  /\ c.verification.outcome = "effective"
  /\ VerificationIndependent(c, t)
  /\ CurrentAndLinked(c, c.remediation, t)

-----------------------------------------------------------------------------
(* Closure, lifecycle state and position.                                  *)

CurrentDisposition(c, t) ==
  IF Current(c.triage, t) THEN c.triage.disposition ELSE "none"

TriageSupported(c, t) ==
  CurrentAndLinked(c, c.triage, t) /\ Linked(c, c.finding.refs)

ClosedDispositioned(c, t) ==
  /\ CurrentDisposition(c, t) \in {"duplicate", "false_positive"}
  /\ TriageSupported(c, t)

ClosedVerified(c, t) ==
  /\ CurrentDisposition(c, t) = "confirmed"
  /\ VerificationEffective(c, t)
  /\ TriageSupported(c, t)

Closed(c, t) == ClosedDispositioned(c, t) \/ ClosedVerified(c, t)

\* Mutant: a remediation takes precedence over an acceptance decision.
RemediationFirstState(c, t) ==
  CASE Current(c.remediation, t) -> "verification_pending"
    [] AcceptanceExpired(c, t) /\ ~Current(c.remediation, t) ->
         "revalidation_required"
    [] OTHER -> IF AcceptanceValid(c, t) THEN "risk_accepted" ELSE "triaged"

ConfirmedOpenState(c, t) ==
  CASE AcceptanceExpired(c, t) -> "revalidation_required"
    [] AcceptanceValid(c, t) -> "risk_accepted"
    [] OTHER -> IF Current(c.remediation, t) THEN "verification_pending"
                                             ELSE "triaged"

LifecycleState(c, t) ==
  CASE CurrentDisposition(c, t) = "none" -> "detected"
    [] ClosedDispositioned(c, t) -> "closed_dispositioned"
    [] ClosedVerified(c, t) -> "closed_verified"
    [] OTHER -> IF CurrentDisposition(c, t) = "confirmed"
                THEN ConfirmedOpenState(c, t) ELSE "triaged"

Overdue(c, t) ==
  /\ ~Closed(c, t)
  /\ LifecycleState(c, t) # "risk_accepted"
  /\ t > RemediationDue(c)

\* Whether each gap code is reported, in the order assess_case adds them.
GapReported(c, t) ==
  LET confirmedOpen(s) ==
        CurrentDisposition(c, t) = "confirmed" /\ LifecycleState(c, t) = s
  IN
  [finding_evidence_missing      |-> c.finding.refs = {},
   finding_evidence_unlinked     |-> Unlinked(c, c.finding.refs),
   triage_decision_missing       |-> c.triage = NoRecord,
   triage_decision_future        |-> Future(c.triage, t),
   triage_evidence_missing       |-> Current(c.triage, t) /\ c.triage.refs = {},
   triage_evidence_unlinked      |-> Current(c.triage, t)
                                       /\ Unlinked(c, c.triage.refs),
   remediation_record_future     |-> Future(c.remediation, t),
   remediation_evidence_missing  |-> Current(c.remediation, t)
                                       /\ c.remediation.refs = {},
   remediation_evidence_unlinked |-> Current(c.remediation, t)
                                       /\ Unlinked(c, c.remediation.refs),
   risk_acceptance_future        |-> Future(c.acceptance, t),
   risk_acceptance_exceeds_policy |->
     /\ Current(c.acceptance, t)
     /\ AcceptanceDays(c.acceptance) > MaxRiskAcceptanceDays,
   compensating_controls_missing |-> Current(c.acceptance, t)
                                       /\ ~c.acceptance.controlled,
   risk_acceptance_evidence_missing  |-> Current(c.acceptance, t)
                                           /\ c.acceptance.refs = {},
   risk_acceptance_evidence_unlinked |-> Current(c.acceptance, t)
                                           /\ Unlinked(c, c.acceptance.refs),
   risk_acceptance_expired       |-> AcceptanceExpired(c, t),
   verification_record_future    |-> Future(c.verification, t),
   verification_not_effective    |-> Current(c.verification, t)
                                       /\ c.verification.outcome # "effective",
   verification_evidence_missing |-> Current(c.verification, t)
                                       /\ c.verification.refs = {},
   verification_evidence_unlinked |-> Current(c.verification, t)
                                        /\ Unlinked(c, c.verification.refs),
   verification_not_independent  |-> Current(c.verification, t)
                                       /\ ~VerificationIndependent(c, t),
   verified_remediation_record_missing |-> Current(c.verification, t)
                                             /\ ~Current(c.remediation, t),
   verification_missing          |-> confirmedOpen("verification_pending")
                                       /\ c.verification = NoRecord,
   remediation_or_acceptance_missing |-> confirmedOpen("triaged")]

\* Mutant: references outside the catalog are not reported.
GapsWithoutUnlinked(c, t) ==
  {g \in DOMAIN GapReported(c, t) : GapReported(c, t)[g]}
    \ {"finding_evidence_unlinked", "triage_evidence_unlinked",
       "remediation_evidence_unlinked", "risk_acceptance_evidence_unlinked",
       "verification_evidence_unlinked"}

\* Mutant: a verification by the owner is refused but not reported.
GapsWithoutIndependence(c, t) ==
  {g \in DOMAIN GapReported(c, t) : GapReported(c, t)[g]}
    \ {"verification_not_independent"}

Gaps(c, t) == {g \in DOMAIN GapReported(c, t) : GapReported(c, t)[g]}

AssurancePosition(c, t) ==
  IF LifecycleState(c, t) = "revalidation_required"
  THEN "revalidation_required"
  ELSE IF Overdue(c, t) THEN "overdue"
  ELSE IF /\ Closed(c, t) \/ LifecycleState(c, t) = "risk_accepted"
          /\ Gaps(c, t) = {}
       THEN "current" ELSE "with_gaps"

-----------------------------------------------------------------------------
(* The evidence status of the six controls of the dossier.                 *)

Represented(holds) == IF holds THEN "represented" ELSE "gap"

ControlStatus(c, t) ==
  LET confirmed == CurrentDisposition(c, t) = "confirmed"
      applicable(when, holds) ==
        IF confirmed /\ when THEN Represented(holds) ELSE "not_applicable"
  IN
  [INV |-> Represented(Linked(c, c.finding.refs)),
   TRI |-> Represented(CurrentAndLinked(c, c.triage, t)),
   REM |-> applicable(TRUE, CurrentAndLinked(c, c.remediation, t)),
   ACC |-> applicable(c.acceptance # NoRecord, AcceptanceValid(c, t)),
   VER |-> applicable(Current(c.remediation, t), VerificationEffective(c, t)),
   CLS |-> Represented(Closed(c, t))]

\* The dossier returned for a case and an assessment time that does not
\* precede the finding.
AssessCase(c, t) ==
  [assessedAt |-> t,
   lifecycle  |-> LifecycleState(c, t),
   position   |-> AssurancePosition(c, t),
   dueAt      |-> RemediationDue(c),
   overdue    |-> Overdue(c, t),
   gaps       |-> Gaps(c, t),
   controls   |-> ControlStatus(c, t)]
=============================================================================
