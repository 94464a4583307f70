------------------------------- MODULE Intake -------------------------------
(***************************************************************************)
(* The intake adapters (intake.py): a scanner's document becomes a batch   *)
(* of findings, one per source record, each with a mapping back to its     *)
(* place, under identities that are digests.  The same artifact may be     *)
(* adapted again and again, under the same or another mapping context.     *)
(*   a SARIF document is [format, version, runs], a run [tool, rules,      *)
(*     results], a rule [id, default], a result [rule, level, title]       *)
(*   a CycloneDX document is [format, version, vulnerabilities], a         *)
(*     vulnerability [id, title, cwes, ratings, affects]                   *)
(*   a context is [artifact, asset, collectedAt, observedAt], a time       *)
(*     [instant, offset]; a digest is the value it is taken of             *)
(***************************************************************************)
EXTENDS Naturals, Sequences, FiniteSets, Functions

CONSTANTS
  Sarif,      \* SARIF documents
  CycloneDX,  \* CycloneDX documents
  Contexts,
  Missing,    \* the value of an absent member
  Malformed,  \* the value of a member that is not what it must be
  MaxBatches  \* bound

VARIABLES
  batches,  \* batches, each with the [document, context] it was made from
  refused   \* the [document, context] that raised

intakeVars == <<batches, refused>>

SeverityOf == [error |-> "high", warning |-> "medium", note |-> "low",
               none |-> "informational"]

\* The arrays of a document are sequences; a member without a text is no level.
ASSUME IntakeAssumption ==
  /\ MaxBatches \in Nat
  /\ {Missing, Malformed} \cap DOMAIN SeverityOf = {}
  /\ \A d \in Sarif :
       /\ d.format = "sarif" /\ d.runs \in Seq(Range(d.runs))
       /\ \A r \in Range(d.runs) : r.results \in Seq(Range(r.results))
  /\ \A d \in CycloneDX :
       /\ d.format = "cyclonedx"
       /\ d.vulnerabilities \in Seq(Range(d.vulnerabilities))
       /\ \A v \in Range(d.vulnerabilities) : v.affects \in Seq(Range(v.affects))

Severities == <<"informational", "low", "medium", "high", "critical">>

\* A member that must be a text, which a blank one is not, and an optional one.
IsText(member) == member \notin {Missing, Malformed}
IsOptionalText(member) == member # Malformed

Rank(severity) == CHOOSE n \in DOMAIN Severities : Severities[n] = severity

\* Mutant: the first rating that is recognised.
FirstRated(ratings, recognised) ==
  LET places == {n \in DOMAIN ratings : ratings[n] \in recognised} IN
  ratings[CHOOSE n \in places : \A m \in places : n <= m]

Highest(ratings, recognised) ==
  CHOOSE s \in recognised : \A t \in recognised : Rank(t) <= Rank(s)

-----------------------------------------------------------------------------
(* The mapping context and the identities.                                 *)

\* Mutant: times enter as the caller wrote them.
NormalTimeWritten(t) == t

NormalTime(t) == t.instant

\* _context.
Context(c) ==
  [artifact |-> c.artifact, asset |-> c.asset,
   collectedAt |-> NormalTime(c.collectedAt), observedAt |-> NormalTime(c.observedAt)]

AdapterId(document) == <<document.format, document.version>>

\* Mutant: the place in the document is left out.
FindingIdUnplaced(document, context, refs, record) ==
  [adapter |-> AdapterId(document), context |-> Context(context),
   document |-> document, record |-> record]

FindingId(document, context, refs, record) ==
  [adapter |-> AdapterId(document), context |-> Context(context),
   document |-> document, refs |-> refs, record |-> record]

IntakeId(document, context) ==
  [adapter |-> AdapterId(document), context |-> Context(context), document |-> document]

\* One finding and its mapping.
Entry(document, context, refs, record, mapped) ==
  LET id == FindingId(document, context, refs, record) IN
  [finding |-> [id |-> id, asset |-> mapped.asset, severity |-> mapped.severity,
                observedAt |-> NormalTime(context.observedAt),
                evidence |-> context.artifact],
   mapping |-> [id |-> <<id, refs>>, record |-> record, notices |-> mapped.notices]]

-----------------------------------------------------------------------------
(* SARIF.                                                                  *)

Notice(holds, name) == IF holds THEN {name} ELSE {}

DistinctRules(run) ==
  \A m, n \in DOMAIN run.rules : run.rules[m].id = run.rules[n].id => m = n

DefaultLevel(run, rule) ==
  IF \E r \in Range(run.rules) : r.id = rule
  THEN (CHOOSE r \in Range(run.rules) : r.id = rule).default
  ELSE Missing

SarifLevel(run, result) ==
  IF result.level # Missing THEN result.level ELSE DefaultLevel(run, result.rule)

SarifSeverity(run, result) ==
  LET level == SarifLevel(run, result) IN
  IF level \in DOMAIN SeverityOf THEN SeverityOf[level] ELSE "informational"

SarifNotices(run, result) ==
  LET level == SarifLevel(run, result) IN
    Notice(result.level = Missing /\ level # Missing, "rule default used")
    \cup Notice(level = Missing, "missing, informational")
    \cup Notice(level \notin DOMAIN SeverityOf \cup {Missing}, "unmapped, informational")

\* What each result and each run must be: a level counts where it is read.
SarifReadable(run) ==
  /\ IsText(run.tool)
  /\ DistinctRules(run) /\ \A rule \in Range(run.rules) : IsText(rule.id)
  /\ \A result \in Range(run.results) :
       /\ IsText(result.rule) /\ IsText(result.title)
       /\ IsOptionalText(SarifLevel(run, result))

SarifEntry(document, context, place) ==
  LET run == document.runs[place[1]]  result == run.results[place[2]] IN
  Entry(document, context, place, result,
        [asset |-> context.asset, severity |-> SarifSeverity(run, result),
         notices |-> SarifNotices(run, result)])

-----------------------------------------------------------------------------
(* CycloneDX.                                                              *)

\* The ratings by the names of this library.
Ratings(vulnerability) ==
  [n \in DOMAIN vulnerability.ratings |->
     IF vulnerability.ratings[n] = "info" THEN "informational"
                                          ELSE vulnerability.ratings[n]]

Recognised(vulnerability) ==
  Range(Ratings(vulnerability)) \cap Range(Severities)

CycloneDXSeverity(vulnerability) ==
  LET recognised == Recognised(vulnerability) IN
  IF recognised = {} THEN "informational"
  ELSE Highest(Ratings(vulnerability), recognised)

CycloneDXNotices(vulnerability) ==
  LET recognised == Recognised(vulnerability)
      ratings == Range(Ratings(vulnerability))
  IN Notice(Missing \in ratings, "rating ignored")
     \cup Notice(ratings \ {Missing} # recognised, "unmapped, informational")
     \cup Notice(recognised = {}, "missing, informational")
     \cup Notice(Cardinality(recognised) > 1, "highest selected")

CweId(cwe) == <<"CWE", cwe>>

Identifiers(vulnerability) ==
  <<vulnerability.id>>
    \o [n \in DOMAIN vulnerability.cwes |-> CweId(vulnerability.cwes[n])]

\* The number 0 is what is no positive integer.
CycloneDXReadable(vulnerability) ==
  /\ IsText(vulnerability.id) /\ IsOptionalText(vulnerability.title)
  /\ 0 \notin Range(vulnerability.cwes) /\ IsInjective(Identifiers(vulnerability))
  /\ \A rating \in Range(vulnerability.ratings) : IsOptionalText(rating)
  /\ vulnerability.affects # <<>>
  /\ \A affected \in Range(vulnerability.affects) : IsText(affected)

CycloneDXEntry(document, context, place) ==
  LET vulnerability == document.vulnerabilities[place[1]]
      affected == vulnerability.affects[place[2]]
  IN Entry(document, context, place, [affected |-> affected, of |-> vulnerability],
           [asset |-> <<context.asset, affected>>,
            severity |-> CycloneDXSeverity(vulnerability),
            notices |-> CycloneDXNotices(vulnerability)])

-----------------------------------------------------------------------------
(* Batches.                                                                *)

\* Where the records of a document are, as paths of two indices.
Places(document) ==
  IF document.format = "sarif"
  THEN UNION {{n} \X DOMAIN document.runs[n].results : n \in DOMAIN document.runs}
  ELSE UNION {{n} \X DOMAIN document.vulnerabilities[n].affects :
                n \in DOMAIN document.vulnerabilities}

Versions == [sarif |-> {"2.1.0"}, cyclonedx |-> {"1.5", "1.6"}]

Readable(document) ==
  /\ document.version \in Versions[document.format]
  /\ IF document.format = "sarif"
     THEN document.runs # <<>> /\ \A run \in Range(document.runs) : SarifReadable(run)
     ELSE /\ document.vulnerabilities # <<>>
          /\ \A v \in Range(document.vulnerabilities) : CycloneDXReadable(v)

EntryAt(document, context, place) ==
  IF document.format = "sarif" THEN SarifEntry(document, context, place)
  ELSE CycloneDXEntry(document, context, place)

\* _batch: one entry for each place, in the order of their identities.
Batch(document, context) ==
  [id |-> IntakeId(document, context), observedAt |-> NormalTime(context.observedAt),
   artifact |-> context.artifact,
   entries |-> [p \in Places(document) |-> EntryAt(document, context, p)]]

\* The constructor of IntakeBatch.
BatchConstructible(batch) ==
  /\ batch.entries # <<>>
  /\ \A p, q \in DOMAIN batch.entries :
       \/ batch.entries[p].finding.id = batch.entries[q].finding.id
       \/ batch.entries[p].mapping.id = batch.entries[q].mapping.id
       => p = q
  /\ \A e \in Range(batch.entries) :
       /\ e.finding.observedAt = batch.observedAt
       /\ e.finding.evidence = batch.artifact

IntakeInit == batches = {} /\ refused = {}

Adapts(document, context) ==
  Readable(document) /\ BatchConstructible(Batch(document, context))

\* adapt_sarif and adapt_cyclonedx: everything becomes one batch or nothing does.
Adapt(document, context) ==
  /\ Adapts(document, context)
  /\ batches' = batches \cup
       {[document |-> document, context |-> context, batch |-> Batch(document, context)]}
  /\ UNCHANGED refused

Refuse(document, context) ==
  /\ ~Adapts(document, context)
  /\ refused' = refused \cup {[document |-> document, context |-> context]}
  /\ UNCHANGED batches

IntakeNext ==
  /\ Cardinality(batches) + Cardinality(refused) < MaxBatches
  /\ \E document \in Sarif \cup CycloneDX, context \in Contexts :
       Adapt(document, context) \/ Refuse(document, context)

IntakeSpec == IntakeInit /\ [][IntakeNext]_intakeVars

-----------------------------------------------------------------------------
(* What a batch may be relied on for.                                      *)

\* A document is never refused but for what is wrong in it: its version, a
\* member that is missing or malformed, a rule or an identifier named twice, or
\* no record at all.  However often it repeats a record, each of its records is
\* in the batch under an identity of its own (IntakeBatch, _batch).
EveryRecordIsKept ==
  /\ \A x \in refused : ~Readable(x.document) \/ Places(x.document) = {}
  /\ \A b \in batches :
       Cardinality({e.finding.id : e \in Range(b.batch.entries)})
         = Cardinality(Places(b.document))

SameMoment(t, u) == t.instant = u.instant

SameContext(c, d) ==
  /\ c.artifact = d.artifact /\ c.asset = d.asset
  /\ SameMoment(c.collectedAt, d.collectedAt) /\ SameMoment(c.observedAt, d.observedAt)

\* Adapted again, a document gives the same findings, mappings and batch if
\* and only if nothing that matters has changed: an equal moment written in
\* another time zone changes nothing, any other difference changes every
\* identity (_context, _mapping_identity).
IdentitiesAreReproducible ==
  \A b, c \in batches :
    LET same == b.document = c.document /\ SameContext(b.context, c.context) IN
    /\ same => b.batch = c.batch
    /\ ~same => /\ b.batch.id # c.batch.id
                /\ \A e \in Range(b.batch.entries), f \in Range(c.batch.entries) :
                     e.finding.id # f.finding.id /\ e.mapping.id # f.mapping.id

\* The recognised severities the source itself asserts of a record.
Asserted(document, place) ==
  IF document.format = "sarif"
  THEN LET run == document.runs[place[1]]  result == run.results[place[2]] IN
       {SeverityOf[l] : l \in DOMAIN SeverityOf \cap
         (IF result.level # Missing THEN {result.level}
          ELSE {r.default : r \in {r \in Range(run.rules) : r.id = result.rule}})}
  ELSE LET ratings == Range(document.vulnerabilities[place[1]].ratings) IN
       (ratings \cap Range(Severities))
         \cup {s \in {"informational"} : "info" \in ratings}

\* No finding is below any recognised severity its own record asserts, nor
\* above all of them; without one it is informational, and its mapping says
\* that this was a default (_sarif_severity, _cyclonedx_severity).
SeverityIsAsserted ==
  \A b \in batches : \A p \in Places(b.document) :
    LET e == b.batch.entries[p]  asserted == Asserted(b.document, p) IN
    IF asserted = {}
    THEN /\ e.finding.severity = "informational"
         /\ e.mapping.notices \cap {"missing, informational", "unmapped, informational"} # {}
    ELSE /\ e.finding.severity \in asserted
         /\ \A s \in asserted : Rank(s) <= Rank(e.finding.severity)
=============================================================================
