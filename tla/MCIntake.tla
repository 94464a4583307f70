------------------------------ MODULE MCIntake ------------------------------
(***************************************************************************)
(* Small documents: up to two rules and two results in one SARIF run, two  *)
(* runs that repeat each other, CycloneDX vulnerabilities with up to two   *)
(* ratings and two affected components; and documents with one flaw, alone *)
(* or after a part that has none.  Contexts write one moment in two time   *)
(* zones, or differ in one member.                                         *)
(***************************************************************************)
EXTENDS Intake, TLC

CONSTANTS ruleA, ruleB, tool, title, bytes, otherBytes, asset, component, cve

Upto(n, S) == UNION {[1..k -> S] : k \in 0..n}

Rule(id, default) == [id |-> id, default |-> default]
Result(rule, level, text) == [rule |-> rule, level |-> level, title |-> text]
Run(name, rules, results) == [tool |-> name, rules |-> rules, results |-> results]

MCRules == [id : {ruleA}, default : {Missing, "warning", "odd"}]
MCResults ==
  {Result(ruleA, level, title) : level \in {Missing, "error", "note", "odd"}}
    \cup {Result(ruleB, Missing, title)}

MCRuns ==
  [tool : {tool}, rules : Upto(1, MCRules), results : Upto(2, MCResults)]
    \cup [tool : {tool}, rules : {<<r, r>> : r \in MCRules}, results : Upto(1, MCResults)]

\* A malformed default level is read for want of another only.
MCFlawedRuns ==
  {Run(tool, <<Rule(Missing, Missing)>>, <<>>),
   Run(Missing, <<>>, <<Result(ruleA, "error", title)>>),
   Run(tool, <<Rule(ruleA, Malformed)>>, <<Result(ruleA, "error", title)>>),
   Run(tool, <<Rule(ruleA, Malformed)>>, <<Result(ruleA, Missing, title)>>)}
    \cup {Run(tool, <<>>, <<r>>) :
            r \in {Result(Missing, "error", title), Result(ruleA, Malformed, title),
                   Result(ruleA, "error", Missing)}}

MCSarif ==
  {[format |-> "sarif", version |-> "2.1.0", runs |-> runs] :
     runs \in {<<>>} \cup {<<r>> : r \in MCRuns \cup MCFlawedRuns}
              \cup {<<r, r>> : r \in {r \in MCRuns : Len(r.results) = 1}}
              \cup {<<Run(tool, <<>>, <<Result(ruleA, "note", title)>>), r>> :
                       r \in MCFlawedRuns}}
    \cup {[format |-> "sarif", version |-> "2.0.0",
           runs |-> <<Run(tool, <<>>, <<Result(ruleA, "note", title)>>)>>]}

Vulnerability(id, cwes, affects) ==
  [id |-> id, title |-> Missing, cwes |-> cwes, ratings |-> <<>>, affects |-> affects]

MCVulnerabilities ==
  [id : {cve}, title : {title}, cwes : {<<79>>},
   affects : {<<component>>, <<component, component>>},
   ratings : Upto(2, {Missing, "odd", "info", "low", "critical"})]

\* Among them some without a flaw: an identifier may look like a CWE's.
MCFlawedVulnerabilities ==
  {Vulnerability(id, cwes, <<component>>) :
     id \in {Missing, cve, CweId(79)}, cwes \in {<<79>>, <<20>>, <<0>>, <<79, 79>>}}
    \cup {Vulnerability(cve, <<>>, affects) :
            affects \in {<<>>, <<Missing>>, <<component, Missing>>}}
    \cup {[Vulnerability(cve, <<>>, <<component>>) EXCEPT !.title = Malformed],
          [Vulnerability(cve, <<>>, <<component>>) EXCEPT !.ratings = <<"low", Malformed>>]}

MCCycloneDX ==
  {[format |-> "cyclonedx", version |-> "1.6", vulnerabilities |-> v] :
     v \in {<<>>} \cup {<<w>> : w \in MCVulnerabilities \cup MCFlawedVulnerabilities}
           \cup {<<w, w>> : w \in {w \in MCVulnerabilities : Len(w.affects) = 1}}}
    \cup {[format |-> "cyclonedx", version |-> version,
           vulnerabilities |-> <<Vulnerability(cve, <<79>>, <<component>>)>>] :
             version \in {"1.4", "1.5"}}

Moment(instant, offset) == [instant |-> instant, offset |-> offset]

MCContext(artifact, collected, observed) ==
  [artifact |-> artifact, asset |-> asset, collectedAt |-> collected, observedAt |-> observed]

MCContexts ==
  {MCContext(bytes, Moment(1, 0), Moment(1, 0)), MCContext(bytes, Moment(1, 2), Moment(1, 0)),
   MCContext(bytes, Moment(1, 0), Moment(2, 0)), MCContext(otherBytes, Moment(1, 0), Moment(1, 0))}
=============================================================================
