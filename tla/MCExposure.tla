------------------------------ MODULE MCExposure ------------------------------
(***************************************************************************)
(* A small instance of Exposure: three ids per domain, so that a further   *)
(* claim can join two that contradict each other, two evidence records     *)
(* from two sources, and times before, within and at the end of the        *)
(* validity of the claims.                                                 *)
(***************************************************************************)
EXTENDS Exposure, TLC

CONSTANTS x1, x2, feed, vendor, i1, i2, i3, exploited

IdSymmetry == Permutations({i1, i2, i3})
MCEvidence == {x1, x2}
MCSource == {feed, vendor}

Claim(topic, value, source, at, until, refs) ==
  [topic |-> topic, value |-> value, source |-> source,
   at |-> at, until |-> until, refs |-> refs]

MCIntelligence ==
  {Claim("cve-a", exploited, feed, 1, 3, {x1}),
   Claim("cve-a", NoSignal, vendor, 1, 4, {x2}),
   Claim("cve-a", NoSignal, feed, 2, 4, {x1, x2}),
   Claim("cve-a", exploited, vendor, 2, 4, {x2}),
   Claim("cve-a", Unknown, feed, 1, 4, {x1}),
   Claim("cve-b", NoSignal, feed, 1, 4, {}),
   Claim("cve-b", exploited, feed, 1, 3, {x1})}
MCClassifications ==
  {Claim("service", "high", vendor, 1, 3, {x2}),
   Claim("service", "low", vendor, 2, 4, {x1, x2}),
   Claim("other", "low", feed, 2, 4, {x1})}
=============================================================================
