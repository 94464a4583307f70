-------------------------- MODULE PublicationPromise --------------------------
(***************************************************************************)
(* What the demo publication promises (docs/PORTFOLIO_DEMO_RELEASE.md):    *)
(* the gate holds for some candidates over time; at most one commit is     *)
(* ever tagged, at most one candidate is ever published, both for which    *)
(* the gate has held, and neither is replaced.                             *)
(***************************************************************************)
CONSTANTS Candidate, None

VARIABLES open, tag, published

vars == <<open, tag, published>>

Init == open = {} /\ tag = None /\ published = None

GateHolds(k) ==
  /\ open' = open \cup {k}
  /\ UNCHANGED <<tag, published>>

CreateTag(k) ==
  /\ tag = None /\ k \in open
  /\ tag' = k.commit
  /\ UNCHANGED <<open, published>>

Publish(k) ==
  /\ published = None /\ k \in open /\ k.commit = tag
  /\ published' = k
  /\ UNCHANGED <<open, tag>>

Next == \E k \in Candidate : GateHolds(k) \/ CreateTag(k) \/ Publish(k)

Spec == Init /\ [][Next]_vars
=============================================================================
