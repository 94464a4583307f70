--------------------------- MODULE LifecycleDiagram ---------------------------
(***************************************************************************)
(* The lifecycle of the README ("Lifecycle"), and what the code adds to    *)
(* it.  Edges is the diagram as it is drawn.  Follow goes along its edges, *)
(* several at once where a case was not assessed in between.  The other    *)
(* three moves are not in the diagram: assess_case makes them where a case *)
(* takes both branches, remediation and acceptance, or where a lapsed      *)
(* acceptance is decided anew.  A case that takes one branch only, and     *)
(* whose acceptance is decided once, follows the diagram as drawn.         *)
(***************************************************************************)
CONSTANT None  \* stands for a record that is absent

VARIABLES
  state,        \* the lifecycle state reported
  remediation,  \* the records of the two branches
  acceptance

Edges ==
  [detected              |-> {"triaged"},
   triaged               |-> {"verification_pending", "risk_accepted",
                              "closed_dispositioned"},
   verification_pending  |-> {"closed_verified"},
   risk_accepted         |-> {"revalidation_required"},
   revalidation_required |-> {},
   closed_verified       |-> {},
   closed_dispositioned  |-> {}]

\* The states one edge leads to from those of S, and the states ahead of s:
\* no path of the diagram has more than three edges.
Successors(S) == UNION {Edges[s] : s \in S}

Ahead(s) ==
  LET once == Successors({s})
      twice == Successors(once)
  IN once \cup twice \cup Successors(twice)

Follow == state' \in Ahead(state)

\* A case whose remediation is planned is accepted, and perhaps lapses, before
\* its verification.
AcceptPlanned ==
  /\ state = "verification_pending"
  /\ state' \in {"risk_accepted", "revalidation_required"}
  /\ remediation # None /\ acceptance' # None

\* An accepted case is remediated after all, and closed by its verification.
CloseAccepted ==
  /\ state \in {"risk_accepted", "revalidation_required"}
  /\ state' = "closed_verified"
  /\ acceptance # None /\ remediation' # None

\* A lapsed case leaves revalidation by another acceptance decision; one that
\* is not valid, or not yet, leaves it where it would be without.
Redecide ==
  /\ state = "revalidation_required"
  /\ state' \in {"triaged", "verification_pending", "risk_accepted"}
  /\ acceptance # None /\ acceptance' # acceptance

Init == state = "detected" /\ remediation = None /\ acceptance = None

Move == Follow \/ AcceptPlanned \/ CloseAccepted \/ Redecide

Spec == Init /\ [][Move]_state
=============================================================================
