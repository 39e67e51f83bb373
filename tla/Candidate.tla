----------------------------- MODULE Candidate -----------------------------
(***************************************************************************)
(* The candidate in hand (leibniz/propositio.py Propositio), the stage it  *)
(* is at, the evidence stages record on it, and the kernel's verdict on a  *)
(* statement (leibniz/verifiers.py LeanVerifier): what Pipeline, which     *)
(* takes each stage for one step, and Faithfulness and Demonstration,      *)
(* which take two of them apart, have in common.                           *)
(***************************************************************************)
EXTENDS Trust

CONSTANTS
  Provable,  \* statements the Lean kernel can accept a proof of
  OpenForm   \* claims of type OPEN_FORM (no mechanical probe)

ASSUME CandidateAssumption ==
  /\ Provable \subseteq Statements
  /\ OpenForm \subseteq Claims
  /\ Claims # {}

VARIABLES
  pc,    \* the stage the process is about to run ("down": no process)
  prop   \* the Propositio in hand

Stages == {"down", "idle", "formalize", "refute", "novelty", "steer",
           "faithfulness", "demonstrate", "revalidate", "promote",
           "settle", "remember"}

FinishReasons == {"none", "promulgated", "refuted", "trivial", "known",
                  "unfaithful", "unproven", "malformed", "gamed",
                  "over_budget"}

Propositio ==
  [claim: Claims, stmt: Statements \cup {NoStatement},
   edges: Seq(EdgeEvidence), kernel_verified: BOOLEAN,
   finish_reason: FinishReasons, promulgated: BOOLEAN]

Fresh(c) ==
  [claim |-> c, stmt |-> NoStatement, edges |-> <<>>,
   kernel_verified |-> FALSE, finish_reason |-> "none", promulgated |-> FALSE]

\* No candidate in hand (the loop variable is dead between two seeds).
NoProp == Fresh(CHOOSE c \in Claims : TRUE)

Evidence(e, t, v, who, s, tag) ==
  [edge |-> e, tier |-> t, verdict |-> v, producer |-> who, about |-> s, dp |-> tag]

Record(p, ev) == [p EXCEPT !.edges = Append(@, ev)]

Quarantine(p, reason) == [p EXCEPT !.finish_reason = reason]

\* The statements that passing evidence of one kind was obtained for.
PassedFor(p, kind) ==
  {e.about : e \in {d \in EdgeSet(p.edges) : d.edge = kind /\ d.verdict = "pass"}}

Faith(tier, v, who, s) == Evidence("faithfulness", tier, v, who, s, FALSE)

\* LeanVerifier.discharge, the sole writer of kernel_verified: it may refuse a
\* true statement (bad proof, timeout) and never accepts an unprovable one.
Discharge(s) == {ok \in BOOLEAN : ok => s \in Provable}

ProofEdge(s, ok, tag) ==
  Evidence("proof", "mechanical", IF ok THEN "pass" ELSE "fail",
           IF ok THEN "kernel" ELSE "none", s, tag)

CertifiedBy(p, who) ==
  \E e \in EdgeSet(p.edges) :
    e.edge = "faithfulness" /\ e.verdict = "pass" /\ e.producer = who

\* The decision-procedure fast path: promote-on-one for the canonical law of a
\* contract its own fragment certified.
FastPath(p) ==
  LET law == Canonical[p.claim]
  IN [Record(p, ProofEdge(law, TRUE, TRUE)) EXCEPT
        !.stmt = law, !.kernel_verified = TRUE]

FastPathApplies(p) ==
  CertifiedBy(p, "fragment") /\ Canonical[p.claim] # NoStatement

ByDecisionProcedure(p) ==
  \E e \in EdgeSet(p.edges) : e.edge = "proof" /\ e.dp
=============================================================================
