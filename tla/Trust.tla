------------------------------- MODULE Trust -------------------------------
(***************************************************************************)
(* The trust core: the tiered evidence a candidate law carries, the        *)
(* structural rules of TrustPolicy (leibniz/trust.py) and the promotion    *)
(* verdict of VerificationGate (leibniz/gates/verification.py).  Pure      *)
(* definitions: no variables.                                              *)
(*                                                                         *)
(* A statement stands for a Lean theorem_src together with its normalized  *)
(* hash, a claim for the structured contract (claim_domain,                *)
(* claim_property) of an Enuntiatio.                                       *)
(***************************************************************************)
EXTENDS Naturals, Sequences

CONSTANTS
  Statements,   \* Lean statements (theorem_src, identified with their hash)
  Claims,       \* structured contracts (claim_domain, claim_property)
  NoStatement,  \* the absence of a statement (Python None)
  Canonical,    \* claim -> the law its fragment re-renders, or NoStatement
  JudgedNum,    \* max_judged_faithfulness_fraction = JudgedNum / JudgedDen
  JudgedDen

ASSUME TrustAssumption ==
  /\ NoStatement \notin Statements
  /\ Canonical \in [Claims -> Statements \cup {NoStatement}]
  /\ JudgedNum \in Nat
  /\ JudgedDen \in Nat \ {0}
  /\ JudgedNum <= JudgedDen

Tiers == {"mechanical", "adversarial", "judged"}

Verdicts == {"pass", "fail", "defer"}

EdgeKinds == {"cheap_refutation", "novelty", "faithfulness", "proof"}

\* "fragment" stands for the six */kernel producers, all of which re-render
\* the law; "none" is producer=None.
FaithfulnessProducers ==
  {"gaming_witness", "ClaimProbe", "FaithfulnessGate", "walnut", "fragment"}

Producers ==
  FaithfulnessProducers \cup {"kernel", "FaithfulnessJudge", "novelty", "none"}

\* `about` is the statement the evidence was obtained for (a history field:
\* the code does not store it, which is why promotion has to bind statements);
\* `dp` is the decision_procedure tag of a fast-path proof edge.
EdgeEvidence ==
  [edge: EdgeKinds, tier: Tiers, verdict: Verdicts, producer: Producers,
   about: Statements \cup {NoStatement}, dp: BOOLEAN]

ValidateEdge(ev) ==
  /\ ev.edge = "proof" => ev.tier = "mechanical"
  /\ ev.edge = "novelty" => ev.tier # "judged"
  /\ ev.edge = "proof" => ev.producer \in {"none", "kernel"}
  /\ ev.tier # "judged" => ev.producer # "FaithfulnessJudge"
  /\ ev.edge = "faithfulness" /\ ev.tier = "mechanical"
       => ev.producer \in FaithfulnessProducers \cup {"none"}

\* The evidence recorded, whatever the order.
EdgeSet(edges) == {edges[i] : i \in DOMAIN edges}

Present(edges) == {e.edge : e \in EdgeSet(edges)}

Required == {"proof", "faithfulness", "novelty"}

\* validate_path applied to the edges whose kind is required.
ValidatePath(edges) ==
  /\ {"proof", "faithfulness"} \subseteq Present(edges)
  /\ \A e \in EdgeSet(edges) :
       e.edge \in Required => ValidateEdge(e) /\ e.verdict = "pass"

\* The statement a re-rendering fragment would have proved for the claim.
CanonicalTheoremSrc(producer, claim) ==
  IF producer = "fragment" THEN Canonical[claim] ELSE NoStatement

\* Mutant of StatementBound: promotion forgets to bind.
StatementUnbound(p) == TRUE

\* ADR 0079: under a re-rendering certificate only the canonical statement
\* may be promoted; an uncomputable canonical form constrains nothing.
StatementBound(p) ==
  \A e \in EdgeSet(p.edges) :
    (e.edge = "faithfulness" /\ e.verdict = "pass") =>
      CanonicalTheoremSrc(e.producer, p.claim) \in {NoStatement, p.stmt}

IsPromotable(p) ==
  /\ Required \subseteq Present(p.edges)
  /\ ValidatePath(p.edges)
  /\ StatementBound(p)

\* The FIRST faithfulness edge decides, as in the code's loop.
IsJudgedFaithfulness(edges) ==
  \E i \in DOMAIN edges :
    /\ edges[i].edge = "faithfulness"
    /\ edges[i].tier = "judged"
    /\ \A j \in 1..(i - 1) : edges[j].edge # "faithfulness"

\* Mutant: the fraction before the promulgation, not after it.
AdmitsBefore(judged, total) == judged * JudgedDen <= JudgedNum * (total + 1)

AdmitsJudgedFaithfulness(judged, total) ==
  (judged + 1) * JudgedDen <= JudgedNum * (total + 1)
=============================================================================
