------------------------------- MODULE Screen --------------------------------
(***************************************************************************)
(* The mechanical screening of one contract after another: the novelty     *)
(* gate against the known corpus (leibniz/gates/novelty.py, corpus.py),    *)
(* the gaming spine and the sound backends of the faithfulness gate        *)
(* (gates/faithfulness.py), the coverage probe (probes.py), and the ledger *)
(* of laws the next session's corpus is built from.  Here a contract is    *)
(* its three predicates.  What a predicate means, how it looks and what    *)
(* the decision procedures conclude of it are tables, which Decisions      *)
(* computes from the syntax trees.                                         *)
(*                                                                         *)
(* Every solver may time out and every kernel call may be refused.         *)
(***************************************************************************)
EXTENDS Naturals, Sequences, FiniteSets

CONSTANTS
  Contracts,   \* the records [cd, cp, ed] that may be formalized
  Curated,     \* the pairs <<domain, property>> of the curated corpus
  MaxLaws,     \* bound: laws on the ledger
  Everywhere,  \* the valuations of the variables by non-negative integers
  Box,         \* those a bounded query searches
  WitnessBox,  \* those a witness is sought among
  Meaning,     \* of each predicate: where it holds
  Evaluated,   \* of each predicate: where the witness search takes it to hold
  BoxEncodable,        \* the predicates a bounded query has an encoding for
  UnboundedEncodable,  \* those an unbounded one has an encoding for
  Signature,   \* of each claim that has one: the form by which it is recognised
  Degenerate,  \* the claims whose variables drop out
  Congruence,  \* of each claim with a signature: what the signature stands for
  Fact,        \* of each such claim: where it holds, whatever its one variable is called
  Eligible,    \* of each contract: the fragments it is in and within the budget of
  Keyed        \* of each claim: the fragments whose key for it is true

\* _retry_with_derived_domain puts the claim domain for the established one.
Derived(c) == [c EXCEPT !.ed = c.cd]

Candidates == Contracts \cup {Derived(c) : c \in Contracts}

Predicates == UNION {{c.cd, c.cp, c.ed} : c \in Contracts} \cup {e[2] : e \in Curated}

Claims == {c.cp : c \in Contracts} \cup {e[2] : e \in Curated}

ASSUME ScreenAssumption ==
  /\ Contracts \subseteq [cd : Predicates, cp : Predicates, ed : Predicates]
  /\ Meaning \in [Predicates -> SUBSET Everywhere]
  /\ MaxLaws \in Nat

NoContract == [cd |-> <<"none">>, cp |-> <<"none">>, ed |-> <<"none">>]

\* In the order of cost_rank.
FragmentOrder == <<"modular", "minmax", "boolean", "mixed", "power", "factgcd">>

VARIABLES
  corpus,      \* the novelty gate's snapshot: pairs <<domain, property>>
  ledger,      \* the pairs of the laws promulgated
  candidate,   \* the contract being screened
  gate,        \* the gate it is at
  rank,        \* the backend of FragmentOrder that is asked next
  verdict      \* how the screening ended, or by whom the candidate is certified

vars == <<corpus, ledger, candidate, gate, rank, verdict>>

Gates == {"idle", "novelty", "spine", "backends", "probe", "prove"}

Verdicts == {"none", "degenerate", "closed", "known", "gamed", "deferred", "unproved",
             "certificate", "probed", "law"}

TypeOK ==
  /\ ledger \subseteq {<<c.cd, c.cp>> : c \in Contracts}
  /\ corpus \subseteq Curated \cup ledger
  /\ candidate \in Candidates \cup {NoContract}
  /\ gate \in Gates /\ rank \in 1..(Len(FragmentOrder) + 1) /\ verdict \in Verdicts
  /\ gate # "idle" => candidate \in Candidates
  /\ gate = "prove" <=> verdict \in {"certificate", "probed"}
  /\ gate \notin {"idle", "prove"} => verdict = "none"

Init ==
  /\ corpus = Curated /\ ledger = {}
  /\ candidate = NoContract /\ gate = "idle" /\ rank = 1 /\ verdict = "none"

\* The claim is not vacuous and has no counterexample.
True(cd, cp) == Meaning[cd] # {} /\ Meaning[cd] \subseteq Meaning[cp]

Covers(c) == Meaning[c.cd] \subseteq Meaning[c.ed]

End(v) == gate' = "idle" /\ rank' = 1 /\ verdict' = v

(***************************************************************************)
(* FORMALIZE and the novelty gate.                                         *)
(***************************************************************************)
\* Mutant of Formalize: the last candidate's verdict is carried along.
FormalizeWithVerdict ==
  /\ gate = "idle"
  /\ candidate' \in Contracts
  /\ gate' = "novelty"
  /\ UNCHANGED <<corpus, ledger, rank, verdict>>

Formalize ==
  /\ gate = "idle"
  /\ candidate' \in Contracts
  /\ gate' = "novelty" /\ verdict' = "none"
  /\ UNCHANGED <<corpus, ledger, rank>>

\* contains_equivalent and structural_known: the same statement, or the same signature.
KnownBy(c, e) ==
  \/ e = <<c.cd, c.cp>>
  \/ {c.cp, e[2]} \subseteq DOMAIN Signature /\ Signature[e[2]] = Signature[c.cp]

\* NoveltyGate.check, in its order; the tactic ladder may close any statement.
Novelty ==
  /\ gate = "novelty"
  /\ IF candidate.cp \in Degenerate THEN End("degenerate")
     ELSE \/ End("closed")
          \/ IF \E e \in corpus : KnownBy(candidate, e) THEN End("known")
             ELSE gate' = "spine" /\ UNCHANGED <<rank, verdict>>
  /\ UNCHANGED <<corpus, ledger, candidate>>

(***************************************************************************)
(* The faithfulness gate.                                                  *)
(***************************************************************************)
\* _decide over the box: no answer unless every predicate has an encoding.
FoundInBox(c, points) ==
  {c.cd, c.cp, c.ed} \subseteq BoxEncodable /\ points \cap Box # {}

\* The spine: a point the claim covers, the statement leaves open, where it fails.
Spine ==
  /\ gate = "spine"
  /\ \/ FoundInBox(candidate, Meaning[candidate.cd] \ (Meaning[candidate.ed] \cup Meaning[candidate.cp]))
        /\ End("gamed")
     \/ gate' = "backends" /\ UNCHANGED <<rank, verdict>>
  /\ UNCHANGED <<corpus, ledger, candidate>>

Accept == gate' = "prove" /\ verdict' = "certificate" /\ UNCHANGED rank

\* find_witness, whose point the kernel then checks.
Witnessed(preds) ==
  \E x \in WitnessBox : \A p \in preds : x \in Evaluated[p] /\ x \in Meaning[p]

\* The backend asked next gives the contract a certificate, of four legs for the
\* kernel: a point of the claim's domain, the statement's cover of it, the key of the
\* claim, and a point where the two domains meet.
Certifiable(c) ==
  /\ rank <= Len(FragmentOrder)
  /\ FragmentOrder[rank] \in Eligible[c]
  /\ Witnessed({c.cd}) /\ Covers(c)
  /\ FragmentOrder[rank] \in Keyed[c.cp]
  /\ Witnessed({c.cd, c.ed})

Certify ==
  /\ gate = "backends"
  /\ Certifiable(candidate)
  /\ Accept /\ UNCHANGED <<corpus, ledger, candidate>>

\* _retry_with_derived_domain: the backend declined, Z3 finds the claim domain
\* inhabited, and the certificate holds for the domain derived from it.
Derive ==
  /\ gate = "backends"
  /\ candidate.ed # candidate.cd
  /\ candidate.cd \in BoxEncodable /\ Meaning[candidate.cd] \cap Box # {}
  /\ Certifiable(Derived(candidate))
  /\ candidate' = Derived(candidate)
  /\ Accept /\ UNCHANGED <<corpus, ledger>>

\* It does not apply, or it defers and leaves no trace.
Decline ==
  /\ gate = "backends"
  /\ IF rank <= Len(FragmentOrder)
     THEN rank' = rank + 1 /\ UNCHANGED gate
     ELSE gate' = "probe" /\ UNCHANGED rank
  /\ UNCHANGED <<corpus, ledger, candidate, verdict>>

\* Mutant of ProbeRange: the probe decides in the box of the other searches.
ProbeRangeBoxed == Box

\* decide_unsat_unbounded.
ProbeRange == Everywhere

\* coverage_probe certifies only on conclusive answers: the domain is inhabited,
\* covered, and the claim holds wherever the two domains meet.
ProbeCertifies(c) ==
  /\ {c.cd, c.cp, c.ed} \subseteq BoxEncodable \cap UnboundedEncodable
  /\ Meaning[c.cd] \cap ProbeRange # {}
  /\ c.ed # c.cd => (Meaning[c.cd] \ Meaning[c.ed]) \cap ProbeRange = {}
  /\ ((Meaning[c.ed] \cap Meaning[c.cd]) \ Meaning[c.cp]) \cap ProbeRange = {}

Probe ==
  /\ gate = "probe"
  /\ \/ ProbeCertifies(candidate) /\ gate' = "prove" /\ rank' = 1 /\ verdict' = "probed"
     \/ End("deferred")
  /\ UNCHANGED <<corpus, ledger, candidate>>

(***************************************************************************)
(* The proof, and the next session.                                        *)
(***************************************************************************)
\* The kernel proves the statement, the claim over its established domain.
Promulgate ==
  /\ gate = "prove"
  /\ Meaning[candidate.ed] \subseteq Meaning[candidate.cp]
  /\ Cardinality(ledger) < MaxLaws
  /\ ledger' = ledger \cup {<<candidate.cd, candidate.cp>>}
  /\ End("law") /\ UNCHANGED <<corpus, candidate>>

GiveUp == gate = "prove" /\ End("unproved") /\ UNCHANGED <<corpus, ledger, candidate>>

\* build_daemon: the corpus is the curated one and the ledger's laws.
Rebuild ==
  /\ gate = "idle"
  /\ corpus' = Curated \cup ledger
  /\ candidate' = NoContract /\ verdict' = "none"
  /\ UNCHANGED <<ledger, gate, rank>>

Next ==
  \/ Formalize \/ Novelty \/ Spine \/ Certify \/ Derive \/ Decline \/ Probe
  \/ Promulgate \/ GiveUp \/ Rebuild

Spec == Init /\ [][Next]_vars

(***************************************************************************)
(* Properties.                                                             *)
(***************************************************************************)
\* A claim refused as known has the polynomial congruence of the entry that matches it:
\* the normal forms of coefficients, units, negations and combinations merge no two
\* (structural.py).  Of a membership that is the residues its term takes; those it
\* asserts, and the domain of every claim, the signature discards.
KnownMeansSameCongruence ==
  verdict = "known" =>
    \A e \in corpus : KnownBy(candidate, e) =>
      e[2] = candidate.cp \/ Congruence[e[2]] = Congruence[candidate.cp]

\* "DIFFERENT facts get DIFFERENT signatures (no false-KNOWN)" (structural.py): a true
\* claim that is refused as known says what the entry that matches it says.
KnownMeansSameFact ==
  verdict = "known" /\ True(candidate.cd, candidate.cp) =>
    \A e \in corpus : KnownBy(candidate, e) =>
      e[2] = candidate.cp \/ Fact[e[2]] = Fact[candidate.cp]

\* A claim refused as vacuous has one truth value everywhere: the coefficient test
\* (is_coefficient_degenerate) kills nothing its variables decide.
VacuousClaimsAreConstant ==
  verdict = "degenerate" => Meaning[candidate.cp] \in {{}, Everywhere}

\* A contract that leaves the faithfulness gate certified, by a kernel certificate,
\* by the derived domain or by the probe, holds for all integers, not in a search
\* box: the claim's domain is inhabited, the statement covers it, and the claim is
\* true on it.  So does, in every later session, a law: what the kernel proved is the
\* claim over the established domain, what the ledger keeps is the claim.
CertifiedClaimsHold ==
  /\ gate = "prove" => Covers(candidate) /\ True(candidate.cd, candidate.cp)
  /\ \A e \in ledger : True(e[1], e[2])

\* The finite key a fragment leaves to the kernel is true exactly when the claim is:
\* reducing it to residues, to one period or to the branches of min and max loses
\* and adds nothing.
KeysDecideExactly ==
  gate # "idle" =>
    \A k \in Eligible[candidate] :
      (k \in Keyed[candidate.cp]) = (Meaning[candidate.cp] = Everywhere)
=============================================================================
