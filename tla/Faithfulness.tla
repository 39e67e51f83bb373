---------------------------- MODULE Faithfulness ----------------------------
(***************************************************************************)
(* The faithfulness gate taken apart (leibniz/gates/faithfulness.py        *)
(* FaithfulnessGate.check): the adversarial spine, the sound backends in   *)
(* order of cost, the ADR 0074 retry that lends ONE backend a mechanically *)
(* derived `established_domain`, the claim-type probe and the judge.       *)
(*                                                                         *)
(* What is delicate is the retry: it writes the candidate's own contract   *)
(* field before asking, so every exit of it but one must put the field     *)
(* back before anything else reads it.                                     *)
(***************************************************************************)
EXTENDS Candidate

CONSTANTS
  Order,        \* the registered sound backends, by cost_rank
  Rerendering,  \* those in _RERENDERING_BACKENDS; the others are Walnut's kind
  Domains,      \* predicates of the claim DSL
  NoDomain,     \* an absent (or non-string) predicate
  ClaimDomain,  \* claim -> its claim_domain, or NoDomain
  Vacuous,      \* claims whose claim_domain nothing satisfies
  Decidable     \* <<b, c, d>>: backend b certifies contract c when the
                \* expressio establishes domain d

Backends == {Order[i] : i \in DOMAIN Order}

ASSUME FaithfulnessAssumption ==
  /\ Order \in Seq(Backends)
  /\ NoDomain \notin Domains
  /\ ClaimDomain \in [Claims -> Domains \cup {NoDomain}]
  /\ Decidable \subseteq Backends \X Claims \X (Domains \cup {NoDomain})
  /\ \A t \in Decidable : t[1] \in Rerendering => Canonical[t[2]] # NoStatement

VARIABLES
  gate,       \* what the gate is about to consult
  rank,       \* the position in Order of the backend it is about to ask
  domain,     \* expressio.established_domain
  original,   \* the retry's local copy of it
  contract,   \* history: the field as the gate was handed it
  seen        \* history: what the spine, the backends asked in the main loop,
              \* the probe and the judge read in it

gateVars == <<gate, rank, domain, original, contract, seen>>

Consultants == {"spine", "backends", "retry", "judge"}

FaithfulnessInit ==
  /\ gate = "spine" /\ rank = 1
  /\ domain \in Domains \cup {NoDomain}
  /\ original = NoDomain
  /\ contract = domain
  /\ seen = {}

\* The gate returns its edge: the pipeline records it and moves on.
Return(p) ==
  /\ prop' = p
  /\ pc' = IF p.edges[Len(p.edges)].verdict = "pass" THEN "demonstrate" ELSE "settle"

Pass(ev) == Return(Record(prop, ev))

Fail(ev, reason) == Return(Quarantine(Record(prop, ev), reason))

\* The producer's evidence: a re-rendering backend vouches for the canonical
\* law of the contract, Walnut for the statement in hand.
BackendEdge(b, v) ==
  IF b \in Rerendering
  THEN Faith("mechanical", v, "fragment", Canonical[prop.claim])
  ELSE Faith("mechanical", v, "walnut", prop.stmt)

\* 1. find_gaming_witness, a kill-only lint.
Spine ==
  /\ gate = "spine"
  /\ seen' = seen \cup {domain}
  /\ \/ /\ Fail(Faith("adversarial", "fail", "gaming_witness", prop.stmt), "gamed")
        /\ UNCHANGED gate
     \/ gate' = "backends" /\ UNCHANGED <<pc, prop>>
  /\ UNCHANGED <<rank, domain, original, contract>>

\* 1b. What one backend answers: a sound PASS (re-checked, and bound to the
\* statement the gate renders itself) only for what it decides, a PASS the gate
\* does not accept or a shape the backend does not apply to at any time, a DEFER
\* at any time, and a refutation only from Walnut's kind.
Answers(b, d) ==
  {"defer", "declined"}
  \cup (IF <<b, prop.claim, d>> \in Decidable THEN {"certified"} ELSE {})
  \cup (IF b \in Rerendering THEN {} ELSE {"refuted"})

\* Mutant of Retriable: an empty claim_domain is not refused.
RetriableVacuously(b) ==
  /\ b \in Rerendering
  /\ NoDomain \notin {domain, ClaimDomain[prop.claim]}
  /\ domain # ClaimDomain[prop.claim]

\* The guards of _retry_with_derived_domain; Z3 knows claim_domain satisfiable.
Retriable(b) ==
  /\ b \in Rerendering
  /\ NoDomain \notin {domain, ClaimDomain[prop.claim]}
  /\ domain # ClaimDomain[prop.claim]
  /\ prop.claim \notin Vacuous

\* A DEFER need not be retried: Z3 may answer unknown, or raise.
AskBackend ==
  /\ gate = "backends" /\ rank \in DOMAIN Order
  /\ LET b == Order[rank]
     IN \E answer \in Answers(b, domain) :
          \/ /\ answer = "certified"
             /\ Pass(BackendEdge(b, "pass"))
             /\ UNCHANGED <<gate, rank, domain, original>>
          \/ /\ answer = "refuted"
             /\ Fail(BackendEdge(b, "fail"), "unfaithful")
             /\ UNCHANGED <<gate, rank, domain, original>>
          \/ /\ answer = "defer" /\ Retriable(b)
             /\ original' = domain
             /\ domain' = ClaimDomain[prop.claim]
             /\ gate' = "retry"
             /\ UNCHANGED <<pc, prop, rank>>
          \/ /\ answer \in {"defer", "declined"}
             /\ rank' = rank + 1
             /\ UNCHANGED <<pc, prop, gate, domain, original>>
  /\ seen' = seen \cup {domain}
  /\ UNCHANGED contract

\* Mutant of RolledBack: an unaccepted retry leaves its derivation behind.
NotRolledBack == domain

\* The byte-exact rollback of an unaccepted retry.
RolledBack == original

\* ADR 0074: the derived domain is committed on an accepted PASS, and rolled
\* back on every other answer and on an exception (which is caught here).
RetryBackend ==
  /\ gate = "retry"
  /\ LET b == Order[rank]
     IN \/ /\ "certified" \in Answers(b, domain)
           /\ Pass(BackendEdge(b, "pass"))
           /\ UNCHANGED <<gate, rank, domain>>
        \/ /\ domain' = RolledBack
           /\ gate' = "backends" /\ rank' = rank + 1
           /\ UNCHANGED <<pc, prop>>
  /\ UNCHANGED <<original, contract, seen>>

\* 2. The claim-type probe, registered for measurable claims: decisive, or not,
\* in which case a measurable claim DEFERs and is never shown to the judge.
Probe ==
  /\ gate = "backends" /\ rank \notin DOMAIN Order
  /\ IF prop.claim \in OpenForm
     THEN gate' = "judge" /\ UNCHANGED <<pc, prop, seen>>
     ELSE /\ \/ Pass(Faith("mechanical", "pass", "ClaimProbe", prop.stmt))
             \/ Fail(Faith("mechanical", "fail", "ClaimProbe", prop.stmt), "unfaithful")
             \/ Return(Record(prop, Faith("mechanical", "defer",
                                         "FaithfulnessGate", prop.stmt)))
          /\ seen' = seen \cup {domain}
          /\ UNCHANGED gate
  /\ UNCHANGED <<rank, domain, original, contract>>

\* 3. The judge, for open-form claims alone.
Judge ==
  /\ gate = "judge"
  /\ \/ Pass(Faith("judged", "pass", "FaithfulnessJudge", prop.stmt))
     \/ Fail(Faith("judged", "fail", "FaithfulnessJudge", prop.stmt), "unfaithful")
  /\ seen' = seen \cup {domain}
  /\ UNCHANGED <<gate, rank, domain, original, contract>>

\* Z3, a backend, a re-checker, the probe or the judge raises: the seed is lost.
GateRaises ==
  /\ gate # "retry"
  /\ pc' = "idle" /\ prop' = NoProp
  /\ UNCHANGED gateVars

FaithfulnessNext ==
  /\ pc = "faithfulness"
  /\ Spine \/ AskBackend \/ RetryBackend \/ Probe \/ Judge \/ GateRaises

(***************************************************************************)
(* Properties.                                                             *)
(***************************************************************************)
FaithfulnessTypeOK ==
  /\ gate \in Consultants
  /\ rank \in 1..(Len(Order) + 1)
  /\ {domain, original, contract} \cup seen \subseteq Domains \cup {NoDomain}

\* ADR 0074: the derived domain is never visible to anything but the backend
\* that justifies it; the spine, the other backends, the probe and the judge
\* all read the contract the autoformalizer wrote, whatever the retries
\* before them answered or raised.
OriginalContractSeen == seen \subseteq {contract}

\* A candidate leaves the gate with a contract other than the one it came with
\* only under the certificate of a backend that re-renders the law and decides
\* it under the new domain, which is not empty.
DerivedDomainEarned ==
  pc \in {"demonstrate", "settle"} /\ domain # contract =>
    /\ domain = ClaimDomain[prop.claim]
    /\ prop.claim \notin Vacuous
    /\ CertifiedBy(prop, "fragment")
    /\ \E b \in Rerendering : <<b, prop.claim, domain>> \in Decidable
=============================================================================
