--------------------------- MODULE Demonstration ---------------------------
(***************************************************************************)
(* The DEMONSTRATE stage taken apart: the decision-procedure fast path     *)
(* (leibniz/providers/residue_prover.py and its five siblings), then the   *)
(* ladder of leibniz/proof_repair.py RepairingDemonstrate: N+1 consensus   *)
(* of a prover ensemble run by a thread pool (leibniz/consensus.py), a     *)
(* decomposition into lemmas (leibniz/lemma_decomposition.py), a panel of  *)
(* reasoners repairing drafts against the kernel's complaints.             *)
(*                                                                         *)
(* The kernel decides every draft.  What the ladder has to get right is    *)
(* the count: whose votes they are, and that they are for the claim itself *)
(* and not for one of its lemmas.                                          *)
(***************************************************************************)
EXTENDS Candidate, FiniteSets

CONSTANTS
  Provers,       \* the ensemble (a strategy wrapper is a prover of its own)
  Name,          \* prover -> the name _prover_identity keys it by
  Names,         \* the names models go by
  Canon,         \* name -> bare model name (_canonical_model)
  Panel,         \* the repairers in order, each the set of names its provider
                 \* may be served by (a failover chain has several); <<>>: off
  NoDraft,       \* the absence of a candidate proof
  MinConsensus,  \* LEIBNIZ_PROOF_CONSENSUS
  MaxLemmas,     \* LemmaDecomposer.max_lemmas; 0: decomposition is off
  MaxRounds      \* ProofRepairer.max_rounds

ASSUME DemonstrationAssumption ==
  /\ IsFiniteSet(Provers)
  /\ Name \in [Provers -> Names]
  /\ Panel \in Seq(SUBSET Names)
  /\ NoDraft \notin Names
  /\ MinConsensus \in Nat \ {0}
  /\ MaxLemmas \in Nat
  /\ MaxRounds \in Nat

VARIABLES
  rung,       \* what the stage is at
  attempts,   \* prover -> what its thread came back with
  base,       \* ConsensusResult.identities of the claim's own consensus
  lemmas,     \* lemmas of the plan still to prove
  haves,      \* proven ones, offered as hints
  member,     \* position in Panel
  round,      \* repair rounds its member has spent
  draft,      \* the name the candidate proof in hand counts for
  closers,    \* canonical models of the panel with a kernel-verified proof
  accepted    \* history: the names the kernel accepted a proof of the claim from

ladderVars ==
  <<rung, attempts, base, lemmas, haves, member, round, draft, closers, accepted>>

Rungs == {"fastpath", "claim", "lemma", "composed", "repair"}

Outcomes == {"pending", "proved", "failed", "raised"}

AllPending == [p \in Provers |-> "pending"]

DemonstrationInit ==
  /\ rung = "fastpath" /\ attempts = AllPending
  /\ base = {} /\ lemmas = 0 /\ haves = 0
  /\ member = 1 /\ round = 0 /\ draft = NoDraft
  /\ closers = {} /\ accepted = {}

(***************************************************************************)
(* The fast path.                                                          *)
(***************************************************************************)
\* The law's generated proof: kernel-verified, with a clean axiom footprint.
FastPathPromotes ==
  /\ pc = "demonstrate" /\ rung = "fastpath" /\ FastPathApplies(prop)
  /\ TRUE \in Discharge(Canonical[prop.claim])
  /\ prop' = FastPath(prop)
  /\ pc' = "revalidate"
  /\ UNCHANGED ladderVars

\* No fast path applies, or it fails in any way: nothing it did is kept.
FastPathFalls ==
  /\ rung = "fastpath"
  /\ rung' = "claim"
  /\ UNCHANGED <<pc, prop, attempts, base, lemmas, haves, member, round, draft,
                 closers, accepted>>

(***************************************************************************)
(* ProofConsensus.prove, on the claim, a lemma, or the claim with hints.   *)
(***************************************************************************)
\* Lemmas are not among the model's statements: any may be provable.
MayProve == rung = "lemma" \/ TRUE \in Discharge(prop.stmt)

\* One thread: draft (a dead prover just fails), then discharge (may raise).
Attempt(p) ==
  /\ rung \in {"claim", "lemma", "composed"} /\ attempts[p] = "pending"
  /\ \E outcome \in {"failed", "raised"} \cup (IF MayProve THEN {"proved"} ELSE {}) :
       /\ attempts' = [attempts EXCEPT ![p] = outcome]
       /\ accepted' = IF outcome = "proved" /\ rung # "lemma"
                      THEN accepted \cup {Name[p]} ELSE accepted
  /\ UNCHANGED <<pc, prop, rung, base, lemmas, haves, member, round, draft, closers>>

AllBack == \A p \in Provers : attempts[p] # "pending"

\* ex.map re-raises what a thread raised, once the pool has shut down.
EnsembleRaises ==
  /\ AllBack /\ \E p \in Provers : attempts[p] = "raised"
  /\ pc' = "idle" /\ prop' = NoProp
  /\ UNCHANGED ladderVars

\* The distinct identities of the provers that verified.
Identities == {Name[p] : p \in {q \in Provers : attempts[q] = "proved"}}

\* Mutant of Reached: the passing attempts are counted.
ReachedByAttempts ==
  Cardinality({p \in Provers : attempts[p] = "proved"}) >= MinConsensus

Reached == Cardinality(Identities) >= MinConsensus

\* All threads are back, none raised.
Tallied == AllBack /\ \A p \in Provers : attempts[p] # "raised"

\* Mutant of Conclude: what the earlier rungs came short of is recorded as well.
ConcludeTwice(ok) ==
  /\ prop' = [Record(Record(prop, ProofEdge(prop.stmt, FALSE, FALSE)),
                     ProofEdge(prop.stmt, ok, FALSE)) EXCEPT !.kernel_verified = ok]
  /\ pc' = "revalidate"

\* run records exactly one proof edge, about the statement in hand, and attaches
\* a kernel-verified proof only with a PASS.
Conclude(ok) ==
  /\ prop' = [Record(prop, ProofEdge(prop.stmt, ok, FALSE)) EXCEPT
                !.kernel_verified = ok]
  /\ pc' = "revalidate"

Climb(next) == rung' = next /\ attempts' = AllPending /\ UNCHANGED <<pc, prop>>

\* The claim's own consensus; short of it, a decomposition plan of n lemmas, or
\* none (no decomposer, no plan, no well-formed lemma in it).
TallyClaim ==
  /\ rung = "claim" /\ Tallied
  /\ base' = Identities
  /\ IF Reached
     THEN Conclude(TRUE) /\ UNCHANGED <<rung, attempts, lemmas>>
     ELSE \E n \in 0..MaxLemmas :
            lemmas' = n /\ Climb(IF n > 0 THEN "lemma" ELSE "repair")
  /\ UNCHANGED <<haves, member, round, draft, closers, accepted>>

\* Each lemma under the same consensus; with any of them proven the claim is
\* asked for again, hints attached.
TallyLemma ==
  /\ rung = "lemma" /\ Tallied
  /\ lemmas' = lemmas - 1
  /\ haves' = haves + IF Reached THEN 1 ELSE 0
  /\ Climb(IF lemmas > 1 THEN "lemma" ELSE IF haves' > 0 THEN "composed" ELSE "repair")
  /\ UNCHANGED <<base, member, round, draft, closers, accepted>>

TallyComposed ==
  /\ rung = "composed" /\ Tallied
  /\ IF Reached
     THEN Conclude(TRUE) /\ UNCHANGED <<rung, attempts>>
     ELSE Climb("repair")
  /\ UNCHANGED <<base, lemmas, haves, member, round, draft, closers, accepted>>

(***************************************************************************)
(* The repair panel.                                                       *)
(***************************************************************************)
\* The models that go by these names.
Models(names) == {Canon[n] : n \in names}

\* Mutant of BaseCanon: a base model is not recognised under another name.
BaseRaw == base

BaseCanon == Models(base)

Enough == Cardinality(BaseCanon) + Cardinality(closers) >= MinConsensus

InPanel == rung = "repair" /\ member \in DOMAIN Panel

NextMember == member' = member + 1 /\ round' = 0 /\ draft' = NoDraft

\* The panel is through, or needs no one else: the loop's early exit.
ConcludeRepair ==
  /\ rung = "repair" /\ draft = NoDraft
  /\ member \notin DOMAIN Panel \/ Enough
  /\ Conclude(closers # {} /\ Enough)
  /\ UNCHANGED ladderVars

\* The member's first draft, by whichever model serves it; or none does.
DraftProof ==
  /\ InPanel /\ draft = NoDraft /\ ~Enough
  /\ \/ draft' \in Panel[member] /\ UNCHANGED <<member, round>>
     \/ NextMember
  /\ UNCHANGED <<pc, prop, rung, attempts, base, lemmas, haves, closers, accepted>>

\* The kernel accepts the candidate: the vote of the model that served it, if
\* it is no base verifier's and no earlier closer's.
DraftVerified ==
  /\ InPanel /\ draft # NoDraft
  /\ TRUE \in Discharge(prop.stmt)
  /\ closers' = closers \cup ({Canon[draft]} \ BaseCanon)
  /\ accepted' = accepted \cup {draft}
  /\ NextMember
  /\ UNCHANGED <<pc, prop, rung, attempts, base, lemmas, haves>>

\* Mutants: one round too many; rounds that are not counted.
RoundsLeftInclusive == round <= MaxRounds

RoundUncounted == round

RoundsLeft == round < MaxRounds

NextRound == round + 1

\* The kernel refuses it: another round, with its complaint, while there are any
\* and a model serves it.
DraftRefused ==
  /\ InPanel /\ draft # NoDraft
  /\ \/ /\ RoundsLeft
        /\ draft' \in Panel[member]
        /\ round' = NextRound
        /\ UNCHANGED member
     \/ NextMember
  /\ UNCHANGED <<pc, prop, rung, attempts, base, lemmas, haves, closers, accepted>>

\* The checks of a candidate are not guarded: what they raise loses the seed.
DraftRaises ==
  /\ InPanel /\ draft # NoDraft
  /\ pc' = "idle" /\ prop' = NoProp
  /\ UNCHANGED ladderVars

DemonstrationNext ==
  /\ pc = "demonstrate"
  /\ \/ FastPathFalls
     \/ \E p \in Provers : Attempt(p)
     \/ EnsembleRaises \/ TallyClaim \/ TallyLemma \/ TallyComposed
     \/ ConcludeRepair \/ DraftProof \/ DraftVerified \/ DraftRefused \/ DraftRaises

(***************************************************************************)
(* Properties.                                                             *)
(***************************************************************************)
DemonstrationTypeOK ==
  /\ rung \in Rungs
  /\ attempts \in [Provers -> Outcomes]
  /\ base \subseteq Names
  /\ lemmas \in 0..MaxLemmas /\ haves \in 0..MaxLemmas
  /\ member \in 1..(Len(Panel) + 1) /\ round \in 0..MaxRounds
  /\ draft \in Names \cup {NoDraft}
  /\ closers \subseteq Models(Names)
  /\ accepted \subseteq Names

\* N+1 (ADR 0006, 0024, 0029): outside the decision-procedure fast path a
\* candidate passes only when the kernel accepted a proof of the claim itself
\* under that many different model names: neither a second strategy of a model
\* nor a proven lemma adds a vote.  When the panel closed it, the names belong
\* to that many models: a failover that reaches a model of the ensemble under
\* another name adds none.  A consensus of the ensemble alone promises no more
\* than names: consensus.py counts two identifiers of one model as two.
DistinctVoters ==
  pc = "revalidate" /\ prop.kernel_verified /\ ~ByDecisionProcedure(prop) =>
    /\ Cardinality(accepted) >= MinConsensus
    /\ rung = "repair" => Cardinality(Models(accepted)) >= MinConsensus
=============================================================================
