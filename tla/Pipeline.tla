------------------------------ MODULE Pipeline ------------------------------
(***************************************************************************)
(* One daemon process taking seeds through the six stages                  *)
(* (leibniz/daemon.py _run_seeds, leibniz/pipeline.py) over one ledger     *)
(* (leibniz/runtime.py), across restarts.  A seed is handled sequentially; *)
(* what makes it hard is that a stage acts on evidence an earlier stage    *)
(* recorded for a statement or contract that has changed since, that the   *)
(* ledger write may raise after the in-memory counters moved, and that the *)
(* process may die between any two steps (watchdog os._exit, power loss).  *)
(*                                                                         *)
(* The oracles (language models, Z3, the Lean kernel, the judge) are       *)
(* choices constrained only by what each is trusted for: the kernel        *)
(* accepts only statements in Provable.  The proposal-side memory          *)
(* (archive, notebook, frontier band) biases which claim is conjectured    *)
(* next and nothing else, so here any claim may be conjectured.            *)
(***************************************************************************)
EXTENDS Candidate, FiniteSets

CONSTANTS
  Degenerate,   \* claims whose congruence does not depend on its variables
  Signature,    \* claim -> structural congruence signature, or NoSignature
  NoSignature,
  Repairs,      \* pairs <<c, d>>: contract d is a sound DSL repair of c (of
                \* the same type: steering rewrites the contract alone)
  KnownHashes,  \* the curated corpus: hashes ...
  KnownSigs,    \* ... and congruence signatures
  MaxSeeds,     \* bound: seeds the first session takes; a later one, one fewer each
  MaxSessions   \* bound: times the daemon is built

ASSUME PipelineAssumption ==
  /\ Repairs \subseteq Claims \X Claims
  /\ \A r \in Repairs : r[1] \in OpenForm <=> r[2] \in OpenForm
  /\ NoSignature \notin KnownSigs
  /\ MaxSeeds \in Nat
  /\ MaxSessions \in Nat

VARIABLES
  corpus,   \* CorpusBackend: known hashes and signatures, built once
  budget,   \* TrustBudget
  report,   \* CycleReport
  ledger,   \* the rows of the runtime database (persistent)
  session   \* how many times the daemon was built

vars == <<pc, prop, corpus, budget, report, ledger, session>>

\* A ledger row.  `proved`, `certified` and `judged` are history: what the
\* proof and faithfulness evidence, which remember does not store, was about.
Row ==
  [pid: 1..MaxSeeds, session: 1..MaxSessions, claim: Claims,
   stmt: Statements \cup {NoStatement}, kernel_verified: BOOLEAN,
   finish_reason: FinishReasons,
   proved: SUBSET (Statements \cup {NoStatement}),
   certified: SUBSET (Statements \cup {NoStatement}), judged: BOOLEAN]

Curated == [hashes |-> KnownHashes, sigs |-> KnownSigs]

ZeroBudget == [total |-> 0, judged |-> 0]

ZeroReport ==
  [seeds |-> 0, settled |-> 0, reached_proof |-> 0, promulgated |-> 0, errored |-> 0]

Laws(rows) == {r \in rows : r.finish_reason = "promulgated"}

(***************************************************************************)
(* build_daemon: the corpus is the curated one plus the promulgated laws   *)
(* the ledger holds now; an unreadable ledger contributes nothing.         *)
(***************************************************************************)
SelfLedgerEntries ==
  LET held == {r \in Laws(ledger) : r.kernel_verified}
  IN [hashes |-> {r.stmt : r \in held},
      sigs |-> {Signature[r.claim] : r \in held} \ {NoSignature}]

BuildDaemon ==
  /\ pc = "down" /\ session < MaxSessions
  /\ session' = session + 1
  /\ \E own \in {SelfLedgerEntries, [hashes |-> {}, sigs |-> {}]} :
       corpus' = [hashes |-> KnownHashes \cup own.hashes,
                  sigs |-> KnownSigs \cup own.sigs]
  /\ budget' = ZeroBudget /\ report' = ZeroReport
  /\ pc' = "idle"
  /\ UNCHANGED <<prop, ledger>>

\* The process exits, in good order or not: everything in memory is gone.
Stop ==
  /\ pc # "down"
  /\ pc' = "down"
  /\ prop' = NoProp /\ corpus' = Curated
  /\ budget' = ZeroBudget /\ report' = ZeroReport
  /\ UNCHANGED <<ledger, session>>

(***************************************************************************)
(* One seed.                                                               *)
(***************************************************************************)
\* Mutant: the survey's list has no end.
ConjectureForever(c) ==
  /\ pc = "idle"
  /\ prop' = Fresh(c)
  /\ report' = [report EXCEPT !.seeds = @ + 1]
  /\ pc' = "formalize"
  /\ UNCHANGED <<corpus, budget, ledger, session>>

Conjecture(c) ==
  /\ pc = "idle" /\ report.seeds + session <= MaxSeeds
  /\ prop' = Fresh(c)
  /\ report' = [report EXCEPT !.seeds = @ + 1]
  /\ pc' = "formalize"
  /\ UNCHANGED <<corpus, budget, ledger, session>>

\* Mutant of SeedErrored: the failure is swallowed, not tallied.
SeedSwallowed ==
  /\ pc \in {"formalize", "refute", "novelty", "steer", "faithfulness",
             "demonstrate", "revalidate", "remember"}
  /\ pc' = "idle" /\ prop' = NoProp
  /\ UNCHANGED <<report, corpus, budget, ledger, session>>

\* A provider or infrastructure failure in any stage: the resilience boundary
\* of _run_seeds counts the seed as errored and moves on.
SeedErrored ==
  /\ pc \in {"formalize", "refute", "novelty", "steer", "faithfulness",
             "demonstrate", "revalidate", "remember"}
  /\ report' = [report EXCEPT !.errored = @ + 1]
  /\ pc' = "idle" /\ prop' = NoProp
  /\ UNCHANGED <<corpus, budget, ledger, session>>

\* The autoformalizer's statement, after the bounded compile repairs.
Formalize(s) ==
  /\ pc = "formalize"
  /\ IF s = NoStatement
     THEN prop' = Quarantine(prop, "malformed") /\ pc' = "settle"
     ELSE prop' = [prop EXCEPT !.stmt = s] /\ pc' = "refute"
  /\ UNCHANGED <<corpus, budget, report, ledger, session>>

CheapRefute(v) ==
  /\ pc = "refute"
  /\ LET p == Record(prop, Evidence("cheap_refutation", "mechanical", v,
                                    "none", prop.stmt, FALSE))
     IN IF v = "fail"
        THEN prop' = Quarantine(p, "refuted") /\ pc' = "settle"
        ELSE prop' = p /\ pc' = "novelty"
  /\ UNCHANGED <<corpus, budget, report, ledger, session>>

\* The quarantine reason the novelty parts give, "none" when novel.  `trivial`
\* is what the tactic ladder answered, which constrains nothing: any tactic may
\* time out.
NoveltyReason(p, trivial) ==
  IF p.claim \in Degenerate \/ trivial THEN "trivial"
  ELSE IF p.stmt \in corpus.hashes \/ Signature[p.claim] \in corpus.sigs
  THEN "known"
  ELSE "none"

NoveltyEdge(p, v) == Evidence("novelty", "mechanical", v, "novelty", p.stmt, FALSE)

NoveltyCheck ==
  /\ pc = "novelty"
  /\ \E trivial \in BOOLEAN :
       LET reason == NoveltyReason(prop, trivial)
       IN IF reason = "none"
          THEN prop' = Record(prop, NoveltyEdge(prop, "pass")) /\ pc' = "steer"
          ELSE /\ prop' = Quarantine(Record(prop, NoveltyEdge(prop, "fail")), reason)
               /\ pc' = "settle"
  /\ UNCHANGED <<corpus, budget, report, ledger, session>>

\* ADR 0022: a sound repair of the contract may be committed, after novelty
\* was checked on the contract it replaces.
SteerContract ==
  /\ pc = "steer"
  /\ \E d \in {prop.claim} \cup {c \in Claims : <<prop.claim, c>> \in Repairs} :
       prop' = [prop EXCEPT !.claim = d]
  /\ pc' = "faithfulness"
  /\ UNCHANGED <<corpus, budget, report, ledger, session>>

\* Every edge FaithfulnessGate.check can return for a candidate: a fragment
\* certifies the canonical law of the contract, every other producer the
\* statement in hand; the judge is reached by open-form claims only.
FaithfulnessEdges(p) ==
  {Faith("adversarial", "fail", "gaming_witness", p.stmt)}
  \cup {Faith("mechanical", v, "walnut", p.stmt) : v \in {"pass", "fail"}}
  \cup {Faith("mechanical", "pass", "fragment", s) :
          s \in {Canonical[p.claim]} \ {NoStatement}}
  \cup (IF p.claim \in OpenForm
        THEN {Faith("judged", v, "FaithfulnessJudge", p.stmt) : v \in {"pass", "fail"}}
        ELSE {Faith("mechanical", v, "ClaimProbe", p.stmt) : v \in {"pass", "fail"}}
             \cup {Faith("mechanical", "defer", "FaithfulnessGate", p.stmt)})

FaithfulnessReason(ev) ==
  CASE ev.verdict # "fail" -> "none"
    [] ev.verdict = "fail" /\ ev.tier = "adversarial" -> "gamed"
    [] OTHER -> "unfaithful"

FaithfulnessCheck ==
  /\ pc = "faithfulness"
  /\ \E ev \in FaithfulnessEdges(prop) :
       /\ prop' = Quarantine(Record(prop, ev), FaithfulnessReason(ev))
       /\ pc' = IF ev.verdict = "pass" THEN "demonstrate" ELSE "settle"
  /\ UNCHANGED <<corpus, budget, report, ledger, session>>

Reached == [report EXCEPT !.reached_proof = @ + 1]

DemonstrateFastPath ==
  /\ pc = "demonstrate" /\ FastPathApplies(prop)
  /\ TRUE \in Discharge(Canonical[prop.claim])
  /\ prop' = FastPath(prop)
  /\ report' = Reached
  /\ pc' = "revalidate"
  /\ UNCHANGED <<corpus, budget, ledger, session>>

\* The N+1 ensemble on the statement in hand, also reached when the kernel
\* refused the fast path's own proof.
DemonstrateEnsemble(ok) ==
  /\ pc = "demonstrate"
  /\ ok \in Discharge(prop.stmt)
  /\ prop' = [Record(prop, ProofEdge(prop.stmt, ok, FALSE)) EXCEPT
                !.kernel_verified = ok]
  /\ report' = Reached
  /\ pc' = "revalidate"
  /\ UNCHANGED <<corpus, budget, ledger, session>>

\* Mutants of Revalidated: a stale novelty PASS is kept; the FAIL edge of a
\* quarantined candidate is not recorded.
NotRevalidated(p, trivial) == p

RevalidatedUnrecorded(p, trivial) ==
  LET reason == NoveltyReason(p, trivial)
  IN IF ByDecisionProcedure(p) /\ reason # "none" THEN Quarantine(p, reason) ELSE p

\* NoveltyGate.revalidate on the canonical law a fast path installed, and the
\* FAIL edge the caller records.
Revalidated(p, trivial) ==
  LET reason == NoveltyReason(p, trivial)
  IN IF ByDecisionProcedure(p) /\ reason # "none"
     THEN Record(Quarantine(p, reason), NoveltyEdge(p, "fail"))
     ELSE p

Revalidate ==
  /\ pc = "revalidate"
  /\ \E trivial \in BOOLEAN : prop' = Revalidated(prop, trivial)
  /\ pc' = "promote"
  /\ UNCHANGED <<corpus, budget, report, ledger, session>>

\* TrustBudget.try_admit: whether the promulgation is admitted ...
Admitted(p) ==
  IsJudgedFaithfulness(p.edges)
    => AdmitsJudgedFaithfulness(budget.judged, budget.total)

\* Mutant of Counted: judged promulgations are not told apart.
CountedAlike(p) == [budget EXCEPT !.total = @ + 1]

\* ... and the counts after it was.
Counted(p) ==
  [total |-> budget.total + 1,
   judged |-> budget.judged + IF IsJudgedFaithfulness(p.edges) THEN 1 ELSE 0]

\* The verdict, the budget and Promulgate.run, with no call out in between.
Promote ==
  /\ pc = "promote"
  /\ IF IsPromotable(prop)
     THEN IF Admitted(prop)
          THEN /\ prop' = [prop EXCEPT !.promulgated = TRUE,
                                       !.finish_reason = "promulgated"]
               /\ budget' = Counted(prop)
          ELSE prop' = Quarantine(prop, "over_budget") /\ UNCHANGED budget
     ELSE /\ prop' = IF prop.finish_reason = "none"
                     THEN Quarantine(prop, "unproven") ELSE prop
          /\ UNCHANGED budget
  /\ pc' = "settle"
  /\ UNCHANGED <<corpus, report, ledger, session>>

\* _settle up to the ledger write: the tallies.
Settle ==
  /\ pc = "settle"
  /\ report' = [report EXCEPT
       !.settled = @ + 1,
       !.promulgated = @ + IF prop.finish_reason = "promulgated" THEN 1 ELSE 0]
  /\ pc' = "remember"
  /\ UNCHANGED <<prop, corpus, budget, ledger, session>>

RowOf(p) ==
  [pid |-> report.seeds, session |-> session, claim |-> p.claim, stmt |-> p.stmt,
   kernel_verified |-> p.kernel_verified, finish_reason |-> p.finish_reason,
   proved |-> PassedFor(p, "proof"), certified |-> PassedFor(p, "faithfulness"),
   judged |-> \E e \in EdgeSet(p.edges) : e.tier = "judged"]

\* Mutant of Remember: INSERT OR REPLACE keyed by the statement.
RememberByStatement ==
  /\ pc = "remember"
  /\ ledger' = {r \in ledger : r.stmt # prop.stmt} \cup {RowOf(prop)}
  /\ pc' = "idle" /\ prop' = NoProp
  /\ UNCHANGED <<corpus, budget, report, session>>

\* runtime.remember: one committed row per candidate.
Remember ==
  /\ pc = "remember"
  /\ ledger' = ledger \cup {RowOf(prop)}
  /\ pc' = "idle" /\ prop' = NoProp
  /\ UNCHANGED <<corpus, budget, report, session>>

Init ==
  /\ pc = "down"
  /\ prop = NoProp
  /\ corpus = Curated
  /\ budget = ZeroBudget
  /\ report = ZeroReport
  /\ ledger = {}
  /\ session = 0

Next ==
  \/ BuildDaemon
  \/ Stop
  \/ \E c \in Claims : Conjecture(c)
  \/ SeedErrored
  \/ \E s \in Statements \cup {NoStatement} : Formalize(s)
  \/ \E v \in {"pass", "fail"} : CheapRefute(v)
  \/ NoveltyCheck
  \/ SteerContract
  \/ FaithfulnessCheck
  \/ DemonstrateFastPath
  \/ \E ok \in BOOLEAN : DemonstrateEnsemble(ok)
  \/ Revalidate
  \/ Promote
  \/ Settle
  \/ Remember

Spec == Init /\ [][Next]_vars

(***************************************************************************)
(* Properties.                                                             *)
(***************************************************************************)
TypeOK ==
  /\ pc \in Stages
  /\ prop \in Propositio
  /\ corpus \in [hashes: SUBSET (KnownHashes \cup Statements \cup {NoStatement}),
                 sigs: SUBSET (KnownSigs \cup {Signature[c] : c \in Claims})]
  /\ budget \in [total: Nat, judged: Nat]
  /\ report \in [seeds: 0..MaxSeeds, settled: Nat, reached_proof: Nat,
                 promulgated: Nat, errored: Nat]
  /\ ledger \subseteq Row
  /\ session \in 0..MaxSessions

\* What makes a row a law: the kernel verified it, the statement is one the
\* kernel can prove, and both the proof and the faithfulness certificate were
\* obtained for that statement and no other.
SoundLaw(r) ==
  /\ r.kernel_verified
  /\ r.stmt \in Provable
  /\ r.proved = {r.stmt}
  /\ r.certified = {r.stmt}

\* Every law on the ledger is proved and was certified faithful as the very
\* statement that was proved, although the certificate may have been issued
\* for a canonical form and the proof found for the autoformalizer's text
\* (ADR 0058 A2, ADR 0079).
LawsAreProvedAsCertified == \A r \in Laws(ledger) : SoundLaw(r)

\* A law was new, as stated, against the corpus its session was built with,
\* even when a fast path replaced the statement novelty was checked on.
LawsNovelInSession ==
  pc # "down" =>
    \A r \in Laws(ledger) : r.session = session => r.stmt \notin corpus.hashes

\* The judged residual one process admits stays within the trust budget.
BudgetWithinFraction == budget.judged * JudgedDen <= JudgedNum * budget.total

\* A law whose faithfulness rests on a judge is never persisted uncounted.
JudgedLawsCounted ==
  pc # "down" =>
    Cardinality({r \in Laws(ledger) : r.session = session /\ r.judged})
      <= budget.judged

\* Every seed taken ends tallied, or counted as errored, or both.
NoSeedVanishes ==
  pc = "idle" => report.seeds <= report.settled + report.errored

\* What the gates quarantined stays quarantined: a candidate a gate gave a
\* kill reason is never promulgated afterwards.
QuarantineSticks ==
  [][prop.finish_reason \notin {"none", "promulgated"}
       => prop'.finish_reason = prop.finish_reason \/ prop' = NoProp]_vars

\* The ledger as a reader of the Codex sees it.
PublishedLaws ==
  {[id |-> <<r.session, r.pid>>, stmt |-> r.stmt, certified |-> r.certified] :
     r \in Laws(ledger)}

CodexView == INSTANCE Codex WITH
  Ids <- (1..MaxSessions) \X (1..MaxSeeds),
  codex <- PublishedLaws

\* The pipeline implements the Codex: whatever happens inside a seed, across
\* crashes and restarts, the published record only ever grows by one provable,
\* certified law at a time, and no row is rewritten or withdrawn.
ImplementsCodex == CodexView!Spec
=============================================================================
