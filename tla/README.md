# Leibniz daemon: a TLA+ development

Leibniz is a daemon that conjectures number-theoretic laws, has language models
formalize and prove them, and *promulgates* (writes to its ledger as laws) only
what a chain of gates lets through. Models propose; sound tools (Z3, the Lean
kernel, decision procedures) dispose. This directory holds TLA+ models of the
parts of the program where that promise could break, TLC configurations that
check them on small instances, and TLAPS proofs of the most important results
for every value of the constants.

Paths below are relative to the repository root (`src/` here); line numbers are
in `PROJECT.json`, whose `map` ties every definition to the code it models.

## 1. Inventory

### 1.1 Components

| component | code | state it keeps | operations |
|---|---|---|---|
| trust core | `leibniz/types.py`, `trust.py`, `gates/verification.py`, `budget.py` | the evidence edges of a candidate; `TrustBudget` counters | `validate_edge`, `validate_path`, `is_promotable` (with the ADR 0079 statement binding), `try_admit` |
| stage pipeline and daemon loop | `leibniz/pipeline.py`, `daemon.py`, `propositio.py` | the `Propositio` in hand, `CycleReport`, `Archive` | `Conjecture`, `Formalize`, `CheapRefute`, novelty, steering, faithfulness, `Demonstrate`, revalidation, `Promulgate`, `_settle`, `remember`; `run_cycles` around them |
| claim language | `backends/smt_z3.py`, `dsl_to_lean.py` | none | which predicates Z3 encodes exactly and Lean renders, what they mean, the queries in a box and over all integers |
| novelty gate and corpus | `gates/novelty.py`, `corpus.py`, `structural.py` | known hashes and congruence signatures, read once per daemon | `check`, `revalidate`, `self_ledger_entries`; `congruence_signature`, `is_coefficient_degenerate` |
| faithfulness gate and sound backends | `gates/faithfulness.py`, `gates/*_decided.py`, `gates/sound_backends.py`, `backends/walnut.py`, `probes.py` | a provisional `established_domain` during one check | gaming witness, mechanical probe, the loop over backends, the judge |
| demonstrate | `consensus.py`, `lemma_decomposition.py`, `proof_repair.py`, `verifiers.py`, `providers/*_prover.py` | `Demonstratio` (the kernel verdict) | fast paths, N+1 ensemble, decomposition, repair; `LeanVerifier.discharge` is the sole writer of `kernel_verified` |
| runtime database | `leibniz/runtime.py` | one SQLite file shared by processes; a lazily opened connection per process | `_db` (open, migrate, write barrier), `remember`, `recall_recent`, `close` |
| Lean REPL backend | `backends/lean_repl.py` | one REPL process, a lock, a cache of environments | `_start`, `_send`, `_env_for`, `compile_statement`, `check_proof`, decision ladder, `close` / `close_all` |
| heartbeat | `scripts/heartbeat.py` | journal, alarms, stall samples, the watchdog's event | `main`, `beat`, `_arm_watchdog`, `_StallWatch`, `stale_journal_alarm`, `write_journal` |
| heartbeat bootstrap | `deploy/heartbeat/launch-heartbeat.sh` | the git work tree | fetch, check, launch, or abort |
| discovery steering | `discovery.py`, `selection.py`, `pattern_mining.py`, `seeds.py`, `leonardo.py` | the difficulty band and the notebook, each a state file; the archive | `record`, `update`, `_note_family`, `_note_dry_family`, `save`, `load`; which claim is conjectured next |
| assembly and cost cap | `assembly.py`, `instance_config.py`, `env.py`, `cost.py` | configuration, spent amount | `build_daemon`, `exhausted` |
| proposal providers | `leibniz/providers/*` | HTTP clients | drafts, failover |
| one-shot backends | `backends/lean_cli.py`, `smt_*.py`, `coq_docker.py`, `isabelle_docker.py` | none between calls | compile, prove, refute |
| arXiv feed | `arxiv_feed.py` | the amplification queue and a seen set, each a file | `fetch_recent_detail`, `update_queue`, `run_feed` |
| Newton exchange | `newton_exchange.py` | folios and a manifest, files | `export_new` |
| Calculemus, Observatory | `calculemus*.py`, `observatory*.py` | published pages | render, publish, by an operator |
| tool registry | `leibniz/tools/*` | a registry of tools | call, re-check |
| research scripts, site, Lean projects | `scripts/`, `site/`, `lean-*`, `docs/` | | not part of the daemon |

### 1.2 How they interact

A *beat* (heartbeat) builds one daemon and turns its cycles on the main thread.
Each cycle takes seeds one after the other through the stages; stages call the
gates, which call the backends synchronously. Only two places run threads: the
prover ensemble, whose threads share one Lean REPL behind a lock, and the
watchdog, which polls the beat and may close the Lean backends (without their
lock), journal and end the process at any moment. Beats of different instances
(prod, uat, dev) are different processes that can be pointed at one ledger file.
Everything but the ledger, the journal and the proposal-side files is lost when a
process ends, and `build_daemon` reads the ledger back once, as known corpus, and the
band and the notebook as they were last saved. After its cycles, with the watchdog
disarmed, the beat sweeps arXiv into the amplification queue, exports folios of the
ledger's laws, and journals.

### 1.3 What is hard

- A stage acts on evidence an earlier stage recorded for a statement or contract
  that has changed since: steering rewrites the contract, a fast path installs
  another statement, the ensemble proves the autoformalizer's text under a
  certificate issued for the canonical one.
- A contract is lent to one backend provisionally; votes for one claim come from
  models that have several names and several strategies, for the claim and for
  its lemmas.
- One of several writes fails: tallies, archive and ledger row; schema,
  migration and barrier; insert and commit.
- Two processes on one ledger; two threads and a lock-free closer on one REPL; a
  main thread and a watchdog that both journal.
- A process that never answers, answers late, or is replaced under a cache that
  describes its predecessor.
- The process dies at any step, and the only witness is a journal or a ledger.
- Pairs of files that describe each other (queue and seen set, folios and manifest,
  band, notebook and ledger) are written in place, one after the other.
- A listing grows while it is paged; an empty page looks like its end.
- A universal claim is reduced to a finite key, to a signature or to coefficients: one
  simplification too many decides another claim.
- Boundaries: a judged fraction taken after, not before; the ends of a stall
  window; an age limit compared with entries stamped within the night.

Every one of these is a row of `hazards` in `PROJECT.json`, at its line.

### 1.4 What makes each component correct

- *Trust core and pipeline*: a law on the ledger was proved by the kernel and
  certified faithful *as one and the same statement*; it was novel against the
  corpus of its session; a quarantined candidate never comes back; the judged
  share stays within its budget; no seed disappears unaccounted; a reader sees
  laws appear one at a time and never change.
- *Runtime database*: what was acknowledged is durable; a checked connection
  never writes onto another instance's ledger.
- *Lean REPL*: an answer is matched to its command; a proof is accepted only if
  elaborated in a sound environment; every call returns.
- *Heartbeat*: a hung beat is journaled, a wedged one is caught, a working one is
  not condemned, two silent nights are alarmed.
- *Faithfulness gate*: a pass needs an accepted certificate; a provisional
  contract is rolled back on every way out; only open-form claims reach a judge.
- *Demonstrate*: N+1 counts voters that prove the claim itself, by distinct model names in
  the ensemble and by distinct models in the panel; exactly one proof edge results.
- *Screening* (claim language, fragments, signatures): what is certified holds for all
  integers; what is refused as known has the congruence of the entry it matches (not
  always its fact: `false_known`); what is refused as vacuous has one truth value; a
  fragment's key is true exactly when its claim is.
- *Steering*: a band held at a bound is let go in time, over any number of beats; no
  family with a proof on record is called dry ground.
- *Feed and exchange*: a sweep that reports no gap left a line for every hit it owed, and
  one a reader accepts but for a hit for each sweep that was stopped, whose line went
  behind a torn one; none is queued twice but by a stopped sweep; the manifest lists
  whole folios only; every law is exported in the end.

## 2. Plan

Done in this order: the trust core and the pipeline (what the system is for),
the ledger it writes, the prover backend it depends on, the beat it runs in.

| module | what | state |
|---|---|---|
| `Trust` | evidence, policy, promotion verdict, admission; no variables | done |
| `Candidate` (extends `Trust`) | the candidate in hand, its evidence, the kernel's verdict, the fast path's result | done |
| `Pipeline` (extends `Candidate`) | seeds through the stages, over a ledger, across restarts | done |
| `Codex` | abstract specification: the growing record of laws | done, refined by `Pipeline` |
| `Pipeline_proofs` | invariants, budget, novelty in and across sessions, the refinement, proved | done |
| `Faithfulness` (extends `Candidate`) | the gate's loop over backends, the provisional contract and its rollback, probe and judge | done |
| `Demonstration` (extends `Candidate`) | fast path, distinct-identity consensus, decomposition and repair ladder | done |
| `Certification` (extends both) | one after the other, shown to implement `Pipeline`'s stages | done |
| `Certification_proofs` | the gate's and the ladder's invariants, that refinement and termination, proved | done |
| `LedgerRuntime`, `LedgerRuntime_proofs` | processes on one SQLite file | done, three theorems |
| `LeanRepl`, `LeanRepl_proofs` | the REPL, its lock and its cache | done, four theorems |
| `StallWatch`, `Heartbeat` (extends it), `Heartbeat_proofs` | stall detector; beat, watchdog, nights | done, seven theorems |
| `ArxivFeed`, `Exchange`, `Housekeeping` (composes both) | the beat's tail: sweep, export, journal, with faults and kills | done, six theorems |
| `Contract`, `Structural`, `Fragments` (each extends the one before) | claims as syntax trees, their signatures, the six decision procedures | done |
| `Screen`, `Screen_proofs` | the gates that use them, over tables of what they conclude | done, two theorems |
| `Screening` (extends `Screen` and `Fragments`) | those tables, computed | done |
| `Frontier`, `Notebook`, `Steering` (composes both) | difficulty band and families from beat to beat | done, three theorems |
| `Housekeeping_proofs`, `Steering_proofs` | their invariants, proved | done |

Left: the two hash schemes for one statement (ADR 0078), in `Pipeline` or a module of
their own, and the tool registry, which accepts results by the gate's discipline.
Every safety invariant and action property of a passing run is stated by a theorem, but for
the three of the screen that are about data (section 5); of every liveness property the part
that needs no fairness is proved, that the work left is bounded and lowered.

## 3. The modules and the code

**Trust.** `EdgeEvidence`, `ValidateEdge`, `ValidatePath`, `IsPromotable`,
`StatementBound` and `AdmitsJudgedFaithfulness` are the functions of the same
names. A statement stands for a Lean `theorem_src` and its hash together; a claim
for the structured contract of an `Enuntiatio`. The field `about` of an edge is
history: the statement the evidence was obtained for, which the code does not
store. That it is missing is exactly why promotion has to bind statements, and
what the main theorem is about. The six fragment producers (`*/kernel`) are one,
`"fragment"`: each re-renders the law from the contract.

**Candidate.** `Propositio` with `record` and `quarantine`, the edges a stage can
record, and `Discharge`: the kernel may refuse anything and accepts only `Provable`
statements. `FastPath` is what `_promote` leaves behind.

**Pipeline.** One action per stage, in the order of `_run_seeds`; `pc` is the stage
about to run. `BuildDaemon` reads the ledger into `corpus` (or fails to, and gets
nothing); `SeedErrored` is the resilience boundary, reachable from every stage that
calls out; `Promote` is one action because the verdict, the budget and
`Promulgate.run` call nothing outside; `Settle` and `Remember` are two because the
write between them may raise; `Stop` ends the process anywhere. Oracles are
choices: the tactic ladder may time out, a model may produce any statement. Rows carry as
history what their evidence was about. The production judge is
`ConservativeJudge`, which never passes; the model lets a judge pass, so that the
budget means something.

**Faithfulness.** `FaithfulnessGate.check`, one action per oracle it consults: `Spine`,
`AskBackend` (one iteration of the loop: a refutation, an accepted certificate, a
DEFER that may be retried, or nothing), `RetryBackend` (the derived domain is
committed or rolled back), `Probe`, `Judge`, and `GateRaises` at every call but the
retry's, which catches. `domain` is `expressio.established_domain`, the one field the
gate writes provisionally; `original` is the local copy it is restored from.
`contract` and `seen` are history. What a backend certifies is the constant
`Decidable`; that acceptance re-checks the certificate and binds its statement is
why only decided contracts are certified. The six fragment backends answer
PASS or DEFER; only Walnut's kind refutes.

**Demonstration.** The fast path and `RepairingDemonstrate.run`. A thread of the pool is
`Attempt`; `TallyClaim`, `TallyLemma` and `TallyComposed` are the ends of the three
uses of `ProofConsensus.prove`; `DraftProof`, `DraftVerified`, `DraftRefused` and
`DraftRaises` are one member's loop in `ProofRepairer.prove`, and `ConcludeRepair` the
end of the panel. `Name` is what `_prover_identity` keys a prover by, `Canon` is
`_canonical_model`, and a panel member is the set of names its provider may be served
by, since a failover chain reaches whichever model answers. `accepted` is history: the
names under which the kernel accepted a proof of the claim itself (`Models` are the
models that go by them). `ConsensusDemonstrate` is
the case of an empty panel and no decomposer. Each thread draws its outcome when it
comes back; what a proof says is not modelled.

**Certification.** A candidate that survived refutation and novelty enters the gate
and leaves `DEMONSTRATE`, the seed errored or settled. `ImplementsStages` maps it onto
`Pipeline` (`Stage`): the internal steps of gate and ladder stutter, the last one is
the stage.

**Codex.** The reader's view: laws enter one at a time, provable, certified as
stated, under fresh identities, forever. `PublishedLaws` is the refinement mapping.

**LedgerRuntime.** Each SQLite statement of `_db`, `remember` and `recall_recent` is
a step of a process. `Raise` is `sqlite3.OperationalError` in any of them: it leaves
the connection and its transaction as they are, as the code does. A legacy table
(untagged rows, missing columns) is one of the initial states. `checked` and
`claimed` are history.

**LeanRepl.** `EnvFor` takes the cached environment before `_send` looks at the
process, in the code's order; `StartFinds`, `PollAlive`, `PollDead` and `Spawn` are
`_start`, whose two reads of `_proc` the watchdog can separate. `Timeout` closes the
backend; a late answer stays in the pipe of the abandoned process. The REPL is
external: `Respond` and `Die`. It numbers environments from 0 and answers an
unknown number by a message without an error list. In production only
`check_proof` goes through the REPL (novelty, compilation and normalization use
the one-shot CLI backend), so the safety properties are about it; commands without
imports, `normalize_statement` and `check_proof_with_error` use the same exchange
and are left out.

**StallWatch and Heartbeat.** `StallVerdict` is `_StallWatch.verdict` with its window
in polls. `Heartbeat` has the main thread (`pc`), the watchdog (`wpc`), the stall
samples, the journal and the alarms. The watchdog's close, journal, alarm and exit
are separate steps because the main thread runs on meanwhile. Time is polls within a
beat and nights between beats; an entry is stamped when its beat starts, so 48 hours
have passed only on the third night after it, which `Stale` states. Poll jitter is
not modelled; the state directory is writable.

**ArxivFeed, Exchange and Housekeeping.** `run_feed` and `export_new` statement by
statement, and `main`'s tail around them. Papers are numbered as they are submitted, which
is at once id, sort key and place in the listing; `Submit` may fall between two pages.
`write_text` is two steps, the file being empty in between (`EmptySeen`, `OpenFolio`,
`EmptyManifest`). An exception ends the step and is a note in the entry (`FeedRaises`,
`ExportRaises`); `Kill` ends the process and leaves no entry; `Interrupt` says what each
leaves of a line being appended, and `Appended` what becomes of the line behind it: each
line is `readable` or refused by `json.loads`, and `Readable` is what `queued_targets`
and `_render_md` meet. `vouched`, `due`, `halted` and `blank` are history: the
papers an entry vouches for, those due when the sweep began, the sweeps stopped between
a first hit and the saved set, and whether a page came back empty too soon. What a score
and a folio are made of are the constants `Cored` and `Unrenderable`.

**Contract, Structural, Fragments, Screen and Screening.** Here the oracles of `Pipeline` are
opened: a contract is its three predicates, each a syntax tree, and every classification is
computed from it. `Contract` has the exactness of Z3's encoding (`Encodable`), what is
rendered (`Renderable`) and what a predicate means (`Truth`, over the non-negative
integers). `Structural` has polynomials, `CongruenceSignature` and
`IsCoefficientDegenerate`. `Fragments` has, for each of the six, what it takes
(`Classify...`), its guards and budgets, and the finite key it leaves to the kernel, which
closes it exactly when it is true. `Screen` runs one contract after another through
`NoveltyGate.check`, the spine, the loop over the backends with its derived domain and the
four legs of a certificate, and the coverage probe, over a corpus rebuilt from the ledger;
any solver may time out and any kernel call be refused. It goes by tables (`Meaning`,
`Signature`, `Eligible`, `Keyed`, ...): constants, so that the proofs hold whatever is in
them. `Screening` computes each table from the syntax trees (`Meanings`, `Signatures`, ...), and
the run gives the constants those values. The Lean text of statements and proofs is not
modelled.

**Frontier, Notebook and Steering.** `Retuned` is `FrontierController.update`: targets are
integers in units of the last digit kept, a rate is a pair of counts, and the one place
where floats decide otherwise than rationals (`0.35 - 0.4` against `0.05`) is kept.
`Noted` is `DiscoveryNotebook.record` for the two family lists; a count is kept up to its
threshold, which is all it is compared with. `Steering` is `run_cycles` around them: any
number of seeds with any outcome, then the update and the two saves, each of two steps.
`stuck`, `proved`, `unsaved` and `lost` are history: updates in a row that left a
saturated band where it was; families with a proof; those with one since the last save;
and those whose proofs a killed beat took with it.

## 4. The runs

| run | expects | what it shows |
|---|---|---|
| `pipeline` | pass | a session of two seeds and one of one at a judged fraction of one half, three claims (in a fragment; repairable into it; open-form) and four statements (a canonical law, a provable restatement, an unprovable one, one of the curated corpus): `LawsAreProvedAsCertified`, `LawsNovelInSession`, `NoSeedVanishes`, `QuarantineSticks`, `BudgetWithinFraction`, `JudgedLawsCounted`, `ImplementsCodex` |
| `certification` | pass | three claims (decided by a fragment only once the domain is derived; over an empty domain; open-form) and three statements: `OriginalContractSeen`, `DerivedDomainEarned`, `DistinctVoters`, `CertificationEnds`, `ImplementsStages` |
| `ledger` | pass | a prod and a uat process on one file: `AckedIsDurable`, `GuardedOpen` |
| `lean_repl` | pass | two threads, two REPL processes, one watchdog close: `AnswersMatch`, `KernelVerdictsAreElaborated`, `CallsReturn` |
| `heartbeat` | pass | one night, main thread against watchdog: `KilledBeatIsJournaled`, `QuietBeatIsCaught`, `TwinEntriesOnlyWhenCondemned`, `HungBeatIsJournaled`, `WedgedIsNotSlow` |
| `nights` | pass | four nights: `TwoSilentNightsAreAlarmed` |
| `housekeeping` | pass | two nights, three papers, two laws, two faults at any statement: `CopiesBounded`, `ReportedHitsAreReadable`, `ListedFoliosAreWhole`, `EveryLawIsExported` |
| `screening` | pass | sixty-five contracts screened one after another, over two corpora: `CertifiedClaimsHold`, `KnownMeansSameCongruence`, `VacuousClaimsAreConstant`, `KeysDecideExactly` |
| `steering` | pass | beats of two cycles, killed at any statement: `SaturationIsBrief`, `DryGroundUnproven` |
| `claimed_ledger` | violation | `_conn` is set before the barrier; a statement that raises in between leaves a connection that skips it |
| `wrong_imports` | violation | a cached environment number outlives its process, and names in the next one an environment built with other imports |
| `false_known` | violation | a claim that is true on its domain is refused as known because of a law that says something else: `KnownMeansSameFact` |

Each violation run checks one statement of the repository's own docs or comments;
`findings` quotes it.

Further consequences that modelling brought up, not given a run (paths under `leibniz/`):

- `_settle` tallies a promulgation before `remember`, so a write that raises leaves a
  reported law off the ledger (`daemon.py:241`).
- The self-ledger is a snapshot (`corpus.py:116`): one session can promulgate one
  statement twice. A contract repaired after the novelty check can carry a congruence
  the corpus holds, since only a fast path is revalidated.
- Two instances that both open an unclaimed ledger both pass the barrier; a row whose
  commit raised is committed by the next `remember`.
- After a respawn `compile_statement` reads "Unknown environment." as success.
- The soft budget is read when every cycle has turned (`scripts/heartbeat.py:162`); an
  exception in `build_daemon` precedes the `try` and leaves no entry (158); the journal
  omits the cycles whose reports a `break` or an exception dropped.
- A blank page ends the paging with `truncated` False, though `fetch_recent_detail`'s
  docstring says under-sweeps say so; `queued_targets` says "Newest-and-highest-scoring first" and sorts equals
  oldest first; a refused folio, called an alarm in `newton_exchange.py:16`, is only
  counted.
- A sweep killed inside a line leaves it without its newline, and the next sweep's first
  hit is written behind it (`arxiv_feed.py:221`): one line, which `json.loads` refuses and
  every reader skips. The second hit is saved as seen, the entry says "full", and no sweep
  queues it again: it is lost for good. `ReportedHitsAreReadable` bounds such hits by the
  stopped sweeps; without that allowance TLC finds one after a kill and one more night.
- The signature of a membership or residue disjunction drops the residues asserted and
  every signature the domain (`structural.py:30`, 295). The trace of `false_known` promulgates
  `(a^2 % 4 == 0) or (a^2 % 4 == 1)` and kills `(a^2 % 4 == 0) or (a^2 % 4 == 2)` over even
  `a`; just so, after a law about `{0, 2}` over even `a`, one about `{1, 3}` over odd `a` is
  killed. `KnownMeansSameCongruence` states what remains: two claims with one signature
  have one computed congruence.
- A full residue block on one modulus, which `mixed_modulus_decided`'s docstring says the
  boolean fragment refuses, is certified by the plain one: `(n%2==0) or (n%2==1)`.
  Content-freeness is propositional only. `MAX_ATOMS` counts occurrences where its comment
  says distinct atoms. The witness search reads `gcd` and `factorial` as `max`, so
  such domains mostly get no witness.
- The base ensemble keys its provers by name as it stands (`consensus.py:63`, counted at
  130) and the panel canonicalizes. An ensemble of `vendor/opus` and `opus` reaches
  `MinConsensus = 2` with one model, where `assembly.py:110` says that a model reached via
  two gateways "is still ONE voter" (so it is when both entries spell its name alike,
  since only the suffix `@gateway` is cut). The run's ensemble has such a pair; `DistinctVoters`
  therefore asks for distinct names of the ensemble and for distinct models only of the
  panel, and TLC finds the two votes of one model when it asks for distinct models of both.
- A kill between a proof and the notebook's save lets a family that has a law be called dry
  ground by a later beat, where ADR 0069 says that a family that has ever proven cannot
  be; hence `lost` in `DryGroundUnproven`.
- A rate that alternates around the aim at the floor resets the pin count each time
  (`discovery.py:510`), so the target may stay there although the average is below the
  aim: `SaturationIsBrief` is about updates in a row.

### Bounds, and why they are enough

- `MaxSeeds`, `MaxSessions`: a seed shares with an earlier one only the corpus
  snapshot, the budget and the ledger. Two sessions let the first one's laws be the
  second one's corpus. Two seeds in a session, at one half, reach the refusal of a judged
  law (as the first promulgation it would be all of them) and the admission of one (after
  a law that was not judged). A later session takes one seed fewer, which its budget,
  reset, does not miss. The theorems below remove these bounds.
- Four provers, two of them one model under two strategies and one that model under
  another gateway's identifier; a panel of two whose first member is a failover chain
  that reaches it under that name too;
  `MinConsensus = 2`: each way one model could vote twice occurs, and so does a quorum
  made of one base verifier and one closer, and of two closers. Two lemmas let a
  first one fail and a second one be proven; one repair round separates draft, repair
  and exhaustion. Two backends, Walnut before a fragment: a retry that failed is
  followed by the probe and the judge, a refutation comes before a retry.
- Two processes and three candidate identities: a barrier race needs two instances;
  a leftover transaction needs one row that failed and one that follows, with a
  third for the other process.
- Two threads, two REPL processes, one call each: the second thread finds what the
  first one left (a dead process, a stale cache, an unread answer), and the second
  process is the one respawned. `wrong_imports` needs two import sets and three
  calls of one thread.
- `WindowS = 2`, `FloorS = 2`, `BeatMax = 5`: the window is full, slides and drops its
  oldest sample before the ceiling, which is past twice the window, so both reasons
  to kill occur. The nine-tenths rule then asks for the whole window. Four nights
  hold one entry, two silent nights and the launch that alarms.
- `housekeeping`: one entry a page and two pages make a sweep that runs out of pages, one
  that overlaps, and one shifted by an arrival; three papers exceed the seen set of two;
  of two laws one is refused; two faults are a stopped sweep and the fault of its repair.
- `screening`: `Top = 17` stands for infinity: past the largest threshold among the
  predicates (6) every one of them has a period dividing 12. The limits on moduli, cells,
  atoms and degree are small so that claims on both sides of each fit. The
  classification, signature, degeneracy and renderability of all sixty-five claims agree
  with what the Python functions return for them.
- `steering`: five targets, a window of four and the default aim and pin limit: windows
  that are above, below and in the dead band occur, saturation at both bounds, and both
  ways to escape. `Retuned` agrees with `FrontierController.update` on 180 000 random
  updates, rounding of halves aside. Two families compete for a list of one.
- Deadlock is not checked in the rest: seeds, nights, calls and identities run out, and then the
  models stop. (`ledger`, `housekeeping`, `screening` and `steering` go on for ever,
  `certification` idles only in `Done`: these do check it.)

### Fairness

`LeanRepl`: weak fairness of each thread's `Step`. A thread holding the lock waits
only in `worker.join(timeout_s)`, which returns, and threads waiting for the lock are
finitely many with finitely many calls. Nothing is assumed of the REPL.
`Housekeeping`: weak fairness of the beat's own steps taken together: the nights follow on one
another, and each step waits at most for a request with a timeout or for SQLite's.
Faults are finitely many (`MaxFaults`); arXiv and the ledger's writers are not fair.
`Certification`: weak fairness of `Next`, the thread of the seed and its pool: every
call to a model, to Z3 or to the kernel has a timeout, and the stage raises or goes on.
`Heartbeat`: weak fairness of `BoundedMain` (the main thread's steps whose calls have
timeouts of their own) and of `Watchdog` (a thread that sleeps one poll). Nothing is
assumed of building the daemon or of turning a cycle: they may hang, which is what
the watchdog is for. The other specifications assume none and state only safety.

## 5. What is proved

`Pipeline_proofs`, from `TrustAssumption`, `CandidateAssumption` and `PipelineAssumption` alone (any
statements, claims, repairs, corpus, fraction, and any bounds on seeds and
sessions):

- `TypeCorrectness`, `LawSoundness` (`LawsAreProvedAsCertified`).
  `LawsAreProvedAsCertified` is not inductive: it speaks of rows, and a row copies
  the candidate in hand. The strengthening `IInv` says what each stage may rely on:
  `StageInv`, which evidence can exist at which stage; `EvidenceInv`, that a passing
  proof edge is about the statement in hand, and that the passing faithfulness
  edges are either all about the statement in hand or all a fragment's, about the
  canonical law of the contract in hand; `LawInv`, that a promulgated candidate is
  sound. The one hard step is `PromotableIsSound`: under a fragment's certificate,
  `StatementBound` is what makes the two statements one.
- `BudgetSoundness`: admission after the increment keeps `judged/total` within the
  fraction (`AdmissionKeepsFraction`).
- `NoveltySoundness`: by an invariant on the candidate: with a passing novelty
  verdict and no kill reason, its statement is not in the corpus, or a fast path
  installed it and revalidation is still ahead.
- `SessionsToldApart` (`RepublishedOnlyBlind`): a session does not compare its laws with one
  another, so it may publish a statement twice; of the sessions before it, however they
  ended, it republishes nothing unless it was built while the ledger could not be read.
  By `EarlierInv`, that its corpus has every earlier law or is the curated one; that
  `_self_ledger_entries` keeps kernel-verified rows only loses no law, because of `LawInv`.
- `PipelineImplementsCodex`: every step maps to an `Enter` of one law or to a
  stutter; it needs `IdentityInv`, that no row of this session has the number of the
  seed in hand.
- `SeedsAreTallied` (`NoSeedVanishes`): by `TallyInv`, that the seed in hand is the only
  one not tallied, and is tallied once it waits for its row to be written.
- `KillsStick` (`QuarantineSticks`, an action property): by `KillInv`. The only stage
  that could overturn a kill is promotion, after a fast path's law was found known; there
  the FAIL edge that revalidation recorded makes the verdict refuse (`RefusedByFailure`).
- `JudgedAreCounted` (`JudgedLawsCounted`): by `CountInv`, that the budget has counted the
  judged laws on the ledger and the one in hand. A row is judged by any of its edges, the
  budget looks at the first faithfulness edge: `OneCertificate`, that a candidate never
  has two, makes them agree (`JudgedIsJudged`).

`Certification_proofs`, from `TrustAssumption`, `CandidateAssumption`,
`FaithfulnessAssumption` and `DemonstrationAssumption` (any backends and decided
contracts, any ensemble, panel, threshold, number of lemmas and of rounds):

- `CertificationTyped` (`TypeOK`), `OriginalContractIsSeen` and `DerivedDomainIsEarned`, from
  `CInv`. Its part `GateInv` says when the contract in hand differs from the one handed
  in: only during a retry, whose guards then hold and whose copy is the original, or
  after a fragment's certificate. `KernelInv` says that whatever the ladder holds as
  verified is a provable statement; `PlanInv` that lemmas proven and lemmas left stay
  within the plan.
- `VotersAreDistinct` (`DistinctVoters`): by `VoteInv`, that the identities counted at every
  rung are names the kernel accepted a proof of the claim under, and that the models of the
  base and the closers are disjoint sets of accepted models, so their sizes add up to no
  more than there are (with facts on finite cardinalities). It assumes nothing of the names
  in the ensemble, and so says nothing of models where `consensus.py` counts names.
- `StagesImplementPipeline` (`ImplementsStages`): each action, one step of the proof,
  maps to a stage of `Pipeline` or leaves its variables alone.
- `CertificationTerminates` (`CertificationShrinks`): `Work`, the steps the two stages still
  have, starts at `Budget` and every step lowers it. It adds up the backends not yet tried,
  each worth a provisional retry and its rollback (`GateLowers`); the provers of the
  ensemble pass at hand and of those to come, one a lemma and the composed one
  (`AttemptLowers`); and the panel members to come times their rounds, less the rounds of
  the draft in hand, which is what `DraftInv` keeps bound to a member.

`LedgerRuntime_proofs`, from `LedgerAssumption` (any number of processes, instances and
candidates): `BarrierSoundness` (`GuardedOpen`), by an invariant tying the stamp of
every uncommitted and committed row to the connection it came through; `TypeCorrectness`; `Durability`
(`AckedIsDurable`), since rows only grow and a row is acknowledged in the step that
commits it.

`Steering_proofs`, from `FrontierAssumption`, `NotebookAssumption` and
`SteeringAssumption` (any range, aim, gain, window, pin limit and table of jumps whose
landings are inside the range; any families, thresholds and list sizes):

- `TypeCorrectness`: in particular the target stays in its range (`ClampTyped`,
  `JumpedTyped`) and the pin count below its limit (`HomedTyped`). It is TypeOK's only
  check: the run leaves it to the proof.
- `SaturationEnds` (`SaturationIsBrief`): by `BandInv`, the pin count in memory bounds the
  updates in a row, and so does the saved one except while the band is being written,
  when a kill starts the history anew. `RetunedTyped` is the step: a saturated band left
  in place has its count raised, one that jumps leaves its bound.
- `DryGroundIsUnproven` (`DryGroundUnproven`): by `BookInv`, that a notebook's lists agree
  with its counts (`Sober`), that the one in memory has every proof no kill took, and the
  saved one all of them but those made since its save.

`Housekeeping_proofs`, from `ArxivFeedAssumption`, `ExchangeAssumption` and
`HousekeepingAssumption` (finitely many papers, any page size and number of pages, a seen
set that holds at least what a sweep may list, as 4000 and 8 pages of 200 do; any window,
laws, nights and faults):

- `ListedFoliosSound` (`ListedFoliosAreWhole`), by `ManifestInv`: until it is saved the
  manifest in memory contains the one on disk, so a folio that is being rewritten is
  listed in neither.
- `CopiesAreBounded` (`CopiesBounded`): by `CopyInv`, a paper with a copy more than sweeps were
  stopped is in the seen set, on disk or, while it is saved, in memory; or it is `Buried`,
  behind as many papers as the set holds. The cap forgets only buried papers
  (`LargestForgetsBuried`), and no page reaches one (`PageBounds`, `PageFacts`): this is where
  the cap is compared with the pages of a sweep.
- `ReportedHitsCanBeRead` (`ReportedHitsAreReadable`): that every paper owed has a line, by
  `DueInv`: it is among the entries read or further down than the pages asked for; then
  among the entries; then queued or pending; then queued. Papers only move down while a
  sweep pages (`SubmitKeeps`), so paging may list one twice and skips none. `SeenInv`, that
  what is seen is queued or about to be, is what makes it right to drop an entry as seen.
  That all but one for each stopped sweep can be read, by `GapInv`: the papers no sweep
  will write again (`Settled`) without a line no later append can spoil (`Firm`), and a line
  that is torn now, are together no more than the stops. A stop tears one line at most
  (`GapsStopped`), the next append turns that into one lost paper (`GapsMended`), every
  other step leaves the count (`GapsStay`).
- `TypeCorrectness`, from these with `BeatInv` and `CountInv`.
- `BeatsEnd` (`BeatsAreBounded`): `BeatLeft` is the pages, hits and rows still to come, two
  steps a row, and each step lowers it, a blank page, a failed query, an exception and a
  kill among them; only a paper that arrives while a page is fetched leaves it as it is.
  `LengthInv` bounds the hits by the papers (`NewestFirstLength`) and the rows by the ledger.
- `ExportsAreWhole` (`ExportsMissNothing`): from the query on, a law that can be rendered is
  in the manifest in memory or among the rows to come (`Covered`). With `SaveInv`, that
  none are to come when the manifest is saved, and `ManifestInv`, the saved manifest lists
  them all, and their folios are whole.

`LeanRepl_proofs`, from `ReplAssumption` (any threads, import sets, processes, calls and
closes): `TypeCorrectness`, `AnswersAreOnesOwn` (`AnswersMatch`) and
`VerdictsAreElaborated` (`KernelVerdictsAreElaborated`). None is inductive, since a late
answer stays in its pipe. `PipeInv` says why it is never read: a process carries at most
one message (`Asked`, `Answered`); the current one carries none unless a thread waits for
it, so a new command enters an empty pipe, and the lock (`LockInv`) leaves one waiter at
most; whatever the pipes of a process under wait carry concerns the waiter. `WaitEnds` is
the delicate step: a wait ends with the pipe empty or with the process abandoned, which is
what `Timeout`'s `close()` is for. `CallsAreBounded` (`CallsShrink`) needs little more than
the types and `LockHeld`: a call is three exchanges at most (import, canary, proof), each of five steps at
most, since the poll that finds a corpse is answered by one new process (`InExchange`);
whatever the others do to the process meanwhile never lengthens it.

`Heartbeat_proofs`, for any nights, cycles and crashes, and any window, floor and ceiling the
assumptions of `StallWatch` and `Heartbeat` allow (the load limit is a fraction of a core no
larger than one, as `STALL_LOW_CPU` is):

- `KillsAreJournaled` (`KilledBeatIsJournaled`), `TwinsAreCondemned`
  (`TwinEntriesOnlyWhenCondemned`) and `SilenceIsAlarmed` (`TwoSilentNightsAreAlarmed`), by
  `JournalInv` (a watchdog past its journal step has left the entry) and `UnwrittenInv`
  (until main journals, the night has no entry but the watchdog's).
- `QuietIsCaught` (`QuietBeatIsCaught`), `WedgedBeatsWereIdle` (`WedgedIsNotSlow`, an action
  property) and `TypeCorrectness`, by `WatchInv`. Its part `SamplesInv` says what the samples
  kept are: one a poll, the newest of now, two windows back at most; those taken since the
  beat last worked carry its load and state mark of now, between two of those taken since it
  last idled the load grew by the time that passed. `WindowFacts` turns that into the arithmetic of
  the nine-tenths rule, and `PollVerdict` says of one poll what it must and may condemn.
- `HungBeatsAreBounded` (`HungBeatIsBounded`): `EndLeft`, at most `BeatMax` + 8, is what the
  watchdog and main's tail still have to do. `Attended` says that one of the two is always
  at it: main disarms the watchdog only past its last unbounded step. `EndsJournaled` says
  that neither ends the process without an entry. An exception of main and a power loss
  are the other ends, which the alarm of the silent nights is for.

`Screen_proofs`, from `ScreenAssumption` (any contracts, any corpus, tables that say anything of
them): `TypeCorrectness`, and `CertificationIsSound`: if `KeysDecideExactly` holds throughout, so does
`CertifiedClaimsHold`. The decision procedures recurse over syntax trees, so that a key is
true exactly when its claim is cannot be proved here; that nothing else is needed can.
`CertificateIsSound` is the step for a kernel certificate, of the contract in hand or of the
derived one, `ProbeIsSound` the one for the probe, and promulgation closes the
argument: what the kernel proved there is the claim over the established domain, which by
then is known to cover the claim's. The hypothesis is the run's own invariant, checked
there on all sixty-five contracts.

Every inductive invariant was checked by TLC on the run's instance before it was proved. Two
definitions have the form they have for the provers: `NewestFirst` spells out the sort it
stands for, and `Since` the suffix it selects, because tlapm knows nothing of the library's
sorting and selecting operators.

**Model-checked only.** Liveness under fairness is outside the prover, which knows nothing of
ENABLED: `HungBeatIsJournaled`, `CallsReturn`, `CertificationEnds` and `EveryLawIsExported`. Its
safety half is proved: `HungBeatsAreBounded`, `CallsAreBounded`, `CertificationTerminates`,
`BeatsEnd` with `ExportsAreWhole` say for every value of the constants that the work left is
a bounded number, that no step raises it and what is true when it is done. What TLC
adds, on the instances, is that some step that lowers it stays enabled until then and, under
the fairness of section 4, is taken. Induction over data is outside it too, and with
it what the recursive definitions of `Contract`, `Structural` and `Fragments` compute for
every syntax tree: `KeysDecideExactly`, `KnownMeansSameCongruence` and
`VacuousClaimsAreConstant` compare, claim by claim, two such computations, and a theorem about `Screen`, where both are
tables, could only assume what they say. These are checked by TLC on the instances above.

## 6. Not modelled

- Which claim is conjectured (the archive and its selection, surveys, mined patterns,
  weakened near-misses, the prompt's wording) and what a model drafts (providers): text
  that the pipeline model lets be anything. Of the notebook the families are modelled,
  the buckets of statements are not.
- Lean text: the rendering of statements and proofs, and `lean_axioms`' scanners, which
  read it; the Lean CLI, SMT-LIB, Coq and Isabelle backends, one-shot subprocess calls
  that keep nothing between two of them. They are oracles, bounded by what each is
  trusted for. Walnut's automaton likewise; `structural.subsumes`, which no gate calls.
- The two hash schemes of ADR 0078 (planned); the cost cap and configuration; the tool
  registry, a sequential accept-or-refuse call that the deployed configuration leaves off.
- Calculemus and the Observatory, which an operator runs to render pages; `queued_targets`
  and the feed's Markdown view, read by an operator.
- The advisory counters of decomposition and repair; the bootstrap's git checks; the site,
  the research scripts (most of the repository's lines: one-off computations that no part
  of the daemon calls) and their data.
