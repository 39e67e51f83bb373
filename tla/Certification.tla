--------------------------- MODULE Certification ---------------------------
(***************************************************************************)
(* The faithfulness gate and the DEMONSTRATE stage, taken apart and put    *)
(* back one after the other, for the seed in hand: the two stages where    *)
(* trust is earned, at the grain of the single oracle call.  Pipeline      *)
(* takes each of them for one step; that these steps do not promise more   *)
(* than the code keeps is shown here, by refinement.                       *)
(***************************************************************************)
EXTENDS Faithfulness, Demonstration

\* A candidate that came through the earlier stages: a statement, autoformalized
\* for its claim, which survived refutation and was novel.
Survivor(c, s) ==
  Record(Record([Fresh(c) EXCEPT !.stmt = s],
                Evidence("cheap_refutation", "mechanical", "pass", "none", s, FALSE)),
         Evidence("novelty", "mechanical", "pass", "novelty", s, FALSE))

vars == <<pc, prop, gateVars, ladderVars>>

Init ==
  /\ pc = "faithfulness"
  /\ prop \in {Survivor(c, s) : c \in Claims, s \in Statements}
  /\ FaithfulnessInit
  /\ DemonstrationInit

\* The fast path installs the canonical law, with the claim_domain as what it
\* establishes.
Promoted ==
  /\ FastPathPromotes
  /\ domain' = ClaimDomain[prop.claim]
  /\ UNCHANGED <<gate, rank, original, contract, seen>>

Certified == pc \notin {"faithfulness", "demonstrate"}

Done == Certified /\ UNCHANGED vars

Next ==
  \/ FaithfulnessNext /\ UNCHANGED ladderVars
  \/ Promoted
  \/ DemonstrationNext /\ UNCHANGED gateVars
  \/ Done

\* Every oracle call returns or raises: each has a timeout.
Spec == Init /\ [][Next]_vars /\ WF_vars(Next)

(***************************************************************************)
(* Properties.                                                             *)
(***************************************************************************)
TypeOK ==
  /\ pc \in {"faithfulness", "demonstrate", "revalidate", "settle", "idle"}
  /\ prop \in Propositio
  /\ FaithfulnessTypeOK
  /\ DemonstrationTypeOK

\* However the oracles answer, the two stages end: no seed holds the daemon in
\* a retry, a plan or a repair loop.
CertificationEnds == <>Certified

\* The report as the stages move it.
StageReport ==
  [seeds |-> 1, settled |-> 0, promulgated |-> 0,
   reached_proof |-> IF pc = "revalidate" THEN 1 ELSE 0,
   errored |-> IF pc = "idle" THEN 1 ELSE 0]

Stage == INSTANCE Pipeline WITH
  Degenerate <- {}, Repairs <- {}, KnownHashes <- {}, KnownSigs <- {},
  Signature <- [c \in Claims |-> NoStatement], NoSignature <- NoStatement,
  MaxSeeds <- 1, MaxSessions <- 1,
  corpus <- [hashes |-> {}, sigs |-> {}],
  budget <- [total |-> 0, judged |-> 0],
  report <- StageReport, ledger <- {}, session <- 1

\* Every step is, for the Pipeline, its faithfulness stage returning an edge it
\* allows, its demonstration by fast path or ensemble, the seed erroring, or
\* nothing: what is proved of the Pipeline does not rest on the gate and the
\* ladder being one step each.
ImplementsStages ==
  [][\/ Stage!FaithfulnessCheck
     \/ Stage!DemonstrateFastPath
     \/ \E ok \in BOOLEAN : Stage!DemonstrateEnsemble(ok)
     \/ Stage!SeedErrored]_(Stage!vars)
=============================================================================
