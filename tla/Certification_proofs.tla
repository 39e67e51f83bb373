------------------------ MODULE Certification_proofs ------------------------
(***************************************************************************)
(* Proofs about Certification, for every ensemble, panel, list of backends *)
(* and every value of the bounds.                                          *)
(***************************************************************************)
EXTENDS Certification, FiniteSetTheorems, FunctionTheorems, TLAPS

(***************************************************************************)
(* What the operations on a candidate keep and change, as in               *)
(* Pipeline_proofs.                                                        *)
(***************************************************************************)
\* Recording evidence adds one edge and touches nothing else.
LEMMA RecordFacts ==
  ASSUME NEW p \in Propositio, NEW ev \in EdgeEvidence
  PROVE  /\ Record(p, ev) \in Propositio
         /\ Record(p, ev).claim = p.claim
         /\ Record(p, ev).stmt = p.stmt
         /\ Record(p, ev).kernel_verified = p.kernel_verified
         /\ Record(p, ev).finish_reason = p.finish_reason
         /\ EdgeSet(Record(p, ev).edges) = EdgeSet(p.edges) \cup {ev}
<1>1. p.edges \in Seq(EdgeEvidence)
  BY DEF Propositio
<1>2. Record(p, ev).edges = Append(p.edges, ev)
  BY DEF Record, Propositio
<1>3. Append(p.edges, ev) \in Seq(EdgeEvidence)
  BY <1>1
<1>4. EdgeSet(Append(p.edges, ev)) = EdgeSet(p.edges) \cup {ev}
  <2>1. DOMAIN Append(p.edges, ev) = 1..(Len(p.edges) + 1)
    BY <1>1
  <2>2. DOMAIN p.edges = 1..Len(p.edges) /\ Len(p.edges) \in Nat
    BY <1>1
  <2>3. \A i \in DOMAIN p.edges : Append(p.edges, ev)[i] = p.edges[i]
    BY <1>1, <2>2
  <2>4. Append(p.edges, ev)[Len(p.edges) + 1] = ev
    BY <1>1
  <2>5. DOMAIN Append(p.edges, ev) = DOMAIN p.edges \cup {Len(p.edges) + 1}
    BY <2>1, <2>2
  <2> QED
    BY <2>3, <2>4, <2>5 DEF EdgeSet
<1>5. Record(p, ev) \in Propositio
  BY <1>1, <1>3 DEF Record, Propositio
<1> QED
  BY <1>2, <1>4, <1>5 DEF Record, Propositio

\* Quarantine sets the finish reason and touches nothing else.
LEMMA QuarantineFacts ==
  ASSUME NEW p \in Propositio, NEW r \in FinishReasons
  PROVE  /\ Quarantine(p, r) \in Propositio
         /\ Quarantine(p, r).claim = p.claim
         /\ Quarantine(p, r).stmt = p.stmt
         /\ Quarantine(p, r).kernel_verified = p.kernel_verified
         /\ Quarantine(p, r).finish_reason = r
         /\ Quarantine(p, r).edges = p.edges
BY DEF Quarantine, Propositio

\* A fresh candidate carries no evidence and no finish reason.
LEMMA FreshFacts ==
  ASSUME NEW c \in Claims
  PROVE  /\ Fresh(c) \in Propositio
         /\ Fresh(c).finish_reason = "none"
         /\ EdgeSet(Fresh(c).edges) = {}
<1>1. <<>> \in Seq(EdgeEvidence) /\ DOMAIN <<>> = {}
  OBVIOUS
<1> QED
  BY <1>1 DEF Fresh, Propositio, FinishReasons, EdgeSet

LEMMA NoPropFacts ==
  /\ NoProp \in Propositio
  /\ NoProp.finish_reason = "none"
  /\ EdgeSet(NoProp.edges) = {}
<1>1. (CHOOSE c \in Claims : TRUE) \in Claims
  BY CandidateAssumption
<1> QED
  BY <1>1, FreshFacts DEF NoProp


(***************************************************************************)
(* The inductive invariant: what the gate keeps of the contract, and what  *)
(* the ladder holds from the kernel.                                       *)
(***************************************************************************)
\* While the gate works, the field reads as it was handed over, but during a
\* retry, which holds on to that value and is a re-rendering backend's.
GateInv ==
  /\ pc = "faithfulness" =>
       /\ prop.finish_reason = "none"
       /\ gate = "judge" => prop.claim \in OpenForm
  /\ pc = "faithfulness" =>
       IF gate = "retry"
       THEN /\ original = contract
            /\ rank \in DOMAIN Order /\ Order[rank] \in Rerendering
            /\ domain = ClaimDomain[prop.claim]
            /\ prop.claim \notin Vacuous
       ELSE domain = contract
  /\ OriginalContractSeen
  /\ DerivedDomainEarned

\* Before the stage nothing of the ladder has moved; in it, a proof is only ever
\* held of a statement the kernel can accept.
KernelInv ==
  /\ pc = "faithfulness" => rung = "fastpath" /\ closers = {} /\ attempts = AllPending
  /\ pc = "demonstrate" =>
       /\ rung \in {"claim", "composed"} =>
            \A p \in Provers : attempts[p] = "proved" => prop.stmt \in Provable
       /\ closers # {} => prop.stmt \in Provable
       /\ rung = "fastpath" => attempts = AllPending

\* The plan shrinks as its lemmas are tried.
PlanInv ==
  /\ haves + lemmas <= MaxLemmas
  /\ rung = "lemma" => lemmas >= 1
  /\ rung \in {"fastpath", "claim"} => haves = 0 /\ lemmas = 0

CInv == TypeOK /\ GateInv /\ KernelInv /\ PlanInv

----------------------------------------------------------------------------
\* Evidence the gate and the ladder record is evidence.
LEMMA EvidenceTypes ==
  /\ \A v \in Verdicts, who \in Producers, t \in Tiers,
       s \in Statements \cup {NoStatement} : Faith(t, v, who, s) \in EdgeEvidence
  /\ \A s \in Statements \cup {NoStatement}, ok, tag \in BOOLEAN :
       ProofEdge(s, ok, tag) \in EdgeEvidence
BY DEF Faith, ProofEdge, Evidence, EdgeEvidence, EdgeKinds, Tiers, Verdicts,
       Producers, FaithfulnessProducers

\* The gate's return: where the pipeline goes with a recorded edge.
LEMMA ReturnFacts ==
  ASSUME prop \in Propositio, NEW ev \in EdgeEvidence, NEW r \in FinishReasons
  PROVE  /\ Pass(ev) => /\ prop' = Record(prop, ev)
                        /\ pc' = IF ev.verdict = "pass" THEN "demonstrate" ELSE "settle"
         /\ Return(Record(prop, ev)) => Pass(ev)
         /\ Fail(ev, r) => /\ prop' = Quarantine(Record(prop, ev), r)
                           /\ pc' = IF ev.verdict = "pass" THEN "demonstrate" ELSE "settle"
<1>1. Record(prop, ev) \in Propositio
  BY RecordFacts
<1>2. Record(prop, ev).edges = Append(prop.edges, ev) /\ prop.edges \in Seq(EdgeEvidence)
  BY DEF Record, Propositio
<1>3. Record(prop, ev).edges[Len(Record(prop, ev).edges)] = ev
  BY <1>2
<1>4. Quarantine(Record(prop, ev), r).edges = Record(prop, ev).edges
  BY <1>1, QuarantineFacts
<1> QED
  BY <1>3, <1>4 DEF Pass, Fail, Return

LEMMA QuarantineNone ==
  ASSUME NEW p \in Propositio, p.finish_reason = "none"
  PROVE  Quarantine(p, "none") = p
BY DEF Quarantine, Propositio

\* An action of the gate leaves the candidate alone, loses it, or returns an edge
\* the Pipeline allows and the quarantine reason that goes with it.
LEMMA GateStep ==
  ASSUME TypeOK, GateInv, FaithfulnessNext
  PROVE  \/ pc' = pc /\ prop' = prop
         \/ pc' = "idle" /\ prop' = NoProp
         \/ \E ev \in Stage!FaithfulnessEdges(prop) \cap EdgeEvidence :
              /\ prop' = Quarantine(Record(prop, ev), Stage!FaithfulnessReason(ev))
              /\ pc' = IF ev.verdict = "pass" THEN "demonstrate" ELSE "settle"
<1> USE DEF Verdicts, Tiers, Producers, FaithfulnessProducers
<1>0. /\ pc = "faithfulness" /\ prop \in Propositio /\ prop.finish_reason = "none"
      /\ prop.stmt \in Statements \cup {NoStatement} /\ prop.claim \in Claims
  BY DEF FaithfulnessNext, TypeOK, GateInv, Propositio
<1>1. ASSUME NEW ev \in EdgeEvidence, ev \in Stage!FaithfulnessEdges(prop),
             ev.verdict \in {"pass", "defer"}, Pass(ev)
      PROVE  /\ prop' = Quarantine(Record(prop, ev), Stage!FaithfulnessReason(ev))
             /\ pc' = IF ev.verdict = "pass" THEN "demonstrate" ELSE "settle"
  <2>1. Stage!FaithfulnessReason(ev) = "none"
    BY <1>1 DEF Stage!FaithfulnessReason
  <2>2. Record(prop, ev) \in Propositio /\ Record(prop, ev).finish_reason = "none"
    BY <1>0, RecordFacts
  <2> QED
    BY <1>0, <1>1, <2>1, <2>2, QuarantineNone, ReturnFacts DEF FinishReasons
<1>2. ASSUME NEW ev \in EdgeEvidence, ev \in Stage!FaithfulnessEdges(prop),
             NEW r \in FinishReasons, r = Stage!FaithfulnessReason(ev), Fail(ev, r)
      PROVE  /\ prop' = Quarantine(Record(prop, ev), Stage!FaithfulnessReason(ev))
             /\ pc' = IF ev.verdict = "pass" THEN "demonstrate" ELSE "settle"
  BY <1>0, <1>2, ReturnFacts
<1>3. CASE Spine
  <2> DEFINE ev == Faith("adversarial", "fail", "gaming_witness", prop.stmt)
  <2>1. ev \in EdgeEvidence /\ ev \in Stage!FaithfulnessEdges(prop)
        /\ Stage!FaithfulnessReason(ev) = "gamed"
    BY <1>0, EvidenceTypes DEF Stage!FaithfulnessEdges, Stage!FaithfulnessReason,
       Stage!Faith, Stage!Evidence, Faith, Evidence
  <2> QED
    BY <1>2, <1>3, <2>1 DEF Spine, FinishReasons
<1>4. ASSUME NEW b \in Backends, NEW d, "certified" \in Answers(b, d)
      PROVE  LET ev == BackendEdge(b, "pass")
             IN ev \in EdgeEvidence /\ ev \in Stage!FaithfulnessEdges(prop)
                /\ ev.verdict = "pass"
  <2>1. <<b, prop.claim, d>> \in Decidable
    BY <1>4 DEF Answers
  <2>2. b \in Rerendering => Canonical[prop.claim] # NoStatement
    BY <2>1, FaithfulnessAssumption
  <2>3. Canonical[prop.claim] \in Statements \cup {NoStatement}
    BY <1>0, TrustAssumption
  <2> QED
    BY <1>0, <2>2, <2>3, EvidenceTypes DEF BackendEdge, Stage!FaithfulnessEdges,
       Stage!Faith, Stage!Evidence, Faith, Evidence
<1>5. ASSUME NEW b \in Backends \ Rerendering
      PROVE  LET ev == BackendEdge(b, "fail")
             IN ev \in EdgeEvidence /\ ev \in Stage!FaithfulnessEdges(prop)
                /\ Stage!FaithfulnessReason(ev) = "unfaithful"
  BY <1>0, EvidenceTypes DEF BackendEdge, Stage!FaithfulnessEdges,
     Stage!FaithfulnessReason, Stage!Faith, Stage!Evidence, Faith, Evidence
<1>6. CASE AskBackend
  <2>1. Order[rank] \in Backends
    BY <1>6 DEF AskBackend, Backends
  <2>2. "refuted" \in Answers(Order[rank], domain) => Order[rank] \notin Rerendering
    BY DEF Answers
  <2> QED
    BY <1>1, <1>2, <1>4, <1>5, <1>6, <2>1, <2>2 DEF AskBackend, FinishReasons
<1>7. CASE RetryBackend
  <2>1. Order[rank] \in Backends
    BY <1>0, <1>7 DEF RetryBackend, GateInv, Backends
  <2> QED
    BY <1>1, <1>4, <1>7, <2>1 DEF RetryBackend
<1>8. CASE Probe
  <2>1. \A v \in {"pass", "fail"} :
          LET ev == Faith("mechanical", v, "ClaimProbe", prop.stmt)
          IN ev \in EdgeEvidence /\ ev.verdict = v
             /\ (prop.claim \notin OpenForm => ev \in Stage!FaithfulnessEdges(prop))
             /\ (v = "fail" => Stage!FaithfulnessReason(ev) = "unfaithful")
    BY <1>0, EvidenceTypes DEF Stage!FaithfulnessEdges, Stage!FaithfulnessReason,
       Stage!Faith, Stage!Evidence, Faith, Evidence
  <2>2. LET ev == Faith("mechanical", "defer", "FaithfulnessGate", prop.stmt)
        IN ev \in EdgeEvidence /\ ev.verdict = "defer"
           /\ (prop.claim \notin OpenForm => ev \in Stage!FaithfulnessEdges(prop))
    BY <1>0, EvidenceTypes DEF Stage!FaithfulnessEdges,
       Stage!Faith, Stage!Evidence, Faith, Evidence
  <2> QED
    BY <1>0, <1>1, <1>2, <1>8, <2>1, <2>2, ReturnFacts DEF Probe, FinishReasons
<1>9. CASE Judge
  <2>1. \A v \in {"pass", "fail"} :
          LET ev == Faith("judged", v, "FaithfulnessJudge", prop.stmt)
          IN ev \in EdgeEvidence /\ ev.verdict = v
             /\ (prop.claim \in OpenForm => ev \in Stage!FaithfulnessEdges(prop))
             /\ (v = "fail" => Stage!FaithfulnessReason(ev) = "unfaithful")
    BY <1>0, EvidenceTypes DEF Stage!FaithfulnessEdges, Stage!FaithfulnessReason,
       Stage!Faith, Stage!Evidence, Faith, Evidence
  <2>2. prop.claim \in OpenForm
    BY <1>0, <1>9 DEF Judge, GateInv
  <2> QED
    BY <1>1, <1>2, <1>9, <2>1, <2>2 DEF Judge, FinishReasons
<1>10. CASE GateRaises
  BY <1>10 DEF GateRaises
<1> QED
  BY <1>3, <1>6, <1>7, <1>8, <1>9, <1>10 DEF FaithfulnessNext

\* The image of a finite set under a function: no larger, and as large when the
\* function tells its elements apart.
LEMMA FiniteImage ==
  ASSUME NEW S, IsFiniteSet(S), NEW f
  PROVE  LET T == {f[x] : x \in S}
         IN  /\ IsFiniteSet(T)
             /\ Cardinality(T) <= Cardinality(S)
             /\ (\A x, y \in S : f[x] = f[y] => x = y) => Cardinality(T) = Cardinality(S)
<1> DEFINE T == {f[x] : x \in S}
           g == [x \in S |-> f[x]]
<1>1. g \in Surjection(S, T)
  BY DEF Surjection
<1>2. (\A x, y \in S : f[x] = f[y] => x = y) => g \in Injection(S, T)
  BY DEF Injection, IsInjective
<1> QED
  BY <1>1, <1>2, FS_Surjection

\* A consensus is somebody's proof.
LEMMA ReachedByAProof ==
  ASSUME Reached
  PROVE  \E p \in Provers : attempts[p] = "proved"
<1>1. Cardinality(Identities) # 0
  <2>1. Cardinality(Identities) \in Nat
    <3>1. IsFiniteSet({q \in Provers : attempts[q] = "proved"})
      BY DemonstrationAssumption, FS_Subset
    <3> QED
      BY <3>1, FiniteImage, FS_CardinalityType DEF Identities
  <2> QED
    BY <2>1, DemonstrationAssumption DEF Reached
<1>2. Identities # {}
  BY <1>1, FS_EmptySet
<1> QED
  BY <1>2 DEF Identities

\* An action of the ladder leaves the candidate alone, loses it, installs the law
\* its fast path proved, or concludes, with a proof only of what is provable.
LEMMA LadderStep ==
  ASSUME KernelInv, DemonstrationNext \/ Promoted
  PROVE  /\ pc = "demonstrate"
         /\ \/ pc' = pc /\ prop' = prop
            \/ pc' = "idle" /\ prop' = NoProp
            \/ \E ok \in BOOLEAN : Conclude(ok) /\ (ok => prop.stmt \in Provable)
            \/ FastPathPromotes
<1>1. pc = "demonstrate"
  BY DEF DemonstrationNext, Promoted, FastPathPromotes
<1>2. CASE Promoted
  BY <1>1, <1>2 DEF Promoted
<1>3. CASE TallyClaim
  BY <1>1, <1>3, ReachedByAProof DEF TallyClaim, Climb, KernelInv
<1>4. CASE TallyComposed
  BY <1>1, <1>4, ReachedByAProof DEF TallyComposed, Climb, KernelInv
<1>5. CASE ConcludeRepair
  BY <1>1, <1>5 DEF ConcludeRepair, KernelInv
<1> QED
  BY <1>1, <1>2, <1>3, <1>4, <1>5
  DEF DemonstrationNext, FastPathFalls, Attempt, EnsembleRaises, TallyLemma, Climb,
      DraftProof, DraftVerified, DraftRefused, DraftRaises

----------------------------------------------------------------------------
(***************************************************************************)
(* The invariant.                                                          *)
(***************************************************************************)
LEMMA InitCInv == Init => CInv
<1> SUFFICES ASSUME Init PROVE CInv
  OBVIOUS
<1>1. PICK c \in Claims, s \in Statements : prop = Survivor(c, s)
  BY DEF Init
<1>2. prop \in Propositio /\ prop.finish_reason = "none"
  <2> DEFINE p == [Fresh(c) EXCEPT !.stmt = s]
             e == Evidence("cheap_refutation", "mechanical", "pass", "none", s, FALSE)
             n == Evidence("novelty", "mechanical", "pass", "novelty", s, FALSE)
  <2>1. p \in Propositio /\ p.finish_reason = "none"
    BY FreshFacts DEF Propositio
  <2>2. e \in EdgeEvidence /\ n \in EdgeEvidence
    BY DEF Evidence, EdgeEvidence, EdgeKinds, Tiers, Verdicts, Producers,
           FaithfulnessProducers
  <2> HIDE DEF p, e, n
  <2>3. Record(p, e) \in Propositio /\ Record(p, e).finish_reason = "none"
    BY <2>1, <2>2, RecordFacts
  <2>4. Record(Record(p, e), n) \in Propositio
        /\ Record(Record(p, e), n).finish_reason = "none"
    BY <2>2, <2>3, RecordFacts
  <2> QED
    BY <1>1, <2>4 DEF Survivor, p, e, n
<1>3. Order \in Seq(Backends) /\ Len(Order) \in Nat
  BY FaithfulnessAssumption
<1>4. Len(Panel) \in Nat
  BY DemonstrationAssumption
<1>5. TypeOK
  BY <1>2, <1>3, <1>4, DemonstrationAssumption
  DEF Init, TypeOK, FaithfulnessInit, DemonstrationInit, FaithfulnessTypeOK,
      DemonstrationTypeOK, Consultants, Rungs, Outcomes, AllPending
<1>6. GateInv
  BY <1>2 DEF Init, GateInv, FaithfulnessInit, OriginalContractSeen, DerivedDomainEarned
<1>7. KernelInv /\ PlanInv
  BY DemonstrationAssumption DEF Init, KernelInv, PlanInv, DemonstrationInit
<1> QED
  BY <1>5, <1>6, <1>7 DEF CInv

\* The candidate and the stage keep their types.
LEMMA CandidateTyped ==
  ASSUME CInv, FaithfulnessNext \/ DemonstrationNext \/ Promoted
  PROVE  /\ pc' \in {"faithfulness", "demonstrate", "revalidate", "settle", "idle"}
         /\ prop' \in Propositio
<1>0. /\ pc \in {"faithfulness", "demonstrate", "revalidate", "settle", "idle"}
      /\ prop \in Propositio /\ NoProp \in Propositio
      /\ prop.stmt \in Statements \cup {NoStatement} /\ prop.claim \in Claims
  BY NoPropFacts DEF CInv, TypeOK, Propositio
<1>1. CASE FaithfulnessNext
  <2>1. SUFFICES ASSUME NEW ev \in EdgeEvidence,
                   prop' = Quarantine(Record(prop, ev), Stage!FaithfulnessReason(ev)),
                   pc' = IF ev.verdict = "pass" THEN "demonstrate" ELSE "settle"
        PROVE  prop' \in Propositio
    BY <1>0, <1>1, GateStep DEF CInv
  <2>2. Stage!FaithfulnessReason(ev) \in FinishReasons
    BY DEF Stage!FaithfulnessReason, FinishReasons
  <2> QED
    BY <1>0, <2>1, <2>2, RecordFacts, QuarantineFacts
<1>2. CASE DemonstrationNext \/ Promoted
  <2>1. ASSUME NEW ok \in BOOLEAN, Conclude(ok)
        PROVE  prop' \in Propositio /\ pc' = "revalidate"
    <3>1. Record(prop, ProofEdge(prop.stmt, ok, FALSE)) \in Propositio
      BY <1>0, EvidenceTypes, RecordFacts
    <3> QED
      BY <2>1, <3>1 DEF Conclude, Propositio
  <2>2. ASSUME FastPathPromotes
        PROVE  prop' \in Propositio /\ pc' = "revalidate"
    <3> DEFINE law == Canonical[prop.claim]
    <3>1. law \in Statements \cup {NoStatement}
      BY <1>0, TrustAssumption
    <3>2. Record(prop, ProofEdge(law, TRUE, TRUE)) \in Propositio
      BY <1>0, <3>1, EvidenceTypes, RecordFacts
    <3> QED
      BY <2>2, <3>1, <3>2 DEF FastPathPromotes, FastPath, Propositio
  <2> QED
    BY <1>0, <1>2, <2>1, <2>2, LadderStep DEF CInv
<1> QED
  BY <1>1, <1>2

\* A step of the gate.
LEMMA GatePreserves ==
  ASSUME CInv, FaithfulnessNext, UNCHANGED ladderVars
  PROVE  CInv'
<1>0. /\ pc = "faithfulness" /\ prop \in Propositio /\ prop.claim \in Claims
      /\ Order \in Seq(Backends) /\ Len(Order) \in Nat /\ DOMAIN Order = 1..Len(Order)
      /\ ClaimDomain[prop.claim] \in Domains \cup {NoDomain}
  BY FaithfulnessAssumption DEF FaithfulnessNext, CInv, TypeOK, Propositio
<1>1. FaithfulnessTypeOK'
  <2>1. CASE AskBackend
    BY <1>0, <2>1 DEF AskBackend, CInv, TypeOK, FaithfulnessTypeOK, Consultants
  <2>2. CASE RetryBackend
    BY <1>0, <2>2 DEF RetryBackend, RolledBack, CInv, TypeOK, GateInv,
       FaithfulnessTypeOK, Consultants
  <2> QED
    BY <2>1, <2>2 DEF FaithfulnessNext, Spine, Probe, Judge, GateRaises, gateVars,
       CInv, TypeOK, FaithfulnessTypeOK, Consultants
<1>2. TypeOK'
  BY <1>1, CandidateTyped DEF CInv, TypeOK, DemonstrationTypeOK, ladderVars
<1>3. ASSUME NEW b \in Backends, "certified" \in Answers(b, domain),
             Pass(BackendEdge(b, "pass"))
      PROVE  /\ pc' = "demonstrate" /\ prop'.claim = prop.claim
             /\ <<b, prop.claim, domain>> \in Decidable
             /\ b \in Rerendering => CertifiedBy(prop', "fragment")
  <2>1. Canonical[prop.claim] \in Statements \cup {NoStatement}
        /\ prop.stmt \in Statements \cup {NoStatement}
    BY <1>0, TrustAssumption DEF Propositio
  <2>2. BackendEdge(b, "pass") \in EdgeEvidence
    BY <2>1, EvidenceTypes DEF BackendEdge, Verdicts, Tiers, Producers,
       FaithfulnessProducers
  <2>3. PICK ev \in EdgeEvidence : ev = BackendEdge(b, "pass")
    BY <2>2
  <2>4. /\ ev.verdict = "pass" /\ ev.edge = "faithfulness"
        /\ b \in Rerendering => ev.producer = "fragment"
    BY <2>3 DEF BackendEdge, Faith, Evidence
  <2>5. prop' = Record(prop, ev) /\ pc' = "demonstrate"
    BY <1>0, <1>3, <2>3, <2>4, ReturnFacts DEF FinishReasons
  <2>6. ev \in EdgeSet(prop'.edges) /\ prop'.claim = prop.claim
    BY <1>0, <2>5, RecordFacts
  <2>7. b \in Rerendering => CertifiedBy(prop', "fragment")
    BY <2>4, <2>6 DEF CertifiedBy
  <2>8. <<b, prop.claim, domain>> \in Decidable
    BY <1>3 DEF Answers
  <2> QED
    BY <2>5, <2>6, <2>7, <2>8
<1>4. GateInv'
  <2>1. OriginalContractSeen'
    BY <1>0 DEF FaithfulnessNext, Spine, AskBackend, RetryBackend, Probe, Judge,
       GateRaises, gateVars, CInv, GateInv, OriginalContractSeen
  <2>2. pc' = "faithfulness" => prop' = prop
    BY <1>0, GateStep DEF CInv
  <2>3. CASE RetryBackend
    BY <1>0, <1>3, <2>1, <2>2, <2>3 DEF RetryBackend, RolledBack, CInv, GateInv,
       DerivedDomainEarned, Backends
  <2>4. CASE AskBackend
    BY <1>0, <2>1, <2>2, <2>4 DEF AskBackend, Retriable, CInv, GateInv,
       DerivedDomainEarned, Pass, Fail, Return
  <2> QED
    BY <1>0, <2>1, <2>2, <2>3, <2>4 DEF FaithfulnessNext, Spine, Probe, Judge,
       GateRaises, gateVars, CInv, GateInv, DerivedDomainEarned
<1>5. KernelInv' /\ PlanInv'
  BY <1>0 DEF CInv, KernelInv, PlanInv, ladderVars, AllPending
<1> QED
  BY <1>2, <1>4, <1>5 DEF CInv

\* A step of the ladder.
LEMMA LadderPreserves ==
  ASSUME CInv,
         \/ DemonstrationNext /\ UNCHANGED gateVars
         \/ Promoted
  PROVE  CInv'
<1>0. /\ pc = "demonstrate" /\ prop \in Propositio
      /\ pc' = "demonstrate" => prop' = prop
      /\ pc' \in {"demonstrate", "idle", "revalidate"}
  BY LadderStep DEF CInv, TypeOK, Conclude, FastPathPromotes
<1>1. DemonstrationTypeOK'
  <2> USE DEF CInv, TypeOK, DemonstrationTypeOK
  <2>0. /\ MaxLemmas \in Nat /\ MaxRounds \in Nat /\ Panel \in Seq(SUBSET Names)
        /\ Len(Panel) \in Nat /\ DOMAIN Panel = 1..Len(Panel)
        /\ \A p \in Provers : Name[p] \in Names
        /\ Identities \subseteq Names
        /\ AllPending \in [Provers -> Outcomes]
    BY DemonstrationAssumption DEF Identities, AllPending, Outcomes
  <2>1. ASSUME NEW p \in Provers, Attempt(p) PROVE DemonstrationTypeOK'
    BY <2>0, <2>1 DEF Attempt, Outcomes
  <2>2. CASE TallyClaim
    BY <2>0, <2>2 DEF TallyClaim, Climb, Rungs
  <2>3. CASE TallyLemma
    BY <2>0, <2>3 DEF TallyLemma, Climb, Rungs, PlanInv
  <2>4. CASE TallyComposed
    BY <2>0, <2>4 DEF TallyComposed, Climb, Rungs
  <2>5. CASE DraftProof
    BY <2>0, <2>5 DEF DraftProof, NextMember, InPanel
  <2>6. CASE DraftVerified
    BY <2>0, <2>6, DemonstrationAssumption DEF DraftVerified, NextMember, InPanel, Models
  <2>7. CASE DraftRefused
    BY <2>0, <2>7 DEF DraftRefused, NextMember, NextRound, RoundsLeft, InPanel
  <2>8. CASE FastPathFalls
    BY <2>0, <2>8 DEF FastPathFalls, Rungs
  <2> QED
    BY <2>1, <2>2, <2>3, <2>4, <2>5, <2>6, <2>7, <2>8
    DEF DemonstrationNext, Promoted, FastPathPromotes, EnsembleRaises, ConcludeRepair,
        DraftRaises, ladderVars
<1>2. TypeOK'
  <2>1. FaithfulnessTypeOK'
    <3>1. CASE Promoted
      <4>1. ClaimDomain[prop.claim] \in Domains \cup {NoDomain}
        BY <1>0, FaithfulnessAssumption DEF Propositio
      <4> QED
        BY <3>1, <4>1 DEF Promoted, CInv, TypeOK, FaithfulnessTypeOK
    <3> QED
      BY <3>1 DEF CInv, TypeOK, FaithfulnessTypeOK, gateVars
  <2> QED
    BY <1>1, <2>1, CandidateTyped DEF CInv, TypeOK
<1>3. GateInv'
  BY <1>0 DEF Promoted, FastPathPromotes, gateVars, CInv, GateInv, OriginalContractSeen,
     DerivedDomainEarned
<1>4. KernelInv'
  <2>1. ASSUME NEW p \in Provers, Attempt(p) PROVE KernelInv'
    BY <1>0, <2>1 DEF Attempt, MayProve, Discharge, CInv, TypeOK, DemonstrationTypeOK,
       KernelInv
  <2>2. CASE DraftVerified
    BY <1>0, <2>2 DEF DraftVerified, InPanel, Discharge, CInv, KernelInv
  <2> QED
    BY <1>0, <2>1, <2>2
    DEF DemonstrationNext, Promoted, FastPathPromotes, FastPathFalls, EnsembleRaises,
        TallyClaim, TallyLemma, TallyComposed, Climb, ConcludeRepair, Conclude, DraftProof,
        DraftRefused, DraftRaises, ladderVars, AllPending, CInv, KernelInv
<1>5. PlanInv'
  <2>0. MaxLemmas \in Nat /\ lemmas \in Nat /\ haves \in Nat
    BY DemonstrationAssumption DEF CInv, TypeOK, DemonstrationTypeOK
  <2>1. CASE TallyClaim
    <3>1. haves' = 0 /\ haves = 0 /\ lemmas = 0
      BY <2>1 DEF TallyClaim, CInv, PlanInv
    <3>2. CASE Reached
      BY <2>0, <2>1, <3>1, <3>2 DEF TallyClaim, PlanInv
    <3>3. CASE ~Reached
      <4>1. PICK n \in 0..MaxLemmas :
              lemmas' = n /\ rung' = IF n > 0 THEN "lemma" ELSE "repair"
        BY <2>1, <3>3 DEF TallyClaim, Climb
      <4> QED
        BY <2>0, <3>1, <4>1 DEF PlanInv
    <3> QED
      BY <3>2, <3>3
  <2>2. CASE TallyLemma
    BY <2>0, <2>2 DEF TallyLemma, Climb, CInv, PlanInv
  <2> QED
    BY <2>0, <2>1, <2>2
    DEF DemonstrationNext, Promoted, FastPathPromotes, FastPathFalls, Attempt,
        EnsembleRaises, TallyComposed, Climb, ConcludeRepair, Conclude, DraftProof,
        DraftVerified, DraftRefused, DraftRaises, ladderVars, CInv, PlanInv
<1> QED
  BY <1>2, <1>3, <1>4, <1>5 DEF CInv

LEMMA CInvInductive == CInv /\ [Next]_vars => CInv'
<1> SUFFICES ASSUME CInv, [Next]_vars PROVE CInv'
  OBVIOUS
<1>1. CASE UNCHANGED vars
  BY <1>1 DEF vars, gateVars, ladderVars, CInv, TypeOK, FaithfulnessTypeOK,
     DemonstrationTypeOK, GateInv, OriginalContractSeen, DerivedDomainEarned, KernelInv,
     PlanInv, CertifiedBy
<1> QED
  BY <1>1, GatePreserves, LadderPreserves DEF Next, Done

----------------------------------------------------------------------------
(***************************************************************************)
(* The gate and the ladder keep their promises.                            *)
(***************************************************************************)
LEMMA CInvHolds == Spec => []CInv
<1>1. Init => CInv
  BY InitCInv
<1>2. CInv /\ [Next]_vars => CInv'
  BY CInvInductive
<1> QED
  BY <1>1, <1>2, PTL DEF Spec

\* The gate and the ladder keep their types, at every reachable state.
THEOREM CertificationTyped == Spec => []TypeOK
<1>1. CInv => TypeOK
  BY DEF CInv
<1> QED
  BY <1>1, CInvHolds, PTL

\* ADR 0074, for every list of backends: no retry lets anything but the backend it
\* asks read the derived contract.
THEOREM OriginalContractIsSeen == Spec => []OriginalContractSeen
<1>1. CInv => OriginalContractSeen
  BY DEF CInv, GateInv
<1> QED
  BY <1>1, CInvHolds, PTL

\* ADR 0074, for every list of backends: what leaves the gate with a derived
\* contract was certified, by a re-rendering backend, under that contract.
THEOREM DerivedDomainIsEarned == Spec => []DerivedDomainEarned
<1>1. CInv => DerivedDomainEarned
  BY DEF CInv, GateInv
<1> QED
  BY <1>1, CInvHolds, PTL

\* A step of the gate is a step of the Pipeline.
LEMMA GateImplements ==
  ASSUME CInv, FaithfulnessNext
  PROVE  Stage!FaithfulnessCheck \/ Stage!SeedErrored \/ UNCHANGED Stage!vars
<1>0. pc = "faithfulness"
  BY DEF FaithfulnessNext
<1>1. CASE pc' = pc /\ prop' = prop
  BY <1>1 DEF Stage!vars, StageReport
<1>2. CASE pc' = "idle" /\ prop' = NoProp
  BY <1>0, <1>2 DEF Stage!SeedErrored, Stage!NoProp, Stage!Fresh, NoProp, Fresh, StageReport
<1>3. ASSUME NEW ev \in Stage!FaithfulnessEdges(prop) \cap EdgeEvidence,
             prop' = Quarantine(Record(prop, ev), Stage!FaithfulnessReason(ev)),
             pc' = IF ev.verdict = "pass" THEN "demonstrate" ELSE "settle"
      PROVE  Stage!FaithfulnessCheck
  <2>1. StageReport' = StageReport
    BY <1>0, <1>3 DEF StageReport
  <2> QED
    BY <1>0, <1>3, <2>1
    DEF Stage!FaithfulnessCheck, Stage!Quarantine, Stage!Record, Quarantine, Record
<1> QED
  BY <1>1, <1>2, <1>3, GateStep DEF CInv

\* A step of the ladder is a step of the Pipeline.
LEMMA LadderImplements ==
  ASSUME CInv, DemonstrationNext \/ Promoted
  PROVE  \/ Stage!DemonstrateFastPath
         \/ \E ok \in BOOLEAN : Stage!DemonstrateEnsemble(ok)
         \/ Stage!SeedErrored
         \/ UNCHANGED Stage!vars
<1>0. pc = "demonstrate"
  BY LadderStep DEF CInv
<1>1. CASE pc' = pc /\ prop' = prop
  BY <1>1 DEF Stage!vars, StageReport
<1>2. CASE pc' = "idle" /\ prop' = NoProp
  BY <1>0, <1>2 DEF Stage!SeedErrored, Stage!NoProp, Stage!Fresh, NoProp, Fresh, StageReport
<1>3. pc' = "revalidate" => StageReport' = Stage!Reached
  BY <1>0 DEF StageReport, Stage!Reached
<1>4. ASSUME NEW ok \in BOOLEAN, Conclude(ok), ok => prop.stmt \in Provable
      PROVE  Stage!DemonstrateEnsemble(ok)
  BY <1>0, <1>3, <1>4
  DEF Conclude, Stage!DemonstrateEnsemble, Stage!Discharge, Stage!ProofEdge,
      Stage!Evidence, Stage!Record, ProofEdge, Evidence, Record
<1>5. ASSUME FastPathPromotes
      PROVE  Stage!DemonstrateFastPath
  BY <1>0, <1>3, <1>5
  DEF FastPathPromotes, Stage!DemonstrateFastPath, Stage!FastPathApplies, FastPathApplies,
      Stage!CertifiedBy, CertifiedBy, Stage!EdgeSet, EdgeSet, Stage!Discharge, Discharge,
      Stage!FastPath, FastPath, Stage!ProofEdge, Stage!Evidence, Stage!Record, ProofEdge,
      Evidence, Record
<1> QED
  BY <1>1, <1>2, <1>4, <1>5, LadderStep DEF CInv

\* The two stages taken apart implement the Pipeline's two steps, for every
\* ensemble, panel and list of backends: what Pipeline_proofs proves of a seed's
\* way to the ledger holds of the code that calls one oracle at a time.
THEOREM StagesImplementPipeline == Spec => ImplementsStages
<1>1. CInv /\ [Next]_vars =>
        [\/ Stage!FaithfulnessCheck
         \/ Stage!DemonstrateFastPath
         \/ \E ok \in BOOLEAN : Stage!DemonstrateEnsemble(ok)
         \/ Stage!SeedErrored]_(Stage!vars)
  <2>1. UNCHANGED vars => UNCHANGED Stage!vars
    BY DEF vars, Stage!vars, StageReport
  <2> QED
    BY <2>1, GateImplements, LadderImplements DEF Next, Done
<1> QED
  BY <1>1, CInvHolds, PTL DEF Spec, ImplementsStages

----------------------------------------------------------------------------
(***************************************************************************)
(* N+1.  Every name that counts is one the kernel accepted a proof of the  *)
(* claim under, and the panel adds no model of the base under another.     *)
(***************************************************************************)
VoteInv ==
  /\ IsFiniteSet(accepted)
  /\ pc = "demonstrate" /\ rung \in {"claim", "composed"} => Identities \subseteq accepted
  /\ base \subseteq accepted
  /\ closers \subseteq Models(accepted)
  /\ BaseCanon \cap closers = {}
  /\ rung # "repair" => closers = {}
  /\ DistinctVoters

VInv == CInv /\ VoteInv

\* A consensus of the ensemble is that many names'.
LEMMA ReachedVotes ==
  ASSUME Reached, IsFiniteSet(accepted), Identities \subseteq accepted
  PROVE  Cardinality(accepted) >= MinConsensus
<1>1. IsFiniteSet(Identities) /\ Cardinality(Identities) <= Cardinality(accepted)
  BY FS_Subset
<1>2. Cardinality(Identities) \in Nat /\ Cardinality(accepted) \in Nat
  BY <1>1, FS_CardinalityType
<1> QED
  BY <1>1, <1>2, DemonstrationAssumption DEF Reached

\* Names go by no more models than there are names.
LEMMA ModelsOfNames ==
  ASSUME IsFiniteSet(accepted)
  PROVE  /\ IsFiniteSet(Models(accepted))
         /\ Cardinality(Models(accepted)) \in Nat /\ Cardinality(accepted) \in Nat
         /\ Cardinality(Models(accepted)) <= Cardinality(accepted)
BY FiniteImage, FS_CardinalityType DEF Models

\* What base and panel make up together is that many models'.
LEMMA EnoughVotes ==
  ASSUME Enough, VoteInv
  PROVE  /\ Cardinality(Models(accepted)) >= MinConsensus
         /\ Cardinality(accepted) >= MinConsensus
<1>1. /\ IsFiniteSet(Models(accepted))
      /\ Cardinality(Models(accepted)) \in Nat /\ Cardinality(accepted) \in Nat
      /\ Cardinality(Models(accepted)) <= Cardinality(accepted)
  BY ModelsOfNames DEF VoteInv
<1>2. BaseCanon \cup closers \subseteq Models(accepted)
  BY DEF VoteInv, BaseCanon, Models
<1>3. IsFiniteSet(BaseCanon) /\ IsFiniteSet(closers)
  BY <1>1, <1>2, FS_Subset
<1>4. Cardinality(BaseCanon) \in Nat /\ Cardinality(closers) \in Nat
  BY <1>3, FS_CardinalityType
<1>5. Cardinality(BaseCanon \cup closers) = Cardinality(BaseCanon) + Cardinality(closers)
  <2>1. Cardinality(BaseCanon \cap closers) = 0
    BY FS_EmptySet DEF VoteInv
  <2>2. Cardinality(BaseCanon \cup closers)
          = Cardinality(BaseCanon) + Cardinality(closers)
            - Cardinality(BaseCanon \cap closers)
    BY <1>3, FS_Union
  <2> QED
    BY <1>4, <2>1, <2>2
<1>6. Cardinality(BaseCanon \cup closers) <= Cardinality(Models(accepted))
  BY <1>1, <1>2, FS_Subset
<1> QED
  BY <1>1, <1>4, <1>5, <1>6, DemonstrationAssumption DEF Enough

\* A fast path's proof edge says so.
LEMMA FastPathTagged ==
  ASSUME prop \in Propositio, FastPathPromotes
  PROVE  ByDecisionProcedure(prop)'
<1> DEFINE law == Canonical[prop.claim]
<1>1. law \in Statements \cup {NoStatement}
  BY TrustAssumption DEF Propositio
<1>2. PICK ev \in EdgeEvidence : ev = ProofEdge(law, TRUE, TRUE)
  BY <1>1, EvidenceTypes
<1>3. ev.edge = "proof" /\ ev.dp
  BY <1>2 DEF ProofEdge, Evidence
<1>4. ev \in EdgeSet(Record(prop, ev).edges) /\ Record(prop, ev) \in Propositio
  BY RecordFacts
<1>5. prop'.edges = Record(prop, ev).edges
  BY <1>2, <1>4 DEF FastPathPromotes, FastPath, Propositio
<1> QED
  BY <1>3, <1>4, <1>5 DEF ByDecisionProcedure

LEMMA VoteInvPreserved == VInv /\ [Next]_vars => VoteInv'
<1> SUFFICES ASSUME VInv, [Next]_vars PROVE VoteInv'
  OBVIOUS
<1> USE DEF VInv
<1>1. CASE UNCHANGED vars
  BY <1>1 DEF vars, ladderVars, VoteInv, Identities, BaseCanon, DistinctVoters,
     ByDecisionProcedure
<1>2. CASE FaithfulnessNext /\ UNCHANGED ladderVars
  <2>1. pc' # "revalidate" /\ pc = "faithfulness"
    BY <1>2, GateStep DEF CInv, FaithfulnessNext
  <2>2. rung' = "fastpath"
    BY <1>2, <2>1 DEF ladderVars, CInv, KernelInv
  <2> QED
    BY <1>2, <2>1, <2>2 DEF ladderVars, VoteInv, BaseCanon, DistinctVoters
<1>3. CASE Promoted
  <2>1. ByDecisionProcedure(prop)'
    BY <1>3, FastPathTagged DEF Promoted, CInv, TypeOK
  <2> QED
    BY <1>3, <2>1 DEF Promoted, FastPathPromotes, ladderVars, VoteInv, BaseCanon,
       DistinctVoters
<1>4. CASE DemonstrationNext
  <2>1. pc = "demonstrate"
    BY <1>4 DEF DemonstrationNext
  <2>2. ASSUME NEW p \in Provers, Attempt(p) PROVE VoteInv'
    <3>0. attempts \in [Provers -> Outcomes]
      BY DEF CInv, TypeOK, DemonstrationTypeOK
    <3>1. PICK outcome : /\ attempts' = [attempts EXCEPT ![p] = outcome]
                         /\ accepted' = IF outcome = "proved" /\ rung # "lemma"
                                        THEN accepted \cup {Name[p]} ELSE accepted
      BY <2>2 DEF Attempt
    <3>2. IsFiniteSet(accepted') /\ accepted \subseteq accepted'
      BY <3>1, FS_AddElement DEF VoteInv
    <3>3. rung # "lemma" =>
            \A q \in Provers : attempts'[q] = "proved" =>
              attempts[q] = "proved" \/ Name[q] \in accepted'
      BY <3>0, <3>1
    <3>4. rung \in {"claim", "composed"} =>
            Identities' \subseteq accepted'
      BY <2>1, <3>2, <3>3 DEF Identities, VoteInv
    <3>5. pc' = pc /\ UNCHANGED <<rung, base, closers>>
      BY <2>2 DEF Attempt
    <3>6. Models(accepted) \subseteq Models(accepted')
      BY <3>2 DEF Models
    <3> QED
      BY <2>1, <3>2, <3>4, <3>5, <3>6 DEF VoteInv, BaseCanon, DistinctVoters
  <2>3. ASSUME NEW ok \in BOOLEAN, Conclude(ok), UNCHANGED <<accepted, rung>>,
               ok => /\ Cardinality(accepted) >= MinConsensus
                     /\ rung = "repair" => Cardinality(Models(accepted)) >= MinConsensus
        PROVE  DistinctVoters' /\ pc' = "revalidate"
    <3>1. prop'.kernel_verified = ok
      <4>1. Record(prop, ProofEdge(prop.stmt, ok, FALSE)) \in Propositio
        BY EvidenceTypes, RecordFacts DEF CInv, TypeOK, Propositio
      <4> QED
        BY <2>3, <4>1 DEF Conclude, Propositio
    <3> QED
      BY <2>3, <3>1 DEF DistinctVoters, Conclude
  <2>4. CASE TallyClaim
    <3>1. /\ base' = Identities /\ UNCHANGED <<closers, accepted>> /\ rung = "claim"
          /\ closers = {} /\ Identities \subseteq accepted
      BY <2>1, <2>4 DEF TallyClaim, VoteInv
    <3>2. base' \subseteq accepted
      BY <3>1
    <3>3. CASE Reached
      BY <2>3, <2>4, <3>1, <3>2, <3>3, ReachedVotes DEF TallyClaim, VoteInv
    <3>4. CASE ~Reached
      <4>1. pc' = "demonstrate" /\ rung' \in {"lemma", "repair"}
        BY <2>1, <2>4, <3>4 DEF TallyClaim, Climb
      <4> QED
        BY <3>1, <3>2, <4>1 DEF VoteInv, DistinctVoters
    <3> QED
      BY <3>3, <3>4
  <2>5. CASE TallyLemma
    <3>1. /\ pc' = "demonstrate" /\ rung = "lemma" /\ UNCHANGED <<base, closers, accepted>>
          /\ attempts' = AllPending
      BY <2>1, <2>5 DEF TallyLemma, Climb
    <3>2. Identities' = {}
      BY <3>1 DEF Identities, AllPending
    <3> QED
      BY <3>1, <3>2 DEF VoteInv, BaseCanon, DistinctVoters
  <2>6. CASE TallyComposed
    <3>1. /\ rung = "composed" /\ UNCHANGED <<base, closers, accepted>>
          /\ Identities \subseteq accepted
      BY <2>1, <2>6 DEF TallyComposed, VoteInv
    <3>2. CASE Reached
      BY <2>3, <2>6, <3>1, <3>2, ReachedVotes DEF TallyComposed, VoteInv, BaseCanon
    <3>3. CASE ~Reached
      BY <2>1, <2>6, <3>1, <3>3 DEF TallyComposed, Climb, VoteInv, BaseCanon,
         DistinctVoters
    <3> QED
      BY <3>2, <3>3
  <2>7. CASE ConcludeRepair
    <3>1. UNCHANGED <<rung, base, closers, accepted>> /\ Conclude(closers # {} /\ Enough)
      BY <2>7 DEF ConcludeRepair, ladderVars
    <3> QED
      BY <2>3, <3>1, EnoughVotes DEF VoteInv, BaseCanon
  <2>8. CASE DraftVerified
    <3>1. /\ pc' = pc /\ rung = "repair" /\ rung' = rung /\ base' = base
          /\ closers' = closers \cup ({Canon[draft]} \ BaseCanon)
          /\ accepted' = accepted \cup {draft}
      BY <2>8 DEF DraftVerified, InPanel
    <3>2. IsFiniteSet(accepted')
      BY <3>1, FS_AddElement DEF VoteInv
    <3>3. Models(accepted') = Models(accepted) \cup {Canon[draft]}
      BY <3>1 DEF Models
    <3> QED
      BY <2>1, <3>1, <3>2, <3>3 DEF VoteInv, BaseCanon, DistinctVoters
  <2>9. CASE DraftProof \/ DraftRefused
    <3>1. pc' = pc /\ rung = "repair" /\ UNCHANGED <<rung, base, closers, accepted>>
      BY <2>9 DEF DraftProof, DraftRefused, InPanel
    <3> QED
      BY <2>1, <3>1 DEF VoteInv, BaseCanon, DistinctVoters
  <2>10. CASE EnsembleRaises \/ DraftRaises
    <3>1. pc' = "idle" /\ UNCHANGED ladderVars
      BY <2>10 DEF EnsembleRaises, DraftRaises
    <3> QED
      BY <3>1 DEF ladderVars, VoteInv, BaseCanon, DistinctVoters
  <2>11. CASE FastPathFalls
    <3>1. /\ pc' = pc /\ rung = "fastpath" /\ rung' = "claim"
          /\ UNCHANGED <<attempts, base, closers, accepted>>
      BY <2>11 DEF FastPathFalls
    <3>2. Identities' = {}
      BY <2>1, <3>1 DEF Identities, CInv, KernelInv, AllPending
    <3> QED
      BY <2>1, <3>1, <3>2 DEF VoteInv, BaseCanon, DistinctVoters
  <2> QED
    BY <1>4, <2>2, <2>4, <2>5, <2>6, <2>7, <2>8, <2>9, <2>10, <2>11 DEF DemonstrationNext
<1> QED
  BY <1>1, <1>2, <1>3, <1>4 DEF Next, Done

\* N+1, for every ensemble and panel, whatever names their models go by: outside
\* the fast path nothing passes without proofs of the claim itself, accepted by the
\* kernel, under that many names; of that many models when the panel closed it.
THEOREM VotersAreDistinct == Spec => []DistinctVoters
<1>1. Init => VInv
  <2> SUFFICES ASSUME Init PROVE VoteInv
    BY InitCInv DEF VInv
  <2>1. base = {} /\ closers = {} /\ accepted = {} /\ pc = "faithfulness"
    BY DEF Init, DemonstrationInit
  <2> QED
    BY <2>1, FS_EmptySet DEF VoteInv, BaseCanon, Models, DistinctVoters
<1>2. VInv /\ [Next]_vars => VInv'
  BY CInvInductive, VoteInvPreserved DEF VInv
<1>3. VInv => DistinctVoters
  BY DEF VInv, VoteInv
<1> QED
  BY <1>1, <1>2, <1>3, PTL DEF Spec

----------------------------------------------------------------------------
(***************************************************************************)
(* Termination, but for fairness.  What the two stages still have to do is *)
(* a natural number, and every step lowers it.                             *)
(***************************************************************************)
Pending == {p \in Provers : attempts[p] = "pending"}

\* One pass of the ensemble: an attempt of each prover, and the tally.
PassWork == Cardinality(Provers) + 1

\* Passes still to come after the one at hand: those of a longest plan's lemmas,
\* and the one on the claim with hints.
PassesLeft ==
  IF rung \in {"fastpath", "claim"} THEN MaxLemmas + 1
  ELSE IF rung = "lemma" THEN lemmas ELSE 0

EnsembleWork ==
  IF rung = "repair" THEN 0
  ELSE PassesLeft * PassWork + Cardinality(Pending) + IF rung = "fastpath" THEN 2 ELSE 1

\* One member of the panel: a first draft, its rounds, and the step to the next.
MemberWork == MaxRounds + 2

PanelWork ==
  (Len(Panel) + 1 - member) * MemberWork - IF draft = NoDraft THEN 0 ELSE round + 1

GateWork ==
  CASE gate = "spine" -> 2 * (Len(Order) + 1 - rank) + 3
    [] gate = "backends" -> 2 * (Len(Order) + 1 - rank) + 2
    [] gate = "retry" -> 2 * (Len(Order) + 1 - rank) + 1
    [] OTHER -> 1

Work ==
  IF Certified THEN 0
  ELSE 1 + EnsembleWork + PanelWork + IF pc = "faithfulness" THEN GateWork ELSE 0

\* What a seed costs at most.
Budget ==
  2 * Len(Order) + 6 + (MaxLemmas + 1) * PassWork + Cardinality(Provers)
    + Len(Panel) * MemberWork

Lowers == Work \in Nat /\ Work' \in Nat /\ Work' < Work

\* A draft is in hand only while its member is asked.
DraftInv == draft # NoDraft => rung = "repair" /\ member \in DOMAIN Panel

WInv == CInv /\ DraftInv

LEMMA WInvInductive == WInv /\ [Next]_vars => WInv'
<1> SUFFICES ASSUME WInv, [Next]_vars PROVE DraftInv'
  BY CInvInductive DEF WInv
<1>1. CASE UNCHANGED ladderVars
  BY <1>1 DEF ladderVars, WInv, DraftInv
<1>2. CASE DemonstrationNext
  BY <1>2 DEF DemonstrationNext, FastPathFalls, Attempt, EnsembleRaises, TallyClaim,
     TallyLemma, TallyComposed, ConcludeRepair, DraftProof, DraftVerified, DraftRefused,
     DraftRaises, InPanel, NextMember, ladderVars, WInv, DraftInv
<1> QED
  BY <1>1, <1>2 DEF Next, Done, Promoted, FastPathPromotes, vars

\* Products of naturals grow with their first factor.
LEMMA Products ==
  ASSUME NEW k \in Nat
  PROVE  /\ \A n \in Nat : n * k \in Nat
         /\ \A n \in Nat : (n + 1) * k = n * k + k
         /\ \A m, n \in Nat : m <= n => m * k <= n * k
<1>1. \A n \in Nat : n * k \in Nat
  OBVIOUS
<1>2. \A n \in Nat : (n + 1) * k = n * k + k
  OBVIOUS
<1>3. \A m, n \in Nat : m <= n => m * k <= n * k
  OBVIOUS
<1> QED
  BY <1>1, <1>2, <1>3

\* The types the arithmetic rests on.
LEMMA WorkTypes ==
  WInv =>
    /\ Len(Order) + 1 - rank \in Nat /\ gate \in Consultants
    /\ Cardinality(Provers) \in Nat /\ Cardinality(Pending) \in Nat
    /\ PassWork \in Nat /\ MemberWork \in Nat /\ MaxLemmas \in Nat /\ MaxRounds \in Nat
    /\ lemmas \in Nat /\ lemmas <= MaxLemmas
    /\ member \in Nat /\ Len(Panel) \in Nat /\ Len(Panel) + 1 - member \in Nat
    /\ round \in Nat /\ round <= MaxRounds
    /\ draft # NoDraft => Len(Panel) - member \in Nat
<1> SUFFICES ASSUME WInv
             PROVE  /\ Len(Order) + 1 - rank \in Nat /\ gate \in Consultants
                    /\ Cardinality(Provers) \in Nat /\ Cardinality(Pending) \in Nat
                    /\ PassWork \in Nat /\ MemberWork \in Nat
                    /\ MaxLemmas \in Nat /\ MaxRounds \in Nat
                    /\ lemmas \in Nat /\ lemmas <= MaxLemmas
                    /\ member \in Nat /\ Len(Panel) \in Nat
                    /\ Len(Panel) + 1 - member \in Nat
                    /\ round \in Nat /\ round <= MaxRounds
                    /\ draft # NoDraft => Len(Panel) - member \in Nat
  OBVIOUS
<1>1. Len(Order) \in Nat /\ Len(Panel) \in Nat /\ DOMAIN Panel = 1..Len(Panel)
  BY FaithfulnessAssumption, DemonstrationAssumption
<1>2. /\ rank \in 1..(Len(Order) + 1) /\ gate \in Consultants
      /\ lemmas \in 0..MaxLemmas /\ member \in 1..(Len(Panel) + 1) /\ round \in 0..MaxRounds
  BY DEF WInv, CInv, TypeOK, FaithfulnessTypeOK, DemonstrationTypeOK
<1>3. MaxLemmas \in Nat /\ MaxRounds \in Nat
  BY DemonstrationAssumption
<1>4. Cardinality(Provers) \in Nat /\ Cardinality(Pending) \in Nat
  BY DemonstrationAssumption, FS_Subset, FS_CardinalityType DEF Pending
<1>5. PassWork \in Nat /\ MemberWork \in Nat
  BY <1>3, <1>4 DEF PassWork, MemberWork
<1>6. draft # NoDraft => member \in 1..Len(Panel)
  BY <1>1 DEF WInv, DraftInv
<1>7. Len(Order) + 1 - rank \in Nat /\ Len(Panel) + 1 - member \in Nat /\ member \in Nat
  BY <1>1, <1>2
<1>8. lemmas \in Nat /\ lemmas <= MaxLemmas /\ round \in Nat /\ round <= MaxRounds
  BY <1>2, <1>3
<1>9. draft # NoDraft => Len(Panel) - member \in Nat
  BY <1>1, <1>2, <1>6
<1> QED
  BY <1>1, <1>2, <1>3, <1>4, <1>5, <1>7, <1>8, <1>9

\* Every part of the work is a natural number.
LEMMA WorkNat ==
  WInv => /\ EnsembleWork \in Nat /\ PanelWork \in Nat
          /\ GateWork \in Nat /\ GateWork >= 1 /\ Work \in Nat
<1> SUFFICES ASSUME WInv
             PROVE  /\ EnsembleWork \in Nat /\ PanelWork \in Nat
                    /\ GateWork \in Nat /\ GateWork >= 1 /\ Work \in Nat
  OBVIOUS
<1>1. EnsembleWork \in Nat
  <2>1. PassesLeft \in Nat
    BY WorkTypes DEF PassesLeft
  <2>2. PassesLeft * PassWork \in Nat
    BY <2>1, WorkTypes, Products
  <2> QED
    BY <2>2, WorkTypes DEF EnsembleWork
<1>2. PanelWork \in Nat
  <2>1. (Len(Panel) + 1 - member) * MemberWork \in Nat
    BY WorkTypes, Products
  <2>2. CASE draft # NoDraft
    <3>1. PICK n \in Nat : n = Len(Panel) - member
      BY <2>2, WorkTypes
    <3>2. Len(Panel) + 1 - member = n + 1
      BY <3>1, WorkTypes
    <3>3. (n + 1) * MemberWork = n * MemberWork + MemberWork /\ n * MemberWork \in Nat
      BY WorkTypes, Products
    <3>4. MaxRounds \in Nat /\ round \in Nat /\ round <= MaxRounds
      BY WorkTypes
    <3>5. PICK a \in Nat : (Len(Panel) + 1 - member) * MemberWork = a + MemberWork
      BY <3>2, <3>3
    <3>6. MemberWork \in Nat /\ round + 1 <= MemberWork
      BY <3>4 DEF MemberWork
    <3>7. PanelWork = (Len(Panel) + 1 - member) * MemberWork - (round + 1)
      BY <2>2 DEF PanelWork
    <3>8. PICK b \in Nat : b = (Len(Panel) + 1 - member) * MemberWork
      BY <2>1
    <3>9. PanelWork = b - (round + 1)
      BY <3>7, <3>8
    <3>10. b = a + MemberWork
      BY <3>5, <3>8
    <3> QED
      BY <3>4, <3>6, <3>9, <3>10
  <2>3. CASE draft = NoDraft
    <3>1. PanelWork = (Len(Panel) + 1 - member) * MemberWork - 0
      BY <2>3 DEF PanelWork
    <3> QED
      BY <2>1, <3>1
  <2> QED
    BY <2>2, <2>3
<1>3. GateWork \in Nat /\ GateWork >= 1
  <2>1. PICK n \in Nat : n = Len(Order) + 1 - rank
    BY WorkTypes
  <2>2. gate \in {"spine", "backends", "retry", "judge"}
    BY WorkTypes DEF Consultants
  <2> QED
    BY <2>1, <2>2 DEF GateWork
<1> HIDE DEF EnsembleWork, PanelWork, GateWork
<1> QED
  BY <1>1, <1>2, <1>3 DEF Work

LEMMA WorkNatNext ==
  WInv' => /\ (EnsembleWork \in Nat)' /\ (PanelWork \in Nat)' /\ (GateWork \in Nat)'
           /\ (Work \in Nat)'
<1>1. WInv => EnsembleWork \in Nat /\ PanelWork \in Nat /\ GateWork \in Nat /\ Work \in Nat
  BY WorkNat
<1> QED
  BY <1>1, PTL

\* A step of the gate that does not leave the stage asks one thing fewer.
LEMMA GateLowers ==
  ASSUME WInv, FaithfulnessNext, pc' = "faithfulness"
  PROVE  GateWork' < GateWork
<1>1. PICK n \in Nat : n = Len(Order) + 1 - rank
  BY WorkTypes
<1>2. pc = "faithfulness" /\ ~ (pc' = "demonstrate") /\ pc' # "settle" /\ pc' # "idle"
  BY DEF FaithfulnessNext
<1>3. \A p : ~ Return(p)
  BY <1>2 DEF Return
<1>4. CASE Spine
  BY <1>1, <1>3, <1>4 DEF Spine, Fail, GateWork
<1>5. CASE AskBackend
  <2>1. /\ gate = "backends"
        /\ \/ gate' = "retry" /\ rank' = rank
           \/ gate' = "backends" /\ rank' = rank + 1
    BY <1>3, <1>5 DEF AskBackend, Pass, Fail
  <2>2. rank \in Nat /\ Len(Order) \in Nat
    BY FaithfulnessAssumption DEF WInv, CInv, TypeOK, FaithfulnessTypeOK
  <2> QED
    BY <1>1, <2>1, <2>2 DEF GateWork
<1>6. CASE RetryBackend
  <2>1. gate = "retry" /\ gate' = "backends" /\ rank' = rank + 1
    BY <1>3, <1>6 DEF RetryBackend, Pass
  <2>2. rank \in Nat /\ Len(Order) \in Nat
    BY FaithfulnessAssumption DEF WInv, CInv, TypeOK, FaithfulnessTypeOK
  <2> QED
    BY <1>1, <2>1, <2>2 DEF GateWork
<1>7. CASE Probe
  <2>1. gate = "backends" /\ gate' = "judge"
    BY <1>3, <1>7 DEF Probe, Pass, Fail
  <2> QED
    BY <1>1, <2>1 DEF GateWork
<1> QED
  BY <1>2, <1>3, <1>4, <1>5, <1>6, <1>7
  DEF FaithfulnessNext, Judge, Pass, Fail, GateRaises

\* A prover that comes back is one fewer to wait for.
LEMMA AttemptLowers ==
  ASSUME WInv, NEW p \in Provers, Attempt(p)
  PROVE  EnsembleWork' < EnsembleWork /\ PanelWork' = PanelWork
<1>1. attempts \in [Provers -> Outcomes]
  BY DEF WInv, CInv, TypeOK, DemonstrationTypeOK
<1>2. /\ rung \in {"claim", "lemma", "composed"} /\ attempts[p] = "pending"
      /\ \E outcome : outcome # "pending" /\ attempts' = [attempts EXCEPT ![p] = outcome]
      /\ UNCHANGED <<rung, lemmas, member, round, draft>>
  BY DEF Attempt
<1>3. Pending' = Pending \ {p} /\ p \in Pending
  BY <1>1, <1>2 DEF Pending
<1>4. IsFiniteSet(Pending)
  BY DemonstrationAssumption, FS_Subset DEF Pending
<1>5. Cardinality(Pending') = Cardinality(Pending) - 1
  BY <1>3, <1>4, FS_RemoveElement
<1>6. PassesLeft \in Nat
  BY WorkTypes DEF PassesLeft
<1>7. PICK a \in Nat, c \in Nat : a = PassesLeft * PassWork /\ c = Cardinality(Pending)
  BY <1>6, WorkTypes, Products
<1>8. PassWork' = PassWork /\ PassesLeft' = PassesLeft
  BY <1>2 DEF PassWork, PassesLeft
<1>9. EnsembleWork = a + c + 1
  BY <1>2, <1>7 DEF EnsembleWork
<1>10. EnsembleWork' = a + (c - 1) + 1
  BY <1>2, <1>5, <1>7, <1>8 DEF EnsembleWork
<1>11. PanelWork' = PanelWork
  BY <1>2 DEF PanelWork, MemberWork
<1> QED
  BY <1>7, <1>9, <1>10, <1>11

\* A member of the panel that is drafted, refused or accepted has spent of its
\* rounds, or of the panel.
LEMMA PanelLowers ==
  ASSUME WInv, DraftProof \/ DraftVerified \/ DraftRefused
  PROVE  EnsembleWork' = EnsembleWork /\ PanelWork' < PanelWork
<1>0. Len(Panel) \in Nat /\ DOMAIN Panel = 1..Len(Panel)
  BY DemonstrationAssumption
<1>1. /\ rung = "repair" /\ rung' = rung
      /\ member \in 1..Len(Panel) /\ member \in DOMAIN Panel /\ Len(Panel) \in Nat
  BY <1>0 DEF DraftProof, DraftVerified, DraftRefused, InPanel
<1>2. EnsembleWork' = EnsembleWork
  BY <1>1 DEF EnsembleWork
<1>3. /\ MemberWork \in Nat /\ MaxRounds \in Nat /\ round \in Nat /\ round <= MaxRounds
      /\ Len(Panel) - member \in Nat /\ member \in Nat
  BY <1>1, WorkTypes
<1>4. PICK n \in Nat : n = Len(Panel) - member
  BY <1>3
<1>5. Len(Panel) + 1 - member = n + 1
  BY <1>1, <1>4
<1>6. PICK a \in Nat : a = n * MemberWork
  BY <1>3, Products
<1>7. (n + 1) * MemberWork = a + MemberWork
  BY <1>3, <1>6, Products
<1>8. PICK spent \in Nat : spent = IF draft = NoDraft THEN 0 ELSE round + 1
  BY <1>3
<1>9. spent <= MaxRounds + 1 /\ MemberWork = MaxRounds + 2
  BY <1>3, <1>8 DEF MemberWork
<1>10. PanelWork = (a + MemberWork) - spent
  BY <1>5, <1>7, <1>8 DEF PanelWork
<1>11. CASE NextMember
  <2>1. member' = member + 1 /\ draft' = NoDraft
    BY <1>11 DEF NextMember
  <2>2. Len(Panel) + 1 - member' = n
    BY <1>1, <1>4, <2>1
  <2>3. PanelWork' = a - 0
    BY <1>6, <2>1, <2>2 DEF PanelWork, MemberWork
  <2> QED
    BY <1>2, <1>3, <1>6, <1>8, <1>9, <1>10, <2>3
<1>12. ASSUME NEW more \in Nat, more > spent, member' = member,
              more = IF draft' = NoDraft THEN 0 ELSE round' + 1
       PROVE  PanelWork' < PanelWork
  <2>1. PanelWork' = (a + MemberWork) - more
    BY <1>5, <1>7, <1>12 DEF PanelWork, MemberWork
  <2> QED
    BY <1>3, <1>6, <1>8, <1>10, <1>12, <2>1
<1>13. CASE DraftProof /\ ~NextMember
  <2>1. draft' \in Panel[member] /\ member' = member /\ round' = round /\ draft = NoDraft
    BY <1>13 DEF DraftProof
  <2>2. draft' # NoDraft
    BY <1>1, <2>1, DemonstrationAssumption
  <2>3. spent = 0
    BY <1>8, <2>1
  <2>4. PICK more \in Nat : more = round + 1
    BY <1>3
  <2> QED
    BY <1>2, <1>3, <1>12, <2>1, <2>2, <2>3, <2>4
<1>14. CASE DraftRefused /\ ~NextMember
  <2>1. /\ draft' \in Panel[member] /\ member' = member /\ round' = round + 1
        /\ draft # NoDraft
    BY <1>14 DEF DraftRefused, NextRound
  <2>2. draft' # NoDraft
    BY <1>1, <2>1, DemonstrationAssumption
  <2>3. spent = round + 1
    BY <1>8, <2>1
  <2>4. PICK more \in Nat : more = round + 2
    BY <1>3
  <2>5. more = round' + 1 /\ more > spent
    BY <1>3, <2>1, <2>3, <2>4
  <2> QED
    BY <1>2, <1>12, <2>1, <2>2, <2>4, <2>5
<1> QED
  BY <1>11, <1>13, <1>14 DEF DraftVerified

\* A tally that does not conclude leaves fewer passes, for each of which the whole
\* ensemble is asked.
LEMMA TallyLowers ==
  ASSUME WInv, pc = "demonstrate", pc' = "demonstrate",
         FastPathFalls \/ TallyClaim \/ TallyLemma \/ TallyComposed
  PROVE  EnsembleWork' < EnsembleWork /\ PanelWork' = PanelWork
<1>1. UNCHANGED <<member, round, draft>>
  BY DEF FastPathFalls, TallyClaim, TallyLemma, TallyComposed
<1>2. PanelWork' = PanelWork
  BY <1>1 DEF PanelWork, MemberWork
<1>3. PICK n \in Nat, c \in Nat : n = Cardinality(Provers) /\ c = Cardinality(Pending)
  BY WorkTypes
<1>4. PassWork = n + 1 /\ PassWork' = n + 1
  BY <1>3 DEF PassWork
<1>5. Tallied => c = 0
  <2>1. Tallied => Pending = {}
    BY DEF Tallied, AllBack, Pending
  <2> QED
    BY <1>3, <2>1, FS_EmptySet
<1>6. attempts' = AllPending => Cardinality(Pending') = n
  BY <1>3 DEF AllPending, Pending
<1>7. ~ (\E ok \in BOOLEAN : Conclude(ok))
  BY DEF Conclude
<1>8. /\ \A m \in Nat : m * (n + 1) \in Nat
      /\ \A m \in Nat : (m + 1) * (n + 1) = m * (n + 1) + (n + 1)
      /\ \A l, m \in Nat : l <= m => l * (n + 1) <= m * (n + 1)
  <2>1. PICK k \in Nat : k = n + 1
    OBVIOUS
  <2>2. /\ \A m \in Nat : m * k \in Nat
        /\ \A m \in Nat : (m + 1) * k = m * k + k
        /\ \A l, m \in Nat : l <= m => l * k <= m * k
    BY Products
  <2> QED
    BY <2>1, <2>2
\* Another pass: what it costs is covered by the passes left before.
<1>9. ASSUME NEW l \in Nat, NEW m \in Nat, m < l, NEW e \in Nat,
             EnsembleWork = l * (n + 1) + 0 + 1,
             \/ rung' \in {"lemma", "composed"} /\ EnsembleWork' = m * (n + 1) + n + 1
             \/ rung' = "repair"
      PROVE  EnsembleWork' < EnsembleWork
  <2>1. (m + 1) * (n + 1) <= l * (n + 1) /\ l * (n + 1) \in Nat /\ m * (n + 1) \in Nat
    BY <1>8, <1>9
  <2>2. PICK a \in Nat, b \in Nat : a = l * (n + 1) /\ b = m * (n + 1)
    BY <2>1
  <2>3. b + (n + 1) <= a
    BY <1>8, <2>1, <2>2
  <2>4. EnsembleWork = a + 1
    BY <1>9, <2>2
  <2>5. CASE rung' \in {"lemma", "composed"} /\ EnsembleWork' = m * (n + 1) + n + 1
    <3>1. EnsembleWork' = b + n + 1
      BY <2>2, <2>5
    <3> QED
      BY <2>3, <2>4, <3>1
  <2>6. CASE rung' = "repair"
    <3>1. EnsembleWork' = 0
      BY <2>6 DEF EnsembleWork
    <3> QED
      BY <2>4, <3>1
  <2> QED
    BY <1>9, <2>5, <2>6
<1>10. lemmas \in Nat /\ MaxLemmas \in Nat
  BY WorkTypes
<1>11. CASE FastPathFalls
  <2>1. rung = "fastpath" /\ rung' = "claim" /\ attempts' = attempts /\ lemmas' = lemmas
    BY <1>11 DEF FastPathFalls
  <2>2. Cardinality(Pending') = c
    BY <1>3, <2>1 DEF Pending
  <2>3. PICK a \in Nat : a = (MaxLemmas + 1) * (n + 1)
    BY <1>8, <1>10
  <2>4. EnsembleWork = a + c + 2
    BY <1>3, <1>4, <2>1, <2>3 DEF EnsembleWork, PassesLeft
  <2>5. EnsembleWork' = a + c + 1
    BY <1>4, <2>1, <2>2, <2>3 DEF EnsembleWork, PassesLeft
  <2> QED
    BY <1>2, <2>4, <2>5
<1>12. CASE TallyClaim
  <2>1. Tallied /\ rung = "claim" /\ ~Reached
    BY <1>7, <1>12 DEF TallyClaim
  <2>2. PICK k \in 0..MaxLemmas : /\ lemmas' = k /\ attempts' = AllPending
                                  /\ rung' = IF k > 0 THEN "lemma" ELSE "repair"
    BY <1>12, <2>1 DEF TallyClaim, Climb
  <2>3. PICK l \in Nat : l = MaxLemmas + 1
    BY <1>10
  <2>4. k \in Nat /\ k < l
    BY <1>10, <2>3
  <2>5. EnsembleWork = l * (n + 1) + 0 + 1
    BY <1>3, <1>4, <1>5, <2>1, <2>3 DEF EnsembleWork, PassesLeft
  <2>6. rung' = "lemma" => EnsembleWork' = k * (n + 1) + n + 1
    BY <1>4, <1>6, <2>2 DEF EnsembleWork, PassesLeft
  <2>7. EnsembleWork \in Nat
    BY WorkNat
  <2>8. rung' \in {"lemma", "repair"}
    BY <2>2
  <2> QED
    BY <1>2, <1>9, <2>3, <2>4, <2>5, <2>6, <2>7, <2>8
<1>13. CASE TallyLemma
  <2>1. /\ Tallied /\ rung = "lemma" /\ lemmas' = lemmas - 1 /\ attempts' = AllPending
        /\ rung' = (IF lemmas > 1 THEN "lemma" ELSE IF haves' > 0 THEN "composed" ELSE "repair")
    BY <1>13 DEF TallyLemma, Climb
  <2>2. lemmas >= 1
    BY <2>1 DEF WInv, CInv, PlanInv
  <2>3. PICK m \in Nat : m = lemmas - 1
    BY <1>10, <2>2
  <2>4. EnsembleWork = lemmas * (n + 1) + 0 + 1
    BY <1>3, <1>4, <1>5, <2>1 DEF EnsembleWork, PassesLeft
  <2>5. rung' = "lemma" => EnsembleWork' = m * (n + 1) + n + 1
    BY <1>4, <1>6, <2>1, <2>3 DEF EnsembleWork, PassesLeft
  <2>6. rung' = "composed" => EnsembleWork' = m * (n + 1) + n + 1
    <3>1. rung' = "composed" => m = 0
      BY <1>10, <2>1, <2>2, <2>3
    <3>2. rung' = "composed" => EnsembleWork' = 0 * (n + 1) + n + 1
      BY <1>4, <1>6, <2>1 DEF EnsembleWork, PassesLeft
    <3> QED
      BY <3>1, <3>2
  <2>7. EnsembleWork \in Nat /\ m < lemmas
    BY <1>10, <2>3, WorkNat
  <2>8. rung' \in {"lemma", "composed", "repair"}
    BY <2>1
  <2> QED
    BY <1>2, <1>9, <1>10, <2>4, <2>5, <2>6, <2>7, <2>8
<1>14. CASE TallyComposed
  <2>1. Tallied /\ rung = "composed" /\ rung' = "repair"
    BY <1>7, <1>14 DEF TallyComposed, Climb
  <2>2. EnsembleWork = 0 * (n + 1) + 0 + 1
    BY <1>3, <1>4, <1>5, <2>1 DEF EnsembleWork, PassesLeft
  <2>3. EnsembleWork' = 0
    BY <2>1 DEF EnsembleWork
  <2> QED
    BY <1>2, <2>2, <2>3
<1> QED
  BY <1>11, <1>12, <1>13, <1>14

\* Every step lowers the work.
LEMMA StepLowers == WInv /\ WInv' /\ [Next]_vars => [Lowers]_vars
<1> SUFFICES ASSUME WInv, WInv', Next, vars' # vars PROVE Lowers
  BY DEF vars
<1>1. PICK e \in Nat, p \in Nat, g \in Nat :
        e = EnsembleWork /\ p = PanelWork /\ g = GateWork /\ g >= 1
  BY WorkNat
<1>2. PICK e1 \in Nat, p1 \in Nat, g1 \in Nat :
        e1 = EnsembleWork' /\ p1 = PanelWork' /\ g1 = GateWork'
  BY WorkNatNext
<1>3. Work \in Nat /\ Work' \in Nat
  BY WorkNat, WorkNatNext
<1>4. pc \in {"faithfulness", "demonstrate"}
  BY DEF Next, Done, FaithfulnessNext, DemonstrationNext, Promoted, FastPathPromotes
<1>5. Work = 1 + e + p + IF pc = "faithfulness" THEN g ELSE 0
  BY <1>1, <1>4 DEF Work, Certified
<1>6. Work > 0
  BY <1>1, <1>5
<1>7. CASE Certified'
  <2>1. Work' = 0
    BY <1>7 DEF Work
  <2> QED
    BY <1>3, <1>6, <2>1 DEF Lowers
<1>8. CASE ~Certified'
  <2>0. pc' \in {"faithfulness", "demonstrate"}
    BY <1>8 DEF Certified
  <2>1. Work' = 1 + e1 + p1 + IF pc' = "faithfulness" THEN g1 ELSE 0
    BY <1>2, <1>8 DEF Work
  <2>2. CASE FaithfulnessNext /\ UNCHANGED ladderVars
    <3>1. pc = "faithfulness" /\ e1 = e /\ p1 = p
      BY <1>1, <1>2, <2>2 DEF FaithfulnessNext, ladderVars, EnsembleWork, PassesLeft,
         PassWork, Pending, PanelWork, MemberWork
    <3>2. pc' = "faithfulness" => g1 < g
      BY <1>1, <1>2, <2>2, GateLowers
    <3>3. Work = 1 + e + p + g
      BY <1>5, <3>1
    <3>4. CASE pc' = "faithfulness"
      <4>1. Work' = 1 + e + p + g1
        BY <2>1, <3>1, <3>4
      <4> QED
        BY <1>3, <3>2, <3>3, <3>4, <4>1 DEF Lowers
    <3>5. CASE pc' = "demonstrate"
      <4>1. Work' = 1 + e + p + 0
        BY <2>1, <3>1, <3>5
      <4> QED
        BY <1>1, <1>3, <3>3, <4>1 DEF Lowers
    <3> QED
      BY <2>0, <3>4, <3>5
  <2>3. CASE DemonstrationNext
    <3>1. pc = "demonstrate" /\ pc' = "demonstrate"
      BY <2>0, <2>3, LadderStep DEF WInv, CInv, Conclude, FastPathPromotes
    <3>2. e1 + p1 < e + p
      <4>1. CASE FastPathFalls \/ TallyClaim \/ TallyLemma \/ TallyComposed
        <5>1. EnsembleWork' < EnsembleWork /\ PanelWork' = PanelWork
          BY <3>1, <4>1, TallyLowers
        <5>2. e1 < e
          BY <1>1, <1>2, <5>1
        <5>3. p1 = p
          BY <1>1, <1>2, <5>1
        <5> QED
          BY <5>2, <5>3
      <4>2. CASE \E q \in Provers : Attempt(q)
        <5>1. EnsembleWork' < EnsembleWork /\ PanelWork' = PanelWork
          BY <4>2, AttemptLowers
        <5>2. e1 < e
          BY <1>1, <1>2, <5>1
        <5>3. p1 = p
          BY <1>1, <1>2, <5>1
        <5> QED
          BY <5>2, <5>3
      <4>3. CASE DraftProof \/ DraftVerified \/ DraftRefused
        <5>1. EnsembleWork' = EnsembleWork /\ PanelWork' < PanelWork
          BY <4>3, PanelLowers
        <5>2. e1 = e
          BY <1>1, <1>2, <5>1
        <5>3. p1 < p
          BY <1>1, <1>2, <5>1
        <5> QED
          BY <5>2, <5>3
      <4> QED
        BY <2>3, <3>1, <4>1, <4>2, <4>3
        DEF DemonstrationNext, EnsembleRaises, ConcludeRepair, Conclude, DraftRaises
    <3>3. Work = 1 + e + p + 0 /\ Work' = 1 + e1 + p1 + 0
      BY <1>5, <2>1, <3>1
    <3> QED
      BY <1>3, <3>2, <3>3 DEF Lowers
  <2>4. CASE Promoted
    BY <1>8, <2>4 DEF Promoted, FastPathPromotes, Certified
  <2> QED
    BY <2>2, <2>3, <2>4 DEF Next, Done
<1> QED
  BY <1>7, <1>8

LEMMA InitBudget == Init => WInv /\ Work = Budget
<1> SUFFICES ASSUME Init PROVE WInv /\ Work = Budget
  OBVIOUS
<1>1. WInv
  BY InitCInv DEF Init, DemonstrationInit, WInv, DraftInv
<1>2. /\ pc = "faithfulness" /\ gate = "spine" /\ rank = 1 /\ rung = "fastpath"
      /\ attempts = AllPending /\ member = 1 /\ draft = NoDraft
  BY DEF Init, FaithfulnessInit, DemonstrationInit
<1>3. PICK l \in Nat, n \in Nat, m \in Nat :
        l = Len(Order) /\ n = Cardinality(Provers) /\ m = Len(Panel)
  BY <1>1, WorkTypes, FaithfulnessAssumption
<1>4. PICK a \in Nat : a = (MaxLemmas + 1) * PassWork
  BY <1>1, WorkTypes, Products
<1>5. PICK b \in Nat : b = Len(Panel) * MemberWork
  BY <1>1, WorkTypes, Products
<1>6. GateWork = 2 * l + 3
  BY <1>2, <1>3 DEF GateWork
<1>7. EnsembleWork = a + n + 2
  <2>1. Pending = Provers
    BY <1>2 DEF Pending, AllPending
  <2> QED
    BY <1>2, <1>3, <1>4, <2>1 DEF EnsembleWork, PassesLeft
<1>8. PanelWork = b
  <2>1. Len(Panel) + 1 - member = Len(Panel)
    BY <1>2, <1>3
  <2>2. PanelWork = b - 0
    BY <1>2, <1>5, <2>1 DEF PanelWork
  <2> QED
    BY <2>2
<1>9. Work = 1 + (a + n + 2) + b + (2 * l + 3)
  BY <1>2, <1>6, <1>7, <1>8 DEF Work, Certified
<1>10. Budget = 2 * l + 6 + a + n + b
  BY <1>3, <1>4, <1>5 DEF Budget
<1> QED
  BY <1>1, <1>9, <1>10

\* However the oracles answer, the two stages take at most Budget steps: no seed
\* holds the daemon in a retry, a plan or a repair loop, for any ensemble, panel,
\* list of backends and bounds.
CertificationShrinks == Work = Budget /\ [][Lowers]_vars

THEOREM CertificationTerminates == Spec => CertificationShrinks
<1>1. Init => WInv /\ Work = Budget
  BY InitBudget
<1>2. WInv /\ [Next]_vars => WInv'
  BY WInvInductive
<1>3. WInv /\ WInv' /\ [Next]_vars => [Lowers]_vars
  BY StepLowers
<1> QED
  BY <1>1, <1>2, <1>3, PTL DEF Spec, CertificationShrinks
=============================================================================
