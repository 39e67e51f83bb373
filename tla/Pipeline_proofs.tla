-------------------------- MODULE Pipeline_proofs --------------------------
(***************************************************************************)
(* Proofs about Pipeline, for every value of its constants.                *)
(***************************************************************************)
EXTENDS Pipeline, FiniteSetTheorems, TLAPS

(***************************************************************************)
(* What the operations on a candidate keep and change.                     *)
(***************************************************************************)
\* Recording evidence adds one edge and touches nothing else.
LEMMA RecordFacts ==
  ASSUME NEW p \in Propositio, NEW ev \in EdgeEvidence
  PROVE  /\ Record(p, ev) \in Propositio
         /\ Record(p, ev).claim = p.claim
         /\ Record(p, ev).stmt = p.stmt
         /\ Record(p, ev).kernel_verified = p.kernel_verified
         /\ Record(p, ev).finish_reason = p.finish_reason
         /\ EdgeSet(Record(p, ev).edges) = EdgeSet(p.edges) \cup {ev}
<1>1. p.edges \in Seq(EdgeEvidence)
  BY DEF Propositio
<1>2. Record(p, ev).edges = Append(p.edges, ev)
  BY DEF Record, Propositio
<1>3. Append(p.edges, ev) \in Seq(EdgeEvidence)
  BY <1>1
<1>4. EdgeSet(Append(p.edges, ev)) = EdgeSet(p.edges) \cup {ev}
  <2>1. DOMAIN Append(p.edges, ev) = 1..(Len(p.edges) + 1)
    BY <1>1
  <2>2. DOMAIN p.edges = 1..Len(p.edges) /\ Len(p.edges) \in Nat
    BY <1>1
  <2>3. \A i \in DOMAIN p.edges : Append(p.edges, ev)[i] = p.edges[i]
    BY <1>1, <2>2
  <2>4. Append(p.edges, ev)[Len(p.edges) + 1] = ev
    BY <1>1
  <2>5. DOMAIN Append(p.edges, ev) = DOMAIN p.edges \cup {Len(p.edges) + 1}
    BY <2>1, <2>2
  <2> QED
    BY <2>3, <2>4, <2>5 DEF EdgeSet
<1>5. Record(p, ev) \in Propositio
  BY <1>1, <1>3 DEF Record, Propositio
<1> QED
  BY <1>2, <1>4, <1>5 DEF Record, Propositio

\* Quarantine sets the finish reason and touches nothing else.
LEMMA QuarantineFacts ==
  ASSUME NEW p \in Propositio, NEW r \in FinishReasons
  PROVE  /\ Quarantine(p, r) \in Propositio
         /\ Quarantine(p, r).claim = p.claim
         /\ Quarantine(p, r).stmt = p.stmt
         /\ Quarantine(p, r).kernel_verified = p.kernel_verified
         /\ Quarantine(p, r).finish_reason = r
         /\ Quarantine(p, r).edges = p.edges
BY DEF Quarantine, Propositio

\* A fresh candidate carries no evidence and no finish reason.
LEMMA FreshFacts ==
  ASSUME NEW c \in Claims
  PROVE  /\ Fresh(c) \in Propositio
         /\ Fresh(c).finish_reason = "none"
         /\ EdgeSet(Fresh(c).edges) = {}
<1>1. <<>> \in Seq(EdgeEvidence) /\ DOMAIN <<>> = {}
  OBVIOUS
<1> QED
  BY <1>1 DEF Fresh, Propositio, FinishReasons, EdgeSet

LEMMA NoPropFacts ==
  /\ NoProp \in Propositio
  /\ NoProp.finish_reason = "none"
  /\ EdgeSet(NoProp.edges) = {}
<1>1. (CHOOSE c \in Claims : TRUE) \in Claims
  BY CandidateAssumption
<1> QED
  BY <1>1, FreshFacts DEF NoProp


(***************************************************************************)
(* The inductive invariant.  A stage relies on what earlier stages         *)
(* recorded, so it says, per stage, which evidence exists and for what.    *)
(***************************************************************************)
\* Before `demonstrate` nothing was proved, before `faithfulness` nothing was
\* certified, and a seed is in hand exactly when its counters say so.
Early == {"formalize", "refute", "novelty", "steer", "faithfulness"}

StageInv ==
  /\ pc \in Early =>
       \A e \in EdgeSet(prop.edges) : e.edge \notin {"proof", "faithfulness"}
  /\ pc = "demonstrate" => \A e \in EdgeSet(prop.edges) : e.edge # "proof"
  /\ pc \notin {"down", "idle"} => report.seeds >= 1
  /\ pc # "down" => session >= 1
  /\ prop.finish_reason = "promulgated" => pc \in {"settle", "remember"}

Certifies(e) == e.edge = "faithfulness" /\ e.verdict = "pass"

\* Passing evidence is about the statement in hand, or, under a fragment's
\* certificate, about the canonical law of the contract in hand.
EvidenceInv ==
  /\ \A e \in EdgeSet(prop.edges) :
       e.edge = "proof" /\ e.verdict = "pass" =>
         prop.kernel_verified /\ prop.stmt \in Provable /\ e.about = prop.stmt
  /\ \/ \A e \in EdgeSet(prop.edges) : Certifies(e) =>
          e.producer = "fragment" /\ e.about = Canonical[prop.claim]
            /\ Canonical[prop.claim] # NoStatement
     \/ \A e \in EdgeSet(prop.edges) : Certifies(e) =>
          e.producer # "fragment" /\ e.about = prop.stmt

SoundCandidate(p) ==
  /\ p.kernel_verified
  /\ p.stmt \in Provable
  /\ PassedFor(p, "proof") = {p.stmt}
  /\ PassedFor(p, "faithfulness") = {p.stmt}

LawInv ==
  /\ prop.finish_reason = "promulgated" => SoundCandidate(prop)
  /\ LawsAreProvedAsCertified

IInv == TypeOK /\ StageInv /\ EvidenceInv /\ LawInv

----------------------------------------------------------------------------
(***************************************************************************)
(* Initiation.                                                             *)
(***************************************************************************)
LEMMA InitIInv == Init => IInv
<1> SUFFICES ASSUME Init PROVE IInv
  OBVIOUS
<1>1. TypeOK
  BY NoPropFacts, PipelineAssumption, CandidateAssumption
  DEF Init, TypeOK, Stages, Curated, ZeroBudget, ZeroReport, Row
<1>2. StageInv
  BY NoPropFacts DEF Init, StageInv, Early
<1>3. EvidenceInv
  BY NoPropFacts DEF Init, EvidenceInv, Certifies
<1>4. LawInv
  BY NoPropFacts DEF Init, LawInv, LawsAreProvedAsCertified, Laws
<1> QED
  BY <1>1, <1>2, <1>3, <1>4 DEF IInv

(***************************************************************************)
(* Consecution, one lemma per group of actions.                            *)
(***************************************************************************)
\* A step that leaves no candidate in hand and the ledger alone.
LEMMA DropCandidate ==
  ASSUME IInv, TypeOK', prop' = NoProp, ledger' = ledger,
         pc' \in {"down", "idle"}, pc' # "down" => session' >= 1
  PROVE  IInv'
<1>1. StageInv'
  BY NoPropFacts DEF StageInv, Early
<1>2. EvidenceInv'
  BY NoPropFacts DEF EvidenceInv, Certifies
<1>3. LawInv'
  BY NoPropFacts DEF IInv, LawInv, LawsAreProvedAsCertified
<1> QED
  BY <1>1, <1>2, <1>3 DEF IInv

LEMMA BuildDaemonStep == IInv /\ BuildDaemon => IInv'
<1> SUFFICES ASSUME IInv, BuildDaemon PROVE IInv'
  OBVIOUS
<1> USE DEF IInv, BuildDaemon
<1>1. SelfLedgerEntries \in [hashes: SUBSET (Statements \cup {NoStatement}),
                             sigs: SUBSET {Signature[c] : c \in Claims}]
  BY DEF TypeOK, SelfLedgerEntries, Laws, Row
<1>2. TypeOK'
  BY <1>1, PipelineAssumption, CandidateAssumption
  DEF TypeOK, Stages, ZeroBudget, ZeroReport, Row
<1>3. StageInv'
  BY DEF StageInv, TypeOK, Early
<1>4. EvidenceInv' /\ LawInv'
  BY DEF EvidenceInv, Certifies, LawInv, LawsAreProvedAsCertified, SoundCandidate
<1> QED
  BY <1>2, <1>3, <1>4

LEMMA StopStep == IInv /\ Stop => IInv'
<1> SUFFICES ASSUME IInv, Stop PROVE IInv'
  OBVIOUS
<1>1. TypeOK'
  BY NoPropFacts, PipelineAssumption, CandidateAssumption
  DEF IInv, Stop, TypeOK, Stages, Curated, ZeroBudget, ZeroReport
<1> QED
  BY <1>1, DropCandidate DEF Stop

LEMMA SeedErroredStep == IInv /\ SeedErrored => IInv'
<1> SUFFICES ASSUME IInv, SeedErrored PROVE IInv'
  OBVIOUS
<1>1. TypeOK'
  BY NoPropFacts DEF IInv, SeedErrored, TypeOK, Stages
<1>2. session' >= 1
  BY DEF IInv, SeedErrored, StageInv
<1> QED
  BY <1>1, <1>2, DropCandidate DEF SeedErrored

LEMMA RememberStep == IInv /\ Remember => IInv'
<1> SUFFICES ASSUME IInv, Remember PROVE IInv'
  OBVIOUS
<1> USE DEF IInv, Remember
<1>1. /\ RowOf(prop) \in Row
      /\ RowOf(prop).finish_reason = prop.finish_reason
  <2>1. report.seeds \in 1..MaxSeeds /\ session \in 1..MaxSessions
    BY PipelineAssumption, CandidateAssumption DEF TypeOK, StageInv
  <2>2. EdgeSet(prop.edges) \subseteq EdgeEvidence
    BY DEF TypeOK, Propositio, EdgeSet
  <2>3. PassedFor(prop, "proof") \in SUBSET (Statements \cup {NoStatement})
    BY <2>2 DEF PassedFor, EdgeEvidence
  <2>4. PassedFor(prop, "faithfulness") \in SUBSET (Statements \cup {NoStatement})
    BY <2>2 DEF PassedFor, EdgeEvidence
  <2>5. (\E e \in EdgeSet(prop.edges) : e.tier = "judged") \in BOOLEAN
    OBVIOUS
  <2>6. prop \in Propositio
    BY DEF TypeOK
  <2> QED
    BY <2>1, <2>3, <2>4, <2>5, <2>6 DEF RowOf, Row, Propositio
<1>2. TypeOK'
  BY <1>1, NoPropFacts DEF TypeOK, Stages
<1>3. LawInv'
  <2>1. prop.finish_reason = "promulgated" => SoundLaw(RowOf(prop))
    BY DEF LawInv, SoundCandidate, SoundLaw, RowOf
  <2>2. LawsAreProvedAsCertified'
    BY <1>1, <2>1 DEF LawInv, LawsAreProvedAsCertified, Laws
  <2> QED
    BY <2>2, NoPropFacts DEF LawInv
<1>4. StageInv'
  BY NoPropFacts DEF StageInv, Early
<1>5. EvidenceInv'
  BY NoPropFacts DEF EvidenceInv, Certifies
<1> QED
  BY <1>2, <1>3, <1>4, <1>5

LEMMA ConjectureStep == ASSUME NEW c \in Claims PROVE IInv /\ Conjecture(c) => IInv'
<1> SUFFICES ASSUME IInv, Conjecture(c) PROVE IInv'
  OBVIOUS
<1> USE DEF IInv, Conjecture
<1>1. TypeOK'
  <2>1. /\ report \in [seeds: 0..MaxSeeds, settled: Nat, reached_proof: Nat,
                       promulgated: Nat, errored: Nat]
        /\ session \in Nat
    BY PipelineAssumption DEF TypeOK
  <2>2. report.seeds + 1 \in 0..MaxSeeds
    BY <2>1, PipelineAssumption DEF TypeOK, StageInv
  <2> QED
    BY <2>1, <2>2, FreshFacts, PipelineAssumption, CandidateAssumption DEF TypeOK, Stages
<1>2. StageInv'
  BY FreshFacts DEF StageInv, Early, TypeOK
<1>3. EvidenceInv'
  BY FreshFacts DEF EvidenceInv, Certifies
<1>4. LawInv'
  BY FreshFacts DEF LawInv, LawsAreProvedAsCertified
<1> QED
  BY <1>1, <1>2, <1>3, <1>4

LEMMA FormalizeStep ==
  ASSUME NEW s \in Statements \cup {NoStatement}
  PROVE  IInv /\ Formalize(s) => IInv'
<1> SUFFICES ASSUME IInv, Formalize(s) PROVE IInv'
  OBVIOUS
<1> USE DEF IInv, Formalize
<1>0. prop \in Propositio /\ "malformed" \in FinishReasons
  BY DEF TypeOK, FinishReasons
<1>1. /\ prop' \in Propositio
      /\ prop'.edges = prop.edges
      /\ prop'.finish_reason # "promulgated"
      /\ pc' \in {"settle", "refute"}
  BY <1>0, QuarantineFacts DEF Propositio, StageInv
<1>2. TypeOK'
  BY <1>1 DEF TypeOK, Stages
<1>3. StageInv'
  BY <1>1 DEF StageInv, Early
<1>4. EvidenceInv'
  BY <1>1 DEF EvidenceInv, Certifies, StageInv, Early
<1>5. LawInv'
  BY <1>1 DEF LawInv, LawsAreProvedAsCertified
<1> QED
  BY <1>2, <1>3, <1>4, <1>5

\* A stage before certification that records one edge of a kind promotion
\* does not read as proof or certificate.
LEMMA NeutralRecord ==
  ASSUME IInv, pc \in Early, NEW ev \in EdgeEvidence,
         ev.edge \notin {"proof", "faithfulness"},
         prop' \in Propositio, prop'.finish_reason # "promulgated",
         EdgeSet(prop'.edges) = EdgeSet(prop.edges) \cup {ev},
         pc' \in Early \cup {"settle"},
         UNCHANGED <<corpus, budget, report, ledger, session>>
  PROVE  IInv'
<1> USE DEF IInv
<1>1. \A e \in EdgeSet(prop'.edges) : e.edge \notin {"proof", "faithfulness"}
  BY DEF StageInv
<1>2. TypeOK'
  BY DEF TypeOK, Stages, Early
<1>3. StageInv'
  BY <1>1 DEF StageInv, Early
<1>4. EvidenceInv'
  BY <1>1 DEF EvidenceInv, Certifies
<1>5. LawInv'
  BY DEF LawInv, LawsAreProvedAsCertified
<1> QED
  BY <1>2, <1>3, <1>4, <1>5

LEMMA CheapRefuteStep ==
  ASSUME NEW v \in {"pass", "fail"}
  PROVE  IInv /\ CheapRefute(v) => IInv'
<1> SUFFICES ASSUME IInv, CheapRefute(v) PROVE IInv'
  OBVIOUS
<1> DEFINE ev == Evidence("cheap_refutation", "mechanical", v, "none", prop.stmt, FALSE)
<1>1. prop \in Propositio /\ prop.stmt \in Statements \cup {NoStatement}
  BY DEF IInv, TypeOK, Propositio
<1>2. ev \in EdgeEvidence /\ ev.edge = "cheap_refutation"
  BY <1>1 DEF Evidence, EdgeEvidence, EdgeKinds, Tiers, Verdicts, Producers
<1>3. prop' = Record(prop, ev) \/ prop' = Quarantine(Record(prop, ev), "refuted")
  BY DEF CheapRefute
<1>4. prop.finish_reason # "promulgated"
  BY DEF IInv, StageInv, CheapRefute
<1>5. /\ Record(prop, ev) \in Propositio
      /\ Record(prop, ev).finish_reason = prop.finish_reason
      /\ EdgeSet(Record(prop, ev).edges) = EdgeSet(prop.edges) \cup {ev}
  BY <1>1, <1>2, RecordFacts
<1>6. /\ prop' \in Propositio
      /\ prop'.finish_reason # "promulgated"
      /\ EdgeSet(prop'.edges) = EdgeSet(prop.edges) \cup {ev}
  <2>1. CASE prop' = Record(prop, ev)
    BY <2>1, <1>4, <1>5
  <2>2. CASE prop' = Quarantine(Record(prop, ev), "refuted")
    <3>1. "refuted" \in FinishReasons
      BY DEF FinishReasons
    <3> QED
      BY <2>2, <3>1, <1>5, QuarantineFacts
  <2> QED
    BY <2>1, <2>2, <1>3
<1>7. pc' \in Early \cup {"settle"}
  BY DEF CheapRefute, Early
<1> QED
  BY <1>2, <1>6, <1>7, NeutralRecord DEF CheapRefute, Early

LEMMA NoveltyStep == IInv /\ NoveltyCheck => IInv'
<1> SUFFICES ASSUME IInv, NoveltyCheck PROVE IInv'
  OBVIOUS
<1>1. prop \in Propositio /\ prop.stmt \in Statements \cup {NoStatement}
  BY DEF IInv, TypeOK, Propositio
<1>2. PICK v \in {"pass", "fail"}, r \in {"trivial", "known"} :
        \/ prop' = Record(prop, NoveltyEdge(prop, v))
        \/ prop' = Quarantine(Record(prop, NoveltyEdge(prop, v)), r)
  BY DEF NoveltyCheck, NoveltyReason
<1> DEFINE ev == NoveltyEdge(prop, v)
<1>3. ev \in EdgeEvidence /\ ev.edge = "novelty"
  BY <1>1 DEF NoveltyEdge, Evidence, EdgeEvidence, EdgeKinds, Tiers, Verdicts, Producers
<1>4. prop.finish_reason # "promulgated"
  BY DEF IInv, StageInv, NoveltyCheck
<1>5. /\ Record(prop, ev) \in Propositio
      /\ Record(prop, ev).finish_reason = prop.finish_reason
      /\ EdgeSet(Record(prop, ev).edges) = EdgeSet(prop.edges) \cup {ev}
  BY <1>1, <1>3, RecordFacts
<1>6. /\ prop' \in Propositio
      /\ prop'.finish_reason # "promulgated"
      /\ EdgeSet(prop'.edges) = EdgeSet(prop.edges) \cup {ev}
  BY <1>2, <1>4, <1>5, QuarantineFacts DEF FinishReasons
<1>7. pc' \in Early \cup {"settle"}
  BY DEF NoveltyCheck, Early
<1> QED
  BY <1>3, <1>6, <1>7, NeutralRecord DEF NoveltyCheck, Early

LEMMA SteerStep == IInv /\ SteerContract => IInv'
<1> SUFFICES ASSUME IInv, SteerContract PROVE IInv'
  OBVIOUS
<1> USE DEF IInv, SteerContract
<1>1. PICK d \in Claims : prop' = [prop EXCEPT !.claim = d]
  BY DEF TypeOK, Propositio
<1>2. /\ prop' \in Propositio /\ prop'.edges = prop.edges
      /\ prop'.finish_reason = prop.finish_reason
  BY <1>1 DEF TypeOK, Propositio
<1>3. TypeOK'
  BY <1>2 DEF TypeOK, Stages
<1>4. StageInv'
  BY <1>2 DEF StageInv, Early
<1>5. EvidenceInv'
  BY <1>2 DEF EvidenceInv, Certifies, StageInv, Early
<1>6. LawInv'
  BY <1>2 DEF LawInv, LawsAreProvedAsCertified, StageInv
<1> QED
  BY <1>3, <1>4, <1>5, <1>6

\* Every edge the gate records is a well-formed certificate, about the statement
\* in hand or, a fragment's, about the canonical law of the contract in hand.
LEMMA FaithfulnessEdgeFacts ==
  ASSUME prop \in Propositio, NEW ev \in FaithfulnessEdges(prop)
  PROVE  /\ ev \in EdgeEvidence
         /\ ev.edge = "faithfulness"
         /\ \/ ev.producer = "fragment" /\ ev.about = Canonical[prop.claim]
                 /\ Canonical[prop.claim] # NoStatement
            \/ ev.producer # "fragment" /\ ev.about = prop.stmt
<1>1. prop.stmt \in Statements \cup {NoStatement}
  BY DEF Propositio
<1>2. Canonical[prop.claim] \in Statements \cup {NoStatement}
  BY TrustAssumption DEF Propositio
<1>3. PICK t \in Tiers, v \in Verdicts, who \in Producers :
        \/ /\ who # "fragment"
           /\ ev = Evidence("faithfulness", t, v, who, prop.stmt, FALSE)
        \/ /\ who = "fragment" /\ Canonical[prop.claim] # NoStatement
           /\ ev = Evidence("faithfulness", t, v, who, Canonical[prop.claim], FALSE)
  <2> DEFINE Other(t, v, who) ==
        ev = Evidence("faithfulness", t, v, who, prop.stmt, FALSE)
  <2>1. CASE Other("adversarial", "fail", "gaming_witness")
    BY <2>1 DEF Tiers, Verdicts, Producers, FaithfulnessProducers
  <2>2. CASE \E v \in {"pass", "fail"} : Other("mechanical", v, "walnut")
    BY <2>2 DEF Tiers, Verdicts, Producers, FaithfulnessProducers
  <2>3. CASE \E v \in {"pass", "fail"} : Other("judged", v, "FaithfulnessJudge")
    BY <2>3 DEF Tiers, Verdicts, Producers
  <2>4. CASE \E v \in {"pass", "fail"} : Other("mechanical", v, "ClaimProbe")
    BY <2>4 DEF Tiers, Verdicts, Producers, FaithfulnessProducers
  <2>5. CASE Other("mechanical", "defer", "FaithfulnessGate")
    BY <2>5 DEF Tiers, Verdicts, Producers, FaithfulnessProducers
  <2>6. CASE /\ Canonical[prop.claim] # NoStatement
             /\ ev = Evidence("faithfulness", "mechanical", "pass", "fragment",
                              Canonical[prop.claim], FALSE)
    BY <2>6 DEF Tiers, Verdicts, Producers, FaithfulnessProducers
  <2> QED
    BY <2>1, <2>2, <2>3, <2>4, <2>5, <2>6 DEF FaithfulnessEdges, Faith
<1>4. PICK a \in Statements \cup {NoStatement} :
        /\ ev = Evidence("faithfulness", t, v, who, a, FALSE)
        /\ \/ who # "fragment" /\ a = prop.stmt
           \/ /\ who = "fragment" /\ a = Canonical[prop.claim]
              /\ Canonical[prop.claim] # NoStatement
  BY <1>1, <1>2, <1>3
<1>5. ev \in EdgeEvidence
  BY <1>4 DEF Evidence, EdgeEvidence, EdgeKinds
<1>6. ev.edge = "faithfulness" /\ ev.producer = who /\ ev.about = a
  BY <1>4 DEF Evidence
<1> QED
  BY <1>4, <1>5, <1>6

LEMMA FaithfulnessStep == IInv /\ FaithfulnessCheck => IInv'
<1> SUFFICES ASSUME IInv, FaithfulnessCheck PROVE IInv'
  OBVIOUS
<1> USE DEF IInv
<1>1. PICK ev \in FaithfulnessEdges(prop) :
        /\ prop' = Quarantine(Record(prop, ev), FaithfulnessReason(ev))
        /\ pc' = IF ev.verdict = "pass" THEN "demonstrate" ELSE "settle"
  BY DEF FaithfulnessCheck
<1>2. prop \in Propositio
  BY DEF TypeOK
<1>3. /\ ev \in EdgeEvidence
      /\ ev.edge = "faithfulness"
      /\ \/ ev.producer = "fragment" /\ ev.about = Canonical[prop.claim]
              /\ Canonical[prop.claim] # NoStatement
         \/ ev.producer # "fragment" /\ ev.about = prop.stmt
  BY <1>2, FaithfulnessEdgeFacts
<1>4. FaithfulnessReason(ev) \in FinishReasons \ {"promulgated"}
  BY <1>3 DEF FaithfulnessReason, FinishReasons, EdgeEvidence, Verdicts
<1>5. /\ Record(prop, ev) \in Propositio
      /\ Record(prop, ev).claim = prop.claim
      /\ Record(prop, ev).stmt = prop.stmt
      /\ EdgeSet(Record(prop, ev).edges) = EdgeSet(prop.edges) \cup {ev}
  BY <1>2, <1>3, RecordFacts
<1>6. /\ prop' \in Propositio
      /\ prop'.claim = prop.claim /\ prop'.stmt = prop.stmt
      /\ prop'.finish_reason # "promulgated"
      /\ EdgeSet(prop'.edges) = EdgeSet(prop.edges) \cup {ev}
  BY <1>1, <1>4, <1>5, QuarantineFacts
<1>7. \A e \in EdgeSet(prop.edges) : e.edge \notin {"proof", "faithfulness"}
  BY DEF StageInv, FaithfulnessCheck, Early
<1>8. TypeOK'
  BY <1>1, <1>6 DEF TypeOK, Stages, FaithfulnessCheck
<1>9. StageInv'
  BY <1>1, <1>3, <1>6, <1>7 DEF StageInv, Early, FaithfulnessCheck
<1>10. EvidenceInv'
  BY <1>3, <1>6, <1>7 DEF EvidenceInv, Certifies
<1>11. LawInv'
  BY <1>6 DEF LawInv, LawsAreProvedAsCertified, FaithfulnessCheck
<1> QED
  BY <1>8, <1>9, <1>10, <1>11

LEMMA FastPathStep == IInv /\ DemonstrateFastPath => IInv'
<1> SUFFICES ASSUME IInv, DemonstrateFastPath PROVE IInv'
  OBVIOUS
<1> USE DEF IInv, DemonstrateFastPath
<1> DEFINE law == Canonical[prop.claim]
           ev == ProofEdge(law, TRUE, TRUE)
<1>1. prop \in Propositio
  BY DEF TypeOK
<1>2. law \in Statements /\ law \in Provable
  BY <1>1, TrustAssumption DEF FastPathApplies, Discharge, Propositio
<1>3. /\ ev \in EdgeEvidence /\ ev.edge = "proof" /\ ev.about = law
  BY <1>2 DEF ProofEdge, Evidence, EdgeEvidence, EdgeKinds, Tiers, Verdicts, Producers
<1>4. /\ Record(prop, ev) \in Propositio
      /\ Record(prop, ev).claim = prop.claim
      /\ Record(prop, ev).finish_reason = prop.finish_reason
      /\ EdgeSet(Record(prop, ev).edges) = EdgeSet(prop.edges) \cup {ev}
  BY <1>1, <1>3, RecordFacts
<1>5. prop' = [Record(prop, ev) EXCEPT !.stmt = law, !.kernel_verified = TRUE]
  BY DEF FastPath
<1>6. /\ prop' \in Propositio
      /\ prop'.claim = prop.claim /\ prop'.stmt = law /\ prop'.kernel_verified
      /\ prop'.finish_reason = prop.finish_reason
      /\ EdgeSet(prop'.edges) = EdgeSet(prop.edges) \cup {ev}
  BY <1>2, <1>4, <1>5 DEF Propositio
<1>7. /\ prop.finish_reason # "promulgated"
      /\ \A e \in EdgeSet(prop.edges) : e.edge # "proof"
  BY DEF StageInv
<1>8. TypeOK'
  BY <1>6 DEF TypeOK, Stages, Reached
<1>9. StageInv'
  BY <1>6, <1>7 DEF StageInv, Early, Reached, TypeOK
<1>10. EvidenceInv'
  <2>1. \E e \in EdgeSet(prop.edges) : Certifies(e) /\ e.producer = "fragment"
    BY DEF FastPathApplies, CertifiedBy, Certifies
  <2>2. \A e \in EdgeSet(prop.edges) : Certifies(e) =>
          e.producer = "fragment" /\ e.about = law /\ law # NoStatement
    BY <2>1 DEF EvidenceInv
  <2>3. \A e \in EdgeSet(prop'.edges) : Certifies(e) =>
          e.producer = "fragment" /\ e.about = Canonical[prop'.claim]
            /\ Canonical[prop'.claim] # NoStatement
    BY <1>3, <1>6, <2>2 DEF Certifies
  <2>4. \A e \in EdgeSet(prop'.edges) : e.edge = "proof" => e.about = prop'.stmt
    BY <1>3, <1>6, <1>7
  <2> QED
    BY <1>2, <1>6, <2>3, <2>4 DEF EvidenceInv
<1>11. LawInv'
  BY <1>6, <1>7 DEF LawInv, LawsAreProvedAsCertified
<1> QED
  BY <1>8, <1>9, <1>10, <1>11

LEMMA EnsembleStep ==
  ASSUME NEW ok \in BOOLEAN
  PROVE  IInv /\ DemonstrateEnsemble(ok) => IInv'
<1> SUFFICES ASSUME IInv, DemonstrateEnsemble(ok) PROVE IInv'
  OBVIOUS
<1> USE DEF IInv, DemonstrateEnsemble
<1> DEFINE ev == ProofEdge(prop.stmt, ok, FALSE)
<1>1. prop \in Propositio /\ prop.stmt \in Statements \cup {NoStatement}
  BY DEF TypeOK, Propositio
<1>2. ok => prop.stmt \in Provable
  BY DEF Discharge
<1>3. /\ ev \in EdgeEvidence /\ ev.edge = "proof" /\ ev.about = prop.stmt
      /\ ev.verdict = "pass" => ok
  BY <1>1 DEF ProofEdge, Evidence, EdgeEvidence, EdgeKinds, Tiers, Verdicts, Producers
<1>4. /\ Record(prop, ev) \in Propositio
      /\ Record(prop, ev).claim = prop.claim
      /\ Record(prop, ev).stmt = prop.stmt
      /\ Record(prop, ev).finish_reason = prop.finish_reason
      /\ EdgeSet(Record(prop, ev).edges) = EdgeSet(prop.edges) \cup {ev}
  BY <1>1, <1>3, RecordFacts
<1>5. /\ prop' \in Propositio
      /\ prop'.claim = prop.claim /\ prop'.stmt = prop.stmt
      /\ prop'.kernel_verified = ok
      /\ prop'.finish_reason = prop.finish_reason
      /\ EdgeSet(prop'.edges) = EdgeSet(prop.edges) \cup {ev}
  BY <1>4 DEF Propositio
<1>6. /\ prop.finish_reason # "promulgated"
      /\ \A e \in EdgeSet(prop.edges) : e.edge # "proof"
  BY DEF StageInv
<1>7. TypeOK'
  BY <1>5 DEF TypeOK, Stages, Reached
<1>8. StageInv'
  BY <1>5, <1>6 DEF StageInv, Early, Reached, TypeOK
<1>9. EvidenceInv'
  BY <1>2, <1>3, <1>5, <1>6 DEF EvidenceInv, Certifies
<1>10. LawInv'
  BY <1>5, <1>6 DEF LawInv, LawsAreProvedAsCertified
<1> QED
  BY <1>7, <1>8, <1>9, <1>10

LEMMA RevalidateStep == IInv /\ Revalidate => IInv'
<1> SUFFICES ASSUME IInv, Revalidate PROVE IInv'
  OBVIOUS
<1> USE DEF IInv, Revalidate
<1> DEFINE ev == NoveltyEdge(prop, "fail")
<1>1. prop \in Propositio /\ prop.stmt \in Statements \cup {NoStatement}
  BY DEF TypeOK, Propositio
<1>2. PICK r \in {"trivial", "known"} :
        prop' = prop \/ prop' = Record(Quarantine(prop, r), NoveltyEdge(prop, "fail"))
  BY DEF Revalidated, NoveltyReason
<1>3. prop.finish_reason # "promulgated"
  BY DEF StageInv
<1>4. ev \in EdgeEvidence /\ ev.edge = "novelty"
  BY <1>1 DEF NoveltyEdge, Evidence, EdgeEvidence, EdgeKinds, Tiers, Verdicts, Producers
<1>5. /\ prop' \in Propositio
      /\ prop'.claim = prop.claim /\ prop'.stmt = prop.stmt
      /\ prop'.kernel_verified = prop.kernel_verified
      /\ prop'.finish_reason # "promulgated"
      /\ EdgeSet(prop'.edges) \in {EdgeSet(prop.edges), EdgeSet(prop.edges) \cup {ev}}
  <2>1. CASE prop' = prop
    BY <2>1, <1>1, <1>3
  <2>2. CASE prop' = Record(Quarantine(prop, r), ev)
    <3>1. r \in FinishReasons
      BY DEF FinishReasons
    <3>2. /\ Quarantine(prop, r) \in Propositio
          /\ Quarantine(prop, r).claim = prop.claim
          /\ Quarantine(prop, r).stmt = prop.stmt
          /\ Quarantine(prop, r).kernel_verified = prop.kernel_verified
          /\ Quarantine(prop, r).finish_reason = r
          /\ Quarantine(prop, r).edges = prop.edges
      BY <1>1, <3>1, QuarantineFacts
    <3> QED
      BY <2>2, <1>4, <3>2, RecordFacts
  <2> QED
    BY <1>2, <2>1, <2>2
<1>6. TypeOK'
  BY <1>5 DEF TypeOK, Stages
<1>7. StageInv'
  BY <1>5 DEF StageInv, Early
<1>8. EvidenceInv'
  BY <1>4, <1>5 DEF EvidenceInv, Certifies
<1>9. LawInv'
  BY <1>5 DEF LawInv, LawsAreProvedAsCertified
<1> QED
  BY <1>6, <1>7, <1>8, <1>9

\* The verdict is the place where the evidence becomes a law.
LEMMA PromotableIsSound ==
  ASSUME IInv, IsPromotable(prop)
  PROVE  SoundCandidate(prop)
<1>1. /\ \E e \in EdgeSet(prop.edges) : e.edge = "proof"
      /\ \E e \in EdgeSet(prop.edges) : e.edge = "faithfulness"
  BY DEF IsPromotable, Required, Present
<1>2. \A e \in EdgeSet(prop.edges) :
        e.edge \in {"proof", "faithfulness"} => e.verdict = "pass"
  BY DEF IsPromotable, ValidatePath, Required
<1>3. /\ prop.kernel_verified /\ prop.stmt \in Provable
      /\ PassedFor(prop, "proof") = {prop.stmt}
  BY <1>1, <1>2 DEF IInv, EvidenceInv, PassedFor
<1>4. \A e \in EdgeSet(prop.edges) : Certifies(e) => e.about = prop.stmt
  <2>1. CASE \A e \in EdgeSet(prop.edges) : Certifies(e) =>
               e.producer = "fragment" /\ e.about = Canonical[prop.claim]
                 /\ Canonical[prop.claim] # NoStatement
    BY <2>1 DEF IsPromotable, StatementBound, CanonicalTheoremSrc, Certifies
  <2>2. CASE \A e \in EdgeSet(prop.edges) : Certifies(e) =>
               e.producer # "fragment" /\ e.about = prop.stmt
    BY <2>2
  <2> QED
    BY <2>1, <2>2 DEF IInv, EvidenceInv
<1>5. PassedFor(prop, "faithfulness") = {prop.stmt}
  BY <1>1, <1>2, <1>4 DEF PassedFor, Certifies
<1> QED
  BY <1>3, <1>5 DEF SoundCandidate

LEMMA PromoteStep == IInv /\ Promote => IInv'
<1> SUFFICES ASSUME IInv, Promote PROVE IInv'
  OBVIOUS
<1> USE DEF IInv, Promote
<1>1. prop \in Propositio
  BY DEF TypeOK
<1>2. /\ prop' \in Propositio
      /\ prop'.claim = prop.claim /\ prop'.stmt = prop.stmt
      /\ prop'.kernel_verified = prop.kernel_verified
      /\ prop'.edges = prop.edges
      /\ prop'.finish_reason = "promulgated" => IsPromotable(prop)
  <2>1. {"promulgated", "over_budget", "unproven"} \subseteq FinishReasons
    BY DEF FinishReasons
  <2>2. prop.finish_reason # "promulgated"
    BY DEF StageInv
  <2>3. CASE IsPromotable(prop) /\ Admitted(prop)
    BY <1>1, <2>1, <2>3 DEF Propositio
  <2>4. CASE IsPromotable(prop) /\ ~Admitted(prop)
    BY <1>1, <2>1, <2>4, QuarantineFacts
  <2>5. CASE ~IsPromotable(prop)
    BY <1>1, <2>1, <2>2, <2>5, QuarantineFacts
  <2> QED
    BY <2>3, <2>4, <2>5
<1>3. TypeOK'
  BY <1>2 DEF TypeOK, Stages, Counted
<1>4. StageInv'
  BY <1>2 DEF StageInv, Early
<1>5. EvidenceInv'
  BY <1>2 DEF EvidenceInv, Certifies
<1>6. LawInv'
  BY <1>2, PromotableIsSound
  DEF LawInv, LawsAreProvedAsCertified, SoundCandidate, PassedFor
<1> QED
  BY <1>3, <1>4, <1>5, <1>6

LEMMA SettleStep == IInv /\ Settle => IInv'
<1> SUFFICES ASSUME IInv, Settle PROVE IInv'
  OBVIOUS
<1> USE DEF IInv, Settle
<1>1. TypeOK'
  <2>1. PICK n \in {0, 1} :
          report' = [report EXCEPT !.settled = @ + 1, !.promulgated = @ + n]
    OBVIOUS
  <2>2. report' \in [seeds: 0..MaxSeeds, settled: Nat, reached_proof: Nat,
                     promulgated: Nat, errored: Nat]
    <3>1. report \in [seeds: 0..MaxSeeds, settled: Nat, reached_proof: Nat,
                      promulgated: Nat, errored: Nat]
      BY DEF TypeOK
    <3>2. report.settled + 1 \in Nat /\ report.promulgated + n \in Nat
      BY <3>1
    <3> QED
      BY <2>1, <3>1, <3>2
  <2> QED
    BY <2>2 DEF TypeOK, Stages
<1>2. StageInv'
  BY DEF StageInv, Early, TypeOK
<1>3. EvidenceInv'
  BY DEF EvidenceInv, Certifies
<1>4. LawInv'
  BY DEF LawInv, LawsAreProvedAsCertified, SoundCandidate, PassedFor
<1> QED
  BY <1>1, <1>2, <1>3, <1>4

LEMMA StutterStep == IInv /\ UNCHANGED vars => IInv'
BY DEF vars, IInv, TypeOK, StageInv, Early, EvidenceInv, Certifies, LawInv,
       LawsAreProvedAsCertified, SoundCandidate, PassedFor

LEMMA StepIInv == IInv /\ [Next]_vars => IInv'
BY BuildDaemonStep, StopStep, ConjectureStep, SeedErroredStep, FormalizeStep,
   CheapRefuteStep, NoveltyStep, SteerStep, FaithfulnessStep, FastPathStep,
   EnsembleStep, RevalidateStep, PromoteStep, SettleStep, RememberStep, StutterStep
DEF Next

----------------------------------------------------------------------------
(***************************************************************************)
(* The theorems.                                                           *)
(***************************************************************************)
\* The invariant is inductive.
THEOREM InductiveInvariant == Spec => []IInv
BY InitIInv, StepIInv, PTL DEF Spec

\* Every reachable state of the daemon is well typed.
THEOREM TypeCorrectness == Spec => []TypeOK
<1>1. IInv => TypeOK
  BY DEF IInv
<1> QED
  BY <1>1, InductiveInvariant, PTL

\* However statements and contracts are rewritten between the gates, whatever
\* the oracles answer and wherever the process dies, every law on the ledger
\* was kernel-proved and certified faithful as one and the same statement.
THEOREM LawSoundness == Spec => []LawsAreProvedAsCertified
<1>1. IInv => LawsAreProvedAsCertified
  BY DEF IInv, LawInv
<1> QED
  BY <1>1, InductiveInvariant, PTL

----------------------------------------------------------------------------
\* Admission keeps the judged fraction, whichever kind of law is admitted.
LEMMA AdmissionKeepsFraction ==
  ASSUME budget \in [total: Nat, judged: Nat], BudgetWithinFraction, Admitted(prop)
  PROVE  Counted(prop).judged * JudgedDen <= JudgedNum * Counted(prop).total
<1>1. JudgedNum \in Nat /\ JudgedDen \in Nat /\ budget.total \in Nat /\ budget.judged \in Nat
  BY TrustAssumption
<1>2. CASE IsJudgedFaithfulness(prop.edges)
  BY <1>1, <1>2 DEF Admitted, AdmitsJudgedFaithfulness, Counted
<1>3. CASE ~IsJudgedFaithfulness(prop.edges)
  <2>1. Counted(prop).judged = budget.judged /\ Counted(prop).total = budget.total + 1
    BY <1>1, <1>3 DEF Counted
  <2>2. JudgedNum * (budget.total + 1) = JudgedNum * budget.total + JudgedNum
    BY <1>1
  <2>3. JudgedNum * budget.total \in Nat /\ budget.judged * JudgedDen \in Nat
    BY <1>1
  <2> QED
    BY <1>1, <2>1, <2>2, <2>3 DEF BudgetWithinFraction
<1> QED
  BY <1>2, <1>3

LEMMA StepBudget ==
  IInv /\ BudgetWithinFraction /\ [Next]_vars => BudgetWithinFraction'
<1> SUFFICES ASSUME IInv, BudgetWithinFraction, [Next]_vars
             PROVE  BudgetWithinFraction'
  OBVIOUS
<1>0. budget \in [total: Nat, judged: Nat]
  BY DEF IInv, TypeOK
<1>1. budget' = budget => BudgetWithinFraction'
  BY DEF BudgetWithinFraction
<1>2. budget' = ZeroBudget => BudgetWithinFraction'
  BY TrustAssumption DEF BudgetWithinFraction, ZeroBudget
<1>3. CASE Promote
  <2>1. CASE IsPromotable(prop) /\ Admitted(prop)
    BY <1>0, <1>3, <2>1, AdmissionKeepsFraction DEF Promote, BudgetWithinFraction
  <2>2. CASE ~(IsPromotable(prop) /\ Admitted(prop))
    BY <1>1, <1>3, <2>2 DEF Promote
  <2> QED
    BY <2>1, <2>2
<1>4. CASE BuildDaemon \/ Stop
  BY <1>2, <1>4 DEF BuildDaemon, Stop
<1>5. CASE ~(Promote \/ BuildDaemon \/ Stop)
  <2>1. budget' = budget
    BY <1>5 DEF Next, vars, Conjecture, SeedErrored, Formalize, CheapRefute,
       NoveltyCheck, SteerContract, FaithfulnessCheck, DemonstrateFastPath,
       DemonstrateEnsemble, Revalidate, Settle, Remember
  <2> QED
    BY <1>1, <2>1
<1> QED
  BY <1>3, <1>4, <1>5

\* The judged residual one process admits never exceeds the operator's
\* fraction, whatever the fraction.
THEOREM BudgetSoundness == Spec => []BudgetWithinFraction
<1>1. Init => BudgetWithinFraction
  BY TrustAssumption DEF Init, BudgetWithinFraction, ZeroBudget
<1> QED
  BY <1>1, StepBudget, InductiveInvariant, PTL DEF Spec

----------------------------------------------------------------------------
(***************************************************************************)
(* Novelty: which statement the recorded novelty verdict is about, stage   *)
(* by stage.                                                               *)
(***************************************************************************)
NovelInv ==
  /\ pc \in {"steer", "faithfulness", "demonstrate"} =>
       prop.stmt \notin corpus.hashes
  /\ pc = "revalidate" =>
       ByDecisionProcedure(prop) \/ prop.stmt \notin corpus.hashes
  /\ pc = "promote" =>
       \/ prop.stmt \notin corpus.hashes
       \/ \E e \in EdgeSet(prop.edges) : e.edge = "novelty" /\ e.verdict = "fail"
  /\ prop.finish_reason = "promulgated" => prop.stmt \notin corpus.hashes
  /\ \A r \in ledger : r.session <= session
  /\ LawsNovelInSession

\* Steps that leave corpus, ledger and session alone keep the ledger's part.
LEMMA LedgerPartKept ==
  ASSUME NovelInv, UNCHANGED <<corpus, ledger, session>>, pc # "down"
  PROVE  LawsNovelInSession' /\ (\A r \in ledger : r.session <= session)'
BY DEF NovelInv, LawsNovelInSession

LEMMA StepNovel == IInv /\ NovelInv /\ [Next]_vars => NovelInv'
<1> SUFFICES ASSUME IInv, NovelInv, [Next]_vars PROVE NovelInv'
  OBVIOUS
<1>0. /\ prop \in Propositio /\ NoProp.finish_reason = "none"
      /\ session \in Nat /\ \A r \in ledger : r.session \in Nat
  BY NoPropFacts, PipelineAssumption, CandidateAssumption DEF IInv, TypeOK, Row
<1>a. prop.finish_reason = "promulgated" => pc \in {"settle", "remember"}
  BY DEF IInv, StageInv
<1>1. CASE BuildDaemon
  BY <1>0, <1>1, <1>a DEF BuildDaemon, NovelInv, LawsNovelInSession, Laws
<1>2. CASE Stop
  BY <1>0, <1>2 DEF Stop, NovelInv, LawsNovelInSession
<1>3. CASE SeedErrored
  <2>1. pc # "down"
    BY <1>3 DEF SeedErrored
  <2> QED
    BY <1>0, <1>3, <2>1, LedgerPartKept DEF SeedErrored, NovelInv
<1>4. ASSUME NEW c \in Claims, Conjecture(c) PROVE NovelInv'
  <2>1. Fresh(c).finish_reason = "none"
    BY FreshFacts
  <2> QED
    BY <1>4, <2>1, LedgerPartKept DEF Conjecture, NovelInv
<1>5. ASSUME NEW s \in Statements \cup {NoStatement}, Formalize(s) PROVE NovelInv'
  <2>1. prop'.finish_reason # "promulgated"
    BY <1>0, <1>a, <1>5 DEF Formalize, Quarantine, Propositio
  <2> QED
    BY <1>5, <2>1, LedgerPartKept DEF Formalize, NovelInv
<1>6. ASSUME NEW v \in {"pass", "fail"}, CheapRefute(v) PROVE NovelInv'
  <2>1. prop'.finish_reason # "promulgated"
    BY <1>0, <1>a, <1>6 DEF CheapRefute, Quarantine, Record, Propositio
  <2> QED
    BY <1>6, <2>1, LedgerPartKept DEF CheapRefute, NovelInv
<1>7. CASE NoveltyCheck
  <2>1. /\ prop'.finish_reason # "promulgated"
        /\ prop'.stmt = prop.stmt
    BY <1>0, <1>a, <1>7 DEF NoveltyCheck, NoveltyReason, Quarantine, Record, Propositio
  <2>2. pc' = "steer" => prop.stmt \notin corpus.hashes
    BY <1>7 DEF NoveltyCheck, NoveltyReason
  <2> QED
    BY <1>7, <2>1, <2>2, LedgerPartKept DEF NoveltyCheck, NovelInv
<1>8. CASE SteerContract
  <2>1. prop'.finish_reason = prop.finish_reason /\ prop'.stmt = prop.stmt
    BY <1>0, <1>8 DEF SteerContract, Propositio
  <2> QED
    BY <1>8, <1>a, <2>1, LedgerPartKept DEF SteerContract, NovelInv
<1>9. CASE FaithfulnessCheck
  <2>1. prop'.finish_reason # "promulgated" /\ prop'.stmt = prop.stmt
    BY <1>0, <1>9 DEF FaithfulnessCheck, FaithfulnessReason, Quarantine, Record, Propositio
  <2> QED
    BY <1>9, <2>1, LedgerPartKept DEF FaithfulnessCheck, NovelInv
<1>10. CASE DemonstrateFastPath
  <2> DEFINE ev == ProofEdge(Canonical[prop.claim], TRUE, TRUE)
  <2>1. ev \in EdgeEvidence /\ ev.edge = "proof" /\ ev.dp
    BY <1>0, <1>10, TrustAssumption
    DEF DemonstrateFastPath, FastPathApplies, ProofEdge, Evidence, EdgeEvidence,
        EdgeKinds, Tiers, Verdicts, Producers, Propositio
  <2>2. /\ Record(prop, ev) \in Propositio
        /\ Record(prop, ev).finish_reason = prop.finish_reason
        /\ EdgeSet(Record(prop, ev).edges) = EdgeSet(prop.edges) \cup {ev}
    BY <1>0, <2>1, RecordFacts
  <2>3. /\ prop'.edges = Record(prop, ev).edges
        /\ prop'.finish_reason = prop.finish_reason
    BY <1>10, <2>2 DEF DemonstrateFastPath, FastPath, Propositio
  <2>4. ByDecisionProcedure(prop')
    BY <2>1, <2>2, <2>3 DEF ByDecisionProcedure
  <2> QED
    BY <1>10, <1>a, <2>3, <2>4, LedgerPartKept
    DEF DemonstrateFastPath, NovelInv, ByDecisionProcedure
<1>11. ASSUME NEW ok \in BOOLEAN, DemonstrateEnsemble(ok) PROVE NovelInv'
  <2>1. prop'.finish_reason = prop.finish_reason /\ prop'.stmt = prop.stmt
    BY <1>0, <1>11 DEF DemonstrateEnsemble, Record, Propositio
  <2> QED
    BY <1>11, <1>a, <2>1, LedgerPartKept DEF DemonstrateEnsemble, NovelInv
<1>12. CASE Revalidate
  <2>1. PICK trivial \in BOOLEAN : prop' = Revalidated(prop, trivial)
    BY <1>12 DEF Revalidate
  <2> DEFINE r == NoveltyReason(prop, trivial)
             ev == NoveltyEdge(prop, "fail")
  <2>2. CASE ByDecisionProcedure(prop) /\ r # "none"
    <3>1. r \in FinishReasons \ {"promulgated"}
      BY DEF NoveltyReason, FinishReasons
    <3>2. ev \in EdgeEvidence /\ ev.edge = "novelty" /\ ev.verdict = "fail"
      BY <1>0 DEF NoveltyEdge, Evidence, EdgeEvidence, EdgeKinds, Tiers,
         Verdicts, Producers, Propositio
    <3>3. /\ Quarantine(prop, r) \in Propositio
          /\ Quarantine(prop, r).edges = prop.edges
          /\ Quarantine(prop, r).finish_reason = r
      BY <1>0, <3>1, QuarantineFacts
    <3>4. prop' = Record(Quarantine(prop, r), ev)
      BY <2>1, <2>2 DEF Revalidated
    <3>5. /\ EdgeSet(prop'.edges) = EdgeSet(prop.edges) \cup {ev}
          /\ prop'.finish_reason = r
      BY <3>2, <3>3, <3>4, RecordFacts
    <3> QED
      BY <1>12, <3>1, <3>2, <3>5, LedgerPartKept DEF Revalidate, NovelInv
  <2>3. CASE ~(ByDecisionProcedure(prop) /\ r # "none")
    <3>1. prop' = prop
      BY <2>1, <2>3 DEF Revalidated
    <3>2. prop.stmt \notin corpus.hashes
      BY <1>12, <2>3 DEF Revalidate, NovelInv, NoveltyReason
    <3> QED
      BY <1>12, <1>a, <3>1, <3>2, LedgerPartKept DEF Revalidate, NovelInv
  <2> QED
    BY <2>2, <2>3
<1>13. CASE Promote
  <2>1. prop'.finish_reason = "promulgated" => IsPromotable(prop)
    BY <1>0, <1>13, <1>a DEF Promote, Quarantine, Propositio
  <2>2. prop'.stmt = prop.stmt
    BY <1>0, <1>13 DEF Promote, Quarantine, Propositio
  <2>3. IsPromotable(prop) => prop.stmt \notin corpus.hashes
    BY <1>13 DEF Promote, NovelInv, IsPromotable, ValidatePath, Required
  <2> QED
    BY <1>13, <2>1, <2>2, <2>3, LedgerPartKept DEF Promote, NovelInv
<1>14. CASE Settle
  <2>1. pc # "down"
    BY <1>14 DEF Settle
  <2> QED
    BY <1>14, <2>1, LedgerPartKept DEF Settle, NovelInv
<1>15. CASE Remember
  <2>1. /\ RowOf(prop).session = session /\ RowOf(prop).stmt = prop.stmt
        /\ RowOf(prop).finish_reason = prop.finish_reason
    BY DEF RowOf
  <2>2. (\A r \in ledger : r.session <= session)'
    BY <1>0, <1>15, <2>1 DEF Remember, NovelInv
  <2>3. LawsNovelInSession'
    BY <1>15, <2>1 DEF Remember, NovelInv, LawsNovelInSession, Laws
  <2> QED
    BY <1>0, <1>15, <2>2, <2>3 DEF Remember, NovelInv
<1>16. CASE UNCHANGED vars
  BY <1>16 DEF vars, NovelInv, LawsNovelInSession, ByDecisionProcedure
<1> QED
  BY <1>1, <1>2, <1>3, <1>4, <1>5, <1>6, <1>7, <1>8, <1>9, <1>10, <1>11, <1>12,
     <1>13, <1>14, <1>15, <1>16 DEF Next

\* A law was new, in the form it was published, against everything its session
\* knew when it was built, although a fast path may have replaced the statement
\* whose novelty was checked first.
THEOREM NoveltySoundness == Spec => []LawsNovelInSession
<1>1. Init => NovelInv
  BY NoPropFacts DEF Init, NovelInv, LawsNovelInSession
<1>2. NovelInv => LawsNovelInSession
  BY DEF NovelInv
<1> QED
  BY <1>1, <1>2, StepNovel, InductiveInvariant, PTL DEF Spec

----------------------------------------------------------------------------
(***************************************************************************)
(* The pipeline implements the Codex.                                      *)
(***************************************************************************)
\* A candidate in hand has an identity no row of the ledger carries.
IdentityInv ==
  /\ \A r \in ledger : r.session <= session
  /\ pc # "down" =>
       \A r \in ledger : r.session = session => r.pid <= report.seeds
  /\ pc \notin {"down", "idle"} =>
       \A r \in ledger : r.session = session => r.pid # report.seeds

LEMMA StepIdentity == IInv /\ IdentityInv /\ [Next]_vars => IdentityInv'
<1> SUFFICES ASSUME IInv, IdentityInv, [Next]_vars PROVE IdentityInv'
  OBVIOUS
<1>0. /\ session \in Nat /\ report.seeds \in Nat
      /\ \A r \in ledger : r.session \in Nat /\ r.pid \in Nat
      /\ report \in [seeds: 0..MaxSeeds, settled: Nat, reached_proof: Nat,
                     promulgated: Nat, errored: Nat]
  BY PipelineAssumption, CandidateAssumption DEF IInv, TypeOK, Row
<1>1. CASE BuildDaemon
  BY <1>0, <1>1 DEF BuildDaemon, IdentityInv
<1>2. CASE Stop
  BY <1>0, <1>2 DEF Stop, IdentityInv
<1>3. ASSUME NEW c \in Claims, Conjecture(c) PROVE IdentityInv'
  <2>1. report'.seeds = report.seeds + 1
    BY <1>0, <1>3 DEF Conjecture
  <2> QED
    BY <1>0, <1>3, <2>1 DEF Conjecture, IdentityInv
<1>4. CASE Remember
  <2>1. RowOf(prop).session = session /\ RowOf(prop).pid = report.seeds
    BY DEF RowOf
  <2> QED
    BY <1>0, <1>4, <2>1 DEF Remember, IdentityInv
<1>5. CASE ~(BuildDaemon \/ Stop \/ Remember \/ \E c \in Claims : Conjecture(c))
  <2>1. ledger' = ledger /\ session' = session /\ report'.seeds = report.seeds
    BY <1>0, <1>5 DEF Next, vars, SeedErrored, Formalize, CheapRefute,
       NoveltyCheck, SteerContract, FaithfulnessCheck, DemonstrateFastPath,
       DemonstrateEnsemble, Revalidate, Promote, Settle, Reached
  <2>2. /\ pc' # "down" => pc # "down"
        /\ pc' \notin {"down", "idle"} => pc \notin {"down", "idle"}
    BY <1>5 DEF Next, vars, SeedErrored, Formalize, CheapRefute,
       NoveltyCheck, SteerContract, FaithfulnessCheck, DemonstrateFastPath,
       DemonstrateEnsemble, Revalidate, Promote, Settle
  <2> QED
    BY <2>1, <2>2 DEF IdentityInv
<1> QED
  BY <1>1, <1>2, <1>3, <1>4, <1>5

\* A row that is no law is invisible to the reader of the Codex; a law enters
\* under an unused identity, proved and certified.
LEMMA RememberRefines ==
  ASSUME IInv, IdentityInv, Remember
  PROVE  [CodexView!Next]_PublishedLaws
<1> DEFINE law == RowOf(prop)
           id == <<session, report.seeds>>
<1>1. /\ law.session = session /\ law.pid = report.seeds /\ law.stmt = prop.stmt
      /\ law.finish_reason = prop.finish_reason
      /\ law.certified = PassedFor(prop, "faithfulness")
  BY DEF RowOf
<1>2. CASE prop.finish_reason # "promulgated"
  <2>1. Laws(ledger') = Laws(ledger)
    BY <1>1, <1>2 DEF Remember, Laws
  <2> QED
    BY <2>1 DEF PublishedLaws
<1>3. CASE prop.finish_reason = "promulgated"
  <2>1. /\ prop.stmt \in Provable /\ prop.stmt \in Statements
        /\ law.certified = {prop.stmt}
    BY <1>1, <1>3, PipelineAssumption, CandidateAssumption DEF IInv, LawInv, SoundCandidate
  <2>2. id \in (1..MaxSessions) \X (1..MaxSeeds)
    BY PipelineAssumption, CandidateAssumption DEF Remember, IInv, TypeOK, StageInv
  <2>3. Laws(ledger') = Laws(ledger) \cup {law}
    BY <1>1, <1>3 DEF Remember, Laws
  <2>4. PublishedLaws' = PublishedLaws \cup {CodexView!Law(id, prop.stmt)}
    BY <1>1, <2>1, <2>3 DEF PublishedLaws, CodexView!Law
  <2>5. \A l \in PublishedLaws : l.id # id
    <3>1. \A r \in ledger : r.session = session => r.pid # report.seeds
      BY DEF IdentityInv, Remember
    <3> QED
      BY <3>1 DEF PublishedLaws, Laws
  <2>6. CodexView!Enter(id, prop.stmt)
    BY <2>1, <2>4, <2>5 DEF CodexView!Enter
  <2> QED
    BY <2>1, <2>2, <2>6 DEF CodexView!Next
<1> QED
  BY <1>2, <1>3

LEMMA StepRefines ==
  IInv /\ IdentityInv /\ [Next]_vars => [CodexView!Next]_PublishedLaws
<1> SUFFICES ASSUME IInv, IdentityInv, [Next]_vars
             PROVE  [CodexView!Next]_PublishedLaws
  OBVIOUS
<1>1. CASE Remember
  BY <1>1, RememberRefines
<1>2. CASE ~Remember
  <2>1. ledger' = ledger
    BY <1>2 DEF Next, vars, BuildDaemon, Stop, Conjecture, SeedErrored, Formalize,
       CheapRefute, NoveltyCheck, SteerContract, FaithfulnessCheck,
       DemonstrateFastPath, DemonstrateEnsemble, Revalidate, Promote, Settle
  <2> QED
    BY <2>1 DEF PublishedLaws, Laws
<1> QED
  BY <1>1, <1>2

\* Refinement: a reader of the ledger sees exactly a growing record of
\* provable laws, each certified as published, under identities of their own.
THEOREM PipelineImplementsCodex == Spec => ImplementsCodex
<1>1. Init => CodexView!Init
  BY DEF Init, CodexView!Init, PublishedLaws, Laws
<1>2. Init => IdentityInv
  BY DEF Init, IdentityInv
<1> QED
  BY <1>1, <1>2, StepIdentity, StepRefines, InductiveInvariant, PTL
  DEF Spec, ImplementsCodex, CodexView!Spec

----------------------------------------------------------------------------
(***************************************************************************)
(* The tallies.                                                            *)
(***************************************************************************)
\* The seed in hand is the only one not tallied yet.
TallyInv ==
  pc # "down" =>
    report.seeds <= report.settled + report.errored
      + IF pc \in {"idle", "remember"} THEN 0 ELSE 1

LEMMA StepTally == IInv /\ TallyInv /\ [Next]_vars => TallyInv'
<1> SUFFICES ASSUME IInv, TallyInv, [Next]_vars PROVE TallyInv'
  OBVIOUS
<1>0. report \in [seeds: 0..MaxSeeds, settled: Nat, reached_proof: Nat,
                  promulgated: Nat, errored: Nat]
  BY DEF IInv, TypeOK
<1>1. CASE BuildDaemon \/ Stop
  BY <1>1 DEF BuildDaemon, Stop, TallyInv, ZeroReport
<1>2. ASSUME NEW c \in Claims, Conjecture(c) PROVE TallyInv'
  BY <1>0, <1>2, PipelineAssumption DEF Conjecture, TallyInv
<1>3. CASE SeedErrored
  BY <1>0, <1>3, PipelineAssumption DEF SeedErrored, TallyInv
<1>4. CASE Settle
  <2>1. PICK n \in {0, 1} :
          report' = [report EXCEPT !.settled = @ + 1, !.promulgated = @ + n]
    BY <1>4 DEF Settle
  <2> QED
    BY <1>0, <1>4, <2>1, PipelineAssumption DEF Settle, TallyInv
<1>5. CASE Remember
  BY <1>0, <1>5, PipelineAssumption DEF Remember, TallyInv
<1>6. CASE ~(\/ BuildDaemon \/ Stop \/ SeedErrored \/ Settle \/ Remember
             \/ \E c \in Claims : Conjecture(c))
  <2>1. /\ report'.seeds = report.seeds /\ report'.settled = report.settled
        /\ report'.errored = report.errored
        /\ \/ pc' = pc
           \/ pc \notin {"down", "idle", "remember"}
                /\ pc' \notin {"down", "idle", "remember"}
    BY <1>0, <1>6 DEF Next, vars, Formalize, CheapRefute, NoveltyCheck, SteerContract,
       FaithfulnessCheck, DemonstrateFastPath, DemonstrateEnsemble, Revalidate, Promote,
       Reached
  <2> QED
    BY <2>1 DEF TallyInv
<1> QED
  BY <1>1, <1>2, <1>3, <1>4, <1>5, <1>6

\* Every seed a session took is tallied as settled or as errored before the next.
THEOREM SeedsAreTallied == Spec => []NoSeedVanishes
<1>1. Init => TallyInv
  BY DEF Init, TallyInv
<1>2. IInv /\ TallyInv => NoSeedVanishes
  BY PipelineAssumption DEF IInv, TypeOK, TallyInv, NoSeedVanishes
<1> QED
  BY <1>1, <1>2, StepTally, InductiveInvariant, PTL DEF Spec

----------------------------------------------------------------------------
(***************************************************************************)
(* Quarantine.                                                             *)
(***************************************************************************)
\* A candidate with a kill reason is on its way to the ledger; one that still
\* meets the promotion verdict carries the failure that will refuse it.
KillInv ==
  prop.finish_reason \notin {"none", "promulgated"} =>
    /\ pc \in {"promote", "settle", "remember"}
    /\ pc = "promote" =>
         \E e \in EdgeSet(prop.edges) : e.edge = "novelty" /\ e.verdict = "fail"

LEMMA RefusedByFailure ==
  ASSUME NEW p, NEW e \in EdgeSet(p.edges), e.edge = "novelty", e.verdict = "fail"
  PROVE  ~IsPromotable(p)
BY DEF IsPromotable, ValidatePath, Required

LEMMA StepKill == IInv /\ KillInv /\ [Next]_vars => KillInv'
<1> SUFFICES ASSUME IInv, KillInv, [Next]_vars PROVE KillInv'
  OBVIOUS
<1>0. prop \in Propositio
  BY DEF IInv, TypeOK
<1>1. CASE BuildDaemon \/ Stop \/ SeedErrored \/ Remember \/ UNCHANGED vars
  BY <1>1, NoPropFacts DEF BuildDaemon, Stop, SeedErrored, Remember, vars, KillInv
<1>2. ASSUME NEW c \in Claims, Conjecture(c) PROVE KillInv'
  BY <1>2, FreshFacts DEF Conjecture, KillInv
<1>3. ASSUME NEW s \in Statements \cup {NoStatement}, Formalize(s) PROVE KillInv'
  BY <1>0, <1>3 DEF Formalize, KillInv, Propositio
<1>4. ASSUME NEW v \in {"pass", "fail"}, CheapRefute(v) PROVE KillInv'
  BY <1>0, <1>4 DEF CheapRefute, KillInv, Propositio, Record
<1>5. CASE NoveltyCheck
  BY <1>0, <1>5 DEF NoveltyCheck, KillInv, Propositio, Record
<1>6. CASE SteerContract
  BY <1>0, <1>6 DEF SteerContract, KillInv, Propositio
<1>7. CASE FaithfulnessCheck
  BY <1>0, <1>7 DEF FaithfulnessCheck, KillInv, Propositio, Record, Quarantine,
     FaithfulnessReason
<1>8. CASE DemonstrateFastPath
  BY <1>0, <1>8 DEF DemonstrateFastPath, KillInv, Propositio, Record, FastPath
<1>9. ASSUME NEW ok \in BOOLEAN, DemonstrateEnsemble(ok) PROVE KillInv'
  BY <1>0, <1>9 DEF DemonstrateEnsemble, KillInv, Propositio, Record
<1>10. CASE Revalidate
  <2>1. PICK trivial \in BOOLEAN : prop' = Revalidated(prop, trivial)
    BY <1>10 DEF Revalidate
  <2>2. prop.finish_reason \in {"none", "promulgated"}
    BY <1>10 DEF Revalidate, KillInv
  <2>3. CASE prop' = prop
    BY <2>2, <2>3 DEF KillInv
  <2>4. CASE prop' # prop
    <3> DEFINE q == Quarantine(prop, NoveltyReason(prop, trivial))
               ev == NoveltyEdge(prop, "fail")
    <3>1. prop' = Record(q, ev) /\ NoveltyReason(prop, trivial) \in {"trivial", "known"}
      BY <2>1, <2>4 DEF Revalidated, NoveltyReason
    <3>2. q \in Propositio
      BY <1>0, <3>1, QuarantineFacts DEF FinishReasons
    <3>3. prop.stmt \in Statements \cup {NoStatement}
      BY <1>0 DEF Propositio
    <3>4. ev \in EdgeEvidence /\ ev.edge = "novelty" /\ ev.verdict = "fail"
      BY <3>3 DEF NoveltyEdge, Evidence, EdgeEvidence, EdgeKinds, Tiers, Verdicts, Producers
    <3> HIDE DEF q, ev
    <3>5. ev \in EdgeSet(prop'.edges)
      BY <3>1, <3>2, <3>4, RecordFacts
    <3>6. pc' = "promote"
      BY <1>10 DEF Revalidate
    <3> QED
      BY <3>4, <3>5, <3>6 DEF KillInv
  <2> QED
    BY <2>3, <2>4
<1>11. CASE Promote \/ Settle
  BY <1>11 DEF Promote, Settle, KillInv
<1> QED
  BY <1>1, <1>2, <1>3, <1>4, <1>5, <1>6, <1>7, <1>8, <1>9, <1>10, <1>11 DEF Next

LEMMA StepSticks ==
  IInv /\ KillInv /\ [Next]_vars =>
    [prop.finish_reason \notin {"none", "promulgated"}
       => prop'.finish_reason = prop.finish_reason \/ prop' = NoProp]_vars
<1> SUFFICES ASSUME IInv, KillInv, Next, prop.finish_reason \notin {"none", "promulgated"}
             PROVE  prop'.finish_reason = prop.finish_reason \/ prop' = NoProp
  OBVIOUS
<1>0. pc \in {"promote", "settle", "remember"}
  BY DEF KillInv
<1>1. CASE Promote
  <2>1. ~IsPromotable(prop)
    BY <1>1, RefusedByFailure DEF KillInv, Promote
  <2> QED
    BY <1>1, <2>1 DEF Promote
<1>2. CASE ~Promote
  BY <1>0, <1>2 DEF Next, BuildDaemon, Stop, Conjecture, SeedErrored, Formalize,
     CheapRefute, NoveltyCheck, SteerContract, FaithfulnessCheck, DemonstrateFastPath,
     DemonstrateEnsemble, Revalidate, Settle, Remember
<1> QED
  BY <1>1, <1>2

\* A candidate that a gate gave a kill reason keeps it until it is on the ledger,
\* although the stages between the gate and promotion go on with it.
THEOREM KillsStick == Spec => QuarantineSticks
<1>1. Init => KillInv
  BY NoPropFacts DEF Init, KillInv
<1> QED
  BY <1>1, StepKill, StepSticks, InductiveInvariant, PTL DEF Spec, QuarantineSticks

----------------------------------------------------------------------------
(***************************************************************************)
(* The judged residual, counted.                                           *)
(***************************************************************************)
\* Only a faithfulness edge is judged, and a candidate has at most one of those.
OneCertificate(edges) ==
  /\ \A i \in DOMAIN edges : edges[i].tier = "judged" => edges[i].edge = "faithfulness"
  /\ \A i, j \in DOMAIN edges :
       edges[i].edge = "faithfulness" /\ edges[j].edge = "faithfulness" => i = j

\* Evidence of another kind, or the first certificate, keeps it so.
LEMMA RecordKeepsOne ==
  ASSUME NEW p \in Propositio, NEW ev \in EdgeEvidence, OneCertificate(p.edges),
         \/ ev.edge # "faithfulness" /\ ev.tier # "judged"
         \/ /\ ev.edge = "faithfulness"
            /\ \A e \in EdgeSet(p.edges) : e.edge # "faithfulness"
  PROVE  OneCertificate(Record(p, ev).edges)
<1> DEFINE all == Append(p.edges, ev)
           n == Len(p.edges)
<1>1. p.edges \in Seq(EdgeEvidence) /\ n \in Nat /\ DOMAIN p.edges = 1 .. n
  BY DEF Propositio
<1>2. Record(p, ev).edges = all
  BY DEF Record, Propositio
<1>3. /\ DOMAIN all = 1 .. (n + 1) /\ all[n + 1] = ev
      /\ \A i \in 1 .. n : all[i] = p.edges[i]
  BY <1>1
<1>4. \A i \in 1 .. n : p.edges[i] \in EdgeSet(p.edges)
  BY <1>1 DEF EdgeSet
<1> HIDE DEF all, n
<1>5. \A i \in DOMAIN all : i = n + 1 \/ i \in 1 .. n
  BY <1>1, <1>3
<1>6. \A i \in DOMAIN all : all[i].tier = "judged" => all[i].edge = "faithfulness"
  BY <1>1, <1>3, <1>5 DEF OneCertificate
<1>7. ASSUME NEW i \in DOMAIN all, NEW j \in DOMAIN all,
             all[i].edge = "faithfulness", all[j].edge = "faithfulness"
      PROVE  i = j
  BY <1>1, <1>3, <1>4, <1>5, <1>7 DEF OneCertificate
<1> QED
  BY <1>2, <1>6, <1>7 DEF OneCertificate

JudgedRow(p) == \E e \in EdgeSet(p.edges) : e.tier = "judged"

\* The row of a law is judged exactly when the budget counted it as such.
LEMMA JudgedIsJudged ==
  ASSUME NEW p \in Propositio, OneCertificate(p.edges), JudgedRow(p)
  PROVE  IsJudgedFaithfulness(p.edges)
<1>1. PICK i \in DOMAIN p.edges : p.edges[i].tier = "judged"
  BY DEF JudgedRow, EdgeSet
<1>2. p.edges[i].edge = "faithfulness"
  BY <1>1 DEF OneCertificate
<1>3. p.edges \in Seq(EdgeEvidence) /\ DOMAIN p.edges = 1 .. Len(p.edges)
      /\ Len(p.edges) \in Nat
  BY DEF Propositio
<1>4. \A j \in 1 .. (i - 1) : j \in DOMAIN p.edges /\ j # i
  BY <1>3
<1> QED
  BY <1>1, <1>2, <1>4 DEF OneCertificate, IsJudgedFaithfulness

LEMMA StepCertificate ==
  IInv /\ OneCertificate(prop.edges) /\ [Next]_vars => OneCertificate(prop.edges)'
<1> SUFFICES ASSUME IInv, OneCertificate(prop.edges), [Next]_vars
             PROVE  OneCertificate(prop'.edges)
  OBVIOUS
<1>0. /\ prop \in Propositio /\ prop.stmt \in Statements \cup {NoStatement}
      /\ Canonical[prop.claim] \in Statements \cup {NoStatement}
  BY TrustAssumption DEF IInv, TypeOK, Propositio
<1>1. \A c \in Claims : OneCertificate(Fresh(c).edges) /\ OneCertificate(NoProp.edges)
  BY CandidateAssumption DEF OneCertificate, Fresh, NoProp
<1>2. CASE BuildDaemon \/ Stop \/ SeedErrored \/ Remember \/ Settle \/ UNCHANGED vars
  BY <1>1, <1>2, CandidateAssumption
  DEF BuildDaemon, Stop, SeedErrored, Remember, Settle, vars
<1>3. ASSUME NEW c \in Claims, Conjecture(c) PROVE OneCertificate(prop'.edges)
  BY <1>1, <1>3 DEF Conjecture
<1>4. ASSUME prop'.edges = prop.edges PROVE OneCertificate(prop'.edges)
  BY <1>4
<1>5. ASSUME NEW s \in Statements \cup {NoStatement}, Formalize(s)
      PROVE  OneCertificate(prop'.edges)
  BY <1>0, <1>5, <1>4 DEF Formalize, Quarantine, Propositio
<1>6. CASE SteerContract \/ Promote
  BY <1>0, <1>6, <1>4 DEF SteerContract, Promote, Quarantine, Propositio
<1>7. ASSUME NEW ev \in EdgeEvidence, NEW p \in Propositio, p.edges = prop.edges,
             \/ ev.edge # "faithfulness" /\ ev.tier # "judged"
             \/ ev.edge = "faithfulness" /\ pc = "faithfulness",
             prop'.edges = Record(p, ev).edges
      PROVE  OneCertificate(prop'.edges)
  BY <1>7, RecordKeepsOne DEF IInv, StageInv, Early
<1>8. ASSUME NEW v \in {"pass", "fail"}, CheapRefute(v) PROVE OneCertificate(prop'.edges)
  <2> DEFINE ev == Evidence("cheap_refutation", "mechanical", v, "none", prop.stmt, FALSE)
  <2>1. ev \in EdgeEvidence /\ ev.edge # "faithfulness" /\ ev.tier # "judged"
    BY <1>0 DEF Evidence, EdgeEvidence, EdgeKinds, Tiers, Verdicts, Producers
  <2>2. prop'.edges = Record(prop, ev).edges
    BY <1>0, <1>8 DEF CheapRefute, Quarantine, Record, Propositio
  <2> HIDE DEF ev
  <2> QED
    BY <1>0, <1>7, <2>1, <2>2
<1>9. \A v \in {"pass", "fail"} : LET ev == NoveltyEdge(prop, v)
        IN ev \in EdgeEvidence /\ ev.edge # "faithfulness" /\ ev.tier # "judged"
  BY <1>0 DEF NoveltyEdge, Evidence, EdgeEvidence, EdgeKinds, Tiers, Verdicts, Producers
<1>10. CASE NoveltyCheck
  <2>1. PICK v \in {"pass", "fail"} : prop'.edges = Record(prop, NoveltyEdge(prop, v)).edges
    BY <1>0, <1>10 DEF NoveltyCheck, Quarantine, Record, Propositio
  <2> QED
    BY <1>0, <1>7, <1>9, <2>1
<1>11. CASE FaithfulnessCheck
  <2>1. PICK ev \in FaithfulnessEdges(prop) :
          prop' = Quarantine(Record(prop, ev), FaithfulnessReason(ev))
    BY <1>11 DEF FaithfulnessCheck
  <2>2. ev \in EdgeEvidence /\ ev.edge = "faithfulness"
    BY <1>0, <2>1, FaithfulnessEdgeFacts
  <2>3. prop'.edges = Record(prop, ev).edges
    BY <1>0, <2>1 DEF Quarantine, Record, Propositio
  <2> QED
    BY <1>0, <1>7, <1>11, <2>2, <2>3 DEF FaithfulnessCheck
<1>12. \A s \in Statements \cup {NoStatement}, ok, tag \in BOOLEAN :
         LET ev == ProofEdge(s, ok, tag)
         IN ev \in EdgeEvidence /\ ev.edge # "faithfulness" /\ ev.tier # "judged"
  BY DEF ProofEdge, Evidence, EdgeEvidence, EdgeKinds, Tiers, Verdicts, Producers
<1>13. CASE DemonstrateFastPath
  <2>1. prop'.edges = Record(prop, ProofEdge(Canonical[prop.claim], TRUE, TRUE)).edges
    BY <1>0, <1>13 DEF DemonstrateFastPath, FastPath, Record, Propositio
  <2> QED
    BY <1>0, <1>7, <1>12, <2>1
<1>14. ASSUME NEW ok \in BOOLEAN, DemonstrateEnsemble(ok)
       PROVE  OneCertificate(prop'.edges)
  <2>1. prop'.edges = Record(prop, ProofEdge(prop.stmt, ok, FALSE)).edges
    BY <1>0, <1>14 DEF DemonstrateEnsemble, Record, Propositio
  <2> QED
    BY <1>0, <1>7, <1>12, <2>1
<1>15. CASE Revalidate
  <2>1. PICK trivial \in BOOLEAN : prop' = Revalidated(prop, trivial)
    BY <1>15 DEF Revalidate
  <2>2. CASE prop' = prop
    BY <1>4, <2>2
  <2>3. CASE prop' # prop
    <3> DEFINE q == Quarantine(prop, NoveltyReason(prop, trivial))
    <3>1. prop' = Record(q, NoveltyEdge(prop, "fail"))
          /\ NoveltyReason(prop, trivial) \in {"trivial", "known"}
      BY <2>1, <2>3 DEF Revalidated, NoveltyReason
    <3>2. q \in Propositio /\ q.edges = prop.edges
      BY <1>0, <3>1, QuarantineFacts DEF FinishReasons
    <3> HIDE DEF q
    <3> QED
      BY <1>7, <1>9, <3>1, <3>2
  <2> QED
    BY <2>2, <2>3
<1> QED
  BY <1>2, <1>3, <1>5, <1>6, <1>8, <1>10, <1>11, <1>13, <1>14, <1>15 DEF Next

JudgedLaws(rows, s) == {r \in Laws(rows) : r.session = s /\ r.judged}

\* The budget has counted the judged laws on the ledger, and the one in hand.
CountInv ==
  /\ OneCertificate(prop.edges)
  /\ IsFiniteSet(ledger)
  /\ pc # "down" =>
       /\ Cardinality(JudgedLaws(ledger, session)) <= budget.judged
       /\ prop.finish_reason = "promulgated" /\ JudgedRow(prop) =>
            Cardinality(JudgedLaws(ledger, session)) + 1 <= budget.judged

LEMMA JudgedLawsFinite ==
  ASSUME IsFiniteSet(ledger)
  PROVE  /\ IsFiniteSet(JudgedLaws(ledger, session))
         /\ Cardinality(JudgedLaws(ledger, session)) \in Nat
<1>1. JudgedLaws(ledger, session) \subseteq ledger
  BY DEF JudgedLaws, Laws
<1> QED
  BY <1>1, FS_Subset, FS_CardinalityType

LEMMA StepCount == IInv /\ IdentityInv /\ CountInv /\ [Next]_vars => CountInv'
<1> SUFFICES ASSUME IInv, IdentityInv, CountInv, [Next]_vars PROVE CountInv'
  OBVIOUS
<1> DEFINE n == Cardinality(JudgedLaws(ledger, session))
<1>0. /\ prop \in Propositio /\ budget \in [total: Nat, judged: Nat]
      /\ session \in Nat /\ \A r \in ledger : r.session \in Nat
  BY PipelineAssumption DEF IInv, TypeOK, Row
<1>1. n \in Nat /\ IsFiniteSet(JudgedLaws(ledger, session))
  BY JudgedLawsFinite DEF CountInv
<1>2. OneCertificate(prop.edges)'
  BY StepCertificate DEF CountInv
<1>3. CASE BuildDaemon
  <2>1. JudgedLaws(ledger', session') = {}
    BY <1>0, <1>3 DEF BuildDaemon, JudgedLaws, Laws, IdentityInv
  <2>2. Cardinality(JudgedLaws(ledger', session')) = 0
    BY <2>1, FS_EmptySet
  <2>3. budget'.judged = 0 /\ ledger' = ledger /\ prop' = prop
    BY <1>3 DEF BuildDaemon, ZeroBudget
  <2>4. prop.finish_reason # "promulgated"
    BY <1>3 DEF BuildDaemon, IInv, StageInv
  <2> QED
    BY <1>2, <2>2, <2>3, <2>4 DEF CountInv
<1>4. CASE Stop
  BY <1>2, <1>4 DEF Stop, CountInv
<1>5. CASE Promote
  <2>1. ledger' = ledger /\ session' = session /\ prop'.edges = prop.edges
    BY <1>0, <1>5 DEF Promote, Quarantine, Propositio
  <2>2. JudgedRow(prop') <=> JudgedRow(prop)
    BY <2>1 DEF JudgedRow
  <2>3. n <= budget.judged
    BY <1>5 DEF CountInv, Promote
  <2>4. CASE IsPromotable(prop) /\ Admitted(prop)
    <3>1. budget' = Counted(prop)
      BY <1>5, <2>4 DEF Promote
    <3>2. n <= budget'.judged
      BY <1>0, <1>1, <2>3, <3>1 DEF Counted
    <3>3. JudgedRow(prop) => n + 1 <= budget'.judged
      BY <1>0, <1>1, <2>3, <3>1, JudgedIsJudged DEF Counted, CountInv
    <3> QED
      BY <1>2, <2>1, <2>2, <3>2, <3>3 DEF CountInv
  <2>5. CASE ~(IsPromotable(prop) /\ Admitted(prop))
    <3>1. budget' = budget
      BY <1>5, <2>5 DEF Promote
    <3>2. prop'.finish_reason # "promulgated"
      BY <1>0, <1>5, <2>5 DEF Promote, Quarantine, Propositio, IInv, StageInv
    <3> QED
      BY <1>2, <2>1, <2>3, <3>1, <3>2 DEF CountInv
  <2> QED
    BY <2>4, <2>5
<1>6. CASE Remember
  <2> DEFINE row == RowOf(prop)
  <2>1. /\ ledger' = ledger \cup {row} /\ session' = session /\ budget' = budget
        /\ prop' = NoProp
    BY <1>6 DEF Remember
  <2>2. /\ row.finish_reason = prop.finish_reason /\ row.session = session
        /\ row.judged <=> JudgedRow(prop)
    BY DEF RowOf, JudgedRow
  <2> HIDE DEF row
  <2>3. IsFiniteSet(ledger')
    BY <2>1, FS_AddElement DEF CountInv
  <2>4. prop'.finish_reason # "promulgated"
    BY <2>1, NoPropFacts
  <2>5. Cardinality(JudgedLaws(ledger', session')) <= budget'.judged
    <3>1. CASE prop.finish_reason = "promulgated" /\ JudgedRow(prop)
      <4>1. JudgedLaws(ledger', session') = JudgedLaws(ledger, session) \cup {row}
        BY <2>1, <2>2, <3>1 DEF JudgedLaws, Laws
      <4>2. \/ Cardinality(JudgedLaws(ledger', session')) = n
            \/ Cardinality(JudgedLaws(ledger', session')) = n + 1
        BY <1>1, <4>1, FS_AddElement
      <4>3. n + 1 <= budget.judged
        BY <1>6, <3>1 DEF CountInv, Remember
      <4> QED
        BY <1>0, <1>1, <2>1, <4>2, <4>3
    <3>2. CASE ~(prop.finish_reason = "promulgated" /\ JudgedRow(prop))
      <4>1. JudgedLaws(ledger', session') = JudgedLaws(ledger, session)
        BY <2>1, <2>2, <3>2 DEF JudgedLaws, Laws
      <4> QED
        BY <1>6, <2>1, <4>1 DEF CountInv, Remember
    <3> QED
      BY <3>1, <3>2
  <2> QED
    BY <1>2, <2>3, <2>4, <2>5 DEF CountInv
<1>7. CASE ~(BuildDaemon \/ Stop \/ Promote \/ Remember)
  <2>1. UNCHANGED <<ledger, session, budget>> /\ (pc' # "down" => pc # "down")
    BY <1>7 DEF Next, vars, Conjecture, SeedErrored, Formalize, CheapRefute, NoveltyCheck,
       SteerContract, FaithfulnessCheck, DemonstrateFastPath, DemonstrateEnsemble,
       Revalidate, Settle
  <2>2. prop'.finish_reason = "promulgated" =>
          prop.finish_reason = "promulgated" /\ prop' = prop
    <3>1. CASE Settle \/ UNCHANGED vars
      BY <3>1 DEF Settle, vars
    <3>2. CASE ~(Settle \/ UNCHANGED vars)
      <4>1. pc' \notin {"settle", "remember"} \/ pc \in Early
        BY <1>7, <3>2 DEF Next, Conjecture, SeedErrored, Formalize, CheapRefute,
           NoveltyCheck, SteerContract, FaithfulnessCheck, DemonstrateFastPath,
           DemonstrateEnsemble, Revalidate, Early
      <4>2. CASE pc' \notin {"settle", "remember"}
        BY <4>2, StepIInv DEF IInv, StageInv
      <4>3. CASE pc \in Early /\ pc' \in {"settle", "remember"}
        <5>1. prop.finish_reason # "promulgated"
          BY <4>3 DEF IInv, StageInv, Early
        <5>2. \/ \E s \in Statements \cup {NoStatement} : Formalize(s)
              \/ \E v \in {"pass", "fail"} : CheapRefute(v)
              \/ NoveltyCheck \/ FaithfulnessCheck
          BY <1>7, <3>2, <4>3 DEF Next, Conjecture, SeedErrored, SteerContract,
             DemonstrateFastPath, DemonstrateEnsemble, Revalidate, Early
        <5> QED
          BY <1>0, <5>1, <5>2 DEF Formalize, CheapRefute, NoveltyCheck, FaithfulnessCheck,
             Quarantine, Record, Propositio, NoveltyReason, FaithfulnessReason
      <4> QED
        BY <4>1, <4>2, <4>3
    <3> QED
      BY <3>1, <3>2
  <2> QED
    BY <1>2, <2>1, <2>2 DEF CountInv
<1> QED
  BY <1>3, <1>4, <1>5, <1>6, <1>7

\* No law whose faithfulness rests on a judge gets on the ledger uncounted.
THEOREM JudgedAreCounted == Spec => []JudgedLawsCounted
<1>1. Init => CountInv
  BY NoPropFacts, FS_EmptySet DEF Init, CountInv, OneCertificate, NoProp, Fresh
<1>2. CountInv => JudgedLawsCounted
  BY DEF CountInv, JudgedLawsCounted, JudgedLaws
<1>3. Init => IdentityInv
  BY DEF Init, IdentityInv
<1> QED
  BY <1>1, <1>2, <1>3, StepCount, StepIdentity, InductiveInvariant, PTL DEF Spec
----------------------------------------------------------------------------
(***************************************************************************)
(* Across sessions.  A session's own laws are not in its corpus, so it may *)
(* publish a statement twice; of another session's it knows all or, when   *)
(* the ledger could not be read, none.                                     *)
(***************************************************************************)
\* A session that publishes a statement an earlier one had published was built on the
\* curated corpus alone (build_daemon, _self_ledger_entries): of the laws a readable
\* ledger holds none is published anew.
RepublishedOnlyBlind ==
  pc # "down" =>
    \A r, s \in Laws(ledger) :
      r.session < session /\ s.session = session /\ r.stmt = s.stmt
        => corpus.hashes = KnownHashes

EarlierInv ==
  pc # "down" =>
    \/ corpus.hashes = KnownHashes
    \/ \A r \in Laws(ledger) : r.session < session => r.stmt \in corpus.hashes

LEMMA StepEarlier == IInv /\ EarlierInv /\ [Next]_vars => EarlierInv'
<1> SUFFICES ASSUME IInv, EarlierInv, [Next]_vars PROVE EarlierInv'
  OBVIOUS
<1>0. session \in Nat /\ \A r \in ledger : r.session \in Nat
  BY PipelineAssumption DEF IInv, TypeOK, Row
<1>1. CASE BuildDaemon
  <2>1. \A r \in Laws(ledger) : r.kernel_verified
    BY DEF IInv, LawInv, LawsAreProvedAsCertified, SoundLaw
  <2>2. \A r \in Laws(ledger) : r.stmt \in SelfLedgerEntries.hashes
    BY <2>1 DEF SelfLedgerEntries
  <2>3. PICK own \in {SelfLedgerEntries, [hashes |-> {}, sigs |-> {}]} :
          corpus'.hashes = KnownHashes \cup own.hashes /\ ledger' = ledger
    BY <1>1 DEF BuildDaemon
  <2>4. CASE own = SelfLedgerEntries
    BY <2>2, <2>3, <2>4 DEF EarlierInv
  <2>5. CASE own = [hashes |-> {}, sigs |-> {}]
    BY <2>3, <2>5 DEF EarlierInv
  <2> QED
    BY <2>3, <2>4, <2>5
<1>2. CASE Stop
  BY <1>2 DEF Stop, EarlierInv
<1>3. CASE Remember
  <2>1. RowOf(prop).session = session
    BY DEF RowOf
  <2>2. \A r \in Laws(ledger') : r \in Laws(ledger) \/ r.session = session
    BY <1>3, <2>1 DEF Remember, Laws
  <2>3. pc # "down" /\ corpus' = corpus /\ session' = session
    BY <1>3 DEF Remember
  <2> QED
    BY <1>0, <2>2, <2>3 DEF EarlierInv
<1>4. CASE ~(BuildDaemon \/ Stop \/ Remember)
  <2>1. corpus' = corpus /\ ledger' = ledger /\ session' = session
    BY <1>4 DEF Next, vars, Conjecture, SeedErrored, Formalize, CheapRefute, NoveltyCheck,
      SteerContract, FaithfulnessCheck, DemonstrateFastPath, DemonstrateEnsemble, Revalidate,
      Promote, Settle
  <2>2. pc' # "down" => pc # "down"
    BY <1>4 DEF Next, vars, Conjecture, SeedErrored, Formalize, CheapRefute, NoveltyCheck,
      SteerContract, FaithfulnessCheck, DemonstrateFastPath, DemonstrateEnsemble, Revalidate,
      Promote, Settle
  <2> QED
    BY <2>1, <2>2 DEF EarlierInv
<1> QED
  BY <1>1, <1>2, <1>3, <1>4

\* For any number of sessions and seeds: sessions tell their laws apart from those of
\* all earlier ones, whichever of those crashed, unless the ledger cannot be read.
THEOREM SessionsToldApart == Spec => []RepublishedOnlyBlind
<1>1. Init => EarlierInv
  BY DEF Init, EarlierInv
<1>2. Spec => []EarlierInv
  BY <1>1, StepEarlier, InductiveInvariant, PTL DEF Spec
<1>3. EarlierInv /\ LawsNovelInSession => RepublishedOnlyBlind
  BY DEF EarlierInv, LawsNovelInSession, RepublishedOnlyBlind
<1> QED
  BY <1>2, <1>3, NoveltySoundness, PTL

=============================================================================
