----------------------------- MODULE Screen_proofs -----------------------------
(***************************************************************************)
(* Proofs about Screen, for any contracts, any curated corpus and whatever *)
(* the tables say of them: what the gates add to the decision procedures   *)
(* they ask.                                                               *)
(***************************************************************************)
EXTENDS Screen, TLAPS

LEMMA DerivedFacts ==
  ASSUME NEW c \in Contracts
  PROVE  /\ Derived(c).cd = c.cd /\ Derived(c).cp = c.cp /\ Derived(c).ed = c.cd
         /\ Derived(Derived(c)) = Derived(c)
BY ScreenAssumption DEF Derived

LEMMA CandidateFacts ==
  ASSUME NEW c \in Candidates
  PROVE  /\ c.cd \in Predicates /\ c.cp \in Predicates /\ c.ed \in Predicates
         /\ Derived(c).cd = c.cd /\ Derived(c).cp = c.cp /\ Derived(c).ed = c.cd
         /\ Derived(c) \in Candidates
         /\ <<c.cd, c.cp>> \in {<<b.cd, b.cp>> : b \in Contracts}
<1>1. PICK b \in Contracts : c = b \/ c = Derived(b)
  BY DEF Candidates
<1>2. b.cd \in Predicates /\ b.cp \in Predicates /\ b.ed \in Predicates
  BY ScreenAssumption
<1>3. c.cd = b.cd /\ c.cp = b.cp /\ c.ed \in {b.ed, b.cd} /\ Derived(c) = Derived(b)
  BY <1>1, DerivedFacts DEF Derived
<1> QED
  BY <1>2, <1>3, DerivedFacts DEF Candidates

(***************************************************************************)
(* The types.                                                              *)
(***************************************************************************)
LEMMA Six == Len(FragmentOrder) = 6
BY DEF FragmentOrder

LEMMA InitTyped == Init => TypeOK
BY Six DEF Init, TypeOK, Gates, Verdicts

LEMMA NextTyped == TypeOK /\ [Next]_vars => TypeOK'
<1> SUFFICES ASSUME TypeOK, [Next]_vars PROVE TypeOK'
  OBVIOUS
<1> USE DEF TypeOK, Gates, Verdicts
<1>1. CASE Formalize
  BY <1>1 DEF Formalize, Candidates
<1>2. CASE Novelty
  BY <1>2, Six DEF Novelty, End
<1>3. CASE Spine
  BY <1>3, Six DEF Spine, End
<1>4. CASE Certify
  BY <1>4 DEF Certify, Accept
<1>5. CASE Derive
  BY <1>5, CandidateFacts DEF Derive, Accept
<1>6. CASE Decline
  BY <1>6, Six DEF Decline
<1>7. CASE Probe
  BY <1>7, Six DEF Probe, End
<1>8. CASE Promulgate
  <2>1. <<candidate.cd, candidate.cp>> \in {<<b.cd, b.cp>> : b \in Contracts}
    BY <1>8, CandidateFacts DEF Promulgate
  <2> QED
    BY <1>8, <2>1, Six DEF Promulgate, End
<1>9. CASE GiveUp
  BY <1>9, Six DEF GiveUp, End
<1>10. CASE Rebuild
  BY <1>10 DEF Rebuild
<1>11. CASE UNCHANGED vars
  BY <1>11 DEF vars
<1> QED
  BY <1>1, <1>2, <1>3, <1>4, <1>5, <1>6, <1>7, <1>8, <1>9, <1>10, <1>11 DEF Next

\* The screening keeps its types: what is on the ledger came from a contract, a
\* candidate at a gate is a contract or derived from one, and only what a certificate
\* or the probe vouched for is at the prover.
THEOREM TypeCorrectness == Spec => []TypeOK
BY InitTyped, NextTyped, PTL DEF Spec

(***************************************************************************)
(* What the gates let through.                                             *)
(***************************************************************************)
\* The legs of a certificate and the exactness of its key make the claim hold.
LEMMA CertificateIsSound ==
  ASSUME NEW c \in Candidates, Certifiable(c),
         \A k \in Eligible[c] : (k \in Keyed[c.cp]) = (Meaning[c.cp] = Everywhere)
  PROVE  Covers(c) /\ True(c.cd, c.cp)
<1>1. Meaning[c.cp] = Everywhere
  BY DEF Certifiable
<1>2. Meaning[c.cd] \subseteq Everywhere
  BY CandidateFacts, ScreenAssumption
<1>3. Meaning[c.cd] # {}
  BY DEF Certifiable, Witnessed
<1> QED
  BY <1>1, <1>2, <1>3 DEF Certifiable, True

\* So do the answers of the probe, which asks without a box.
LEMMA ProbeIsSound ==
  ASSUME NEW c \in Candidates, ProbeCertifies(c)
  PROVE  Covers(c) /\ True(c.cd, c.cp)
<1>1. Meaning[c.cd] \subseteq Everywhere
  BY CandidateFacts, ScreenAssumption
<1>2. Covers(c)
  <2>1. CASE c.ed = c.cd
    BY <2>1 DEF Covers
  <2>2. CASE c.ed # c.cd
    BY <2>2, <1>1 DEF ProbeCertifies, ProbeRange, Covers
  <2> QED
    BY <2>1, <2>2
<1> QED
  BY <1>1, <1>2 DEF ProbeCertifies, ProbeRange, Covers, True

LEMMA NextCertified ==
  TypeOK /\ CertifiedClaimsHold /\ KeysDecideExactly' /\ [Next]_vars => CertifiedClaimsHold'
<1> SUFFICES ASSUME TypeOK, CertifiedClaimsHold, KeysDecideExactly', [Next]_vars
             PROVE  CertifiedClaimsHold'
  OBVIOUS
<1>1. CASE Certify \/ Derive
  <2>1. candidate' \in Candidates /\ rank' = rank /\ Certifiable(candidate')
    BY <1>1, CandidateFacts DEF Certify, Derive, TypeOK, Accept
  <2>2. \A k \in Eligible[candidate'] :
          (k \in Keyed[candidate'.cp]) = (Meaning[candidate'.cp] = Everywhere)
    BY <1>1 DEF KeysDecideExactly, Certify, Derive, Accept
  <2>3. Covers(candidate') /\ True(candidate'.cd, candidate'.cp)
    BY <2>1, <2>2, CertificateIsSound
  <2>4. ledger' = ledger
    BY <1>1 DEF Certify, Derive
  <2> QED
    BY <2>3, <2>4 DEF CertifiedClaimsHold, Covers, True
<1>2. CASE Probe
  <2>1. gate' = "prove" => Covers(candidate) /\ True(candidate.cd, candidate.cp)
    BY <1>2, ProbeIsSound DEF Probe, End, TypeOK
  <2> QED
    BY <1>2, <2>1 DEF Probe, CertifiedClaimsHold, Covers, True
<1>3. CASE Promulgate
  <2>1. ledger' = ledger \cup {<<candidate.cd, candidate.cp>>} /\ gate' = "idle"
    BY <1>3 DEF Promulgate, End
  <2>2. True(candidate.cd, candidate.cp)
    BY <1>3 DEF Promulgate, CertifiedClaimsHold
  <2> QED
    BY <2>1, <2>2 DEF CertifiedClaimsHold, True
<1>4. CASE Decline
  BY <1>4 DEF Decline, CertifiedClaimsHold, Covers, True
<1>5. CASE Formalize \/ Novelty \/ Spine \/ GiveUp \/ Rebuild
  BY <1>5 DEF Formalize, Novelty, Spine, GiveUp, Rebuild, End, CertifiedClaimsHold, True
<1>6. CASE UNCHANGED vars
  BY <1>6 DEF vars, CertifiedClaimsHold, Covers, True
<1> QED
  BY <1>1, <1>2, <1>3, <1>4, <1>5, <1>6 DEF Next

\* Where every key decides its claim exactly, the gates certify true claims only, and
\* the ledger has no other: neither the derived domain, nor a statement that covers
\* too little, nor a search in a box lets one through, whichever backend answers or
\* gives up, in any number of sessions.
THEOREM CertificationIsSound ==
  Spec => ([]KeysDecideExactly => []CertifiedClaimsHold)
<1>1. Init => CertifiedClaimsHold
  BY DEF Init, CertifiedClaimsHold
<1> QED
  BY <1>1, NextCertified, TypeCorrectness, PTL DEF Spec
================================================================================
