------------------------------ MODULE Screening ------------------------------
(***************************************************************************)
(* The tables Screen goes by, computed from the syntax trees of its        *)
(* predicates by the definitions of Contract, Structural and Fragments.    *)
(***************************************************************************)
EXTENDS Screen, Fragments

CONSTANTS
  Top,           \* 0..Top stands for the non-negative integers: a full period past every threshold
  WitnessRange   \* WITNESS_RANGE: witnesses are sought below it

ASSUME ScreeningAssumption ==
  Top \in Nat /\ WitnessRange \in Nat \ {0} /\ WitnessRange <= Top + 1

NonNegative == [Names -> 0..Top]

SearchBox == [Names -> 0..SmtBound]

WitnessGrid == [Names -> 0..(WitnessRange - 1)]

Meanings == [p \in Predicates |-> {x \in NonNegative : Holds(p, x)}]

\* find_witness evaluates domains only.
Sightings ==
  [p \in UNION {{c.cd, c.ed} : c \in Contracts} |->
     {x \in WitnessGrid : Holds(AsEvaluated(p), x)}]

EncodableInBox == {p \in Predicates : Encodable(p, TRUE)}

EncodableWithoutBox == {p \in Predicates : Encodable(p, FALSE)}

Signed == {p \in Claims : CongruenceSignature(p) # NoSignature}

Signatures == [p \in Signed |-> CongruenceSignature(p)]

DegenerateClaims == {p \in Claims : IsCoefficientDegenerate(p)}

EligibleFor == [c \in Candidates |-> {k \in ToSet(FragmentOrder) : Admits(k, c)}]

\* A key is only ever made for a claim of the fragment within its budget.
KeyedBy ==
  [p \in Claims |->
     {k \in UNION {EligibleFor[c] : c \in {c \in Candidates : c.cp = p}} : Key(k, p)}]

(***************************************************************************)
(* What a signature stands for, and what the claim says.                   *)
(***************************************************************************)
\* The points a claim in one variable is compared at, whatever it is called.
Diagonal == {[v \in Names |-> n] : n \in 0..Top}

Points(p) == IF SingleVar(p) THEN Diagonal ELSE NonNegative

IsMembership(p) == p[1] \in {"in", "not in"} \/ IsResidueDisjunction(p)

\* For a membership, the residues its term takes (whether the one residue is asserted,
\* when there is one), not those it asserts; otherwise where it holds.
Reading(p) ==
  LET t == IF p[1] = "or" THEN p[2][1][2] ELSE p[2]
      R == {Value(t, x) : x \in Points(p)}
  IN IF ~IsMembership(p) THEN <<"truth", Meanings[p] \cap Points(p)>>
     ELSE IF Cardinality(R) > 1 THEN <<"residues", [x \in Points(p) |-> Value(t, x)]>>
     ELSE <<"truth", IF p[1] = "not in" THEN {} ELSE Points(p)>>

Readings == [p \in Signed |-> Reading(p)]

Facts == [p \in Signed |-> Meanings[p] \cap Points(p)]
=============================================================================
