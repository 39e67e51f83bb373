----------------------------- MODULE Structural -----------------------------
(***************************************************************************)
(* The form of a claim (leibniz/structural.py): the signature by which the *)
(* corpus recognises a restatement, and the degeneracy by which the        *)
(* novelty gate refuses a congruence its variables do not enter.  Neither  *)
(* consults the truth of the claim.                                        *)
(*                                                                         *)
(* A polynomial is a function from monomials to integers, a monomial a     *)
(* function from Names to exponents.  A signature is a tuple; the shapes   *)
(* that must not collide differ in its head.                               *)
(***************************************************************************)
EXTENDS Contract

CONSTANTS
  Names,         \* the variable names in use
  MaxDegree,     \* MAX_DEGREE
  ResidueBound   \* RESIDUE_BOUND: moduli up to one more are enumerated

NoSignature == <<"none">>

(***************************************************************************)
(* Polynomials.                                                            *)
(***************************************************************************)
One == [v \in Names |-> 0]

MonoMul(m, n) == [v \in Names |-> m[v] + n[v]]

MonoDegree(m) == MapThenSumSet(LAMBDA v : m[v], Names)

Coefficient(P, m) == IF m \in DOMAIN P THEN P[m] ELSE 0

Add(P, Q) ==
  [m \in DOMAIN P \cup DOMAIN Q |-> Coefficient(P, m) + Coefficient(Q, m)]

Neg(P) == [m \in DOMAIN P |-> -P[m]]

Constant(c) == [m \in {One} |-> c]

Mul(P, Q) ==
  LET pairs == (DOMAIN P) \X (DOMAIN Q)
  IN [m \in {MonoMul(q[1], q[2]) : q \in pairs} |->
        MapThenSumSet(LAMBDA q : P[q[1]] * Q[q[2]],
                      {q \in pairs : MonoMul(q[1], q[2]) = m})]

PolyPower(P, k) ==
  LET pow[i \in 0..k] == IF i = 0 THEN Constant(1) ELSE Mul(pow[i - 1], P) IN pow[k]

RECURSIVE Expansion(_)
Expansion(t) ==
  CASE IsInt(t) -> Constant(t[2])
    [] IsVar(t) -> [m \in {[One EXCEPT ![t[2]] = 1]} |-> 1]
    [] t[1] = "neg" -> Neg(Expansion(t[2]))
    [] t[1] = "+" -> Add(Expansion(t[2]), Expansion(t[3]))
    [] t[1] = "-" -> Add(Expansion(t[2]), Neg(Expansion(t[3])))
    [] t[1] = "*" -> Mul(Expansion(t[2]), Expansion(t[3]))
    [] t[1] = "^" -> PolyPower(Expansion(t[2]), t[3][2])

PolyNode(s) ==
  /\ s[1] \in {"int", "var", "neg", "+", "-", "*", "^"}
  /\ s[1] = "^" => IsInt(s[3]) /\ s[3][2] \in 0..MaxPow

IsPoly(t) == \A s \in Nodes(t) : PolyNode(s)

\* _expand does not raise _NotPoly.
Expands(t) == IsPoly(t) /\ \A m \in DOMAIN Expansion(t) : MonoDegree(m) <= MaxDegree

Vanishes(P) == \A m \in DOMAIN P : P[m] = 0

(***************************************************************************)
(* Congruence atoms: P % m, P1 % m == P2 % m, P % m == c, and the other    *)
(* way round.                                                              *)
(***************************************************************************)
IsMod(t) == t[1] = "%" /\ IsInt(t[3])

Modulus(p) == IF IsMod(p[2]) THEN p[2][3][2] ELSE p[3][3][2]

\* The polynomial an atom says is (or is not) zero mod its modulus.
Difference(p) ==
  LET side(t) == IF IsMod(t) THEN Expansion(t[2]) ELSE Expansion(t)
  IN Add(side(p[2]), Neg(side(p[3])))

IsCongruence(p) ==
  /\ p[1] \in {"==", "!="} /\ ~IsIff(p)
  /\ \/ IsMod(p[2]) /\ IsMod(p[3]) /\ p[2][3] = p[3][3]
     \/ IsMod(p[2]) /\ IsInt(p[3])
     \/ IsInt(p[2]) /\ IsMod(p[3])
  /\ \A t \in {p[2], p[3]} : IsMod(t) => Expands(t[2])
  /\ Modulus(p) >= 2

InRange(p) == \A t \in {p[2], p[3]} : IsInt(t) => t[2] \in 0..(Modulus(p) - 1)

Reduced(P, m) ==
  LET left == {n \in DOMAIN P : P[n] % m # 0} IN [n \in left |-> P[n] % m]

\* Exponent-to-coefficient form of a polynomial in one variable.
Univariate(P) ==
  [e \in {MonoDegree(n) : n \in DOMAIN P} |->
     P[CHOOSE n \in DOMAIN P : MonoDegree(n) = e]]

IsPrime(m) == m >= 2 /\ \A d \in 2..(m - 1) : m % d # 0

\* Mutant of Monic: also where the leading coefficient has no inverse.
MonicAnyModulus(U, m) ==
  LET lead == U[Max(DOMAIN U)] IN [e \in DOMAIN U |-> (U[e] * lead) % m]

\* A prime modulus: divided by the leading coefficient.
Monic(U, m) ==
  IF IsPrime(m) /\ DOMAIN U # {}
  THEN LET lead == U[Max(DOMAIN U)]
           inv == CHOOSE i \in 1..(m - 1) : (i * lead) % m = 1
       IN [e \in DOMAIN U |-> (U[e] * inv) % m]
  ELSE U

\* _normalize: a claim in one variable loses the variable's name, one in several
\* keeps the names and is not scaled.
Normalize(P, m, single) ==
  IF Reduced(P, m) = << >> THEN <<"zero">>
  ELSE IF single THEN <<"uni", Monic(Univariate(Reduced(P, m)), m)>>
  ELSE <<"multi", Reduced(P, m)>>

AtomSignature(p, single) ==
  IF IsCongruence(p) /\ InRange(p)
  THEN <<p[1], Modulus(p), Normalize(Difference(p), Modulus(p), single)>>
  ELSE NoSignature

SingleVar(p) == Cardinality(FreeVars(p)) <= 1

(***************************************************************************)
(* Membership, and disjunctions of one polynomial's residues: keyed by the *)
(* residues the polynomial takes, whichever the claim asserts.             *)
(***************************************************************************)
ResidueSet(t, m) == {Value(t, [v \in Names |-> n]) % m : n \in 0..(m - 1)}

\* Mutant of ResidueKey: scaled like an equation.
ResidueKeyMonic(P, m) == Monic(Univariate(Reduced(P, m)), m)

ResidueKey(P, m) == Univariate(Reduced(P, m))

MembershipSignature(t, m, negated) ==
  LET P == Expansion(t)
      R == ResidueSet(t, m)
  IN IF ~Expands(t) \/ ~SingleVar(t) \/ m < 2 \/ m > ResidueBound + 1 THEN NoSignature
     ELSE IF Cardinality(R) = 1
     THEN <<IF negated THEN "!=" ELSE "==", m,
            Normalize(Add(P, Constant(-(CHOOSE r \in R : TRUE))), m, TRUE)>>
     ELSE <<IF negated THEN "not in" ELSE "in", m, ResidueKey(P, m), R>>

\* _disjunction_residues: every disjunct P % m == c, with the same P and m.
IsResidueDisjunction(p) ==
  /\ p[1] = "or"
  /\ \A i \in DOMAIN p[2] :
       LET q == p[2][i]
       IN q[1] = "==" /\ ~IsIff(q) /\ IsMod(q[2]) /\ IsInt(q[3]) /\ q[2] = p[2][1][2]

(***************************************************************************)
(* Boolean combinations of atoms.                                          *)
(***************************************************************************)
\* Same-operator nesting flattened.
RECURSIVE Operands(_, _)
Operands(p, op) ==
  IF p[1] # op THEN <<p>>
  ELSE FlattenSeq([i \in DOMAIN p[2] |-> Operands(p[2][i], op)])

\* Operands in no order, with their multiplicities.
Multiset(seq) ==
  [s \in ToSet(seq) |-> Cardinality({i \in DOMAIN seq : seq[i] = s})]

Flip(tag) ==
  CASE tag = "==" -> "!=" [] tag = "!=" -> "=="
    [] tag = "iff" -> "xor" [] tag = "xor" -> "iff"

RECURSIVE BooleanSignature(_, _)
BooleanSignature(p, single) ==
  LET sig(q) == BooleanSignature(q, single)
      combine(tag, qs) ==
        LET sigs == [i \in DOMAIN qs |-> sig(qs[i])]
        IN IF NoSignature \in ToSet(sigs) THEN NoSignature
           ELSE <<tag, Multiset(sigs)>>
  IN CASE p[1] \in {"and", "or"} -> combine(p[1], Operands(p, p[1]))
       [] IsIff(p) -> combine(IF p[1] = "==" THEN "iff" ELSE "xor", <<p[2], p[3]>>)
       [] p[1] = "not" ->
            LET s == sig(p[2])
            IN IF p[2][1] = "not" THEN sig(p[2][2])
               ELSE IF s[1] \in {"==", "!=", "iff", "xor"} THEN [s EXCEPT ![1] = Flip(@)]
               ELSE IF s = NoSignature THEN s
               ELSE <<"not", s>>
       [] OTHER -> AtomSignature(p, single)

\* congruence_signature.
CongruenceSignature(p) ==
  CASE IsResidueDisjunction(p) -> MembershipSignature(p[2][1][2][2], Modulus(p[2][1]), FALSE)
    [] p[1] \in {"in", "not in"} ->
         IF IsMod(p[2]) /\ p[3] # {}
         THEN MembershipSignature(p[2][2], p[2][3][2], p[1] = "not in")
         ELSE NoSignature
    [] OTHER -> BooleanSignature(p, SingleVar(p))

(***************************************************************************)
(* Degeneracy.                                                             *)
(***************************************************************************)
\* Mutant of ReducesToConstant: one vanishing coefficient is taken for all.
ReducesSomewhere(P, m) == \E n \in DOMAIN P \ {One} : P[n] % m = 0

ReducesToConstant(P, m) == \A n \in DOMAIN P \ {One} : P[n] % m = 0

AtomIsDegenerate(p) ==
  \/ IsCongruence(p) /\ ReducesToConstant(Difference(p), Modulus(p))
  \/ /\ p[1] \in {"in", "not in"} /\ IsMod(p[2]) /\ p[2][3][2] >= 2 /\ Expands(p[2][2])
     /\ ReducesToConstant(Expansion(p[2][2]), p[2][3][2])

IsCoefficientDegenerate(p) == \A q \in ToSet(Leaves(p)) : AtomIsDegenerate(q)
=============================================================================
