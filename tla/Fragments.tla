----------------------------- MODULE Fragments ------------------------------
(***************************************************************************)
(* The six decision procedures that certify a contract (leibniz/gates/     *)
(* *_decided.py): which claims each takes, the finite key the Lean kernel  *)
(* is left to decide for a claim of its fragment, and the four legs of     *)
(* decide_certificate.  The kernel is external: it closes a key exactly    *)
(* when it is true.                                                        *)
(***************************************************************************)
EXTENDS Structural

CONSTANTS
  MaxVars,           \* MAX_VARS
  MaxResidueCells,   \* MAX_RESIDUE_CELLS: kernel cells of a key
  MaxConjuncts,      \* MAX_CONJUNCTS
  MaxAtoms,          \* boolean_decided.MAX_ATOMS
  MaxLcm,            \* MAX_LCM
  MixedMaxCells,     \* MIXED_MAX_CELLS: the one-variable budget
  MixedMaxAtoms,     \* MIXED_MAX_ATOMS
  MaxBranches,       \* MAX_MINMAX_BRANCHES
  MaxEqs             \* MAX_MINMAX_EQS

ASSUME FragmentsAssumption ==
  \A n \in {MaxVars, MaxResidueCells, MaxConjuncts, MaxAtoms, MaxLcm, MixedMaxCells,
            MixedMaxAtoms, MaxBranches, MaxEqs} : n \in Nat \ {0}

Args(p) == ToSet(p[2])

Atoms(p) == ToSet(Leaves(p))

\* Valuations of the variables of p by numbers below n.
Residues(p, n) == [FreeVars(p) -> 0..(n - 1)]

(***************************************************************************)
(* lean_decided.                                                           *)
(***************************************************************************)
\* Mutant of IsAtom: the static residue-range guard is missing.
IsAtomAnyResidue(p) ==
  /\ p[1] \in {"==", "!="} /\ IsMod(p[2]) /\ IsInt(p[3])
  /\ p[2][3][2] >= 2 /\ IsPoly(p[2][2])

\* _atom: (poly % m) == c or != c, with c a residue.
IsAtom(p) ==
  /\ p[1] \in {"==", "!="} /\ IsMod(p[2]) /\ IsInt(p[3])
  /\ p[2][3][2] >= 2 /\ IsPoly(p[2][2])
  /\ p[3][2] \in 0..(p[2][3][2] - 1)

Moduli(p) == {a[2][3][2] : a \in Atoms(p)}

IsEqAtom(p) == IsAtom(p) /\ p[1] = "=="

\* classify_property: an atom, a residue set of one polynomial, or a conjunction
\* of atoms of one modulus.
ClassifyProperty(p) ==
  \/ IsAtom(p)
  \/ /\ p[1] = "or" /\ \A q \in Args(p) : IsEqAtom(q)
     /\ Cardinality({q[2] : q \in Args(p)}) = 1
  \/ /\ p[1] = "and" /\ \A q \in Args(p) : IsAtom(q)
     /\ Len(p[2]) \in 2..MaxConjuncts
     /\ Cardinality(Moduli(p)) = 1

\* An atom over ZMod m: equal to c up to a multiple of its own modulus.
AtomInZMod(a, x) ==
  LET m == a[2][3][2]
  IN ((Value(a[2][2], x) - a[3][2]) % m = 0) = (a[1] = "==")

\* The `decide`-closed key: the whole formula at every point of ZMod M.
KeyInZMod(p, M) ==
  \A x \in Residues(p, M) : Truth(p, [a \in Atoms(p) |-> AtomInZMod(a, x)])

(***************************************************************************)
(* boolean_decided and mixed_modulus_decided.                              *)
(***************************************************************************)
IsCombination(p) == \A a \in Atoms(p) : IsAtom(a)

\* _content_free: one truth value whatever the distinct equations are worth.
ContentFree(p) ==
  LET equation(a) == <<a[2], a[3]>>
      truths == {Truth(p, [a \in Atoms(p) |-> V[equation(a)] = (a[1] = "==")]) :
                   V \in [{equation(a) : a \in Atoms(p)} -> BOOLEAN]}
  IN Cardinality(truths) = 1

ClassifyBoolean(p) ==
  /\ IsCombination(p)
  /\ Cardinality(Moduli(p)) = 1
  /\ Len(Leaves(p)) <= MaxAtoms
  /\ ~ClassifyProperty(p)
  /\ ~ContentFree(p)

\* _flat_atoms: a flat disjunction of atoms.
IsFlat(p) == p[1] = "or" /\ \A q \in Args(p) : IsAtom(q)

\* _padded_covering: equations on one bare variable that list every residue of
\* some modulus.
PaddedCovering(p) ==
  LET eqs == {q \in Args(p) : q[1] = "=="}
  IN /\ \E v \in FreeVars(p) : \A q \in eqs : q[2][2] = <<"var", v>>
     /\ \E q \in eqs :
          Cardinality({r \in eqs : r[2][3] = q[2][3]}) = q[2][3][2]

MixedContentFree(p) ==
  \/ IsFlat(p) /\ PaddedCovering(p)
  \/ IF Len(Leaves(p)) <= MaxAtoms THEN ContentFree(p)
     ELSE IsFlat(p) => \E q, r \in Args(p) :
                         q[1] = "==" /\ r = [q EXCEPT ![1] = "!="]

ClassifyMixed(p) ==
  /\ IsCombination(p)
  /\ Cardinality(Moduli(p)) >= 2
  /\ Len(Leaves(p)) <= MixedMaxAtoms
  /\ Lcm(Moduli(p)) <= MaxLcm
  /\ ~MixedContentFree(p)

\* Mutant of CommonModulus: the largest modulus stands for the least common multiple.
LargestModulus(p) == Max(Moduli(p))

CommonModulus(p) == Lcm(Moduli(p))

CellBudget(nvars) == IF nvars = 1 THEN MixedMaxCells ELSE MaxResidueCells

(***************************************************************************)
(* power_mod_decided and factgcd_decided: one atom, or a disjunction of    *)
(* equations on one function of one variable, with distinct values.        *)
(***************************************************************************)
Comparisons(p) == IF p[1] = "or" THEN p[2] ELSE <<p>>

IsFamily(p) ==
  LET cs == Comparisons(p)
  IN /\ \A i \in DOMAIN cs : cs[i][1] \in {"==", "!="} /\ IsInt(cs[i][3])
     /\ \A i, j \in DOMAIN cs : cs[i][2] = cs[j][2] /\ (cs[i][3] = cs[j][3] => i = j)
     /\ p[1] = "or" => \A i \in DOMAIN cs : cs[i][1] = "=="

\* _power_atom, with the range and order guards of classify_power.
IsPowerAtom(p) ==
  /\ IsPowerMod(p[2])
  /\ LET b == p[2][2][2][2]  m == p[2][3][2]
     IN /\ b >= 2 /\ m >= 2 /\ p[3][2] \in 0..(m - 1)
        /\ MultiplicativeOrder(b, m) \in 1..MaxOrder

ClassifyPower(p) == IsFamily(p) /\ \A c \in ToSet(Comparisons(p)) : IsPowerAtom(c)

IsFactGcdAtom(p) ==
  LET t == p[2]
  IN \/ /\ IsMod(t) /\ t[2][1] = "factorial" /\ IsVar(t[2][2])
        /\ t[3][2] \in 2..MaxOrder /\ p[3][2] \in 0..(t[3][2] - 1)
     \/ /\ t[1] = "gcd" /\ {s[1] : s \in {t[2], t[3]}} = {"int", "var"}
        /\ \E s \in {t[2], t[3]} :
             IsInt(s) /\ s[2] \in 1..MaxOrder /\ p[3][2] \in 0..s[2]

ClassifyFactGcd(p) == IsFamily(p) /\ \A c \in ToSet(Comparisons(p)) : IsFactGcdAtom(c)

\* interval_cases: the claim at the first n arguments.
ArmsHold(p, n) == \A x \in Residues(p, n) : Holds(p, x)

\* The period is checked by the kernel before its arms are.
PowerKey(p) ==
  LET t == Comparisons(p)[1][2]
      b == t[2][2][2]  m == t[3][2]  ord == MultiplicativeOrder(b, m)
  IN Power(b % m, ord) % m = 1 /\ ArmsHold(p, ord)

\* factorial: the arms below m, and the tail, where the residue is that of m!.
\* gcd: one period of its constant argument.
FactGcdKey(p) ==
  LET t == Comparisons(p)[1][2]
  IN IF t[1] = "%" THEN ArmsHold(p, t[3][2] + 1)
     ELSE \E s \in {t[2], t[3]} : IsInt(s) /\ ArmsHold(p, s[2])

(***************************************************************************)
(* minmax_decided.                                                         *)
(***************************************************************************)
\* _mmpoly: a polynomial that may also hold min and max of two variables.
IsMinMaxPoly(t) ==
  \A s \in Nodes(t) :
    PolyNode(s) \/ (s[1] \in {"min", "max"} /\ IsVar(s[2]) /\ IsVar(s[3]) /\ s[2] # s[3])

Pairs(p) == {{s[2], s[3]} : s \in {s \in Nodes(p) : s[1] \in {"min", "max"}}}

Identities(p) == IF p[1] = "and" THEN p[2] ELSE <<p>>

ClassifyIdentity(p) ==
  LET eqs == Identities(p)
  IN /\ \A i \in DOMAIN eqs :
          eqs[i][1] = "==" /\ IsMinMaxPoly(eqs[i][2]) /\ IsMinMaxPoly(eqs[i][3])
     /\ Len(eqs) <= MaxEqs
     /\ Pairs(p) # {} /\ 2 ^ Cardinality(Pairs(p)) <= MaxBranches

\* The term where least[q] is the smaller variable of each pair q.
RECURSIVE Resolve(_, _)
Resolve(t, least) ==
  CASE t[1] = "min" -> least[{t[2], t[3]}]
    [] t[1] = "max" -> CHOOSE v \in {t[2], t[3]} : v # least[{t[2], t[3]}]
    [] t[1] \in {"int", "var"} -> t
    [] t[1] = "neg" -> <<"neg", Resolve(t[2], least)>>
    [] OTHER -> <<t[1], Resolve(t[2], least), Resolve(t[3], least)>>

\* le_total on every pair, then ring in every branch.
IdentityKey(p) ==
  \A least \in {f \in [Pairs(p) -> UNION Pairs(p)] : \A q \in Pairs(p) : f[q] \in q} :
    \A i \in DOMAIN Identities(p) :
      LET eq == Identities(p)[i]
      IN Vanishes(Expansion(Resolve(<<"-", eq[2], eq[3]>>, least)))

(***************************************************************************)
(* decide_certificate.                                                     *)
(***************************************************************************)
Applies(k, p) ==
  CASE k = "modular" -> ClassifyProperty(p)
    [] k = "minmax" -> ClassifyIdentity(p)
    [] k = "boolean" -> ClassifyBoolean(p)
    [] k = "mixed" -> ClassifyMixed(p)
    [] k = "power" -> ClassifyPower(p)
    [] k = "factgcd" -> ClassifyFactGcd(p)

\* The arity and budget guards, on the variables of the whole contract.
WithinBudget(k, p, vs) ==
  LET n == Cardinality(vs)
  IN CASE k \in {"modular", "boolean"} ->
            n \in 1..MaxVars /\ CommonModulus(p) ^ n <= MaxResidueCells
       [] k = "mixed" -> n \in 1..MaxVars /\ CommonModulus(p) ^ n <= CellBudget(n)
       [] k = "minmax" -> n \in 1..MaxVars
       [] k \in {"power", "factgcd"} -> vs = FreeVars(p) /\ n = 1

\* What the kernel is left to decide of the property leg.
Key(k, p) ==
  CASE k \in {"modular", "boolean", "mixed"} -> KeyInZMod(p, CommonModulus(p))
    [] k = "minmax" -> IdentityKey(p)
    [] k = "power" -> PowerKey(p)
    [] k = "factgcd" -> FactGcdKey(p)

\* _eval_pred takes every call but min for max.
RECURSIVE AsEvaluated(_)
AsEvaluated(t) ==
  CASE t[1] \in {"int", "var"} -> t
    [] t[1] \in {"and", "or"} -> <<t[1], [i \in DOMAIN t[2] |-> AsEvaluated(t[2][i])]>>
    [] t[1] \in {"neg", "not"} -> <<t[1], AsEvaluated(t[2])>>
    [] t[1] = "factorial" -> AsEvaluated(t[2])
    [] OTHER -> <<IF t[1] = "gcd" THEN "max" ELSE t[1], AsEvaluated(t[2]), AsEvaluated(t[3])>>

\* decide_certificate refuses what it cannot render, what is not the fragment's and
\* what is over its budget, before it asks the kernel.
Admits(k, c) ==
  /\ \A p \in {c.cd, c.cp, c.ed} : Renderable(p)
  /\ Applies(k, c.cp)
  /\ WithinBudget(k, c.cp, UNION {FreeVars(p) : p \in {c.cd, c.cp, c.ed}})
=============================================================================
