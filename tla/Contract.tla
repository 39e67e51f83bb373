------------------------------ MODULE Contract ------------------------------
(***************************************************************************)
(* The claim language every gate reads (leibniz/backends/smt_z3.py and     *)
(* leibniz/dsl_to_lean.py): integer terms and predicates over variables    *)
(* that range over the non-negative integers.  A predicate is its syntax   *)
(* tree, as the gates match on it: a tuple whose head names the node.      *)
(*                                                                         *)
(*   <<"int", 3>>  <<"var", "a">>  <<"neg", t>>  <<"+", s, t>>  -  *  ^  % *)
(*   <<"min", s, t>>  <<"max", s, t>>  <<"factorial", t>>  <<"gcd", s, t>> *)
(*   <<"==", l, r>>  !=  <  >=     (an iff or xor when l and r are Boolean) *)
(*   <<"in", t, S>>  <<"not in", t, S>>  <<"not", p>>                      *)
(*   <<"and", <<p, q, ...>>>>  <<"or", <<p, q, ...>>>>                     *)
(***************************************************************************)
EXTENDS Integers, Sequences, FiniteSets, SequencesExt, FiniteSetsExt

CONSTANTS
  MaxPow,     \* MAX_POW: the largest constant exponent
  MaxOrder,   \* MAX_ORDER: the longest period a query may case-split
  SmtBound    \* default_bound: the box of a bounded query is 0..SmtBound

ASSUME ContractAssumption ==
  MaxPow \in Nat /\ MaxOrder \in Nat /\ SmtBound \in Nat

IsInt(t) == t[1] = "int"

IsVar(t) == t[1] = "var"

Children(t) ==
  CASE t[1] \in {"int", "var"} -> {}
    [] t[1] \in {"and", "or"} -> ToSet(t[2])
    [] t[1] \in {"in", "not in", "not", "neg", "factorial"} -> {t[2]}
    [] OTHER -> {t[2], t[3]}

RECURSIVE Nodes(_)
Nodes(t) == {t} \cup UNION {Nodes(s) : s \in Children(t)}

\* free_vars: a call's name is not a variable.
FreeVars(t) == {s[2] : s \in {s \in Nodes(t) : IsVar(s)}}

IsBoolNode(t) == t[1] \in {"==", "!=", "<", ">=", "in", "not in", "and", "or", "not"}

\* `(P) == (Q)` between Boolean operands is a biconditional, and != its negation.
IsIff(p) == p[1] \in {"==", "!="} /\ IsBoolNode(p[2]) /\ IsBoolNode(p[3])

Power(b, k) ==
  LET pow[i \in 0..k] == IF i = 0 THEN 1 ELSE b * pow[i - 1] IN pow[k]

FactorialMod(k, m) ==
  LET fact[i \in 0..k] == IF i = 0 THEN 1 % m ELSE (i * fact[i - 1]) % m IN fact[k]

Gcd(x, y) ==
  IF x = 0 \/ y = 0 THEN x + y
  ELSE Max({d \in 1..(IF x < y THEN x ELSE y) : x % d = 0 /\ y % d = 0})

Lcm(S) == Min({l \in 1..FoldSet(LAMBDA x, y : x * y, 1, S) : \A d \in S : l % d = 0})

\* The integer a term denotes where the variables have the values x.
RECURSIVE Value(_, _)
Value(t, x) ==
  CASE IsInt(t) -> t[2]
    [] IsVar(t) -> x[t[2]]
    [] t[1] = "neg" -> -Value(t[2], x)
    [] t[1] = "+" -> Value(t[2], x) + Value(t[3], x)
    [] t[1] = "-" -> Value(t[2], x) - Value(t[3], x)
    [] t[1] = "*" -> Value(t[2], x) * Value(t[3], x)
    [] t[1] = "^" -> Power(Value(t[2], x), Value(t[3], x))
    [] t[1] = "%" -> IF t[2][1] = "factorial"
                     THEN FactorialMod(Value(t[2][2], x), t[3][2])
                     ELSE Value(t[2], x) % t[3][2]
    [] t[1] = "gcd" -> Gcd(Value(t[2], x), Value(t[3], x))
    [] t[1] = "min" -> Min({Value(t[2], x), Value(t[3], x)})
    [] t[1] = "max" -> Max({Value(t[2], x), Value(t[3], x)})

\* The comparisons a predicate is built from, in reading order.
RECURSIVE Leaves(_)
Leaves(p) ==
  CASE p[1] \in {"and", "or"} -> FlattenSeq([i \in DOMAIN p[2] |-> Leaves(p[2][i])])
    [] p[1] = "not" -> Leaves(p[2])
    [] IsIff(p) -> Leaves(p[2]) \o Leaves(p[3])
    [] OTHER -> <<p>>

\* The truth of a predicate whose comparisons have the truth values V.
RECURSIVE Truth(_, _)
Truth(p, V) ==
  CASE p[1] = "and" -> \A i \in DOMAIN p[2] : Truth(p[2][i], V)
    [] p[1] = "or" -> \E i \in DOMAIN p[2] : Truth(p[2][i], V)
    [] p[1] = "not" -> ~Truth(p[2], V)
    [] IsIff(p) -> (Truth(p[2], V) = Truth(p[3], V)) = (p[1] = "==")
    [] OTHER -> V[p]

Compares(p, x) ==
  LET l == Value(p[2], x)
  IN CASE p[1] = "==" -> l = Value(p[3], x)
       [] p[1] = "!=" -> l # Value(p[3], x)
       [] p[1] = "<" -> l < Value(p[3], x)
       [] p[1] = ">=" -> l >= Value(p[3], x)
       [] p[1] = "in" -> l \in p[3]
       [] p[1] = "not in" -> l \notin p[3]

Holds(p, x) == Truth(p, [c \in ToSet(Leaves(p)) |-> Compares(c, x)])

\* `base^n % m` with constants base and m and a bare variable n.
IsPowerMod(t) ==
  /\ t[1] = "%" /\ IsInt(t[3])
  /\ t[2][1] = "^" /\ IsInt(t[2][2]) /\ IsVar(t[2][3])

\* _multiplicative_order, 0 when the powers of b are not purely periodic mod m.
MultiplicativeOrder(b, m) ==
  IF Gcd(b, m) # 1 THEN 0
  ELSE Min({k \in 1..m : Power(b % m, k) % m = 1 % m})

\* What an encoding that is exact only inside the search box may be asked: an
\* unbounded query refuses the order reduction and the factorial and gcd tables.
ExactWithoutBox(t) ==
  ~IsPowerMod(t) /\ (t[1] \in {"factorial", "gcd"} => \A s \in Children(t) : IsInt(s))

\* What both compilers ask of one node: constant exponents and positive constant
\* divisors, and table arguments that are bare.
WellFormed(t) ==
  /\ t[1] = "^" => IsInt(t[3]) /\ t[3][2] \in 0..MaxPow
  /\ t[1] = "%" => IsInt(t[3]) /\ t[3][2] > 0
  /\ t[1] \in {"factorial", "gcd"} => \A s \in Children(t) : IsInt(s) \/ IsVar(s)
  /\ t[1] \notin {"in", "not in"}

\* compile_pred: whether Z3 is given an exact encoding of the predicate.
RECURSIVE Encodable(_, _)
Encodable(t, boxed) ==
  /\ boxed \/ ExactWithoutBox(t)
  /\ IF IsPowerMod(t)
     THEN MultiplicativeOrder(t[2][2][2], t[3][2]) \in 1..Min({MaxOrder, SmtBound})
     ELSE WellFormed(t) /\ \A s \in Children(t) : Encodable(s, boxed)

\* _prop and _term: whether the Lean renderer admits the predicate.
RECURSIVE Renderable(_)
Renderable(t) ==
  IsPowerMod(t) \/ (WellFormed(t) /\ \A s \in Children(t) : Renderable(s))
=============================================================================
