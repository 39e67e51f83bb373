------------------------------ MODULE MCScreen -------------------------------
(***************************************************************************)
(* Screen over some sixty claims in two variables, chosen around the edges *)
(* of the six fragments, the signatures and the degeneracy test, and over  *)
(* domains that are full, thin, out of the search box or empty.            *)
(***************************************************************************)
EXTENDS Screening

a == <<"var", "a">>
b == <<"var", "b">>
N(k) == <<"int", k>>
Plus(s, t) == <<"+", s, t>>
Times(s, t) == <<"*", s, t>>
To(s, k) == <<"^", s, N(k)>>
Res(t, m) == <<"%", t, N(m)>>
Is(t, c) == <<"==", t, N(c)>>
Isnt(t, c) == <<"!=", t, N(c)>>
Both(p, q) == <<"and", <<p, q>>>>
Either(p, q) == <<"or", <<p, q>>>>
Neither(p) == <<"not", p>>
Iff(p, q) == <<"==", p, q>>
MinOf(s, t) == <<"min", s, t>>
MaxOf(s, t) == <<"max", s, t>>

Square == To(a, 2)
Odd == Is(Res(a, 2), 1)
Even == Is(Res(a, 2), 0)

\* Domains.
All == <<">=", a, N(0)>>
Big == <<">=", a, N(6)>>
Sixth == Is(Res(a, 6), 0)
Never == Is(Res(Square, 4), 2)

OneModulus == {
  Isnt(Res(Square, 4), 2),
  Is(Res(Square, 4), 1),
  Is(Res(a, 4), 0), Is(Res(Times(N(2), a), 4), 0),
  Is(Res(Times(N(2), a), 4), 2),
  Is(Res(Plus(To(a, 3), Times(N(2), a)), 3), 0),
  Is(Res(Plus(To(b, 3), Times(N(2), b)), 3), 0),
  Is(Res(Plus(Times(N(2), To(a, 3)), Times(N(4), a)), 3), 0),
  <<"==", Res(To(a, 3), 3), Res(a, 3)>>,
  Isnt(Res(Plus(Times(N(2), a), N(1)), 6), 0),
  Isnt(Res(Plus(Times(N(2), a), N(4)), 6), 0),
  Is(Res(Plus(Square, a), 2), 2),
  Is(Res(Times(a, b), 2), 0),
  Is(Res(Times(Times(a, b), Plus(a, b)), 2), 0),
  Both(Is(Res(a, 3), 0), Is(Res(b, 3), 1)),
  Both(Is(Res(a, 3), 1), Is(Res(b, 3), 0)),
  Both(Isnt(Res(Square, 3), 2), Isnt(Res(To(b, 2), 3), 2)),
  <<"and", <<Isnt(Res(a, 2), 0), Isnt(Res(b, 2), 0), Isnt(Res(Times(a, b), 2), 0)>>>>}

Memberships == {
  <<"in", Res(Square, 4), {0, 1}>>,
  <<"not in", Res(Square, 4), {2}>>,
  <<"in", Res(Plus(To(a, 3), Times(N(2), a)), 3), {0, 1}>>,
  <<"in", Res(Square, 7), {0, 1, 2, 4}>>,
  <<"in", Res(Times(N(2), Square), 7), {0, 1, 2, 4}>>,
  <<"in", Res(Square, 8), {0, 1, 4}>>,
  Either(Is(Res(Square, 4), 0), Is(Res(Square, 4), 1)),
  Either(Is(Res(Square, 4), 1), Is(Res(Square, 4), 3)),
  Either(Is(Res(Times(N(2), Square), 7), 1), Is(Res(Times(N(2), Square), 7), 2)),
  Either(Is(Res(Square, 7), 1), Is(Res(Square, 7), 2)),
  Either(Even, Odd)}

\* Congruences whose variables drop out, and one where they nearly do.
Degenerates == {
  Is(Res(Times(N(2), Times(a, b)), 2), 0),
  Is(Res(Times(N(4), a), 4), 1),
  Is(Res(Plus(Times(N(2), Times(a, b)), a), 2), 0),
  Either(Is(Res(Times(N(2), a), 2), 0), Is(Res(Times(N(3), b), 3), 1))}

Combinations == {
  Iff(Is(Res(Square, 3), 1), Isnt(Res(a, 3), 0)),
  Iff(Is(Res(Square, 3), 1), Is(Res(a, 3), 1)),
  Neither(Is(Res(Square, 4), 2)), Neither(Neither(Isnt(Res(Square, 4), 2))),
  Either(Even, Neither(Even)),
  Either(Is(Res(a, 3), 0), Isnt(Res(b, 3), 0)),
  Either(Is(Res(a, 3), 0), Both(Isnt(Res(a, 3), 0), Isnt(Res(Square, 3), 0))),
  Iff(Is(Res(Square, 4), 1), Odd), Iff(Is(Res(Square, 4), 0), Odd),
  Both(Even, Is(Res(a, 3), 0)), Either(Even, Is(Res(a, 3), 1)),
  <<"or", <<Even, Is(Res(a, 3), 0), Is(Res(a, 4), 1), Is(Res(a, 6), 5), Is(Res(a, 12), 7)>>>>,
  <<"or", <<Even, Is(Res(a, 3), 0), Is(Res(a, 4), 1), Is(Res(a, 6), 5), Is(Res(a, 12), 11)>>>>,
  <<"or", <<Even, Odd, Is(Res(a, 3), 0)>>>>,
  Either(Is(Res(a, 4), 0), Isnt(Res(a, 5), 0))}

Exponentials == {
  Isnt(Res(<<"^", N(2), a>>, 3), 0), Is(Res(<<"^", N(2), a>>, 5), 1),
  Isnt(Res(<<"^", N(2), a>>, 4), 0), Isnt(Res(<<"^", N(3), a>>, 7), 0),
  Either(Is(Res(<<"^", N(2), a>>, 3), 1), Is(Res(<<"^", N(2), a>>, 3), 2)),
  Isnt(Res(<<"factorial", a>>, 3), 0), Isnt(Res(<<"factorial", a>>, 4), 3),
  Isnt(<<"gcd", N(4), a>>, 3), Is(<<"gcd", a, N(4)>>, 2)}

Lattice == {
  <<"==", Plus(MinOf(a, b), MaxOf(a, b)), Plus(a, b)>>,
  <<"==", Times(MinOf(a, b), MaxOf(b, a)), Times(a, b)>>,
  <<"==", MinOf(a, b), a>>,
  Both(<<"==", MinOf(a, b), MinOf(b, a)>>, <<"==", MaxOf(a, b), MaxOf(b, a)>>),
  <<"and", <<<<"==", MinOf(a, b), MinOf(b, a)>>, <<"==", MaxOf(a, b), MaxOf(b, a)>>,
             <<"==", MinOf(a, b), MinOf(a, b)>>>>>>}

MC_Claims ==
  OneModulus \cup Memberships \cup Degenerates \cup Combinations \cup Exponentials \cup Lattice

\* Every claim over all integers, and the contracts whose domains matter: a claim
\* true only on its domain, a domain outside the box or empty, a statement that
\* covers too little, or too little only outside the box.
Formalizable ==
  {[cd |-> All, cp |-> p, ed |-> All] : p \in MC_Claims}
  \cup {[cd |-> d[1], cp |-> d[2], ed |-> d[3]] : d \in {
    <<Odd, Is(Res(Square, 4), 1), Odd>>,
    <<Odd, Is(Res(Square, 4), 1), All>>,
    <<All, Is(Res(Square, 4), 1), Odd>>,
    <<All, Isnt(Res(Square, 4), 2), Isnt(Res(Square, 4), 2)>>,
    <<All, Isnt(Res(Square, 4), 2), Odd>>,
    <<Big, Even, Odd>>,
    <<Big, Is(Res(Times(N(2), a), 4), 0), Even>>,
    <<Big, Isnt(Res(Square, 4), 2), Big>>,
    <<Never, Is(Res(a, 4), 0), Never>>,
    <<Even, Is(Res(Times(N(2), a), 4), 0), Even>>,
    <<Odd, Is(Res(Times(N(2), a), 4), 2), Odd>>,
    <<Sixth, Both(Even, Is(Res(a, 3), 0)), Sixth>>,
    <<Even, Either(Is(Res(Square, 4), 0), Is(Res(Square, 4), 2)), Even>>,
    <<Odd, Either(Is(Res(Square, 4), 1), Is(Res(Square, 4), 3)), Odd>>,
    <<Is(Res(Times(N(2), Square), 7), 1),
      Either(Is(Res(Times(N(2), Square), 7), 1), Is(Res(Times(N(2), Square), 7), 2)),
      Is(Res(Times(N(2), Square), 7), 1)>>,
    <<Is(Res(a, 3), 1), Is(Res(Plus(Times(N(2), a), N(4)), 6), 0), All>>,
    <<Is(Res(a, 3), 0), Isnt(Res(Plus(Times(N(2), a), N(4)), 6), 0), Is(Res(a, 3), 0)>>,
    <<Both(Is(Res(a, 3), 0), Is(Res(b, 3), 1)), Both(Is(Res(a, 3), 0), Is(Res(b, 3), 1)),
      Both(Is(Res(a, 3), 0), Is(Res(b, 3), 1))>>,
    <<Is(<<"gcd", a, N(4)>>, 2), Is(<<"gcd", a, N(4)>>, 2), Is(<<"gcd", a, N(4)>>, 2)>>}}

MC_Contracts == Formalizable

MC_Curated == {
  <<All, Is(Res(Plus(To(a, 3), Times(N(2), a)), 3), 0)>>,
  <<All, <<"==", Res(Square, 2), Res(a, 2)>>>>,
  <<All, Is(Res(Times(a, Plus(a, N(1))), 2), 0)>>}

\* The tables of Screening, each computed once.
MC_Everywhere == NonNegative
MC_Box == SearchBox
MC_WitnessBox == WitnessGrid
MC_Meaning == Meanings
MC_Evaluated == Sightings
MC_BoxEncodable == EncodableInBox
MC_UnboundedEncodable == EncodableWithoutBox
MC_Signature == Signatures
MC_Degenerate == DegenerateClaims
MC_Congruence == Readings
MC_Fact == Facts
MC_Eligible == EligibleFor
MC_Keyed == KeyedBy
=============================================================================
