------------------------------- MODULE Notebook -------------------------------
(***************************************************************************)
(* What the outcome notebook keeps of whole families of claims             *)
(* (leibniz/discovery.py, DiscoveryNotebook): families proved so often     *)
(* that they are exhausted, and families that keep coming back known or    *)
(* trivial and never proved anything (ADR 0034, ADR 0069).  Its buckets of *)
(* recent statements only word the prompt and are left out, and so is the  *)
(* eviction from its two histograms: there are fewer coarse families (ADR  *)
(* 0081) than entries.                                                     *)
(***************************************************************************)
EXTENDS Naturals, FiniteSets

CONSTANTS
  Families,       \* coarse families of claims
  NoFamily,       \* of a claim outside the recognized shapes
  GenreThreshold, \* genre_threshold
  DryThreshold,   \* dry_threshold
  ListCap         \* genre_capacity, of either list

ASSUME NotebookAssumption ==
  /\ NoFamily \notin Families /\ IsFiniteSet(Families)
  /\ GenreThreshold \in Nat \ {0} /\ DryThreshold \in Nat \ {0} /\ ListCap \in Nat

\* A count is only compared with zero and its threshold, and kept up to it.
Books ==
  [counts : [Families -> 0 .. GenreThreshold],
   dried  : [Families -> 0 .. DryThreshold],
   genre  : SUBSET Families,
   dry    : SUBSET Families]

FreshBook ==
  [counts |-> [f \in Families |-> 0], dried |-> [f \in Families |-> 0],
   genre |-> {}, dry |-> {}]

Counted(n, limit) == IF n < limit THEN n + 1 ELSE limit

Listed(list, f, reached) ==
  IF reached /\ Cardinality(list) < ListCap THEN list \cup {f} ELSE list

\* Mutant: a proof does not take its family off the dry list.
NoteFamilyOnly(book, f) ==
  LET n == Counted(book.counts[f], GenreThreshold)
  IN [book EXCEPT !.counts[f] = n, !.dried[f] = 0,
                  !.genre = Listed(@, f, n >= GenreThreshold)]

\* A proof of the family: counted, and rehabilitated if it was dry.
NoteFamily(book, f) ==
  LET n == Counted(book.counts[f], GenreThreshold)
  IN [book EXCEPT !.counts[f] = n, !.dried[f] = 0, !.dry = @ \ {f},
                  !.genre = Listed(@, f, n >= GenreThreshold)]

\* Known or trivial again; a family that proves is not dry.
NoteDryFamily(book, f) ==
  LET n == Counted(book.dried[f], DryThreshold)
  IN [book EXCEPT !.dried[f] = n,
                  !.dry = Listed(@, f, n >= DryThreshold /\ book.counts[f] = 0)]

\* record: what a settled candidate of family f teaches.
Noted(book, f, outcome) ==
  IF f = NoFamily THEN book
  ELSE IF outcome = "proved" THEN NoteFamily(book, f)
  ELSE IF outcome = "dry" THEN NoteDryFamily(book, f)
  ELSE book
=============================================================================
