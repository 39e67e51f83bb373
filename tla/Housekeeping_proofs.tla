-------------------------- MODULE Housekeeping_proofs --------------------------
(***************************************************************************)
(* Proofs about Housekeeping, for every value of its constants: whatever   *)
(* stops an export, the manifest vouches for whole folios only; and        *)
(* whatever stops a sweep, the queue has no more copies of a hit than      *)
(* stops, and of the hits a sweep without a gap owed a reader misses at    *)
(* most one for each stop.                                                 *)
(***************************************************************************)
EXTENDS Housekeeping, FiniteSetTheorems, SequenceTheorems, TLAPS

(***************************************************************************)
(* The inductive invariant of the exchange speaks of it alone.             *)
(***************************************************************************)
ExchangeTyped ==
  /\ laws \in Seq(Laws) /\ rows \in Seq(Laws)
  /\ manifest \subseteq Laws
  /\ folios \in [Laws -> {"none", "part", "whole"}]
  /\ listed = Spoilt \/ listed \subseteq Laws

\* Until the manifest is written the one in memory has all of the one on disk, so a
\* folio that is opened anew is in neither.
ManifestInv ==
  /\ \A l \in manifest : folios[l] = "whole"
  /\ listed = Spoilt \/ \A l \in listed : folios[l] = "whole"
  /\ exportpc \in {"query", "rows", "write"} => listed = Spoilt \/ listed \subseteq manifest
  /\ exportpc = "write" => rows # <<>> /\ Head(rows) \notin manifest

IInv == ExchangeTyped /\ ManifestInv

LEMMA SpoiltIsNoManifest == \A s \in SUBSET Laws : s # Spoilt
BY ExchangeAssumption

LEMMA InitIInv == Init => IInv
<1> SUFFICES ASSUME Init PROVE IInv
  OBVIOUS
<1>1. <<>> \in Seq(Laws)
  OBVIOUS
<1> QED
  BY <1>1 DEF Init, ExchangeInit, IInv, ExchangeTyped, ManifestInv

\* A step of the sweep, of the journal or of the calendar leaves the exchange alone.
LEMMA ExchangeLeftAlone ==
  ASSUME IInv, UNCHANGED exportVars
  PROVE  IInv'
BY DEF IInv, ExchangeTyped, ManifestInv, exportVars, exportRun, exportFiles

LEMMA PromulgateKeeps ==
  ASSUME IInv, Promulgate
  PROVE  IInv'
<1>1. PICK l \in Laws : laws' = Append(laws, l)
  BY DEF Promulgate
<1>2. laws' \in Seq(Laws)
  BY <1>1 DEF IInv, ExchangeTyped
<1> QED
  BY <1>2
  DEF Promulgate, IInv, ExchangeTyped, ManifestInv, exportRun, exportFiles

LEMMA QueryFailsKeeps ==
  ASSUME IInv, QueryFails
  PROVE  IInv'
<1>1. rows' = <<>> /\ <<>> \in Seq(Laws)
  BY DEF QueryFails
<1> QED
  BY <1>1 DEF QueryFails, IInv, ExchangeTyped, ManifestInv, exportFiles

\* An export that stops or returns forgets the manifest in memory, not the files.
LEMMA LeaveKeeps ==
  ASSUME IInv, Leave, UNCHANGED <<laws, exportFiles>>
  PROVE  IInv'
<1>1. rows' = <<>> /\ <<>> \in Seq(Laws) /\ manifest' = {} /\ exportpc' = "idle"
  BY DEF Leave
<1> QED
  BY <1>1 DEF IInv, ExchangeTyped, ManifestInv, exportFiles

LEMMA ExportStepKeeps ==
  ASSUME IInv, ExportStep
  PROVE  IInv'
<1> USE DEF IInv
<1>1. CASE ReadManifest
  BY <1>1, SpoiltIsNoManifest
  DEF ReadManifest, ExchangeTyped, ManifestInv, exportFiles
<1>2. CASE Query
  BY <1>2 DEF Query, ExchangeTyped, ManifestInv, exportFiles
<1>3. CASE PassOver
  <2>1. Tail(rows) \in Seq(Laws)
    BY <1>3, HeadTailProperties DEF PassOver, ExchangeTyped
  <2> QED
    BY <1>3, <2>1 DEF PassOver, ExchangeTyped, ManifestInv, exportFiles
<1>4. CASE OpenFolio
  <2>1. Head(rows) \in Laws
    BY <1>4, HeadTailProperties DEF OpenFolio, ExchangeTyped
  <2>2. folios' = [folios EXCEPT ![Head(rows)] = "part"] /\ Head(rows) \notin manifest
    BY <1>4 DEF OpenFolio
  <2>3. exportpc = "rows" /\ exportpc' = "write" /\ rows # <<>>
    BY <1>4 DEF OpenFolio
  <2>4. ExchangeTyped'
    BY <1>4, <2>1, <2>2 DEF OpenFolio, ExchangeTyped, exportRun
  <2>5. ManifestInv'
    BY <1>4, <2>1, <2>2, <2>3, SpoiltIsNoManifest
    DEF OpenFolio, ExchangeTyped, ManifestInv, exportRun
  <2> QED
    BY <2>4, <2>5
<1>5. CASE WriteFolio
  <2>1. rows # <<>>
    BY <1>5 DEF WriteFolio, ManifestInv
  <2>2. Head(rows) \in Laws /\ Tail(rows) \in Seq(Laws)
    BY <2>1, HeadTailProperties DEF ExchangeTyped
  <2>3. /\ folios' = [folios EXCEPT ![Head(rows)] = "whole"]
        /\ manifest' = manifest \cup {Head(rows)} /\ rows' = Tail(rows)
        /\ exportpc' = "rows" /\ laws' = laws /\ listed' = listed /\ exportpc = "write"
    BY <1>5 DEF WriteFolio
  <2> QED
    BY <2>2, <2>3, SpoiltIsNoManifest DEF ExchangeTyped, ManifestInv
<1>6. CASE EmptyManifest
  BY <1>6 DEF EmptyManifest, ExchangeTyped, ManifestInv, exportRun
<1>7. CASE SaveManifest
  BY <1>7 DEF SaveManifest, ExchangeTyped, ManifestInv, exportRun
<1> QED
  BY <1>1, <1>2, <1>3, <1>4, <1>5, <1>6, <1>7 DEF ExportStep

LEMMA NextIInv == IInv /\ [Next]_vars => IInv'
<1> SUFFICES ASSUME IInv, [Next]_vars PROVE IInv'
  OBVIOUS
<1>1. CASE World
  BY <1>1, ExchangeLeftAlone, PromulgateKeeps DEF World
<1>2. CASE Beat \/ Feed \/ FeedReturns \/ FeedGetsBlank \/ FeedRaises \/ WriteJournal
  BY <1>2, ExchangeLeftAlone
  DEF Beat, Feed, FeedReturns, FeedGetsBlank, FeedRaises, WriteJournal
<1>3. CASE Export
  BY <1>3, ExportStepKeeps DEF Export
<1>4. CASE ExportQueryFails
  BY <1>4, QueryFailsKeeps DEF ExportQueryFails
<1>5. CASE ExportReturns
  BY <1>5, LeaveKeeps DEF ExportReturns, EndExport
<1>6. CASE ExportRaises
  BY <1>6, LeaveKeeps DEF ExportRaises, Abort
<1>7. CASE Kill
  BY <1>7, LeaveKeeps, ExchangeLeftAlone DEF Kill, Abort
<1>8. CASE UNCHANGED vars
  BY <1>8, ExchangeLeftAlone DEF vars
<1> QED
  BY <1>1, <1>2, <1>3, <1>4, <1>5, <1>6, <1>7, <1>8 DEF Next

(***************************************************************************)
(* The inductive invariant of the sweep.                                   *)
(***************************************************************************)
Saving == {"append", "empty", "save"}

Distinct(s) == \A i, j \in DOMAIN s : s[i] = s[j] => i = j

Copies(p) == Cardinality(Lines(p))

Queued(p) == Lines(p) # {}

InSeen(p) == seen # Corrupt /\ p \in seen

\* So many papers came after it that no page lists it any more.
Buried(p) == arrived - p >= SeenCap

\* arXiv announces papers in the order of their numbers.
ArrivalInv ==
  /\ arrived \in Nat /\ arrived <= Cardinality(Papers) /\ night \in Nat
  /\ published \in [Papers -> Nat]
  /\ \A p \in Papers : p <= arrived => published[p] <= night
  /\ \A p, q \in Papers : p <= q /\ q <= arrived => published[p] <= published[q]

\* Another page is read while one is allowed, and hits are pending while they are
\* appended.
SweepInv ==
  /\ feedpc \in FeedPcs /\ pageno \in Nat /\ pageno <= MaxPages
  /\ feedpc = "fetch" => pageno < MaxPages
  /\ feedpc = "append" <=> pending # <<>>
  /\ feedpc # "idle" => stage = "feed"

ListsInv ==
  /\ fresh \in Seq(Papers) /\ \A p \in ToSet(fresh) : p <= arrived
  /\ pending \in Seq(Papers) /\ Distinct(pending)
  /\ known \subseteq Papers /\ \A p \in known : p <= arrived
  /\ \A p : InSeen(p) => p \in Papers /\ p <= arrived
  /\ queue \in Seq([paper : Papers, readable : BOOLEAN])

\* A paper with a copy more than sweeps were stopped is remembered, on disk or, while
\* the seen set is being saved, in memory; or it is buried.
CopyInv ==
  /\ halted \in Nat
  /\ \A p \in Papers :
       /\ Copies(p) <= 1 + halted
       /\ Copies(p) > halted =>
            Buried(p) \/ IF feedpc \in Saving THEN p \in known ELSE InSeen(p)
  /\ feedpc \in {"fetch", "update"} =>
       \A p \in ToSet(fresh) : Copies(p) > halted => InSeen(p)
  /\ \A p \in ToSet(pending) : Copies(p) <= halted /\ p \in known

\* What is seen is queued, or about to be.
SeenInv ==
  /\ \A p \in Cored : InSeen(p) => Queued(p)
  /\ feedpc \in Saving =>
       \A p \in known \cap Cored : Queued(p) \/ p \in ToSet(pending)

\* What a sweep owes is among the entries read or in the pages to come, then among
\* the entries, then queued or about to be, and then queued.
DueInv ==
  /\ due \subseteq Papers /\ vouched \subseteq Papers
  /\ stage = "feed" => \A p \in due : p <= arrived /\ InWindow(p, night)
  /\ feedpc = "fetch" =>
       \A p \in due : p \in ToSet(fresh) \/ arrived - p >= pageno * PageSize
  /\ feedpc = "update" => truncated \/ blank \/ due \subseteq ToSet(fresh)
  /\ feedpc \in Saving =>
       truncated \/ blank \/ \A p \in due \cap Cored : Queued(p) \/ p \in ToSet(pending)
  /\ feedpc = "done" => truncated \/ blank \/ \A p \in due \cap Cored : Queued(p)
  /\ stage \in {"export", "journal"} /\ note = "full" =>
       blank \/ \A p \in due \cap Cored : Queued(p)
  /\ \A p \in vouched \cap Cored : Queued(p)

FeedInv == ArrivalInv /\ SweepInv /\ ListsInv /\ CopyInv /\ SeenInv /\ DueInv

(***************************************************************************)
(* Lemmas about the operators of the feed.                                 *)
(***************************************************************************)
LEMMA PapersFinite ==
  /\ IsFiniteSet(Papers) /\ Cardinality(Papers) \in Nat
  /\ \A p : p \in Papers <=> p \in Nat /\ 1 <= p /\ p <= Cardinality(Papers)
  /\ \A S \in SUBSET Papers : IsFiniteSet(S) /\ Cardinality(S) \in Nat
BY ArxivFeedAssumption, FS_CardinalityType, FS_Subset

\* The explicit sort puts every member of a set of papers in the sequence, once.
LEMMA NewestFirstFacts ==
  ASSUME NEW ps \in SUBSET Papers
  PROVE  /\ NewestFirst(ps) \in Seq(ps) /\ NewestFirst(ps) \in Seq(Papers)
         /\ ToSet(NewestFirst(ps)) = ps
         /\ Distinct(NewestFirst(ps))
<1> DEFINE n == Cardinality(ps)
           newer(p) == Cardinality(Newer(ps, p))
           rank == [p \in ps |-> newer(p) + 1]
           s == NewestFirst(ps)
<1>1. n \in Nat /\ IsFiniteSet(ps) /\ ps \subseteq Nat
  BY PapersFinite
<1>2. IsFiniteSet(1..n) /\ Cardinality(1..n) = n
  BY <1>1, FS_Interval
<1>3. ASSUME NEW p \in ps
      PROVE  newer(p) \in Nat /\ newer(p) + 1 \in 1..n
  <2>1. IsFiniteSet(ps \ {p}) /\ Cardinality(ps \ {p}) = n - 1
    BY <1>1, FS_RemoveElement
  <2>2. Newer(ps, p) \in SUBSET (ps \ {p})
    BY <1>1 DEF Newer
  <2>3. newer(p) \in Nat /\ newer(p) <= n - 1
    BY <2>1, <2>2, FS_Subset, FS_CardinalityType
  <2> QED
    BY <1>1, <2>3
<1>4. ASSUME NEW p \in ps, NEW q \in ps, p < q
      PROVE  newer(q) # newer(p)
  <2>1. Newer(ps, p) \in SUBSET Papers /\ Newer(ps, q) \in SUBSET Papers
    BY DEF Newer
  <2>2. q \in Newer(ps, p) /\ IsFiniteSet(Newer(ps, p))
    BY <1>4, <2>1, PapersFinite DEF Newer
  <2>3. q \in Nat /\ q \notin Newer(ps, q)
    BY <1>1 DEF Newer
  <2>4. Newer(ps, q) \in SUBSET Newer(ps, p)
    <3>1. \A r \in ps : r > q => r > p
      BY <1>1, <1>4
    <3> QED
      BY <3>1 DEF Newer
  <2> QED
    BY <2>2, <2>3, <2>4, FS_Subset
<1>5. \A p, q \in ps : newer(p) = newer(q) => p = q
  <2> HIDE DEF newer
  <2>1. \A p, q \in ps : p = q \/ p < q \/ q < p
    BY <1>1
  <2> QED
    BY <1>4, <2>1
<1>6. rank \in Injection(ps, 1..n)
  BY <1>3, <1>5 DEF Injection, IsInjective
<1>7. rank \in Surjection(ps, 1..n)
  BY <1>2, <1>6, FS_Injection
<1>8. ASSUME NEW i \in 1..n
      PROVE  s[i] \in ps /\ newer(s[i]) = i - 1
  <2>1. \E p \in ps : newer(p) + 1 = i
    BY <1>7 DEF Surjection
  <2>2. \E p \in ps : newer(p) = i - 1
    BY <1>3, <2>1
  <2>3. s[i] = CHOOSE p \in ps : newer(p) = i - 1
    BY DEF NewestFirst
  <2> QED
    BY <2>2, <2>3
<1>9. s \in Seq(ps) /\ s \in Seq(Papers) /\ DOMAIN s = 1..n
  <2>1. s = [i \in 1..n |-> s[i]]
    BY DEF NewestFirst
  <2> QED
    BY <1>1, <1>8, <2>1
<1>10. ps \subseteq ToSet(s)
  <2> SUFFICES ASSUME NEW p \in ps PROVE p \in ToSet(s)
    OBVIOUS
  <2>1. newer(p) + 1 \in 1..n /\ newer(p) \in Nat
    BY <1>3
  <2>2. s[newer(p) + 1] \in ps /\ newer(s[newer(p) + 1]) = newer(p)
    BY <1>8, <2>1
  <2>3. s[newer(p) + 1] = p
    BY <1>5, <2>2
  <2> QED
    BY <1>9, <2>1, <2>3 DEF ToSet
<1>11. ToSet(s) \subseteq ps
  BY <1>8, <1>9 DEF ToSet
<1>12. Distinct(s)
  <2> SUFFICES ASSUME NEW i \in 1..n, NEW j \in 1..n, s[i] = s[j] PROVE i = j
    BY <1>9 DEF Distinct
  <2>1. i - 1 = j - 1
    BY <1>8
  <2> QED
    BY <2>1
<1> QED
  BY <1>9, <1>10, <1>11, <1>12

\* The elements of a nonempty sequence are its head and those of its tail.
LEMMA HeadAndTail ==
  ASSUME NEW S, NEW s \in Seq(S), s # <<>>
  PROVE  /\ Head(s) \in S /\ Head(s) \in ToSet(s) /\ Tail(s) \in Seq(S)
         /\ ToSet(s) = {Head(s)} \cup ToSet(Tail(s))
         /\ Distinct(s) => Distinct(Tail(s)) /\ Head(s) \notin ToSet(Tail(s))
<1>1. /\ Len(s) \in Nat /\ Len(s) # 0 /\ Tail(s) \in Seq(S) /\ Len(Tail(s)) = Len(s) - 1
      /\ Head(s) = s[1] /\ \A i \in 1..Len(Tail(s)) : Tail(s)[i] = s[i + 1]
  BY HeadTailProperties, EmptySeq
<1>2. DOMAIN s = 1..Len(s) /\ DOMAIN Tail(s) = 1..(Len(s) - 1)
  BY <1>1
<1>3. Head(s) \in S /\ Head(s) \in ToSet(s) /\ 1 \in 1..Len(s)
  BY <1>1, <1>2 DEF ToSet
<1>4. \A i \in 1..(Len(s) - 1) : i + 1 \in 1..Len(s) /\ i + 1 # 1 /\ Tail(s)[i] = s[i + 1]
  BY <1>1
<1>5. \A i \in 1..Len(s) : i = 1 \/ (i - 1 \in 1..(Len(s) - 1) /\ Tail(s)[i - 1] = s[i])
  BY <1>1
<1>6. ToSet(s) = {Head(s)} \cup ToSet(Tail(s))
  <2>1. ASSUME NEW x \in ToSet(s) PROVE x = Head(s) \/ x \in ToSet(Tail(s))
    <3>1. PICK i \in 1..Len(s) : x = s[i]
      BY <1>2 DEF ToSet
    <3> QED
      BY <1>1, <1>2, <1>5, <3>1 DEF ToSet
  <2>2. ASSUME NEW x \in ToSet(Tail(s)) PROVE x \in ToSet(s)
    <3>1. PICK i \in 1..(Len(s) - 1) : x = Tail(s)[i]
      BY <1>2 DEF ToSet
    <3> QED
      BY <1>2, <1>4, <3>1 DEF ToSet
  <2> QED
    BY <1>3, <2>1, <2>2
<1>7. ASSUME Distinct(s) PROVE Distinct(Tail(s)) /\ Head(s) \notin ToSet(Tail(s))
  <2>1. Head(s) \notin ToSet(Tail(s))
    BY <1>1, <1>2, <1>3, <1>4, <1>7 DEF ToSet, Distinct
  <2>2. Distinct(Tail(s))
    <3> SUFFICES ASSUME NEW i \in 1..(Len(s) - 1), NEW j \in 1..(Len(s) - 1),
                        Tail(s)[i] = Tail(s)[j]
                 PROVE  i = j
      BY <1>2 DEF Distinct
    <3>1. i + 1 = j + 1
      BY <1>2, <1>4, <1>7 DEF Distinct
    <3> QED
      BY <3>1
  <2> QED
    BY <2>1, <2>2
<1> QED
  BY <1>1, <1>3, <1>6, <1>7

\* An append adds one line, of the paper appended, and spoils at most the one before.
LEMMA AppendedLines ==
  ASSUME queue \in Seq([paper : Papers, readable : BOOLEAN]),
         NEW p \in Papers, NEW cut \in BOOLEAN,
         queue' = Appended(queue, p, cut)
  PROVE  /\ queue' \in Seq([paper : Papers, readable : BOOLEAN])
         /\ \A q \in Papers : Queued(q) => Queued(q)'
         /\ Queued(p)' /\ Copies(p)' = Copies(p) + 1
         /\ \A q \in Papers : q # p => Copies(q)' = Copies(q)
<1> DEFINE T == [paper : Papers, readable : BOOLEAN]
           n == Len(queue)
           base == IF torn THEN [queue EXCEPT ![n].readable = FALSE] ELSE queue
           new == Line(p, ~torn /\ ~cut)
<1>0. queue \in Seq(T)
  OBVIOUS
<1>1. n \in Nat /\ DOMAIN queue = 1..n /\ \A i \in 1..n : queue[i] \in T
  <2> HIDE DEF T
  <2> QED
    BY <1>0
<1>2. /\ base \in Seq(T) /\ Len(base) = n
      /\ \A i \in 1..n : base[i].paper = queue[i].paper
  <2>1. CASE torn
    <3>1. base = [i \in 1..n |-> IF i = n THEN [queue[i] EXCEPT !.readable = FALSE]
                                          ELSE queue[i]]
      BY <1>1, <2>1
    <3>2. \A i \in 1..n : base[i] \in T /\ base[i].paper = queue[i].paper
      BY <1>1, <3>1
    <3>3. base = [i \in 1..n |-> base[i]]
      BY <3>1
    <3> HIDE DEF base
    <3>4. base \in Seq(T)
      BY <1>1, <3>2, <3>3
    <3> QED
      BY <1>1, <3>2, <3>3, <3>4
  <2>2. CASE ~torn
    BY <2>2
  <2> QED
    BY <2>1, <2>2
<1>3. new \in T /\ new.paper = p
  BY DEF Line
<1>4. queue' = Append(base, new)
  BY DEF Appended
<1> HIDE DEF base, new
<1>5. /\ queue' \in Seq(T) /\ Len(queue') = n + 1
      /\ \A i \in 1..n : queue'[i].paper = queue[i].paper
      /\ queue'[n + 1].paper = p
  BY <1>1, <1>2, <1>3, <1>4
<1>6. DOMAIN queue' = 1..(n + 1) /\ n + 1 \in 1..(n + 1) /\ 1..(n + 1) = (1..n) \cup {n + 1}
  BY <1>1, <1>5
<1>7. Lines(p)' = Lines(p) \cup {n + 1} /\ n + 1 \notin Lines(p)
  BY <1>1, <1>5, <1>6 DEF Lines
<1>8. \A q \in Papers : q # p => Lines(q)' = Lines(q)
  BY <1>1, <1>5, <1>6 DEF Lines
<1>9. IsFiniteSet(Lines(p))
  <2>1. Lines(p) \in SUBSET (1..n)
    BY <1>1 DEF Lines
  <2> QED
    <3>1. IsFiniteSet(1..n)
      BY <1>1, FS_Interval
    <3> QED
      BY <2>1, <3>1, FS_Subset
<1>10. Copies(p)' = Copies(p) + 1
  BY <1>7, <1>9, FS_AddElement DEF Copies
<1>11. \A q \in Papers : q # p => Copies(q)' = Copies(q)
  BY <1>8 DEF Copies
<1> QED
  BY <1>5, <1>7, <1>8, <1>10, <1>11 DEF Queued

\* The saved set forgets only papers that are buried.
LEMMA LargestForgetsBuried ==
  ASSUME ArrivalInv, ListsInv, NEW p \in known
  PROVE  p \in Largest(known) \/ Buried(p)
<1> DEFINE c == Cardinality(Newer(known, p))
           later == (p + 1)..arrived
<1>1. /\ arrived \in Nat /\ p \in Papers /\ p \in Nat /\ p <= arrived /\ SeenCap \in Nat
      /\ known \subseteq Papers
  BY PapersFinite, ArxivFeedAssumption DEF ArrivalInv, ListsInv
<1>2. \A q \in known : q \in Nat /\ q <= arrived
  BY PapersFinite DEF ListsInv
<1>3. Newer(known, p) \in SUBSET later
  <2> SUFFICES ASSUME NEW q \in Newer(known, p) PROVE q \in later
    OBVIOUS
  <2>1. q \in known /\ q > p
    BY DEF Newer
  <2>2. q \in Nat /\ q <= arrived
    BY <1>2, <2>1
  <2> QED
    BY <1>1, <2>1, <2>2
<1>4. IsFiniteSet(later) /\ Cardinality(later) = arrived - p
  <2>1. p + 1 \in Int /\ arrived \in Int
    BY <1>1
  <2>2. /\ IsFiniteSet((p + 1)..arrived)
        /\ Cardinality((p + 1)..arrived)
             = IF p + 1 > arrived THEN 0 ELSE arrived - (p + 1) + 1
    BY <2>1, FS_Interval
  <2> QED
    BY <1>1, <2>2
<1>5. c \in Nat /\ c <= Cardinality(later)
  BY <1>3, <1>4, FS_Subset, FS_CardinalityType
<1>6. p \in Largest(known) <=> c < SeenCap
  BY DEF Largest
<1> HIDE DEF c, later
<1> QED
  BY <1>1, <1>4, <1>5, <1>6 DEF Buried

LEMMA ToSetOfConcat ==
  ASSUME NEW S, NEW s \in Seq(S), NEW t \in Seq(S)
  PROVE  ToSet(s \o t) = ToSet(s) \cup ToSet(t)
<1>1. /\ Len(s) \in Nat /\ Len(t) \in Nat /\ DOMAIN s = 1..Len(s) /\ DOMAIN t = 1..Len(t)
      /\ DOMAIN (s \o t) = 1..(Len(s) + Len(t))
      /\ \A i \in 1..(Len(s) + Len(t)) :
           (s \o t)[i] = IF i <= Len(s) THEN s[i] ELSE t[i - Len(s)]
  BY ConcatProperties
<1>2. ASSUME NEW x \in ToSet(s \o t) PROVE x \in ToSet(s) \/ x \in ToSet(t)
  <2>1. PICK i \in 1..(Len(s) + Len(t)) : x = (s \o t)[i]
    BY <1>1 DEF ToSet
  <2>2. i \in 1..Len(s) \/ (i - Len(s) \in 1..Len(t) /\ ~(i <= Len(s)))
    BY <1>1
  <2>3. i \in 1..Len(s) => i <= Len(s)
    BY <1>1
  <2> QED
    BY <1>1, <2>1, <2>2, <2>3 DEF ToSet
<1>3. ASSUME NEW x \in ToSet(s) PROVE x \in ToSet(s \o t)
  <2>1. PICK i \in 1..Len(s) : x = s[i]
    BY <1>1 DEF ToSet
  <2>2. i \in 1..(Len(s) + Len(t)) /\ i <= Len(s)
    BY <1>1
  <2> QED
    BY <1>1, <2>1, <2>2 DEF ToSet
<1>4. ASSUME NEW x \in ToSet(t) PROVE x \in ToSet(s \o t)
  <2>1. PICK i \in 1..Len(t) : x = t[i]
    BY <1>1 DEF ToSet
  <2>2. i + Len(s) \in 1..(Len(s) + Len(t)) /\ ~(i + Len(s) <= Len(s)) /\ i + Len(s) - Len(s) = i
    BY <1>1
  <2> QED
    BY <1>1, <2>1, <2>2 DEF ToSet
<1> QED
  BY <1>2, <1>3, <1>4

LEMMA CopiesType == ListsInv => \A p : Copies(p) \in Nat
<1> SUFFICES ASSUME ListsInv, NEW p PROVE Copies(p) \in Nat
  OBVIOUS
<1>1. IsFiniteSet(1..Len(queue)) /\ DOMAIN queue = 1..Len(queue)
  <2> DEFINE T == [paper : Papers, readable : BOOLEAN]
  <2>1. queue \in Seq(T)
    BY DEF ListsInv
  <2> HIDE DEF T
  <2>2. Len(queue) \in Nat /\ DOMAIN queue = 1..Len(queue)
    BY <2>1
  <2> QED
    BY <2>2, FS_Interval
<1>2. Lines(p) \in SUBSET (1..Len(queue))
  BY <1>1 DEF Lines
<1> QED
  BY <1>1, <1>2, FS_Subset, FS_CardinalityType DEF Copies

LEMMA EmptyToSet == ToSet(<<>>) = {} /\ Distinct(<<>>)
BY DEF ToSet, Distinct

LEMMA SameFiles ==
  /\ queue' = queue => \A p : Copies(p)' = Copies(p) /\ (Queued(p)' <=> Queued(p))
  /\ seen' = seen => \A p : InSeen(p)' <=> InSeen(p)
BY DEF Copies, Queued, Lines, InSeen

\* The first entries of a page, and of the one after it.
LEMMA PageBounds ==
  ASSUME NEW k \in Nat
  PROVE  /\ k * PageSize \in Nat /\ (k + 1) * PageSize = k * PageSize + PageSize
         /\ k < MaxPages => (k + 1) * PageSize <= SeenCap
<1>1. PageSize \in Nat /\ MaxPages \in Nat /\ SeenCap \in Nat
      /\ SeenCap >= MaxPages * PageSize
  BY ArxivFeedAssumption, HousekeepingAssumption
<1>2. k * PageSize \in Nat /\ (k + 1) * PageSize = k * PageSize + PageSize
  BY <1>1
<1>3. ASSUME k < MaxPages PROVE (k + 1) * PageSize <= SeenCap
  <2> DEFINE d == MaxPages - (k + 1)
  <2>1. d \in Nat /\ MaxPages = (k + 1) + d
    BY <1>1, <1>3
  <2> HIDE DEF d
  <2>2. MaxPages * PageSize = (k + 1) * PageSize + d * PageSize /\ d * PageSize \in Nat
    BY <1>1, <2>1
  <2> DEFINE a == (k + 1) * PageSize
             b == d * PageSize
             m == MaxPages * PageSize
  <2>3. a \in Nat /\ b \in Nat /\ m = a + b /\ SeenCap >= m
    BY <1>1, <2>2
  <2> HIDE DEF a, b, m
  <2>4. a <= SeenCap
    BY <1>1, <2>3
  <2> QED
    BY <2>4 DEF a
<1> QED
  BY <1>2, <1>3

\* A page lists papers that came lately, and is full when one is older than all of it.
LEMMA PageFacts ==
  ASSUME ArrivalInv, NEW k \in Nat
  PROVE  /\ Page(k) \in SUBSET Papers
         /\ \A p \in Papers : p \in Page(k) <=>
              p <= arrived /\ arrived - p >= k * PageSize /\ arrived - p < (k + 1) * PageSize
         /\ (\E p \in Papers : p <= arrived /\ arrived - p >= (k + 1) * PageSize) =>
              Cardinality(Page(k)) = PageSize
<1> DEFINE lo == k * PageSize
           hi == (k + 1) * PageSize
<1>1. arrived \in Nat /\ arrived <= Cardinality(Papers) /\ Cardinality(Papers) \in Nat
      /\ \A p : p \in Papers <=> p \in Nat /\ 1 <= p /\ p <= Cardinality(Papers)
  BY PapersFinite DEF ArrivalInv
<1>2. lo \in Nat /\ PageSize \in Nat \ {0} /\ hi = lo + PageSize
  BY PageBounds, ArxivFeedAssumption
<1>3. Page(k) = {p \in 1..arrived : arrived - p \in lo..(hi - 1)}
  BY DEF Page
<1> HIDE DEF lo, hi
<1>4. Page(k) \in SUBSET Papers
  BY <1>1, <1>3
<1>5. \A p \in Papers : p \in Page(k) <=> p <= arrived /\ arrived - p >= lo /\ arrived - p < hi
  <2> SUFFICES ASSUME NEW p \in Papers
               PROVE  p \in Page(k) <=> p <= arrived /\ arrived - p >= lo /\ arrived - p < hi
    OBVIOUS
  <2>1. p \in Nat /\ 1 <= p
    BY <1>1
  <2>2. p \in 1..arrived <=> p <= arrived
    BY <1>1, <2>1
  <2>3. arrived - p \in lo..(hi - 1) <=> arrived - p >= lo /\ arrived - p < hi
    BY <1>1, <1>2, <2>1
  <2> QED
    BY <1>3, <2>2, <2>3
<1>6. ASSUME NEW q \in Papers, q <= arrived, arrived - q >= hi
      PROVE  Cardinality(Page(k)) = PageSize
  <2>1. q \in Nat /\ 1 <= q
    BY <1>1
  <2> DEFINE a == arrived - hi + 1
             b == arrived - lo
  <2>2. a \in Int /\ b \in Int /\ a <= b /\ b - a + 1 = PageSize /\ 1 <= a /\ b <= arrived
    BY <1>1, <1>2, <1>6, <2>1
  <2>3. \A p : p \in Page(k) <=> p \in a..b
    <3>1. ASSUME NEW p \in Page(k) PROVE p \in a..b
      <4>1. p \in 1..arrived /\ arrived - p \in lo..(hi - 1)
        BY <1>3
      <4> QED
        BY <1>1, <1>2, <4>1
    <3>2. ASSUME NEW p \in a..b PROVE p \in Page(k)
      <4>1. p \in 1..arrived /\ arrived - p \in lo..(hi - 1)
        BY <1>1, <1>2, <2>2
      <4> QED
        BY <1>3, <4>1
    <3> QED
      BY <3>1, <3>2
  <2>4. Page(k) = a..b
    BY <2>3
  <2> HIDE DEF a, b
  <2>5. Cardinality(a..b) = IF a > b THEN 0 ELSE b - a + 1
    BY <2>2, FS_Interval
  <2> QED
    BY <1>2, <2>2, <2>4, <2>5
<1> QED
  BY <1>4, <1>5, <1>6 DEF lo, hi

(***************************************************************************)
(* The statements of the sweep preserve the invariant.                     *)
(***************************************************************************)
\* A step that leaves the feed alone preserves what does not speak of what is due.
LEMMA QuietStep ==
  ASSUME FeedInv, UNCHANGED <<arxiv, feedpc, pageno, fresh, known, pending, feedfiles, halted>>,
         night' \in Nat, night <= night', feedpc # "idle" => stage' = stage
  PROVE  ArrivalInv' /\ SweepInv' /\ ListsInv' /\ CopyInv' /\ SeenInv'
<1>1. ArrivalInv /\ SweepInv /\ ListsInv /\ CopyInv /\ SeenInv
  BY DEF FeedInv
<1>2. /\ arrived' = arrived /\ published' = published /\ feedpc' = feedpc /\ pageno' = pageno
      /\ fresh' = fresh /\ known' = known /\ pending' = pending /\ queue' = queue
      /\ seen' = seen /\ halted' = halted /\ torn' = torn
  BY DEF arxiv, feedfiles
<1>3. ArrivalInv'
  <2>1. \A p \in Papers : p <= arrived => published[p] <= night'
    <3> SUFFICES ASSUME NEW p \in Papers, p <= arrived PROVE published[p] <= night'
      OBVIOUS
    <3>1. published[p] <= night /\ published[p] \in Nat /\ night \in Nat
      BY <1>1 DEF ArrivalInv
    <3> QED
      BY <3>1
  <2> QED
    BY <1>1, <1>2, <2>1 DEF ArrivalInv
<1>4. SweepInv'
  BY <1>1, <1>2 DEF SweepInv
<1>5. \A p : (InSeen(p)' <=> InSeen(p)) /\ Copies(p)' = Copies(p)
             /\ (Queued(p)' <=> Queued(p)) /\ (Buried(p)' <=> Buried(p))
  BY <1>2, SameFiles DEF Buried
<1>6. ListsInv'
  BY <1>1, <1>2, <1>5 DEF ListsInv
<1>7. CopyInv'
  BY <1>1, <1>2, <1>5 DEF CopyInv
<1>8. SeenInv'
  BY <1>1, <1>2, <1>5 DEF SeenInv
<1> QED
  BY <1>3, <1>4, <1>6, <1>7, <1>8

LEMMA SubmitKeeps ==
  ASSUME FeedInv, stage = "off" \/ feedpc = "fetch", Submit(night), UNCHANGED beatVars
  PROVE  FeedInv'
<1>1. ArrivalInv /\ SweepInv /\ ListsInv /\ CopyInv /\ SeenInv /\ DueInv
  BY DEF FeedInv
<1>2. /\ arrived' = arrived + 1 /\ arrived < Cardinality(Papers)
      /\ published' = [published EXCEPT ![arrived + 1] = night]
      /\ UNCHANGED <<feedpc, pageno, fresh, truncated, blank, known, pending, queue, torn, seen>>
      /\ UNCHANGED <<night, stage, note, due, vouched, halted>>
  BY DEF Submit, sweep, feedfiles, beatVars
<1>3. arrived \in Nat /\ Cardinality(Papers) \in Nat /\ night \in Nat
      /\ \A p \in Papers : p \in Nat /\ published[p] \in Nat
  BY <1>1, PapersFinite DEF ArrivalInv
<1>4. \A p \in Papers : (p <= arrived => p <= arrived' /\ published'[p] = published[p])
  BY <1>1, <1>2, <1>3 DEF ArrivalInv
<1>5. arrived + 1 \in Papers /\ published'[arrived + 1] = night
  <2>1. arrived + 1 \in Papers
    BY <1>2, <1>3, PapersFinite
  <2> QED
    BY <1>1, <1>2, <2>1 DEF ArrivalInv
<1>6. \A p \in Papers : p <= arrived' => p <= arrived \/ p = arrived + 1
  BY <1>2, <1>3
<1>7. ArrivalInv'
  <2>1. arrived' \in Nat /\ arrived' <= Cardinality(Papers) /\ night' \in Nat
    BY <1>2, <1>3
  <2>2. published' \in [Papers -> Nat]
    BY <1>1, <1>2, <1>3 DEF ArrivalInv
  <2>3. \A p \in Papers : p <= arrived' => published'[p] <= night'
    <3> SUFFICES ASSUME NEW p \in Papers, p <= arrived' PROVE published'[p] <= night
      BY <1>2
    <3>1. CASE p <= arrived
      BY <1>1, <1>4, <3>1 DEF ArrivalInv
    <3>2. CASE p = arrived + 1
      BY <1>3, <1>5, <3>2
    <3> QED
      BY <1>6, <3>1, <3>2
  <2>4. ASSUME NEW p \in Papers, NEW q \in Papers, p <= q, q <= arrived'
        PROVE  published'[p] <= published'[q]
    <3>1. CASE q <= arrived
      <4>1. p <= arrived
        BY <1>3, <2>4, <3>1
      <4> QED
        BY <1>1, <1>4, <2>4, <3>1, <4>1 DEF ArrivalInv
    <3>2. CASE q = arrived + 1
      <4>1. p <= arrived'
        BY <1>2, <2>4, <3>2
      <4> QED
        BY <1>2, <1>5, <2>3, <3>2, <4>1
    <3> QED
      BY <1>6, <2>4, <3>1, <3>2
  <2> QED
    BY <2>1, <2>2, <2>3, <2>4 DEF ArrivalInv
<1>8. \A p : (InSeen(p)' <=> InSeen(p)) /\ Copies(p)' = Copies(p) /\ (Queued(p)' <=> Queued(p))
  BY <1>2, SameFiles
<1>9. \A p \in Papers : Buried(p) => Buried(p)'
  <2> SUFFICES ASSUME NEW p \in Papers, Buried(p) PROVE Buried(p)'
    OBVIOUS
  <2> QED
    BY <1>2, <1>3, ArxivFeedAssumption DEF Buried
<1>10. SweepInv'
  BY <1>1, <1>2 DEF SweepInv
<1>11. ListsInv'
  <2>1. ToSet(fresh) \in SUBSET Papers
    BY <1>1 DEF ListsInv, ToSet
  <2> QED
    BY <1>1, <1>2, <1>4, <1>8, <2>1 DEF ListsInv
<1>12. CopyInv'
  BY <1>1, <1>2, <1>8, <1>9 DEF CopyInv
<1>13. SeenInv'
  BY <1>1, <1>2, <1>8 DEF SeenInv
<1>14. DueInv'
  <2>1. due \subseteq Papers
    BY <1>1 DEF DueInv
  <2>2. stage = "feed" => \A p \in due : p <= arrived' /\ InWindow(p, night)'
    BY <1>1, <1>2, <1>4, <2>1 DEF DueInv, InWindow
  <2>3. \A p \in due : arrived - p >= pageno * PageSize => arrived' - p >= pageno * PageSize
    <3> SUFFICES ASSUME NEW p \in due, arrived - p >= pageno * PageSize
                 PROVE  arrived' - p >= pageno * PageSize
      OBVIOUS
    <3>1. pageno * PageSize \in Nat /\ p \in Nat
      BY <1>1, <1>3, <2>1, PageBounds DEF SweepInv
    <3> DEFINE lo == pageno * PageSize
    <3>2. lo \in Nat /\ arrived - p >= lo
      BY <3>1
    <3> HIDE DEF lo
    <3>3. arrived' = arrived + 1
      BY <1>2
    <3>4. arrived' - p >= lo
      BY <1>3, <3>1, <3>2, <3>3
    <3> QED
      BY <3>4 DEF lo
  <2>4. feedpc = "fetch" =>
          \A p \in due : p \in ToSet(fresh) \/ arrived' - p >= pageno * PageSize
    BY <1>1, <2>3 DEF DueInv
  <2> QED
    BY <1>1, <1>2, <1>8, <2>2, <2>4 DEF DueInv
<1> QED
  BY <1>7, <1>10, <1>11, <1>12, <1>13, <1>14 DEF FeedInv

LEMMA StartSweepKeeps ==
  ASSUME FeedInv, stage = "feed", StartSweep, UNCHANGED beatVars
  PROVE  FeedInv'
<1>1. ArrivalInv /\ SweepInv /\ ListsInv /\ CopyInv /\ SeenInv /\ DueInv
  BY DEF FeedInv
<1>2. /\ feedpc = "idle" /\ feedpc' = "fetch" /\ pageno' = 0 /\ fresh' = <<>>
      /\ UNCHANGED <<arrived, published, known, pending, queue, torn, seen>>
      /\ UNCHANGED <<night, stage, note, due, vouched, halted>>
  BY DEF StartSweep, arxiv, feedfiles, beatVars
<1>3. \A p : (InSeen(p)' <=> InSeen(p)) /\ Copies(p)' = Copies(p) /\ (Queued(p)' <=> Queued(p))
             /\ (Buried(p)' <=> Buried(p))
  BY <1>2, SameFiles DEF Buried
<1>4. ToSet(fresh') = {} /\ fresh' \in Seq(Papers)
  BY <1>2, EmptyToSet
<1>5. ArrivalInv'
  BY <1>1, <1>2 DEF ArrivalInv
<1>6. SweepInv'
  BY <1>1, <1>2, ArxivFeedAssumption DEF SweepInv, FeedPcs
<1>7. ListsInv'
  BY <1>1, <1>2, <1>3, <1>4 DEF ListsInv
<1>8. CopyInv'
  BY <1>1, <1>2, <1>3, <1>4 DEF CopyInv, Saving
<1>9. SeenInv'
  BY <1>1, <1>2, <1>3 DEF SeenInv, Saving
<1>10. \A p \in due : arrived - p >= 0 * PageSize
  <2> SUFFICES ASSUME NEW p \in due PROVE arrived - p >= 0 * PageSize
    OBVIOUS
  <2>1. p \in Nat /\ arrived \in Nat /\ p <= arrived
    BY <1>1, PapersFinite DEF ArrivalInv, DueInv
  <2>2. 0 * PageSize = 0
    BY ArxivFeedAssumption
  <2> QED
    BY <2>1, <2>2
<1>11. DueInv'
  BY <1>1, <1>2, <1>3, <1>10 DEF DueInv, Saving, InWindow
<1> QED
  BY <1>5, <1>6, <1>7, <1>8, <1>9, <1>11 DEF FeedInv

LEMMA FetchPageKeeps ==
  ASSUME FeedInv, stage = "feed", FetchPage(night), UNCHANGED beatVars
  PROVE  FeedInv'
<1> DEFINE page == Page(pageno)
           recent == {p \in page : InWindow(p, night)}
           hi == (pageno + 1) * PageSize
<1>1. ArrivalInv /\ SweepInv /\ ListsInv /\ CopyInv /\ SeenInv /\ DueInv
  BY DEF FeedInv
<1>2. /\ feedpc = "fetch" /\ feedpc' \in {"fetch", "update"} /\ pageno' = pageno + 1
      /\ fresh' = fresh \o NewestFirst(recent)
      /\ truncated' = RanOutOfPages(page, recent)
      /\ feedpc' = IF AnotherPage(page, recent) THEN "fetch" ELSE "update"
      /\ UNCHANGED <<arrived, published, blank, known, pending, queue, torn, seen>>
      /\ UNCHANGED <<night, stage, note, due, vouched, halted>>
  BY DEF FetchPage, arxiv, feedfiles, beatVars
<1>3. \A p : (InSeen(p)' <=> InSeen(p)) /\ Copies(p)' = Copies(p) /\ (Queued(p)' <=> Queued(p))
             /\ (Buried(p)' <=> Buried(p))
  BY <1>2, SameFiles DEF Buried
<1>4. pageno \in Nat /\ pageno < MaxPages /\ MaxPages \in Nat /\ pageno' \in Nat
  BY <1>1, <1>2, ArxivFeedAssumption DEF SweepInv
<1>5. /\ page \in SUBSET Papers
      /\ \A p \in Papers : p \in page <=>
           p <= arrived /\ arrived - p >= pageno * PageSize /\ arrived - p < hi
      /\ (\E p \in Papers : p <= arrived /\ arrived - p >= hi) => Cardinality(page) = PageSize
  BY <1>1, <1>4, PageFacts
<1>6. hi \in Nat /\ hi <= SeenCap /\ SeenCap \in Nat
  <2>1. pageno + 1 \in Nat
    BY <1>4
  <2> QED
    BY <1>4, <2>1, PageBounds, ArxivFeedAssumption
<1>7. fresh' \in Seq(Papers) /\ ToSet(fresh') = ToSet(fresh) \cup recent
  <2>1. recent \in SUBSET Papers
    BY <1>5
  <2> DEFINE more == NewestFirst(recent)
  <2>2. more \in Seq(Papers) /\ ToSet(more) = recent
    BY <2>1, NewestFirstFacts
  <2> HIDE DEF more
  <2>3. fresh \in Seq(Papers)
    BY <1>1 DEF ListsInv
  <2>4. ToSet(fresh \o more) = ToSet(fresh) \cup ToSet(more)
    BY <2>2, <2>3, ToSetOfConcat
  <2>5. fresh' = fresh \o more
    BY <1>2 DEF more
  <2> QED
    BY <2>2, <2>3, <2>4, <2>5
<1>8. \A p \in recent : p \in Papers /\ p \in Nat /\ p <= arrived /\ ~Buried(p)
  <2> SUFFICES ASSUME NEW p \in recent PROVE p \in Nat /\ p \in Papers /\ p <= arrived /\ ~Buried(p)
    OBVIOUS
  <2>1. p \in Papers /\ p <= arrived /\ arrived - p < hi
    BY <1>5
  <2>2. p \in Nat /\ arrived \in Nat
    BY <1>1, <2>1, PapersFinite DEF ArrivalInv
  <2> HIDE DEF hi
  <2>3. ~(arrived - p >= SeenCap)
    BY <1>6, <2>1, <2>2
  <2> QED
    BY <2>1, <2>2, <2>3 DEF Buried
<1>9. ArrivalInv'
  BY <1>1, <1>2 DEF ArrivalInv
<1>10. SweepInv'
  <2>1. AnotherPage(page, recent) => pageno + 1 < MaxPages
    BY DEF AnotherPage
  <2>2. pageno' <= MaxPages /\ (feedpc' = "fetch" => pageno' < MaxPages)
    BY <1>2, <1>4, <2>1
  <2> QED
    BY <1>1, <1>2, <1>4, <2>2 DEF SweepInv, FeedPcs
<1>11. ListsInv'
  BY <1>1, <1>2, <1>3, <1>7, <1>8 DEF ListsInv
<1>12. CopyInv'
  <2>1. \A p \in recent : Copies(p) > halted => InSeen(p)
    BY <1>1, <1>2, <1>8 DEF CopyInv, Saving
  <2> QED
    BY <1>1, <1>2, <1>3, <1>7, <2>1 DEF CopyInv, Saving
<1>13. SeenInv'
  BY <1>1, <1>2, <1>3 DEF SeenInv, Saving
<1>14. \A p \in due : p \in ToSet(fresh') \/ arrived - p >= hi
  <2> SUFFICES ASSUME NEW p \in due, p \notin ToSet(fresh) PROVE p \in recent \/ arrived - p >= hi
    BY <1>7
  <2>1. p \in Papers /\ p <= arrived /\ InWindow(p, night) /\ arrived - p >= pageno * PageSize
    BY <1>1, <1>2 DEF DueInv
  <2>2. p \in Nat /\ arrived \in Nat
    BY <1>1, <2>1, PapersFinite DEF ArrivalInv
  <2>3. arrived - p < hi => p \in page
    BY <1>5, <2>1
  <2> HIDE DEF hi, page
  <2>4. arrived - p < hi \/ arrived - p >= hi
    BY <1>6, <2>2
  <2> QED
    BY <2>1, <2>3, <2>4
<1>15. ASSUME feedpc' = "update", ~truncated' PROVE due \subseteq ToSet(fresh')
  <2> SUFFICES ASSUME NEW p \in due, p \notin ToSet(fresh') PROVE FALSE
    OBVIOUS
  <2>1. p \in Papers /\ p <= arrived /\ InWindow(p, night) /\ arrived - p >= hi
    BY <1>1, <1>2, <1>14 DEF DueInv
  <2>2. Cardinality(page) = PageSize
    BY <1>5, <2>1
  <2>3. ASSUME NEW q \in page PROVE InWindow(q, night)
    <3>1. q \in Papers /\ q <= arrived /\ arrived - q < hi
      BY <1>5
    <3>2. p \in Nat /\ q \in Nat /\ arrived \in Nat
      BY <1>1, <2>1, <3>1, PapersFinite DEF ArrivalInv
    <3>3. p <= q
      <4> HIDE DEF hi
      <4> QED
        BY <1>6, <2>1, <3>1, <3>2
    <3>4. published[p] <= published[q] /\ published[p] \in Nat /\ published[q] \in Nat
          /\ night \in Nat /\ Window \in Nat
      BY <1>1, <2>1, <3>1, <3>3, ArxivFeedAssumption DEF ArrivalInv
    <3> QED
      BY <2>1, <3>4 DEF InWindow
  <2>4. page = recent
    BY <2>3
  <2>5. ~AnotherPage(page, recent) /\ ~RanOutOfPages(page, recent)
    BY <1>2, <1>15
  <2>6. ~(pageno + 1 < MaxPages) /\ pageno + 1 # MaxPages
    BY <2>2, <2>4, <2>5 DEF AnotherPage, RanOutOfPages
  <2> QED
    BY <1>4, <2>6
<1>16. DueInv'
  <2>1. feedpc' = "fetch" => \A p \in due : p \in ToSet(fresh') \/ arrived - p >= pageno' * PageSize
    BY <1>2, <1>14
  <2> QED
    BY <1>1, <1>2, <1>3, <1>15, <2>1 DEF DueInv, Saving, InWindow
<1> QED
  BY <1>9, <1>10, <1>11, <1>12, <1>13, <1>16 DEF FeedInv

LEMMA FetchBlankKeeps ==
  ASSUME FeedInv, FetchBlank, UNCHANGED <<night, stage, note, due, vouched, halted>>
  PROVE  FeedInv'
<1>1. ArrivalInv /\ SweepInv /\ ListsInv /\ CopyInv /\ SeenInv /\ DueInv
  BY DEF FeedInv
<1>2. /\ feedpc = "fetch" /\ feedpc' = "update" /\ pageno' = pageno + 1 /\ blank' = TRUE
      /\ UNCHANGED <<arrived, published, fresh, truncated, known, pending, queue, torn, seen>>
  BY DEF FetchBlank, arxiv, feedfiles
<1>3. \A p : (InSeen(p)' <=> InSeen(p)) /\ Copies(p)' = Copies(p) /\ (Queued(p)' <=> Queued(p))
             /\ (Buried(p)' <=> Buried(p))
  BY <1>2, SameFiles DEF Buried
<1>4. ArrivalInv'
  BY <1>1, <1>2 DEF ArrivalInv
<1>5. SweepInv'
  BY <1>1, <1>2, ArxivFeedAssumption DEF SweepInv, FeedPcs
<1>6. ListsInv'
  BY <1>1, <1>2, <1>3 DEF ListsInv
<1>7. CopyInv'
  BY <1>1, <1>2, <1>3 DEF CopyInv, Saving
<1>8. SeenInv'
  BY <1>1, <1>2, <1>3 DEF SeenInv, Saving
<1>9. DueInv'
  BY <1>1, <1>2, <1>3 DEF DueInv, Saving, InWindow
<1> QED
  BY <1>4, <1>5, <1>6, <1>7, <1>8, <1>9 DEF FeedInv

LEMMA UpdateQueueKeeps ==
  ASSUME FeedInv, stage = "feed", UpdateQueue, UNCHANGED beatVars
  PROVE  FeedInv'
<1> DEFINE ids == IF seen = Corrupt THEN {} ELSE seen
           hits == (ToSet(fresh) \ ids) \cap Cored
<1>1. ArrivalInv /\ SweepInv /\ ListsInv /\ CopyInv /\ SeenInv /\ DueInv
  BY DEF FeedInv
<1>2. /\ feedpc = "update" /\ known' = ids \cup ToSet(fresh) /\ pending' = NewestFirst(hits)
      /\ feedpc' = AfterHits(pending')
      /\ UNCHANGED <<arrived, published, pageno, fresh, truncated, blank, queue, torn, seen>>
      /\ UNCHANGED <<night, stage, note, due, vouched, halted>>
  BY DEF UpdateQueue, Hits, arxiv, sweep, feedfiles, beatVars
<1>3. \A p : (InSeen(p)' <=> InSeen(p)) /\ Copies(p)' = Copies(p) /\ (Queued(p)' <=> Queued(p))
             /\ (Buried(p)' <=> Buried(p))
  BY <1>2, SameFiles DEF Buried
<1>4. \A p : p \in ids <=> InSeen(p)
  BY DEF InSeen
<1>5. ToSet(fresh) \in SUBSET Papers
  BY <1>1 DEF ListsInv, ToSet
<1> HIDE DEF ids
<1>6. hits \in SUBSET Papers
  BY <1>5
<1>7. pending' \in Seq(Papers) /\ ToSet(pending') = hits /\ Distinct(pending')
  BY <1>2, <1>6, NewestFirstFacts
<1>8. /\ feedpc' \in {"append", "empty"} /\ (feedpc' = "append" <=> pending' # <<>>)
  BY <1>2 DEF AfterHits
<1>9. ArrivalInv'
  BY <1>1, <1>2 DEF ArrivalInv
<1>10. SweepInv'
  BY <1>1, <1>2, <1>8 DEF SweepInv, FeedPcs
<1>11. ListsInv'
  BY <1>1, <1>2, <1>3, <1>4, <1>5, <1>7 DEF ListsInv
<1>12. CopyInv'
  <2>1. \A p \in hits : Copies(p) <= halted /\ p \in known'
    <3> SUFFICES ASSUME NEW p \in hits PROVE Copies(p) <= halted /\ p \in known'
      OBVIOUS
    <3>1. Copies(p) \in Nat /\ halted \in Nat /\ ~(Copies(p) > halted)
      BY <1>1, <1>2, <1>4, CopiesType DEF CopyInv
    <3>2. Copies(p) <= halted
      BY <3>1
    <3> QED
      BY <1>2, <3>2
  <2>2. \A p \in Papers : Copies(p) > halted => Buried(p) \/ p \in known'
    BY <1>1, <1>2, <1>4 DEF CopyInv, Saving
  <2> QED
    BY <1>1, <1>2, <1>3, <1>7, <1>8, <2>1, <2>2 DEF CopyInv, Saving
<1>13. SeenInv'
  BY <1>1, <1>2, <1>3, <1>4, <1>7, <1>8 DEF SeenInv
<1>14. DueInv'
  BY <1>1, <1>2, <1>3, <1>4, <1>7, <1>8 DEF DueInv, SeenInv, Saving, InWindow
<1> QED
  BY <1>9, <1>10, <1>11, <1>12, <1>13, <1>14 DEF FeedInv

LEMMA AppendLineKeeps ==
  ASSUME FeedInv, stage = "feed", AppendLine, UNCHANGED beatVars
  PROVE  FeedInv'
<1>1. ArrivalInv /\ SweepInv /\ ListsInv /\ CopyInv /\ SeenInv /\ DueInv
  BY DEF FeedInv
<1>2. /\ feedpc = "append" /\ queue' = Appended(queue, Head(pending), FALSE)
      /\ pending' = Tail(pending) /\ feedpc' = AfterHits(pending')
      /\ UNCHANGED <<arrived, published, pageno, fresh, truncated, blank, known, seen>>
      /\ UNCHANGED <<night, stage, note, due, vouched, halted>>
  BY DEF AppendLine, arxiv, sweep, beatVars
<1>3. \A p : (InSeen(p)' <=> InSeen(p)) /\ (Buried(p)' <=> Buried(p))
  BY <1>2, SameFiles DEF Buried
<1>0. /\ Head(pending) \in Papers /\ Head(pending) \in ToSet(pending)
      /\ pending' \in Seq(Papers) /\ ToSet(pending) = {Head(pending)} \cup ToSet(pending')
      /\ Distinct(pending') /\ Head(pending) \notin ToSet(pending')
  BY <1>1, <1>2, HeadAndTail DEF SweepInv, ListsInv
<1> PICK new \in Papers : new = Head(pending)
  BY <1>0
<1>4. /\ new \in ToSet(pending) /\ pending' \in Seq(Papers)
      /\ ToSet(pending) = {new} \cup ToSet(pending')
      /\ Distinct(pending') /\ new \notin ToSet(pending')
  BY <1>0
<1>5. /\ queue' \in Seq([paper : Papers, readable : BOOLEAN])
      /\ \A q \in Papers : Queued(q) => Queued(q)'
      /\ Queued(new)' /\ Copies(new)' = Copies(new) + 1
      /\ \A q \in Papers : q # new => Copies(q)' = Copies(q)
  <2>1. queue \in Seq([paper : Papers, readable : BOOLEAN])
    BY <1>1 DEF ListsInv
  <2>2. queue' = Appended(queue, new, FALSE)
    BY <1>2
  <2> QED
    BY <2>1, <2>2, AppendedLines
<1>6. feedpc' \in {"append", "empty"} /\ (feedpc' = "append" <=> pending' # <<>>)
  BY <1>2 DEF AfterHits
<1>7. ArrivalInv'
  BY <1>1, <1>2 DEF ArrivalInv
<1>8. SweepInv'
  BY <1>1, <1>2, <1>6 DEF SweepInv, FeedPcs
<1>9. ListsInv'
  BY <1>1, <1>2, <1>3, <1>4, <1>5 DEF ListsInv
<1>10. CopyInv'
  <2>1. Copies(new)' <= 1 + halted /\ new \in known
    <3>1. Copies(new) <= halted /\ new \in known /\ Copies(new) \in Nat /\ halted \in Nat
      BY <1>1, <1>4, CopiesType DEF CopyInv
    <3>2. Copies(new) + 1 <= 1 + halted
      BY <3>1
    <3> QED
      BY <1>5, <3>1, <3>2
  <2>2. \A q \in ToSet(pending') : q \in Papers /\ q # new /\ q \in ToSet(pending)
    BY <1>4 DEF ToSet
  <2>3. ASSUME NEW q \in Papers, q # new
        PROVE  /\ Copies(q)' <= 1 + halted
               /\ Copies(q)' > halted => Buried(q) \/ q \in known
    BY <1>1, <1>2, <1>5, <2>3 DEF CopyInv, Saving
  <2>4. ASSUME NEW q \in Papers
        PROVE  /\ Copies(q)' <= 1 + halted
               /\ Copies(q)' > halted => Buried(q) \/ q \in known
    <3>1. CASE q = new
      BY <2>1, <3>1
    <3>2. CASE q # new
      BY <2>3, <3>2
    <3> QED
      BY <3>1, <3>2
  <2>5. \A q \in ToSet(pending') : Copies(q)' <= halted /\ q \in known
    BY <1>1, <1>5, <2>2 DEF CopyInv
  <2> QED
    BY <1>1, <1>2, <1>3, <1>6, <2>4, <2>5 DEF CopyInv, Saving
<1>11. Cored \subseteq Papers
  BY ArxivFeedAssumption
<1>12. SeenInv'
  BY <1>1, <1>2, <1>3, <1>4, <1>5, <1>6, <1>11 DEF SeenInv, Saving
<1>13. DueInv'
  BY <1>1, <1>2, <1>4, <1>5, <1>6, <1>11 DEF DueInv, Saving, InWindow
<1> QED
  BY <1>7, <1>8, <1>9, <1>10, <1>12, <1>13 DEF FeedInv

LEMMA EmptySeenKeeps ==
  ASSUME FeedInv, stage = "feed", EmptySeen, UNCHANGED beatVars
  PROVE  FeedInv'
<1>1. ArrivalInv /\ SweepInv /\ ListsInv /\ CopyInv /\ SeenInv /\ DueInv
  BY DEF FeedInv
<1>2. /\ feedpc = "empty" /\ feedpc' = "save" /\ seen' = Corrupt
      /\ UNCHANGED <<arrived, published, pageno, fresh, truncated, blank, known, pending, queue, torn>>
      /\ UNCHANGED <<night, stage, note, due, vouched, halted>>
  BY DEF EmptySeen, arxiv, sweep, beatVars
<1>3. \A p : ~InSeen(p)' /\ Copies(p)' = Copies(p) /\ (Queued(p)' <=> Queued(p))
             /\ (Buried(p)' <=> Buried(p))
  BY <1>2, SameFiles DEF Buried, InSeen
<1>4. ArrivalInv'
  BY <1>1, <1>2 DEF ArrivalInv
<1>5. SweepInv'
  BY <1>1, <1>2 DEF SweepInv, FeedPcs
<1>6. ListsInv'
  BY <1>1, <1>2, <1>3 DEF ListsInv
<1>7. CopyInv'
  BY <1>1, <1>2, <1>3 DEF CopyInv, Saving
<1>8. SeenInv'
  BY <1>1, <1>2, <1>3 DEF SeenInv, Saving
<1>9. DueInv'
  BY <1>1, <1>2, <1>3 DEF DueInv, Saving, InWindow
<1> QED
  BY <1>4, <1>5, <1>6, <1>7, <1>8, <1>9 DEF FeedInv

LEMMA SaveSeenKeeps ==
  ASSUME FeedInv, stage = "feed", SaveSeen, UNCHANGED beatVars
  PROVE  FeedInv'
<1>1. ArrivalInv /\ SweepInv /\ ListsInv /\ CopyInv /\ SeenInv /\ DueInv
  BY DEF FeedInv
<1>2. /\ feedpc = "save" /\ feedpc' = "done" /\ seen' = Largest(known)
      /\ UNCHANGED <<arrived, published, pageno, fresh, truncated, blank, known, pending, queue, torn>>
      /\ UNCHANGED <<night, stage, note, due, vouched, halted>>
  BY DEF SaveSeen, arxiv, sweep, beatVars
<1>3. \A p : Copies(p)' = Copies(p) /\ (Queued(p)' <=> Queued(p)) /\ (Buried(p)' <=> Buried(p))
  BY <1>2, SameFiles DEF Buried
<1>4. \A p : InSeen(p)' <=> p \in Largest(known)
  <2>1. known \in SUBSET Papers
    BY <1>1 DEF ListsInv
  <2>2. Largest(known) \in SUBSET Papers
    BY <2>1 DEF Largest
  <2> QED
    BY <1>2, <2>2, ArxivFeedAssumption DEF InSeen
<1>5. /\ \A p : p \in Largest(known) => p \in known
      /\ \A p \in known : p \in Largest(known) \/ Buried(p)
  BY <1>1, LargestForgetsBuried DEF Largest
<1>6. ArrivalInv'
  BY <1>1, <1>2 DEF ArrivalInv
<1>7. SweepInv'
  BY <1>1, <1>2 DEF SweepInv, FeedPcs
<1>8. ListsInv'
  BY <1>1, <1>2, <1>4, <1>5 DEF ListsInv
<1>9. CopyInv'
  BY <1>1, <1>2, <1>3, <1>4, <1>5 DEF CopyInv, Saving
<1>10. pending = <<>> /\ ToSet(pending) = {}
  BY <1>1, <1>2, EmptyToSet DEF SweepInv
<1>11. SeenInv'
  BY <1>1, <1>2, <1>3, <1>4, <1>5, <1>10 DEF SeenInv, Saving
<1>12. DueInv'
  BY <1>1, <1>2, <1>3, <1>10 DEF DueInv, Saving, InWindow
<1> QED
  BY <1>6, <1>7, <1>8, <1>9, <1>11, <1>12 DEF FeedInv

LEMMA FeedReturnsKeeps == ASSUME FeedInv, FeedReturns PROVE FeedInv'
<1>1. ArrivalInv /\ SweepInv /\ ListsInv /\ CopyInv /\ SeenInv /\ DueInv
  BY DEF FeedInv
<1>2. /\ feedpc = "done" /\ feedpc' = "idle" /\ pageno' = 0 /\ stage = "feed" /\ stage' = "export"
      /\ fresh' = <<>> /\ known' = {} /\ pending' = <<>>
      /\ note' = IF truncated THEN "truncated" ELSE "full"
      /\ UNCHANGED <<arrived, published, truncated, blank, queue, torn, seen>>
      /\ UNCHANGED <<night, due, vouched, halted>>
  BY DEF FeedReturns, EndSweep, Return, arxiv, feedfiles
<1>3. \A p : (InSeen(p)' <=> InSeen(p)) /\ Copies(p)' = Copies(p) /\ (Queued(p)' <=> Queued(p))
             /\ (Buried(p)' <=> Buried(p))
  BY <1>2, SameFiles DEF Buried
<1>4. /\ ToSet(fresh') = {} /\ fresh' \in Seq(Papers)
      /\ ToSet(pending') = {} /\ pending' \in Seq(Papers) /\ Distinct(pending')
  BY <1>2, EmptyToSet
<1>5. ArrivalInv'
  BY <1>1, <1>2 DEF ArrivalInv
<1>6. SweepInv'
  BY <1>1, <1>2, ArxivFeedAssumption DEF SweepInv, FeedPcs
<1>7. ListsInv'
  BY <1>1, <1>2, <1>3, <1>4 DEF ListsInv
<1>8. CopyInv'
  BY <1>1, <1>2, <1>3, <1>4 DEF CopyInv, Saving
<1>9. SeenInv'
  BY <1>1, <1>2, <1>3 DEF SeenInv, Saving
<1>10. DueInv'
  BY <1>1, <1>2, <1>3 DEF DueInv, Saving
<1> QED
  BY <1>5, <1>6, <1>7, <1>8, <1>9, <1>10 DEF FeedInv

\* Wherever a sweep stops: between a first hit and the saved set it is counted.
LEMMA InterruptKeeps ==
  ASSUME FeedInv, Interrupt, UNCHANGED <<night, vouched>>, due' \in {due, {}},
         halted' = IF feedpc \in Saving THEN halted + 1 ELSE halted,
         stage' \in {"off", "export"}, stage' = "export" => note' = "error"
  PROVE  FeedInv'
<1>1. ArrivalInv /\ SweepInv /\ ListsInv /\ CopyInv /\ SeenInv /\ DueInv
  BY DEF FeedInv
<1>2. /\ feedpc' = "idle" /\ pageno' = 0 /\ fresh' = <<>> /\ known' = {} /\ pending' = <<>>
      /\ UNCHANGED <<arrived, published, seen>>
  BY DEF Interrupt, Return, arxiv
<1>3. \A p : (InSeen(p)' <=> InSeen(p)) /\ (Buried(p)' <=> Buried(p))
  BY <1>2, SameFiles DEF Buried
<1>4. /\ ToSet(fresh') = {} /\ fresh' \in Seq(Papers)
      /\ ToSet(pending') = {} /\ pending' \in Seq(Papers) /\ Distinct(pending')
  BY <1>2, EmptyToSet
<1>5. halted \in Nat /\ halted' \in Nat
  BY <1>1 DEF CopyInv
<1>6. /\ queue' \in Seq([paper : Papers, readable : BOOLEAN])
      /\ \A p \in Papers : Queued(p) => Queued(p)'
      /\ \A p \in Papers : IF feedpc \in Saving THEN Copies(p)' \in Nat /\ Copies(p)' <= halted'
                                             ELSE Copies(p)' = Copies(p)
  <2>1. CASE queue' = queue
    <3>1. \A p : Copies(p)' = Copies(p) /\ (Queued(p)' <=> Queued(p))
      BY <2>1, SameFiles
    <3>2. \A p \in Papers : Copies(p) \in Nat /\ Copies(p) <= halted + 1
      <4> SUFFICES ASSUME NEW p \in Papers PROVE Copies(p) \in Nat /\ Copies(p) <= halted + 1
        OBVIOUS
      <4>1. Copies(p) <= 1 + halted /\ Copies(p) \in Nat
        BY <1>1, CopiesType DEF CopyInv
      <4> QED
        BY <1>5, <4>1
    <3> QED
      BY <1>1, <2>1, <3>1, <3>2 DEF ListsInv
  <2>2. CASE queue' # queue
    <3>1. PICK cut \in BOOLEAN : feedpc = "append" /\ queue' = Appended(queue, Head(pending), cut)
      BY <2>2 DEF Interrupt
    <3>2. PICK new \in Papers : new = Head(pending) /\ new \in ToSet(pending)
      BY <1>1, <3>1, HeadAndTail DEF SweepInv, ListsInv
    <3>3. /\ queue' \in Seq([paper : Papers, readable : BOOLEAN])
          /\ \A q \in Papers : Queued(q) => Queued(q)'
          /\ Copies(new)' = Copies(new) + 1
          /\ \A q \in Papers : q # new => Copies(q)' = Copies(q)
      <4>1. queue \in Seq([paper : Papers, readable : BOOLEAN])
        BY <1>1 DEF ListsInv
      <4>2. queue' = Appended(queue, new, cut)
        BY <3>1, <3>2
      <4> QED
        BY <4>1, <4>2, AppendedLines
    <3>4. feedpc \in Saving /\ halted' = halted + 1
      BY <3>1 DEF Saving
    <3>5. Copies(new)' \in Nat /\ Copies(new)' <= halted + 1
      <4>1. Copies(new) <= halted /\ Copies(new) \in Nat
        BY <1>1, <3>2, CopiesType DEF CopyInv
      <4>2. Copies(new) + 1 \in Nat /\ Copies(new) + 1 <= halted + 1
        BY <1>5, <4>1
      <4> QED
        BY <3>3, <4>2
    <3>6. ASSUME NEW q \in Papers, q # new PROVE Copies(q)' \in Nat /\ Copies(q)' <= halted + 1
      <4>1. Copies(q) <= 1 + halted /\ Copies(q) \in Nat
        BY <1>1, CopiesType DEF CopyInv
      <4>2. Copies(q) <= halted + 1
        BY <1>5, <4>1
      <4> QED
        BY <3>3, <3>6, <4>1, <4>2
    <3>7. ASSUME NEW q \in Papers PROVE Copies(q)' \in Nat /\ Copies(q)' <= halted + 1
      <4>1. CASE q = new
        BY <3>5, <4>1
      <4>2. CASE q # new
        BY <3>6, <4>2
      <4> QED
        BY <4>1, <4>2
    <3> QED
      BY <3>3, <3>4, <3>7
  <2> QED
    BY <2>1, <2>2
<1>7. ArrivalInv'
  BY <1>1, <1>2 DEF ArrivalInv
<1>8. SweepInv'
  BY <1>1, <1>2, ArxivFeedAssumption DEF SweepInv, FeedPcs
<1>9. ListsInv'
  BY <1>1, <1>2, <1>3, <1>4, <1>6 DEF ListsInv
<1>10. CopyInv'
  <2>1. CASE feedpc \in Saving
    <3>1. ASSUME NEW p \in Papers PROVE Copies(p)' <= 1 + halted' /\ ~(Copies(p)' > halted')
      <4>1. Copies(p)' <= halted' /\ Copies(p)' \in Nat
        BY <1>6, <2>1
      <4> DEFINE c == Copies(p)'
      <4>2. c <= halted' /\ c \in Nat
        BY <4>1
      <4> HIDE DEF c
      <4>3. c <= 1 + halted' /\ ~(c > halted')
        BY <1>5, <4>2
      <4> QED
        BY <4>3 DEF c
    <3> QED
      BY <1>2, <1>4, <1>5, <3>1 DEF CopyInv
  <2>2. CASE feedpc \notin Saving
    BY <1>1, <1>2, <1>3, <1>4, <1>6, <2>2 DEF CopyInv, Saving
  <2> QED
    BY <2>1, <2>2
<1>11. Cored \subseteq Papers
  BY ArxivFeedAssumption
<1>12. SeenInv'
  BY <1>1, <1>2, <1>3, <1>6, <1>11 DEF SeenInv, Saving
<1>13. DueInv'
  BY <1>1, <1>2, <1>6, <1>11 DEF DueInv, Saving
<1> QED
  BY <1>7, <1>8, <1>9, <1>10, <1>12, <1>13 DEF FeedInv

(***************************************************************************)
(* The steps of the beat preserve it.                                      *)
(***************************************************************************)
LEMMA BeatKeeps == ASSUME FeedInv, Beat PROVE FeedInv'
<1>1. ArrivalInv /\ SweepInv /\ DueInv
  BY DEF FeedInv
<1>2. /\ stage = "off" /\ stage' = "feed" /\ UNCHANGED <<vouched, halted, note>>
      /\ night' = IF night < MaxNights THEN night + 1 ELSE night
      /\ due' = {p \in 1..arrived : InWindow(p, night')}
      /\ UNCHANGED <<arxiv, feedpc, pageno, fresh, known, pending, feedfiles, truncated, blank>>
  BY DEF Beat, feedVars, sweep
<1>3. feedpc = "idle"
  BY <1>1, <1>2 DEF SweepInv
<1>4. night' \in Nat /\ night <= night'
  <2>1. night \in Nat
    BY <1>1 DEF ArrivalInv
  <2> QED
    BY <1>2, <2>1
<1>5. ArrivalInv' /\ SweepInv' /\ ListsInv' /\ CopyInv' /\ SeenInv'
  BY <1>2, <1>3, <1>4, QuietStep
<1>6. \A p \in due' : p \in Papers /\ p <= arrived /\ InWindow(p, night')
  <2> SUFFICES ASSUME NEW p \in 1..arrived PROVE p \in Papers /\ p <= arrived
    BY <1>2
  <2> QED
    BY <1>1, PapersFinite DEF ArrivalInv
<1>7. DueInv'
  <2>1. \A p : Queued(p)' <=> Queued(p)
    BY <1>2, SameFiles DEF feedfiles
  <2>2. arrived' = arrived /\ published' = published
    BY <1>2 DEF arxiv
  <2> QED
    BY <1>1, <1>2, <1>3, <1>6, <2>1, <2>2 DEF DueInv, InWindow, Saving
<1> QED
  BY <1>5, <1>7 DEF FeedInv

\* The export, which reads and writes nothing of the feed.
LEMMA ExportKeepsFeed ==
  ASSUME FeedInv, feedpc = "idle", stage = "export", stage' \in {"export", "journal"},
         UNCHANGED <<feedVars, night, note, due, vouched, halted>>
  PROVE  FeedInv'
<1>1. DueInv /\ night \in Nat /\ night <= night
  BY DEF FeedInv, ArrivalInv
<1>2. /\ UNCHANGED <<arxiv, feedpc, pageno, fresh, known, pending, feedfiles, halted>>
      /\ UNCHANGED <<blank, night, note, due, vouched, queue>>
  BY DEF feedVars, sweep, feedfiles
<1>3. ArrivalInv' /\ SweepInv' /\ ListsInv' /\ CopyInv' /\ SeenInv'
  BY <1>1, <1>2, QuietStep
<1>4. \A p : Queued(p)' <=> Queued(p)
  BY <1>2, SameFiles
<1>5. DueInv'
  BY <1>1, <1>2, <1>4 DEF DueInv, Saving
<1> QED
  BY <1>3, <1>5 DEF FeedInv

LEMMA JournalKeeps == ASSUME FeedInv, WriteJournal PROVE FeedInv'
<1>1. SweepInv /\ DueInv /\ night \in Nat /\ night <= night
  BY DEF FeedInv, ArrivalInv
<1>2. /\ stage = "journal" /\ stage' = "off" /\ due' = {} /\ night' = night
      /\ vouched' = IF note = "full" /\ ~blank THEN vouched \cup due ELSE vouched
      /\ UNCHANGED <<arxiv, feedpc, pageno, fresh, known, pending, feedfiles, halted>>
  BY DEF WriteJournal
<1>3. feedpc = "idle"
  BY <1>1, <1>2 DEF SweepInv
<1>4. ArrivalInv' /\ SweepInv' /\ ListsInv' /\ CopyInv' /\ SeenInv'
  BY <1>1, <1>2, <1>3, QuietStep
<1>5. \A p : Queued(p)' <=> Queued(p)
  BY <1>2, SameFiles DEF feedfiles
<1>6. vouched' \subseteq Papers /\ \A p \in vouched' \cap Cored : Queued(p)
  BY <1>1, <1>2 DEF DueInv
<1>7. DueInv'
  BY <1>2, <1>3, <1>5, <1>6 DEF DueInv, Saving
<1> QED
  BY <1>4, <1>7 DEF FeedInv

LEMMA KillKeepsFeed == ASSUME FeedInv, Kill PROVE FeedInv'
<1>1. /\ stage' = "off" /\ note' = "none" /\ due' = {} /\ UNCHANGED <<night, vouched>>
      /\ halted' = IF feedpc \in Saving THEN halted + 1 ELSE halted
  BY DEF Kill, Fault, Saving
<1>2. CASE Interrupt
  BY <1>1, <1>2, InterruptKeeps
<1>3. CASE feedpc = "idle" /\ UNCHANGED <<arxiv, feedpc, pageno, fresh, known, pending, feedfiles>>
  <2>1. DueInv /\ night \in Nat /\ night <= night /\ halted' = halted
    BY <1>1, <1>3 DEF FeedInv, ArrivalInv, Saving
  <2>2. ArrivalInv' /\ SweepInv' /\ ListsInv' /\ CopyInv' /\ SeenInv'
    BY <1>1, <1>3, <2>1, QuietStep
  <2>3. \A p : Queued(p)' <=> Queued(p)
    BY <1>3, SameFiles DEF feedfiles
  <2>4. DueInv'
    BY <1>1, <1>3, <2>1, <2>3 DEF DueInv, Saving
  <2> QED
    BY <2>2, <2>4 DEF FeedInv
<1> QED
  BY <1>2, <1>3 DEF Kill

LEMMA FeedStands ==
  ASSUME FeedInv, UNCHANGED <<feedVars, beatVars>>
  PROVE  FeedInv'
<1>1. DueInv /\ night \in Nat /\ night <= night
  BY DEF FeedInv, ArrivalInv
<1>2. /\ UNCHANGED <<arxiv, feedpc, pageno, fresh, known, pending, feedfiles, halted>>
      /\ UNCHANGED <<arrived, published, truncated, blank, night, stage, note, due, vouched, queue>>
  BY DEF feedVars, beatVars, sweep, feedfiles, arxiv
<1>3. ArrivalInv' /\ SweepInv' /\ ListsInv' /\ CopyInv' /\ SeenInv'
  BY <1>1, <1>2, QuietStep
<1>4. \A p : Queued(p)' <=> Queued(p)
  BY <1>2, SameFiles
<1>5. DueInv'
  BY <1>1, <1>2, <1>4 DEF DueInv, InWindow
<1> QED
  BY <1>3, <1>5 DEF FeedInv

LEMMA InitFeedInv == Init => FeedInv
<1> SUFFICES ASSUME Init PROVE FeedInv
  OBVIOUS
<1>1. /\ arrived = 0 /\ published = [p \in Papers |-> 0] /\ feedpc = "idle" /\ pageno = 0
      /\ fresh = <<>> /\ known = {} /\ pending = <<>> /\ queue = <<>> /\ seen = Corrupt
      /\ night = 0 /\ stage = "off" /\ due = {} /\ vouched = {} /\ halted = 0
  BY DEF Init, FeedInit
<1>2. ArrivalInv
  BY <1>1, PapersFinite DEF ArrivalInv
<1>3. SweepInv
  BY <1>1, ArxivFeedAssumption DEF SweepInv, FeedPcs
<1>4. ListsInv
  <2>1. \A S : <<>> \in Seq(S)
    OBVIOUS
  <2> QED
    BY <1>1, <2>1, EmptyToSet DEF ListsInv, InSeen
<1>5. \A p : Lines(p) = {}
  BY <1>1 DEF Lines
<1>6. CopyInv
  <2>1. \A p : Copies(p) = 0
    BY <1>5, FS_EmptySet DEF Copies
  <2> QED
    BY <1>1, <2>1, EmptyToSet DEF CopyInv
<1>7. SeenInv
  BY <1>1 DEF SeenInv, InSeen, Saving
<1>8. DueInv
  BY <1>1 DEF DueInv, Saving
<1> QED
  BY <1>2, <1>3, <1>4, <1>6, <1>7, <1>8 DEF FeedInv

\* The export runs at its own stage, so never while the feed does.
BeatInv ==
  /\ stage \in {"off", "feed", "export", "journal"}
  /\ note \in {"none", "full", "truncated", "error"}
  /\ exportpc \in {"idle", "query", "rows", "write", "empty", "save", "done"}
  /\ exportpc # "idle" => stage = "export"
  /\ truncated \in BOOLEAN /\ torn \in BOOLEAN /\ blank \in BOOLEAN

CountInv ==
  /\ night \in Nat /\ night <= MaxNights
  /\ faults \in Nat /\ faults <= MaxFaults /\ halted \in Nat /\ halted <= faults

LEMMA NextFeedInv == FeedInv /\ [Next]_vars => FeedInv'
<1> SUFFICES ASSUME FeedInv, [Next]_vars PROVE FeedInv'
  OBVIOUS
<1>0. feedpc # "idle" => stage = "feed"
  BY DEF FeedInv, SweepInv
<1>1. CASE World
  <2>1. CASE (stage = "off" \/ feedpc = "fetch") /\ Submit(night)
    BY <1>1, <2>1, SubmitKeeps DEF World
  <2>2. CASE UNCHANGED feedVars
    BY <1>1, <2>2, FeedStands DEF World
  <2> QED
    BY <1>1, <2>1, <2>2 DEF World
<1>2. CASE Beat
  BY <1>2, BeatKeeps
<1>3. CASE Feed
  BY <1>3, StartSweepKeeps, FetchPageKeeps, UpdateQueueKeeps, AppendLineKeeps, EmptySeenKeeps,
    SaveSeenKeeps DEF Feed, FeedStep
<1>4. CASE FeedReturns
  BY <1>4, FeedReturnsKeeps
<1>5. CASE FeedGetsBlank
  <2>1. halted' = halted
    BY <1>5 DEF FeedGetsBlank, FetchBlank, Fault
  <2> QED
    BY <1>5, <2>1, FetchBlankKeeps DEF FeedGetsBlank
<1>6. CASE FeedRaises
  <2>1. halted' = IF feedpc \in Saving THEN halted + 1 ELSE halted
    BY <1>6 DEF FeedRaises, Fault, Saving
  <2> QED
    BY <1>6, <2>1, InterruptKeeps DEF FeedRaises
<1>7. CASE Export
  BY <1>7, FeedStands DEF Export
<1>8. CASE ExportQueryFails \/ ExportReturns \/ ExportRaises
  <2>1. feedpc = "idle"
    BY <1>0, <1>8 DEF ExportQueryFails, ExportReturns, ExportRaises
  <2>2. /\ stage = "export" /\ stage' \in {"export", "journal"} /\ halted' = halted
        /\ UNCHANGED <<feedVars, night, note, due, vouched>>
    BY <1>8, <2>1 DEF ExportQueryFails, ExportReturns, ExportRaises, Fault
  <2> QED
    BY <2>1, <2>2, ExportKeepsFeed
<1>9. CASE WriteJournal
  BY <1>9, JournalKeeps
<1>10. CASE Kill
  BY <1>10, KillKeepsFeed
<1>11. CASE UNCHANGED vars
  BY <1>11, FeedStands DEF vars
<1> QED
  BY <1>1, <1>2, <1>3, <1>4, <1>5, <1>6, <1>7, <1>8, <1>9, <1>10, <1>11 DEF Next

LEMMA FeedInvariantHolds == Spec => []FeedInv
BY InitFeedInv, NextFeedInv, PTL DEF Spec

\* The stages, the notes and the counters, step by step.
LEMMA NextBeatInv == FeedInv /\ BeatInv /\ CountInv /\ [Next]_vars => BeatInv' /\ CountInv'
<1> SUFFICES ASSUME FeedInv, BeatInv, CountInv, [Next]_vars PROVE BeatInv' /\ CountInv'
  OBVIOUS
<1>0. feedpc # "idle" => stage = "feed"
  BY DEF FeedInv, SweepInv
<1>1. CASE World
  <2>1. BeatInv'
    BY <1>1 DEF World, BeatInv, Submit, Promulgate, feedVars, feedfiles, sweep, beatVars, exportVars
  <2>2. CountInv'
    BY <1>1 DEF World, CountInv, beatVars
  <2> QED
    BY <2>1, <2>2
<1>2. CASE Beat
  <2>1. BeatInv'
    BY <1>2 DEF Beat, BeatInv, feedVars, feedfiles, sweep, exportVars
  <2>2. night' \in Nat /\ night' <= MaxNights
    <3>1. night \in Nat /\ night <= MaxNights /\ MaxNights \in Nat
      BY HousekeepingAssumption DEF CountInv
    <3> QED
      BY <1>2, <3>1 DEF Beat
  <2>3. CountInv'
    BY <1>2, <2>2 DEF Beat, CountInv
  <2> QED
    BY <2>1, <2>3
<1>3. CASE Feed
  <2>1. BeatInv'
    <3>1. UNCHANGED <<exportpc, stage, note>>
      BY <1>3 DEF Feed, exportVars, beatVars
    <3>2. blank' \in BOOLEAN /\ torn' \in BOOLEAN
      BY <1>3 DEF BeatInv, Feed, FeedStep, StartSweep, FetchPage, UpdateQueue, AppendLine, EmptySeen,
        SaveSeen, sweep, feedfiles
    <3>3. truncated' \in BOOLEAN
      BY <1>3 DEF BeatInv, Feed, FeedStep, StartSweep, FetchPage, UpdateQueue, AppendLine, EmptySeen,
        SaveSeen, sweep, RanOutOfPages
    <3> QED
      BY <3>1, <3>2, <3>3 DEF BeatInv
  <2>2. CountInv'
    BY <1>3 DEF Feed, CountInv, beatVars
  <2> QED
    BY <2>1, <2>2
<1>4. CASE FeedReturns \/ ExportReturns \/ WriteJournal \/ Export
  <2>1. BeatInv'
    BY <1>0, <1>4 DEF BeatInv, FeedReturns, EndSweep, ExportReturns, EndExport, Leave, WriteJournal,
      Export, ExportStep, ReadManifest, Query, PassOver, OpenFolio, WriteFolio, EmptyManifest,
      SaveManifest, feedVars, feedfiles, sweep, exportVars, beatVars
  <2>2. CountInv'
    BY <1>4 DEF CountInv, FeedReturns, ExportReturns, WriteJournal, Export, beatVars
  <2> QED
    BY <2>1, <2>2
<1>5. CASE FeedGetsBlank \/ FeedRaises \/ ExportQueryFails \/ ExportRaises \/ Kill
  <2>1. BeatInv'
    <3>1. CASE FeedGetsBlank
      BY <3>1 DEF BeatInv, FeedGetsBlank, FetchBlank, feedfiles, exportVars
    <3>2. CASE FeedRaises
      BY <3>2 DEF BeatInv, FeedRaises, Interrupt, exportVars
    <3>3. CASE ExportQueryFails
      BY <3>3 DEF BeatInv, ExportQueryFails, QueryFails, feedVars, feedfiles, sweep
    <3>4. CASE ExportRaises
      BY <3>4 DEF BeatInv, ExportRaises, Abort, Leave, feedVars, feedfiles, sweep
    <3>5. CASE Kill
      BY <3>5 DEF BeatInv, Kill, Interrupt, Abort, Leave, feedfiles, exportVars
    <3> QED
      BY <1>5, <3>1, <3>2, <3>3, <3>4, <3>5
  <2>2. Fault /\ night' = night
    BY <1>5 DEF FeedGetsBlank, FeedRaises, ExportQueryFails, ExportRaises, Kill
  <2>3. CountInv'
    BY <2>2, HousekeepingAssumption DEF Fault, CountInv
  <2> QED
    BY <2>1, <2>3
<1>6. CASE UNCHANGED vars
  BY <1>6 DEF vars, BeatInv, CountInv, feedVars, feedfiles, sweep, exportVars, beatVars
<1> QED
  BY <1>1, <1>2, <1>3, <1>4, <1>5, <1>6 DEF Next

LEMMA BeatInvariantHolds == Spec => [](BeatInv /\ CountInv)
<1>1. Init => BeatInv /\ CountInv
  <2> SUFFICES ASSUME Init PROVE BeatInv /\ CountInv
    OBVIOUS
  <2>1. BeatInv
    BY DEF Init, FeedInit, ExchangeInit, BeatInv
  <2>2. CountInv
    BY HousekeepingAssumption DEF Init, CountInv
  <2> QED
    BY <2>1, <2>2
<1> QED
  BY <1>1, NextBeatInv, FeedInvariantHolds, PTL DEF Spec

----------------------------------------------------------------------------
(***************************************************************************)
(* A line that goes behind a torn one is lost with it, and its paper is    *)
(* remembered as seen.  The inductive invariant counts such papers.        *)
(***************************************************************************)
\* A reader meets the paper, whatever is appended from now on.
Firm(p) == \E i \in Lines(p) : queue[i].readable /\ (i < Len(queue) \/ ~torn)

\* No sweep will write the paper again, or none has to any more.
Settled(p) ==
  \/ p \in vouched \/ InSeen(p)
  \/ feedpc \in Saving /\ p \in known /\ p \notin ToSet(pending)
  \/ /\ p \in due /\ ~blank
     /\ \/ feedpc = "done" /\ ~truncated
        \/ stage \in {"export", "journal"} /\ note = "full"

Gaps == {p \in Cored : Settled(p) /\ ~Firm(p)}

\* Each has a stopped sweep of its own, and so has a line that is torn now.
GapInv == Cardinality(Gaps) + (IF torn THEN 1 ELSE 0) <= halted

\* What a sweep owes and has written is what it remembers.
KnownInv == feedpc \in Saving => truncated \/ blank \/ due \cap Cored \subseteq known

LEMMA CoredCounts ==
  ASSUME NEW G \in SUBSET Cored, NEW H \in SUBSET Cored
  PROVE  /\ Cardinality(G) \in Nat /\ Cardinality(H) \in Nat
         /\ H \subseteq G => Cardinality(H) <= Cardinality(G)
         /\ \A x : H \subseteq G \cup {x} => Cardinality(H) <= Cardinality(G) + 1
<1>1. IsFiniteSet(G) /\ IsFiniteSet(H) /\ Cardinality(G) \in Nat /\ Cardinality(H) \in Nat
  BY ArxivFeedAssumption, PapersFinite
<1>2. ASSUME NEW x, H \subseteq G \cup {x} PROVE Cardinality(H) <= Cardinality(G) + 1
  <2>1. /\ IsFiniteSet(G \cup {x})
        /\ Cardinality(G \cup {x}) = IF x \in G THEN Cardinality(G) ELSE Cardinality(G) + 1
    BY <1>1, FS_AddElement
  <2>2. Cardinality(H) <= Cardinality(G \cup {x})
    BY <1>2, <2>1, FS_Subset
  <2> QED
    BY <1>1, <2>1, <2>2
<1> QED
  BY <1>1, <1>2, FS_Subset

\* An append disturbs no line a reader is sure of, and adds one behind a whole line.
LEMMA AppendedFirm ==
  ASSUME queue \in Seq([paper : Papers, readable : BOOLEAN]),
         NEW p \in Papers, NEW cut \in BOOLEAN,
         queue' = Appended(queue, p, cut)
  PROVE  /\ \A q : Firm(q) => Firm(q)'
         /\ ~torn /\ ~cut /\ ~torn' => Firm(p)'
<1> DEFINE T == [paper : Papers, readable : BOOLEAN]
           n == Len(queue)
           base == IF torn THEN [queue EXCEPT ![n].readable = FALSE] ELSE queue
           new == Line(p, ~torn /\ ~cut)
<1>0. queue \in Seq(T)
  OBVIOUS
<1>1. n \in Nat /\ DOMAIN queue = 1..n /\ \A i \in 1..n : queue[i] \in T
  <2> HIDE DEF T
  <2> QED
    BY <1>0
<1>2. /\ base = [i \in 1..n |-> base[i]]
      /\ \A i \in 1..n : i < n \/ ~torn => base[i] = queue[i]
  <2>1. CASE torn
    <3>1. base = [i \in 1..n |-> IF i = n THEN [queue[i] EXCEPT !.readable = FALSE]
                                          ELSE queue[i]]
      BY <1>1, <2>1
    <3>2. \A i \in 1..n : i < n => i # n
      <4>1. n \in Nat
        BY <1>1
      <4> HIDE DEF n
      <4> QED
        BY <4>1
    <3>3. base = [i \in 1..n |-> base[i]]
      BY <3>1
    <3>4. \A i \in 1..n : i < n => base[i] = queue[i]
      BY <3>1, <3>2
    <3> QED
      BY <2>1, <3>3, <3>4
  <2>2. CASE ~torn
    <3>1. queue = [i \in 1..n |-> queue[i]]
      BY <1>1
    <3> QED
      BY <2>2, <3>1
  <2> QED
    BY <2>1, <2>2
<1>3. new.paper = p /\ new.readable = (~torn /\ ~cut)
  BY DEF Line
<1>4. queue' = Append(base, new)
  BY DEF Appended
<1> DEFINE S == {base[i] : i \in 1..n} \cup {new}
<1>5. base \in Seq(S) /\ Len(base) = n /\ new \in S
  <2> HIDE DEF base, new
  <2>1. \A i \in 1..n : base[i] \in S
    OBVIOUS
  <2> QED
    <3> HIDE DEF S
    <3>1. [i \in 1..n |-> base[i]] \in Seq(S) /\ Len([i \in 1..n |-> base[i]]) = n
      BY <1>1, <2>1
    <3> QED
      BY <1>2, <3>1 DEF S
<1> HIDE DEF base, new, S
<1>6. /\ Len(queue') = n + 1 /\ DOMAIN queue' = 1..(n + 1)
      /\ \A i \in 1..n : queue'[i] = base[i]
      /\ queue'[n + 1] = new
  BY <1>1, <1>4, <1>5
<1>7. \A i \in 1..n : i \in 1..(n + 1) /\ i < n + 1
  BY <1>1
<1>8. ASSUME NEW q, Firm(q) PROVE Firm(q)'
  <2>1. PICK i \in 1..n : /\ queue[i].paper = q /\ queue[i].readable
                          /\ i < n \/ ~torn
    BY <1>1, <1>8 DEF Firm, Lines
  <2>2. queue'[i] = queue[i] /\ i \in DOMAIN queue' /\ i < Len(queue')
    BY <1>2, <1>6, <1>7, <2>1
  <2> QED
    BY <2>1, <2>2 DEF Firm, Lines
<1>9. ASSUME ~torn, ~cut, ~torn' PROVE Firm(p)'
  <2>1. new.paper = p /\ new.readable
    BY <1>3, <1>9
  <2>2. n + 1 \in DOMAIN queue'
    BY <1>1, <1>6
  <2> QED
    BY <1>6, <1>9, <2>1, <2>2 DEF Firm, Lines
<1> QED
  BY <1>8, <1>9

\* One that settles nothing a reader is not sure of.
LEMMA GapsFewer ==
  ASSUME BeatInv, CountInv, GapInv, torn' = torn, halted' \in {halted, halted + 1},
         Gaps' \subseteq Gaps
  PROVE  GapInv'
<1>1. Gaps \in SUBSET Cored /\ Gaps' \in SUBSET Cored
  BY DEF Gaps
<1> DEFINE g == Cardinality(Gaps)
           h == Cardinality(Gaps')
           t == IF torn THEN 1 ELSE 0
<1>2. g \in Nat /\ h \in Nat /\ h <= g
  BY <1>1, CoredCounts
<1>3. t \in Nat /\ halted \in Nat /\ g + t <= halted
  BY DEF GapInv, CountInv
<1>4. GapInv' <=> h + t <= halted'
  BY DEF GapInv
<1> HIDE DEF g, h, t
<1>5. h + t <= halted'
  BY <1>2, <1>3
<1> QED
  BY <1>4, <1>5

\* A step that settles nothing new and leaves the file's end alone.
LEMMA GapsStay ==
  ASSUME BeatInv, CountInv, GapInv, torn' = torn, halted' \in {halted, halted + 1},
         \A p \in Cored : Settled(p)' => Settled(p),
         \A p \in Cored : Firm(p) => Firm(p)'
  PROVE  GapInv'
<1>1. Gaps' \subseteq Gaps
  BY DEF Gaps
<1> QED
  BY <1>1, GapsFewer

\* One that counts a stopped sweep may leave a torn line.
LEMMA GapsStopped ==
  ASSUME BeatInv, CountInv, GapInv, halted' = halted + 1,
         \A p \in Cored : Settled(p)' => Settled(p),
         \A p \in Cored : Firm(p) => Firm(p)'
  PROVE  GapInv'
<1>1. Gaps \in SUBSET Cored /\ Gaps' \in SUBSET Cored /\ Gaps' \subseteq Gaps
  BY DEF Gaps
<1> DEFINE g == Cardinality(Gaps)
           h == Cardinality(Gaps')
           t == IF torn THEN 1 ELSE 0
           u == IF torn' THEN 1 ELSE 0
<1>2. g \in Nat /\ h \in Nat /\ h <= g
  BY <1>1, CoredCounts
<1>3. t \in Nat /\ u \in 0..1 /\ halted \in Nat /\ g + t <= halted
  BY DEF GapInv, CountInv
<1>4. GapInv' <=> h + u <= halted'
  BY DEF GapInv
<1> HIDE DEF g, h, t, u
<1>5. h + u <= halted'
  BY <1>2, <1>3
<1> QED
  BY <1>4, <1>5

\* One that mends the torn line may lose the paper it appends.
LEMMA GapsMended ==
  ASSUME BeatInv, CountInv, GapInv, halted' = halted, torn, ~torn', NEW new,
         \A p \in Cored : Settled(p)' => p = new \/ Settled(p),
         \A p \in Cored : Firm(p) => Firm(p)'
  PROVE  GapInv'
<1>1. Gaps \in SUBSET Cored /\ Gaps' \in SUBSET Cored /\ Gaps' \subseteq Gaps \cup {new}
  BY DEF Gaps
<1> DEFINE g == Cardinality(Gaps)
           h == Cardinality(Gaps')
<1>2. g \in Nat /\ h \in Nat /\ h <= g + 1
  BY <1>1, CoredCounts
<1>3. halted \in Nat /\ g + 1 <= halted
  BY DEF GapInv, CountInv
<1>4. GapInv' <=> h + 0 <= halted'
  BY DEF GapInv
<1> HIDE DEF g, h
<1>5. h + 0 <= halted'
  BY <1>2, <1>3
<1> QED
  BY <1>4, <1>5

LEMMA FirmFiles == queue' = queue /\ torn' = torn => \A p : Firm(p)' <=> Firm(p)
BY DEF Firm, Lines

\* The sweep's own statements.
LEMMA FeedKeepsGaps ==
  ASSUME FeedInv, BeatInv, CountInv, KnownInv, GapInv, Feed
  PROVE  KnownInv' /\ GapInv'
<1>0. ListsInv /\ SweepInv /\ DueInv
  BY DEF FeedInv
<1>1. stage = "feed" /\ UNCHANGED <<stage, note, due, vouched, halted>> /\ FeedStep(night)
  BY DEF Feed, beatVars
<1>2. CASE StartSweep \/ FetchPage(night)
  <2>1. feedpc' \in {"fetch", "update"} /\ UNCHANGED <<queue, torn, seen>>
    BY <1>2 DEF StartSweep, FetchPage, feedfiles
  <2>2. \A p : (InSeen(p)' <=> InSeen(p)) /\ (Firm(p)' <=> Firm(p))
    BY <2>1, SameFiles, FirmFiles
  <2>3. \A p \in Cored : Settled(p)' => Settled(p)
    BY <1>1, <2>1, <2>2 DEF Settled, Saving
  <2> QED
    BY <1>1, <2>1, <2>2, <2>3, GapsStay DEF KnownInv, Saving
<1>3. CASE UpdateQueue
  <2> DEFINE ids == IF seen = Corrupt THEN {} ELSE seen
             hits == (ToSet(fresh) \ ids) \cap Cored
  <2>1. /\ feedpc = "update" /\ known' = ids \cup ToSet(fresh) /\ pending' = NewestFirst(hits)
        /\ feedpc' \in Saving
        /\ UNCHANGED <<truncated, blank, queue, torn, seen>>
    BY <1>3 DEF UpdateQueue, Hits, AfterHits, Saving, sweep, feedfiles
  <2>2. \A p : (InSeen(p)' <=> InSeen(p)) /\ (Firm(p)' <=> Firm(p))
    BY <2>1, SameFiles, FirmFiles
  <2>3. \A p : p \in ids <=> InSeen(p)
    BY DEF InSeen
  <2>4. hits \in SUBSET Papers
    BY ArxivFeedAssumption
  <2>5. ToSet(pending') = hits
    BY <2>1, <2>4, NewestFirstFacts
  <2>6. due \subseteq ToSet(fresh) \/ truncated \/ blank
    BY <1>0, <2>1 DEF DueInv
  <2> HIDE DEF ids
  <2>7. KnownInv'
    BY <1>1, <2>1, <2>6 DEF KnownInv
  <2>8. \A p \in Cored : Settled(p)' => Settled(p)
    BY <1>1, <2>1, <2>2, <2>3, <2>5 DEF Settled, Saving
  <2> QED
    BY <1>1, <2>1, <2>2, <2>7, <2>8, GapsStay
<1>4. CASE AppendLine
  <2>1. /\ feedpc = "append" /\ queue' = Appended(queue, Head(pending), FALSE) /\ ~torn'
        /\ pending' = Tail(pending) /\ feedpc' \in {"append", "empty"}
        /\ UNCHANGED <<truncated, blank, known, seen>>
    BY <1>4 DEF AppendLine, AfterHits, sweep
  <2>2. /\ Head(pending) \in Papers
        /\ ToSet(pending) = {Head(pending)} \cup ToSet(pending')
    BY <1>0, <2>1, HeadAndTail DEF SweepInv, ListsInv
  <2>3. PICK new \in Papers : new = Head(pending)
    BY <2>2
  <2>4. (\A q : Firm(q) => Firm(q)') /\ (~torn => Firm(new)')
    BY <1>0, <2>1, <2>3, AppendedFirm DEF ListsInv
  <2>5. \A p : InSeen(p)' <=> InSeen(p)
    BY <2>1, SameFiles
  <2>6. \A p \in Cored : Settled(p)' => p = new \/ Settled(p)
    BY <1>1, <2>1, <2>2, <2>3, <2>5 DEF Settled, Saving
  <2>7. KnownInv'
    BY <1>1, <2>1 DEF KnownInv, Saving
  <2>8. CASE torn
    BY <1>1, <2>1, <2>4, <2>6, <2>7, <2>8, GapsMended
  <2>9. CASE ~torn
    <3>1. Gaps' \subseteq Gaps
      BY <2>4, <2>6, <2>9 DEF Gaps
    <3>2. torn' = torn
      BY <1>4, <2>9 DEF AppendLine, BeatInv
    <3> QED
      BY <1>1, <2>7, <3>1, <3>2, GapsFewer
  <2> QED
    BY <2>8, <2>9
<1>5. CASE EmptySeen
  <2>1. /\ feedpc = "empty" /\ feedpc' = "save" /\ seen' = Corrupt
        /\ UNCHANGED <<truncated, blank, known, pending, queue, torn>>
    BY <1>5 DEF EmptySeen, sweep
  <2>2. \A p : ~InSeen(p)' /\ (Firm(p)' <=> Firm(p))
    BY <2>1, FirmFiles DEF InSeen
  <2>3. \A p \in Cored : Settled(p)' => Settled(p)
    BY <1>1, <2>1, <2>2 DEF Settled, Saving
  <2>4. KnownInv'
    BY <1>1, <2>1 DEF KnownInv, Saving
  <2> QED
    BY <1>1, <2>1, <2>2, <2>3, <2>4, GapsStay
<1>6. CASE SaveSeen
  <2>1. /\ feedpc = "save" /\ feedpc' = "done" /\ seen' = Largest(known)
        /\ UNCHANGED <<truncated, blank, known, pending, queue, torn>>
    BY <1>6 DEF SaveSeen, sweep
  <2>2. \A p : (InSeen(p)' => p \in known) /\ (Firm(p)' <=> Firm(p))
    BY <2>1, FirmFiles DEF InSeen, Largest
  <2>3. ToSet(pending) = {}
    BY <1>0, <2>1, EmptyToSet DEF SweepInv
  <2>4. ~truncated /\ ~blank => due \cap Cored \subseteq known
    BY <2>1 DEF KnownInv, Saving
  <2>5. \A p \in Cored : Settled(p)' => Settled(p)
    BY <1>1, <2>1, <2>2, <2>3, <2>4 DEF Settled, Saving
  <2>6. KnownInv'
    BY <2>1 DEF KnownInv, Saving
  <2> QED
    BY <1>1, <2>1, <2>2, <2>5, <2>6, GapsStay
<1> QED
  BY <1>1, <1>2, <1>3, <1>4, <1>5, <1>6 DEF FeedStep

\* Wherever a sweep stops: what it had settled in memory only is settled no more.
LEMMA InterruptKeepsGaps ==
  ASSUME FeedInv, BeatInv, CountInv, KnownInv, GapInv, Interrupt, Fault, stage = "feed",
         vouched' = vouched, due' \in {due, {}}, stage' \in {"off", "export"},
         stage' = "export" => note' = "error"
  PROVE  KnownInv' /\ GapInv'
<1>0. ListsInv /\ SweepInv
  BY DEF FeedInv
<1>1. feedpc' = "idle" /\ seen' = seen
  BY DEF Interrupt, Return
<1>2. \A p : InSeen(p)' <=> InSeen(p)
  BY <1>1, SameFiles
<1>3. \A p \in Cored : Settled(p)' => Settled(p)
  BY <1>1, <1>2 DEF Settled, Saving
<1>4. KnownInv'
  BY <1>1 DEF KnownInv, Saving
<1>5. halted' \in {halted, halted + 1} /\ (feedpc = "append" => halted' = halted + 1)
  BY DEF Fault
<1>6. CASE UNCHANGED <<queue, torn>>
  <2>1. \A p : Firm(p)' <=> Firm(p)
    BY <1>6, FirmFiles
  <2> QED
    BY <1>3, <1>4, <1>5, <1>6, <2>1, GapsStay
<1>7. CASE ~UNCHANGED <<queue, torn>>
  <2>1. PICK cut \in BOOLEAN : feedpc = "append" /\ queue' = Appended(queue, Head(pending), cut)
    BY <1>7 DEF Interrupt
  <2>2. Head(pending) \in Papers
    BY <1>0, <2>1, HeadAndTail DEF SweepInv, ListsInv
  <2>3. \A q : Firm(q) => Firm(q)'
    BY <1>0, <2>1, <2>2, AppendedFirm DEF ListsInv
  <2> QED
    BY <1>3, <1>4, <1>5, <2>1, <2>3, GapsStopped
<1> QED
  BY <1>6, <1>7

LEMMA NextGapInv ==
  FeedInv /\ BeatInv /\ CountInv /\ KnownInv /\ GapInv /\ [Next]_vars => KnownInv' /\ GapInv'
<1> SUFFICES ASSUME FeedInv, BeatInv, CountInv, KnownInv, GapInv, [Next]_vars
             PROVE  KnownInv' /\ GapInv'
  OBVIOUS
<1>0. (feedpc # "idle" => stage = "feed") /\ halted \in Nat
  BY DEF FeedInv, SweepInv, CountInv
<1>1. ASSUME UNCHANGED <<queue, torn, seen>>, halted' = halted,
             feedpc' \in Saving => UNCHANGED <<feedpc, known, pending, due, truncated, blank>>,
             \A p \in Cored : p \in vouched' /\ p \notin vouched => Settled(p),
             \A p \in Cored :
               /\ p \in due' /\ ~blank'
               /\ \/ feedpc' = "done" /\ ~truncated'
                  \/ stage' \in {"export", "journal"} /\ note' = "full"
               => Settled(p)
      PROVE  KnownInv' /\ GapInv'
  <2>1. \A p : (InSeen(p)' <=> InSeen(p)) /\ (Firm(p)' <=> Firm(p))
    BY <1>1, SameFiles, FirmFiles
  <2>2. \A p \in Cored : Settled(p)' => Settled(p)
    BY <1>1, <2>1 DEF Settled
  <2>3. KnownInv'
    BY <1>1 DEF KnownInv
  <2> QED
    BY <1>1, <2>1, <2>2, <2>3, GapsStay
<1>2. CASE World \/ UNCHANGED vars
  <2>1. /\ UNCHANGED <<queue, torn, seen, halted, feedpc, known, pending, due, truncated, blank>>
        /\ UNCHANGED <<stage, note, vouched>>
    BY <1>2 DEF World, vars, Submit, sweep, beatVars, feedVars, feedfiles
  <2> QED
    BY <1>1, <2>1 DEF Settled
<1>3. CASE Beat
  <2>1. /\ UNCHANGED <<queue, torn, seen, halted, feedpc, vouched>> /\ stage' = "feed"
        /\ stage = "off"
    BY <1>3 DEF Beat, feedVars, feedfiles
  <2> QED
    BY <1>0, <1>1, <2>1 DEF Saving
<1>4. CASE Feed
  BY <1>4, FeedKeepsGaps
<1>5. CASE FeedReturns
  <2>1. /\ UNCHANGED <<queue, torn, seen, halted, due, vouched, truncated, blank>>
        /\ feedpc = "done" /\ feedpc' = "idle" /\ note' = IF truncated THEN "truncated" ELSE "full"
    BY <1>5 DEF FeedReturns, EndSweep, Return, feedfiles
  <2> QED
    BY <1>1, <2>1 DEF Saving, Settled
<1>6. CASE FeedGetsBlank
  <2>1. /\ UNCHANGED <<queue, torn, seen, due, vouched, stage>> /\ feedpc = "fetch"
        /\ feedpc' = "update" /\ halted' = halted /\ blank'
    BY <1>6 DEF FeedGetsBlank, FetchBlank, Fault, feedfiles
  <2> QED
    BY <1>1, <2>1 DEF Saving
<1>7. CASE FeedRaises
  BY <1>7, InterruptKeepsGaps DEF FeedRaises
<1>8. CASE Export \/ ExportQueryFails \/ ExportReturns \/ ExportRaises
  <2>1. stage = "export" /\ feedpc = "idle"
    BY <1>0, <1>8 DEF Export, ExportQueryFails, ExportReturns, ExportRaises
  <2>2. /\ UNCHANGED <<queue, torn, seen, halted, feedpc, known, pending, due, truncated, blank>>
        /\ UNCHANGED <<note, vouched>>
    BY <1>8, <2>1 DEF Export, ExportQueryFails, ExportReturns, ExportRaises, Fault, sweep, beatVars,
      feedVars, feedfiles
  <2> QED
    BY <1>1, <2>1, <2>2 DEF Settled
<1>9. CASE WriteJournal
  <2>1. /\ UNCHANGED <<queue, torn, seen, halted, feedpc>> /\ due' = {} /\ stage' = "off"
        /\ vouched' = IF note = "full" /\ ~blank THEN vouched \cup due ELSE vouched
        /\ stage = "journal"
    BY <1>9 DEF WriteJournal, feedfiles
  <2>2. feedpc = "idle"
    BY <1>0, <2>1
  <2> QED
    BY <1>1, <2>1, <2>2 DEF Saving, Settled
<1>10. CASE Kill
  <2>1. /\ due' = {} /\ stage' = "off" /\ vouched' = vouched /\ Fault
    BY <1>10 DEF Kill
  <2>2. CASE Interrupt
    <3>1. stage = "feed"
      BY <1>0, <2>2 DEF Interrupt
    <3> QED
      BY <2>1, <2>2, <3>1, InterruptKeepsGaps
  <2>3. CASE feedpc = "idle" /\ UNCHANGED <<feedpc, feedfiles>>
    <3>1. UNCHANGED <<queue, torn, seen, halted, feedpc>>
      BY <2>1, <2>3 DEF Fault, feedfiles
    <3> QED
      BY <1>1, <2>1, <2>3, <3>1 DEF Saving
  <2> QED
    BY <1>10, <2>2, <2>3 DEF Kill
<1> QED
  BY <1>2, <1>3, <1>4, <1>5, <1>6, <1>7, <1>8, <1>9, <1>10 DEF Next

LEMMA GapInvariantHolds == Spec => []GapInv
<1>1. Init => KnownInv /\ GapInv
  <2> SUFFICES ASSUME Init PROVE KnownInv /\ GapInv
    OBVIOUS
  <2>1. /\ feedpc = "idle" /\ seen = Corrupt /\ vouched = {} /\ due = {} /\ ~torn
        /\ halted = 0
    BY DEF Init, FeedInit
  <2>2. Gaps = {}
    BY <2>1 DEF Gaps, Settled, InSeen, Saving
  <2>3. Cardinality(Gaps) = 0
    BY <2>2, FS_EmptySet
  <2> QED
    BY <2>1, <2>3 DEF KnownInv, GapInv, Saving
<1> QED
  BY <1>1, NextGapInv, FeedInvariantHolds, BeatInvariantHolds, PTL DEF Spec

----------------------------------------------------------------------------
(***************************************************************************)
(* The theorems.                                                           *)
(***************************************************************************)
\* The types of the sweep, of the exchange and of the beat, for any number of
\* papers, pages, laws, nights and faults.
THEOREM TypeCorrectness == Spec => []TypeOK
<1>1. FeedInv /\ IInv /\ BeatInv /\ CountInv => TypeOK
  <2> SUFFICES ASSUME FeedInv, IInv, BeatInv, CountInv PROVE TypeOK
    OBVIOUS
  <2>1. ArrivalInv /\ SweepInv /\ ListsInv /\ DueInv
    BY DEF FeedInv
  <2>2. arrived \in 0..Cardinality(Papers) /\ pageno \in 0..MaxPages
    BY <2>1, PapersFinite, ArxivFeedAssumption DEF ArrivalInv, SweepInv
  <2>3. seen = Corrupt \/ seen \subseteq Papers
    BY <2>1 DEF ListsInv, InSeen
  <2>4. FeedTypeOK
    BY <2>1, <2>2, <2>3 DEF FeedTypeOK, ArrivalInv, SweepInv, ListsInv, BeatInv
  <2>5. ExchangeTypeOK
    BY DEF ExchangeTypeOK, IInv, ExchangeTyped, BeatInv
  <2>6. night \in 0..MaxNights /\ faults \in 0..MaxFaults /\ halted \in 0..MaxFaults
    BY HousekeepingAssumption DEF CountInv
  <2>7. due \subseteq Papers /\ vouched \subseteq Papers /\ (feedpc # "idle" => stage = "feed")
    BY <2>1 DEF DueInv, SweepInv
  <2> QED
    BY <2>4, <2>5, <2>6, <2>7 DEF TypeOK, BeatInv
<1> QED
  BY <1>1, InitIInv, NextIInv, FeedInvariantHolds, BeatInvariantHolds, PTL DEF Spec

\* However many papers, pages and nights, and wherever sweeps stop: a hit has at most
\* a copy more on the queue than sweeps that stopped between a first hit and the
\* saved set, because the cap of the seen set is no smaller than what a sweep lists.
THEOREM CopiesAreBounded == Spec => []CopiesBounded
<1>1. FeedInv => CopiesBounded
  BY DEF FeedInv, CopyInv, CopiesBounded, Copies
<1> QED
  BY <1>1, FeedInvariantHolds, PTL

\* However many papers, pages and nights, and wherever sweeps stop: of the papers with
\* a finite core that a sweep owed whose entry reports no gap, every one has a line on
\* the queue, and all but at most one for each stopped sweep have a line a reader
\* accepts.  A line is lost only behind one that a stopped sweep left torn
\* (update_queue), and lost for good.
THEOREM ReportedHitsCanBeRead == Spec => []ReportedHitsAreReadable
<1>1. FeedInv /\ CountInv /\ GapInv => ReportedHitsAreReadable
  <2> SUFFICES ASSUME FeedInv, CountInv, GapInv PROVE ReportedHitsAreReadable
    OBVIOUS
  <2> DEFINE lost == {p \in vouched \cap Cored : ~Readable(p)}
             g == Cardinality(Gaps)
             l == Cardinality(lost)
             t == IF torn THEN 1 ELSE 0
  <2>1. \A p \in vouched \cap Cored : Lines(p) # {}
    BY DEF FeedInv, DueInv, Queued
  <2>2. Gaps \in SUBSET Cored /\ lost \in SUBSET Cored /\ lost \subseteq Gaps
    BY DEF Gaps, Settled, Firm, Readable
  <2>3. g \in Nat /\ l \in Nat /\ l <= g
    <3> HIDE DEF lost
    <3> QED
      BY <2>2, CoredCounts
  <2>4. t \in Nat /\ halted \in Nat /\ g + t <= halted
    BY DEF GapInv, CountInv
  <2>5. l <= halted
    <3> HIDE DEF g, l, t
    <3> QED
      BY <2>3, <2>4
  <2> QED
    BY <2>1, <2>5 DEF ReportedHitsAreReadable
<1> QED
  BY <1>1, FeedInvariantHolds, BeatInvariantHolds, GapInvariantHolds, PTL

\* The manifest lists no law whose folio is missing or half written, for any laws,
\* nights and faults: the order of export_new's writes makes it so.
THEOREM ListedFoliosSound == Spec => []ListedFoliosAreWhole
<1>1. IInv => ListedFoliosAreWhole
  BY DEF IInv, ManifestInv, ListedFoliosAreWhole
<1> QED
  BY <1>1, InitIInv, NextIInv, PTL DEF Spec

----------------------------------------------------------------------------
(***************************************************************************)
(* Every law ends up exported, but for fairness.  A beat comes to its end  *)
(* in a bounded number of steps, faults included; and an export whose      *)
(* query went through lists, when it saves the manifest, every law the     *)
(* ledger holds that can be rendered, with its whole folio.                *)
(***************************************************************************)
PaperCount == Cardinality(Papers)

FeedLeft ==
  CASE feedpc = "idle" -> MaxPages + PaperCount + 5
    [] feedpc = "fetch" -> (MaxPages - pageno) + PaperCount + 4
    [] feedpc = "update" -> PaperCount + 4
    [] feedpc = "append" -> Len(pending) + 3
    [] feedpc = "empty" -> 3
    [] feedpc = "save" -> 2
    [] OTHER -> 1

ExportLeft ==
  CASE exportpc = "idle" -> 2 * Len(laws) + 5
    [] exportpc = "query" -> 2 * Len(laws) + 4
    [] exportpc = "rows" -> 2 * Len(rows) + 3
    [] exportpc = "write" -> 2 * Len(rows) + 2
    [] exportpc = "save" -> 2
    [] OTHER -> 1

BeatLeft ==
  CASE stage = "feed" -> FeedLeft + 2 * Len(laws) + 6
    [] stage = "export" -> ExportLeft + 1
    [] stage = "journal" -> 1
    [] OTHER -> 0

BeatBudget == MaxPages + PaperCount + 2 * Len(laws) + 11

BeatLowers == stage # "off" => BeatLeft' < BeatLeft \/ (World /\ BeatLeft' = BeatLeft)

\* However many papers arrive and laws there are, and whatever fails or is killed
\* where: a beat takes at most BeatBudget steps to be off again, and only a paper
\* that arrives meanwhile is none of them.
BeatsAreBounded ==
  /\ [](BeatLeft \in Nat /\ BeatLeft <= BeatBudget)
  /\ [][BeatLowers]_vars

\* What the query returned is no more than the ledger, nor are the hits than the papers.
LengthInv == Len(pending) <= PaperCount /\ Len(rows) <= Len(laws)

LEMMA NewestFirstLength ==
  ASSUME NEW ps \in SUBSET Papers
  PROVE  Len(NewestFirst(ps)) \in Nat /\ Len(NewestFirst(ps)) <= PaperCount
<1> DEFINE s == NewestFirst(ps)
           n == Cardinality(ps)
<1>1. n \in Nat /\ n <= PaperCount
  BY PapersFinite, FS_Subset DEF PaperCount
<1>2. DOMAIN s = 1..n
  BY DEF NewestFirst
<1>3. Len(s) \in Nat /\ DOMAIN s = 1..Len(s)
  <2>1. s \in Seq(Papers)
    BY NewestFirstFacts
  <2> HIDE DEF s
  <2> QED
    BY <2>1
<1>4. Len(s) = n
  <2> HIDE DEF s, n
  <2> QED
    BY <1>1, <1>2, <1>3
<1> QED
  BY <1>1, <1>3, <1>4

LEMMA LengthTypes ==
  ASSUME FeedInv, IInv
  PROVE  /\ Len(pending) \in Nat /\ Len(rows) \in Nat /\ Len(laws) \in Nat
         /\ PaperCount \in Nat /\ MaxPages \in Nat
         /\ pageno \in Nat /\ pageno <= MaxPages
         /\ pending \in Seq(Papers) /\ rows \in Seq(Laws) /\ laws \in Seq(Laws)
<1>1. PaperCount \in Nat /\ MaxPages \in Nat
  BY PapersFinite, ArxivFeedAssumption DEF PaperCount
<1>2. pageno \in Nat /\ pageno <= MaxPages /\ pending \in Seq(Papers)
  BY DEF FeedInv, SweepInv, ListsInv
<1>3. rows \in Seq(Laws) /\ laws \in Seq(Laws)
  BY DEF IInv, ExchangeTyped
<1> QED
  BY <1>1, <1>2, <1>3

LEMMA NextLengthInv == FeedInv /\ IInv /\ LengthInv /\ [Next]_vars => LengthInv'
<1> SUFFICES ASSUME FeedInv, IInv, LengthInv, [Next]_vars PROVE LengthInv'
  OBVIOUS
<1>1. /\ Len(pending) \in Nat /\ Len(rows) \in Nat /\ Len(laws) \in Nat
      /\ PaperCount \in Nat
      /\ pending \in Seq(Papers) /\ rows \in Seq(Laws) /\ laws \in Seq(Laws)
      /\ Len(pending) <= PaperCount /\ Len(rows) <= Len(laws)
  BY LengthTypes DEF LengthInv
<1>2. Len(<<>>) = 0
  OBVIOUS
<1>3. rows # <<>> => Len(Tail(rows)) <= Len(rows) /\ Len(Tail(rows)) \in Nat
  BY <1>1, HeadTailProperties
<1>4. Len(pending') <= PaperCount
  <2>1. CASE pending' = pending
    BY <1>1, <2>1
  <2>2. CASE pending' = <<>>
    BY <1>1, <1>2, <2>2
  <2>3. CASE Feed /\ UpdateQueue
    <3>1. PICK ps \in SUBSET Papers : pending' = NewestFirst(ps)
      <4> DEFINE ids == IF seen = Corrupt THEN {} ELSE seen
                 ps == (ToSet(fresh) \ ids) \cap Cored
      <4>1. ps \in SUBSET Papers
        BY ArxivFeedAssumption
      <4>2. pending' = NewestFirst(ps)
        BY <2>3 DEF UpdateQueue, Hits
      <4> QED
        BY <4>1, <4>2
    <3> QED
      BY <3>1, NewestFirstLength
  <2>4. CASE Feed /\ AppendLine
    <3>1. pending # <<>> /\ pending' = Tail(pending)
      BY <2>4 DEF AppendLine, FeedInv, SweepInv
    <3>2. Len(Tail(pending)) = Len(pending) - 1
      BY <1>1, <3>1, HeadTailProperties
    <3> QED
      BY <1>1, <3>1, <3>2
  <2>5. CASE Feed /\ (StartSweep \/ FetchPage(night) \/ EmptySeen \/ SaveSeen)
    <3>1. pending' = pending
      BY <2>5 DEF StartSweep, FetchPage, EmptySeen, SaveSeen
    <3> QED
      BY <2>1, <3>1
  <2>6. CASE FeedReturns \/ FeedRaises
    BY <2>2, <2>6 DEF FeedReturns, FeedRaises, EndSweep, Interrupt, Return
  <2>7. CASE Kill
    BY <2>1, <2>2, <2>7 DEF Kill, Interrupt, Return
  <2>8. CASE World \/ Beat \/ FeedGetsBlank \/ Export \/ ExportQueryFails \/ ExportReturns
               \/ ExportRaises \/ WriteJournal \/ UNCHANGED vars
    <3>1. pending' = pending
      BY <2>8 DEF World, Submit, Beat, FeedGetsBlank, FetchBlank, Export, ExportQueryFails,
        ExportReturns, ExportRaises, WriteJournal, vars, feedVars
    <3> QED
      BY <2>1, <3>1
  <2> QED
    BY <2>3, <2>4, <2>5, <2>6, <2>7, <2>8 DEF Next, Feed, FeedStep
<1>5. Len(rows') <= Len(laws')
  <2>1. CASE UNCHANGED <<laws, rows>>
    BY <1>1, <2>1
  <2>2. CASE laws' = laws /\ rows' = <<>>
    BY <1>1, <1>2, <2>2
  <2>3. CASE World /\ Promulgate
    <3>1. PICK l \in Laws : laws' = Append(laws, l)
      BY <2>3 DEF Promulgate
    <3>2. Len(laws') = Len(laws) + 1 /\ rows' = rows
      BY <1>1, <2>3, <3>1, AppendProperties DEF Promulgate, exportRun
    <3> QED
      BY <1>1, <3>2
  <2>4. CASE Export
    <3>1. CASE Query
      BY <1>1, <3>1 DEF Query
    <3>2. CASE PassOver \/ WriteFolio
      <4>1. rows # <<>> /\ rows' = Tail(rows) /\ laws' = laws
        BY <3>2 DEF PassOver, WriteFolio, IInv, ManifestInv
      <4> QED
        BY <1>1, <1>3, <4>1
    <3>3. CASE ReadManifest \/ OpenFolio \/ EmptyManifest \/ SaveManifest
      <4>1. UNCHANGED <<laws, rows>>
        BY <3>3 DEF ReadManifest, OpenFolio, EmptyManifest, SaveManifest, exportRun
      <4> QED
        BY <2>1, <4>1
    <3> QED
      BY <2>4, <3>1, <3>2, <3>3 DEF Export, ExportStep
  <2>5. CASE ExportQueryFails \/ ExportReturns \/ ExportRaises
    BY <2>2, <2>5 DEF ExportQueryFails, QueryFails, ExportReturns, EndExport, ExportRaises,
      Abort, Leave
  <2>6. CASE Kill
    BY <2>1, <2>2, <2>6 DEF Kill, Abort, Leave, exportVars, exportRun
  <2>7. CASE (World /\ UNCHANGED exportVars) \/ Beat \/ Feed \/ FeedReturns \/ FeedGetsBlank
               \/ FeedRaises \/ WriteJournal \/ UNCHANGED vars
    <3>1. UNCHANGED <<laws, rows>>
      BY <2>7 DEF Beat, Feed, FeedReturns, FeedGetsBlank, FeedRaises, WriteJournal, vars,
        exportVars, exportRun
    <3> QED
      BY <2>1, <3>1
  <2> QED
    BY <2>3, <2>4, <2>5, <2>6, <2>7 DEF Next, World
<1> QED
  BY <1>4, <1>5 DEF LengthInv

LEMMA LengthInvariantHolds == Spec => []LengthInv
<1>1. Init => LengthInv
  <2> SUFFICES ASSUME Init PROVE LengthInv
    OBVIOUS
  <2>1. pending = <<>> /\ rows = <<>> /\ laws = <<>> /\ Len(<<>>) = 0
    BY DEF Init, FeedInit, ExchangeInit
  <2>2. PaperCount \in Nat
    BY PapersFinite DEF PaperCount
  <2> QED
    BY <2>1, <2>2 DEF LengthInv
<1> QED
  BY <1>1, NextLengthInv, FeedInvariantHolds, InitIInv, NextIInv, PTL DEF Spec

LEMMA FeedLeftTyped ==
  ASSUME FeedInv, IInv, LengthInv
  PROVE  FeedLeft \in Nat /\ FeedLeft >= 1 /\ FeedLeft <= MaxPages + PaperCount + 5
<1>1. /\ Len(pending) \in Nat /\ Len(pending) <= PaperCount
      /\ PaperCount \in Nat /\ MaxPages \in Nat
      /\ pageno \in Nat /\ pageno <= MaxPages
  BY LengthTypes DEF LengthInv
<1>2. MaxPages - pageno \in Nat /\ MaxPages - pageno <= MaxPages
  BY <1>1
<1> QED
  BY <1>1, <1>2 DEF FeedLeft

LEMMA ExportLeftTyped ==
  ASSUME FeedInv, IInv, LengthInv
  PROVE  ExportLeft \in Nat /\ ExportLeft >= 1 /\ ExportLeft <= 2 * Len(laws) + 5
<1>1. Len(rows) \in Nat /\ Len(laws) \in Nat /\ Len(rows) <= Len(laws)
  BY LengthTypes DEF LengthInv
<1> QED
  BY <1>1 DEF ExportLeft

LEMMA BeatLeftTyped ==
  FeedInv /\ IInv /\ LengthInv => BeatLeft \in Nat /\ BeatLeft <= BeatBudget
<1> SUFFICES ASSUME FeedInv, IInv, LengthInv PROVE BeatLeft \in Nat /\ BeatLeft <= BeatBudget
  OBVIOUS
<1>1. Len(laws) \in Nat /\ PaperCount \in Nat /\ MaxPages \in Nat
  BY LengthTypes
<1>2. PICK f \in Nat : FeedLeft = f /\ f <= MaxPages + PaperCount + 5
  BY FeedLeftTyped
<1>3. PICK e \in Nat : ExportLeft = e /\ e <= 2 * Len(laws) + 5
  BY ExportLeftTyped
<1> QED
  BY <1>1, <1>2, <1>3 DEF BeatLeft, BeatBudget

\* Every statement of the sweep leaves it fewer, a page that comes back blank too.
LEMMA FeedStepLowers ==
  ASSUME FeedInv, IInv, LengthInv, FeedStep(night) \/ FetchBlank
  PROVE  FeedLeft' < FeedLeft /\ FeedLeft' \in Int
<1>1. /\ Len(pending) \in Nat /\ Len(pending) <= PaperCount
      /\ PaperCount \in Nat /\ MaxPages \in Nat
      /\ pageno \in Nat /\ pageno <= MaxPages /\ pending \in Seq(Papers)
  BY LengthTypes DEF LengthInv
<1>2. (feedpc = "fetch" => pageno < MaxPages) /\ (feedpc = "append" => pending # <<>>)
  BY DEF FeedInv, SweepInv
<1>3. PaperCount' = PaperCount
  BY DEF PaperCount
<1>4. CASE StartSweep
  BY <1>1, <1>3, <1>4 DEF StartSweep, FeedLeft
<1>5. CASE FetchPage(night) \/ FetchBlank
  <2>1. feedpc = "fetch" /\ pageno' = pageno + 1 /\ feedpc' \in {"fetch", "update"}
    BY <1>5 DEF FetchPage, FetchBlank
  <2> QED
    BY <1>1, <1>2, <1>3, <2>1 DEF FeedLeft
<1>6. CASE UpdateQueue
  <2>1. feedpc = "update" /\ feedpc' \in {"append", "empty"}
    BY <1>6 DEF UpdateQueue, AfterHits
  <2>2. Len(pending') \in Nat /\ Len(pending') <= PaperCount
    <3> DEFINE ids == IF seen = Corrupt THEN {} ELSE seen
               ps == (ToSet(fresh) \ ids) \cap Cored
    <3>1. ps \in SUBSET Papers
      BY ArxivFeedAssumption
    <3>2. pending' = NewestFirst(ps)
      BY <1>6 DEF UpdateQueue, Hits
    <3> QED
      BY <3>1, <3>2, NewestFirstLength
  <2> QED
    BY <1>1, <1>3, <2>1, <2>2 DEF FeedLeft
<1>7. CASE AppendLine
  <2>1. feedpc = "append" /\ feedpc' \in {"append", "empty"} /\ pending' = Tail(pending)
    BY <1>7 DEF AppendLine, AfterHits
  <2>2. Len(pending') = Len(pending) - 1 /\ Len(pending) # 0
    BY <1>1, <1>2, <2>1, HeadTailProperties, EmptySeq
  <2> QED
    BY <1>1, <1>3, <2>1, <2>2 DEF FeedLeft
<1>8. CASE EmptySeen \/ SaveSeen
  BY <1>1, <1>3, <1>8 DEF EmptySeen, SaveSeen, FeedLeft
<1> QED
  BY <1>4, <1>5, <1>6, <1>7, <1>8 DEF FeedStep

\* So does every statement of the export, a query that fails too.
LEMMA ExportStepLowers ==
  ASSUME FeedInv, IInv, LengthInv, ExportStep \/ QueryFails
  PROVE  ExportLeft' < ExportLeft /\ ExportLeft' \in Int /\ laws' = laws
<1>1. /\ Len(rows) \in Nat /\ Len(laws) \in Nat /\ rows \in Seq(Laws)
      /\ Len(rows) <= Len(laws)
  BY LengthTypes DEF LengthInv
<1>2. rows # <<>> => Len(Tail(rows)) = Len(rows) - 1 /\ Len(rows) # 0
  BY <1>1, HeadTailProperties, EmptySeq
<1>3. CASE ReadManifest \/ Query \/ EmptyManifest \/ SaveManifest
  <2>1. laws' = laws
    BY <1>3 DEF ReadManifest, Query, EmptyManifest, SaveManifest
  <2>2. CASE ReadManifest
    BY <1>1, <2>1, <2>2 DEF ReadManifest, ExportLeft
  <2>3. CASE Query
    <3>1. exportpc = "query" /\ exportpc' = "rows" /\ rows' = laws
      BY <2>3 DEF Query
    <3> QED
      BY <1>1, <2>1, <3>1 DEF ExportLeft
  <2>4. CASE EmptyManifest
    BY <1>1, <2>1, <2>4 DEF EmptyManifest, ExportLeft
  <2>5. CASE SaveManifest
    BY <1>1, <2>1, <2>5 DEF SaveManifest, ExportLeft
  <2> QED
    BY <1>3, <2>1, <2>2, <2>3, <2>4, <2>5
<1>4. CASE QueryFails
  <2>1. exportpc = "query" /\ exportpc' = "rows" /\ Len(rows') = 0 /\ laws' = laws
    BY <1>4 DEF QueryFails
  <2> QED
    BY <1>1, <2>1 DEF ExportLeft
<1>5. CASE PassOver
  <2>1. exportpc = "rows" /\ exportpc' = "rows" /\ laws' = laws /\ Len(rows') = Len(rows) - 1
    BY <1>2, <1>5 DEF PassOver
  <2> QED
    BY <1>1, <2>1 DEF ExportLeft
<1>6. CASE OpenFolio
  <2>1. exportpc = "rows" /\ exportpc' = "write" /\ laws' = laws /\ rows' = rows
    BY <1>6 DEF OpenFolio, exportRun
  <2> QED
    BY <1>1, <2>1 DEF ExportLeft
<1>7. CASE WriteFolio
  <2>1. exportpc = "write" /\ exportpc' = "rows" /\ laws' = laws /\ Len(rows') = Len(rows) - 1
    BY <1>2, <1>7 DEF WriteFolio, IInv, ManifestInv
  <2>2. Len(rows) - 1 \in Int
    BY <1>1
  <2> QED
    BY <1>1, <2>1, <2>2 DEF ExportLeft
<1> QED
  BY <1>3, <1>4, <1>5, <1>6, <1>7 DEF ExportStep

LEMMA EveryStepLowers ==
  FeedInv /\ IInv /\ LengthInv /\ BeatInv /\ [Next]_vars => [BeatLowers]_vars
<1> SUFFICES ASSUME FeedInv, IInv, LengthInv, BeatInv, Next, stage # "off"
             PROVE  BeatLeft' < BeatLeft \/ (World /\ BeatLeft' = BeatLeft)
  BY DEF BeatLowers
<1>0. stage \in {"feed", "export", "journal"} /\ Len(laws) \in Nat
  BY LengthTypes DEF BeatInv
<1>1. PICK f \in Nat : FeedLeft = f /\ f >= 1
  BY FeedLeftTyped
<1>2. PICK e \in Nat : ExportLeft = e /\ e >= 1 /\ e <= 2 * Len(laws) + 5
  BY ExportLeftTyped
<1>3. PICK b \in Nat : BeatLeft = b
  BY BeatLeftTyped
<1>4. CASE World
  <2>1. UNCHANGED <<stage, laws, feedpc, pageno, pending, exportpc, rows>>
    BY <1>4 DEF World, Submit, sweep, beatVars, exportVars, exportRun
  <2>2. FeedLeft' = FeedLeft /\ ExportLeft' = ExportLeft
    BY <2>1 DEF FeedLeft, ExportLeft, PaperCount
  <2> QED
    BY <1>4, <2>1, <2>2 DEF BeatLeft
<1>5. CASE Feed \/ FeedGetsBlank
  <2>1. stage = "feed" /\ stage' = "feed" /\ laws' = laws
    BY <1>5 DEF Feed, FeedGetsBlank, beatVars, exportVars
  <2>2. FeedLeft' < FeedLeft /\ FeedLeft' \in Int
    BY <1>5, FeedStepLowers DEF Feed, FeedGetsBlank
  <2>3. BeatLeft = FeedLeft + 2 * Len(laws) + 6 /\ BeatLeft' = FeedLeft' + 2 * Len(laws) + 6
    BY <2>1 DEF BeatLeft
  <2> QED
    BY <1>0, <1>1, <2>2, <2>3
<1>6. CASE FeedReturns \/ FeedRaises
  <2>1. stage = "feed" /\ stage' = "export" /\ UNCHANGED <<laws, exportpc>>
    BY <1>6 DEF FeedReturns, FeedRaises, exportVars
  <2>2. exportpc = "idle"
    BY <2>1 DEF BeatInv
  <2>3. ExportLeft' = 2 * Len(laws) + 5
    BY <2>1, <2>2 DEF ExportLeft
  <2>4. BeatLeft = FeedLeft + 2 * Len(laws) + 6 /\ BeatLeft' = ExportLeft' + 1
    BY <2>1 DEF BeatLeft
  <2> QED
    BY <1>0, <1>1, <2>3, <2>4
<1>7. CASE Export \/ ExportQueryFails
  <2>1. stage = "export" /\ stage' = "export"
    BY <1>7 DEF Export, ExportQueryFails, beatVars
  <2>2. ExportLeft' < ExportLeft /\ ExportLeft' \in Int
    BY <1>7, ExportStepLowers DEF Export, ExportQueryFails
  <2>3. BeatLeft = ExportLeft + 1 /\ BeatLeft' = ExportLeft' + 1
    BY <2>1 DEF BeatLeft
  <2> QED
    <3>1. PICK e1 \in Int : ExportLeft' = e1 /\ e1 < e
      BY <1>2, <2>2
    <3>2. BeatLeft' = e1 + 1 /\ BeatLeft = e + 1
      BY <1>2, <2>3, <3>1
    <3>3. BeatLeft' < BeatLeft
      BY <3>1, <3>2
    <3> QED
      BY <3>3
<1>8. CASE ExportReturns \/ ExportRaises
  <2>1. stage = "export" /\ stage' = "journal"
    BY <1>8 DEF ExportReturns, ExportRaises
  <2>2. BeatLeft = ExportLeft + 1 /\ BeatLeft' = 1
    BY <2>1 DEF BeatLeft
  <2> QED
    BY <1>2, <2>2
<1>9. CASE WriteJournal \/ Kill
  <2>1. stage' = "off" /\ BeatLeft' = 0
    BY <1>9 DEF WriteJournal, Kill, BeatLeft
  <2>2. b >= 1
    BY <1>0, <1>1, <1>2, <1>3 DEF BeatLeft
  <2> QED
    BY <1>3, <2>1, <2>2
<1> QED
  BY <1>0, <1>4, <1>5, <1>6, <1>7, <1>8, <1>9 DEF Next, Beat

\* However many papers, laws and nights, and whatever fails or is killed where: the
\* beat's work after its cycles comes to its end in a number of steps fixed by the
\* pages, the papers and the ledger it found.
THEOREM BeatsEnd == Spec => BeatsAreBounded
<1>1. Spec => [](FeedInv /\ IInv /\ LengthInv /\ BeatInv)
  BY FeedInvariantHolds, InitIInv, NextIInv, LengthInvariantHolds, BeatInvariantHolds, PTL
  DEF Spec
<1> QED
  BY <1>1, BeatLeftTyped, EveryStepLowers, PTL DEF Spec, BeatsAreBounded

Renderable == ToSet(laws) \ Unrenderable

\* No law that can be rendered is passed over: it is listed or still to be looked at.
Covered == \A l \in Renderable : l \in manifest \/ l \in ToSet(rows)

Exported == listed # Spoilt /\ \A l \in Renderable : l \in listed /\ folios[l] = "whole"

\* What the query found stays covered through every step that does not stop the
\* export, and is exported once the manifest is saved.
ExportCovers ==
  /\ exportpc = "query" /\ Export => Covered'
  /\ exportpc \in {"rows", "write", "save"} /\ Covered /\ exportpc' # "idle" =>
       IF exportpc' = "done" THEN Exported' ELSE Covered'
  /\ exportpc = "done" /\ Exported => Exported'

\* An export that is not stopped and whose query went through ends with every law
\* of the ledger that can be rendered listed, its folio whole (export_new), whatever
\* earlier exports left in the directory and in the manifest.
ExportsMissNothing == [][ExportCovers]_vars

\* The manifest is saved when every row has been looked at.
SaveInv == exportpc = "save" => rows = <<>>

LEMMA NextSaveInv == SaveInv /\ [Next]_vars => SaveInv'
<1> SUFFICES ASSUME SaveInv, [Next]_vars PROVE SaveInv'
  OBVIOUS
<1>1. CASE UNCHANGED <<exportpc, rows>>
  BY <1>1 DEF SaveInv
<1>2. CASE Export
  BY <1>2 DEF SaveInv, Export, ExportStep, ReadManifest, Query, PassOver, OpenFolio, WriteFolio,
    EmptyManifest, SaveManifest, exportRun
<1>3. CASE ExportQueryFails \/ ExportReturns \/ ExportRaises
  BY <1>3 DEF SaveInv, ExportQueryFails, QueryFails, ExportReturns, EndExport, ExportRaises, Abort,
    Leave
<1>4. CASE Kill
  BY <1>1, <1>4 DEF SaveInv, Kill, Abort, Leave, exportVars, exportRun
<1>5. CASE World \/ Beat \/ Feed \/ FeedReturns \/ FeedGetsBlank \/ FeedRaises \/ WriteJournal
             \/ UNCHANGED vars
  <2>1. UNCHANGED <<exportpc, rows>>
    BY <1>5 DEF World, Promulgate, Beat, Feed, FeedReturns, FeedGetsBlank, FeedRaises, WriteJournal,
      vars, exportVars, exportRun
  <2> QED
    BY <1>1, <2>1
<1> QED
  BY <1>2, <1>3, <1>4, <1>5 DEF Next

LEMMA ExportStepCovers ==
  ASSUME IInv, SaveInv, ExportStep, exportpc # "idle", exportpc = "query" \/ Covered,
         exportpc # "done"
  PROVE  IF exportpc' = "done" THEN Exported' ELSE Covered'
<1>1. /\ laws \in Seq(Laws) /\ rows \in Seq(Laws) /\ manifest \subseteq Laws
      /\ \A l \in manifest : folios[l] = "whole"
  BY DEF IInv, ExchangeTyped, ManifestInv
<1>2. rows # <<>> => ToSet(rows) = {Head(rows)} \cup ToSet(Tail(rows))
  BY <1>1, HeadAndTail
<1>3. CASE Query
  BY <1>3 DEF Query, Covered, Renderable
<1>4. CASE PassOver
  <2>1. /\ exportpc = "rows" /\ exportpc' = "rows" /\ rows # <<>> /\ rows' = Tail(rows)
        /\ Head(rows) \in manifest \cup Unrenderable /\ UNCHANGED <<laws, manifest>>
    BY <1>4 DEF PassOver
  <2>2. Renderable' = Renderable
    BY <2>1 DEF Renderable
  <2>3. Covered'
    BY <1>2, <2>1, <2>2 DEF Covered, Renderable
  <2> QED
    BY <2>1, <2>3
<1>5. CASE OpenFolio
  BY <1>5 DEF OpenFolio, exportRun, Covered, Renderable
<1>6. CASE WriteFolio
  <2>1. /\ exportpc = "write" /\ exportpc' = "rows" /\ rows # <<>> /\ rows' = Tail(rows)
        /\ manifest' = manifest \cup {Head(rows)} /\ laws' = laws
    BY <1>6 DEF WriteFolio, IInv, ManifestInv
  <2>2. Renderable' = Renderable
    BY <2>1 DEF Renderable
  <2>3. Covered'
    BY <1>2, <2>1, <2>2 DEF Covered
  <2> QED
    BY <2>1, <2>3
<1>7. CASE EmptyManifest
  BY <1>7 DEF EmptyManifest, exportRun, Covered, Renderable
<1>8. CASE SaveManifest
  <2>1. /\ exportpc = "save" /\ exportpc' = "done" /\ listed' = manifest
        /\ UNCHANGED <<laws, folios>>
    BY <1>8 DEF SaveManifest
  <2>2. ToSet(rows) = {}
    BY <2>1, EmptyToSet DEF SaveInv
  <2>3. \A l \in Renderable : l \in manifest
    BY <2>1, <2>2 DEF Covered
  <2>4. Renderable' = Renderable /\ listed' # Spoilt
    BY <1>1, <2>1, SpoiltIsNoManifest DEF Renderable
  <2>5. Exported'
    BY <1>1, <2>1, <2>3, <2>4 DEF Exported
  <2> QED
    BY <2>1, <2>5
<1>9. CASE ReadManifest
  BY <1>9 DEF ReadManifest
<1> QED
  BY <1>3, <1>4, <1>5, <1>6, <1>7, <1>8, <1>9 DEF ExportStep

LEMMA EveryStepCovers ==
  FeedInv /\ IInv /\ BeatInv /\ SaveInv /\ [Next]_vars => [ExportCovers]_vars
<1> SUFFICES ASSUME FeedInv, IInv, BeatInv, SaveInv, Next PROVE ExportCovers
  OBVIOUS
<1>1. CASE exportpc = "idle"
  BY <1>1 DEF ExportCovers
<1>2. CASE Export /\ exportpc # "idle"
  <2>1. exportpc # "done" /\ ExportStep
    BY <1>2 DEF Export, ExportStep, ReadManifest, Query, PassOver, OpenFolio, WriteFolio,
      EmptyManifest, SaveManifest
  <2>2. exportpc = "query" => exportpc' = "rows"
    BY <2>1 DEF ExportStep, ReadManifest, Query, PassOver, OpenFolio, WriteFolio, EmptyManifest,
      SaveManifest
  <2>3. exportpc = "query" \/ Covered => IF exportpc' = "done" THEN Exported' ELSE Covered'
    BY <1>2, <2>1, ExportStepCovers
  <2> QED
    BY <2>1, <2>2, <2>3 DEF ExportCovers
<1>3. CASE exportpc # "idle" /\ ~Export
  <2>1. stage = "export" /\ feedpc = "idle"
    BY <1>3 DEF BeatInv, FeedInv, SweepInv
  <2>2. ExportQueryFails \/ ExportReturns \/ ExportRaises \/ Kill
    BY <1>3, <2>1 DEF Next, World, Beat, Feed, FeedReturns, FeedGetsBlank, FeedRaises, WriteJournal
  <2>3. CASE ExportQueryFails
    BY <1>3, <2>3 DEF ExportQueryFails, QueryFails, ExportCovers
  <2>4. CASE ExportReturns \/ ExportRaises \/ Kill
    <3>1. exportpc' = "idle" /\ UNCHANGED <<laws, folios, listed>>
      BY <1>3, <2>4 DEF ExportReturns, EndExport, ExportRaises, Kill, Abort, Leave, exportFiles
    <3>2. Exported => Exported'
      BY <3>1 DEF Exported, Renderable
    <3> QED
      BY <1>3, <3>1, <3>2 DEF ExportCovers
  <2> QED
    BY <2>2, <2>3, <2>4
<1> QED
  BY <1>1, <1>2, <1>3

\* For any laws, nights and faults: an export that is not stopped and could query the
\* ledger leaves no renderable law of it unlisted or without its whole folio, whatever
\* state earlier exports that were stopped left the files in.
THEOREM ExportsAreWhole == Spec => ExportsMissNothing
<1>1. Init => SaveInv
  BY DEF Init, ExchangeInit, SaveInv
<1>2. Spec => []SaveInv
  BY <1>1, NextSaveInv, PTL DEF Spec
<1>3. Spec => [](FeedInv /\ IInv /\ BeatInv)
  BY FeedInvariantHolds, InitIInv, NextIInv, BeatInvariantHolds, PTL DEF Spec
<1> QED
  BY <1>2, <1>3, EveryStepCovers, PTL DEF Spec, ExportsMissNothing

================================================================================
