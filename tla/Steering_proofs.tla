---------------------------- MODULE Steering_proofs ----------------------------
(***************************************************************************)
(* Proofs about Steering, for every value of its constants: what is saved  *)
(* between beats is enough to let go of a saturated band in time, and to   *)
(* keep a family that proves off the dry list.                             *)
(***************************************************************************)
EXTENDS Steering, SequenceTheorems, FiniteSetTheorems, TLAPS

(***************************************************************************)
(* The band.                                                               *)
(***************************************************************************)
\* A window of outcomes, as a sequence and as a function.
LEMMA WindowIsSeq ==
  ASSUME NEW r
  PROVE  r \in UNION {[1 .. n -> BOOLEAN] : n \in 0 .. Window}
           <=> r \in Seq(BOOLEAN) /\ Len(r) <= Window
<1>0. Window \in Nat
  BY FrontierAssumption
<1>1. ASSUME r \in UNION {[1 .. n -> BOOLEAN] : n \in 0 .. Window}
      PROVE  r \in Seq(BOOLEAN) /\ Len(r) <= Window
  <2>1. PICK n \in 0 .. Window : r \in [1 .. n -> BOOLEAN]
    BY <1>1
  <2>2. r \in Seq(BOOLEAN)
    BY <2>1, <1>0, SeqDef
  <2>3. Len(r) = n
    BY <2>1, <2>2, LenProperties, <1>0
  <2> QED
    BY <2>2, <2>3, <1>0
<1>2. ASSUME r \in Seq(BOOLEAN), Len(r) <= Window
      PROVE  r \in UNION {[1 .. n -> BOOLEAN] : n \in 0 .. Window}
  <2>1. Len(r) \in 0 .. Window /\ r \in [1 .. Len(r) -> BOOLEAN]
    BY <1>2, <1>0, LenProperties
  <2> QED
    BY <2>1
<1> QED
  BY <1>1, <1>2

LEMMA FreshBandTyped == FreshBand \in Bands
<1>1. <<>> \in UNION {[1 .. n -> BOOLEAN] : n \in 0 .. Window}
  <2>1. <<>> \in Seq(BOOLEAN) /\ Len(<<>>) <= Window
    BY FrontierAssumption
  <2> QED
    BY <2>1, WindowIsSeq
<1>2. 0 \in 0 .. Len(Jitters) - 1 /\ 0 \in 0 .. PinLimit - 1
  BY FrontierAssumption
<1> QED
  BY <1>1, <1>2, FrontierAssumption DEF FreshBand, Bands

\* record forgets all but the last Window outcomes and touches nothing else.
LEMMA RecordedTyped ==
  ASSUME NEW b \in Bands, NEW p \in BOOLEAN
  PROVE  Recorded(b, p) \in Bands /\ Recorded(b, p).pinned = b.pinned
<1> DEFINE all == Append(b.recent, p)
<1>0. Window \in Nat
  BY FrontierAssumption
<1>1. b.recent \in Seq(BOOLEAN) /\ Len(b.recent) <= Window
  BY WindowIsSeq DEF Bands
<1>2. all \in Seq(BOOLEAN) /\ Len(all) = Len(b.recent) + 1
  BY <1>1
<1>3. all # <<>>
  BY <1>2, <1>1, LenProperties
<1>4. Tail(all) \in Seq(BOOLEAN) /\ Len(Tail(all)) = Len(all) - 1
  BY <1>2, <1>3, HeadTailProperties
<1> DEFINE r == IF Len(all) > Window THEN Tail(all) ELSE all
<1> HIDE DEF all
<1>5. r \in Seq(BOOLEAN) /\ Len(r) <= Window
  <2>1. CASE Len(all) > Window
    <3> DEFINE m == Len(all)
    <3>1. r = Tail(all) /\ m \in Nat /\ m <= Window + 1
      BY <2>1, <1>0, <1>1, <1>2, LenProperties
    <3> HIDE DEF m, r
    <3>2. m - 1 <= Window
      BY <3>1, <1>0
    <3> QED
      BY <3>1, <3>2, <1>4 DEF m
  <2>2. CASE ~(Len(all) > Window)
    <3>1. r = all /\ Len(all) \in Nat
      BY <2>2, <1>2, <1>1, LenProperties
    <3> QED
      BY <3>1, <2>2, <1>2, <1>0
  <2> QED
    BY <2>1, <2>2
<1>6. r \in UNION {[1 .. n -> BOOLEAN] : n \in 0 .. Window}
  BY <1>5, WindowIsSeq
<1>7. Recorded(b, p) = [b EXCEPT !.recent = r]
  BY DEF Recorded, all
<1> HIDE DEF r
<1> QED
  BY <1>6, <1>7 DEF Bands

LEMMA ErrIsInteger ==
  ASSUME NEW b \in Bands
  PROVE  Err(b) \in Int /\ Len(b.recent) \in Nat
<1>1. b.recent \in Seq(BOOLEAN) /\ Len(b.recent) \in Nat
  BY WindowIsSeq, LenProperties DEF Bands
<1>2. Cardinality({i \in DOMAIN b.recent : b.recent[i]}) \in Nat
  <2>1. IsFiniteSet(1 .. Len(b.recent))
    BY <1>1, FS_Interval
  <2>2. {i \in DOMAIN b.recent : b.recent[i]} \subseteq 1 .. Len(b.recent)
    BY <1>1, LenProperties
  <2>3. IsFiniteSet({i \in DOMAIN b.recent : b.recent[i]})
    BY <2>1, <2>2, FS_Subset
  <2> QED
    BY <2>3, FS_CardinalityType
<1>3. AimNum \in Int /\ AimDen \in Int
  BY FrontierAssumption
<1> DEFINE n == Len(b.recent)
<1> DEFINE k == Proofs(b)
<1>4. n \in Int /\ k \in Int
  BY <1>1, <1>2 DEF Proofs
<1>5. Err(b) = AimNum * n - AimDen * k
  BY DEF Err
<1> HIDE DEF n, k
<1>6. AimNum * n \in Int /\ AimDen * k \in Int
  BY <1>3, <1>4
<1> QED
  BY <1>1, <1>5, <1>6

LEMMA ClampTyped ==
  ASSUME NEW t \in Int
  PROVE  Clamp(t) \in Floor .. Ceil
BY FrontierAssumption DEF Clamp

\* A jump lands strictly inside the range, so it leaves the bound it was held at.
LEMMA JumpedTyped ==
  ASSUME NEW b \in Bands
  PROVE  /\ Jumped(b) \in Bands
         /\ Jumped(b).target \notin {Floor, Ceil}
<1> DEFINE n == (b.jumps + 1) % Len(Jitters)
<1>1. Len(Jitters) \in Nat \ {0} /\ Jitters \in [1 .. Len(Jitters) -> Int]
  BY FrontierAssumption, LenProperties, EmptySeq
<1>2. n \in 0 .. Len(Jitters) - 1
  <2>1. b.jumps + 1 \in Nat
    BY <1>1 DEF Bands
  <2> QED
    BY <1>1, <2>1
<1>3. n + 1 \in DOMAIN Jitters
  BY <1>1, <1>2
<1>4. {LowBase + Jitters[n + 1], HighBase + Jitters[n + 1]} \subseteq (Floor + 1) .. (Ceil - 1)
  BY <1>3, FrontierAssumption
<1> DEFINE t == (IF b.target = Floor THEN HighBase ELSE LowBase) + Jitters[n + 1]
<1>5. t \in (Floor + 1) .. (Ceil - 1)
  BY <1>4
<1>6. Clamp(t) = t
  BY <1>5, FrontierAssumption DEF Clamp
<1>7. <<>> \in UNION {[1 .. k -> BOOLEAN] : k \in 0 .. Window}
  BY FreshBandTyped DEF FreshBand, Bands
<1>8. Jumped(b) = [target |-> t, recent |-> <<>>, jumps |-> n, pinned |-> 0]
  BY <1>6 DEF Jumped
<1>9. 0 \in 0 .. PinLimit - 1 /\ t \in Floor .. Ceil /\ t \notin {Floor, Ceil}
  BY <1>5, FrontierAssumption
<1> HIDE DEF t, n
<1> QED
  BY <1>2, <1>7, <1>8, <1>9 DEF Bands

LEMMA RoundedIsInteger ==
  ASSUME NEW a \in Int, NEW n \in Nat \ {0}
  PROVE  Rounded(a, n) \in Int
<1> DEFINE d == 2 * n
<1>1. d \in Nat \ {0} /\ 2 * a + n \in Int
  OBVIOUS
<1> HIDE DEF d
<1>2. (2 * a + n) \div d \in Int
  BY <1>1
<1> QED
  BY <1>2 DEF Rounded, d

\* Homing counts a saturated update; that it does not escape bounds the count.
LEMMA HomedTyped ==
  ASSUME NEW b \in Bands, ~Escapes(b), Len(b.recent) # 0
  PROVE  Homed(b) \in Bands /\ Homed(b).pinned = Pinned(b)
<1> DEFINE e == Err(b)
<1> DEFINE wide == AimDen * Len(b.recent)
<1>1. e \in Int /\ Len(b.recent) \in Nat
  BY ErrIsInteger
<1>2. wide \in Nat \ {0}
  <2> DEFINE n == Len(b.recent)
  <2>1. AimDen \in Nat /\ AimDen > 0 /\ n \in Nat /\ n > 0
    BY <1>1, FrontierAssumption
  <2> HIDE DEF n
  <2>2. AimDen * n \in Nat /\ AimDen * n > 0
    BY <2>1
  <2> QED
    BY <2>2 DEF n
<1> DEFINE g == Gain * e
<1>3. g \in Int
  BY <1>1, FrontierAssumption
<1>4. Rounded(g, wide) \in Int
  BY <1>2, <1>3, RoundedIsInteger
<1> DEFINE t == IF 20 * e > wide \/ 20 * e <= -wide
                THEN Clamp(b.target - Rounded(g, wide)) ELSE b.target
<1>5. b.target \in Floor .. Ceil /\ b.target \in Int
  BY FrontierAssumption DEF Bands
<1>6. b.target - Rounded(g, wide) \in Int
  BY <1>4, <1>5
<1>7. t \in Floor .. Ceil
  BY <1>5, <1>6, ClampTyped
<1>8. Pinned(b) \in 0 .. PinLimit - 1
  BY FrontierAssumption DEF Escapes, Pinned, Bands
<1>9. Homed(b) = [b EXCEPT !.pinned = Pinned(b), !.target = t]
  BY DEF Homed, Bands
<1> HIDE DEF t
<1> QED
  BY <1>7, <1>8, <1>9 DEF Bands

\* update keeps a band a band; and one that is left on its bound, although the
\* correction points past it, has its count raised.
LEMMA RetunedTyped ==
  ASSUME NEW b \in Bands
  PROVE  /\ Retuned(b) \in Bands
         /\ ~Ready(b) => Retuned(b) = b
         /\ Ready(b) /\ PushedOut(b) /\ Retuned(b).target = b.target
              => Retuned(b).pinned = b.pinned + 1
<1>1. CASE ~Ready(b)
  BY <1>1 DEF Retuned
<1>2. ASSUME Ready(b), Escapes(b)
      PROVE  Retuned(b) \in Bands /\ (PushedOut(b) => Retuned(b).target # b.target)
  <2>1. Retuned(b) = Jumped(b)
    BY <1>2 DEF Retuned
  <2>2. PushedOut(b) => b.target \in {Floor, Ceil}
    <3> DEFINE e == Err(b)
    <3>1. e \in Int /\ b.target \in Floor .. Ceil
      BY ErrIsInteger DEF Bands
    <3> HIDE DEF e
    <3> QED
      BY <3>1, FrontierAssumption DEF PushedOut
  <2> QED
    BY <2>1, <2>2, JumpedTyped
<1>3. ASSUME Ready(b), ~Escapes(b)
      PROVE  Retuned(b) \in Bands /\ (PushedOut(b) => Retuned(b).pinned = b.pinned + 1)
  <2>1. Retuned(b) = Homed(b)
    BY <1>3 DEF Retuned
  <2>2. Len(b.recent) # 0
    BY <1>3, ErrIsInteger, FrontierAssumption DEF Ready
  <2>3. PushedOut(b) => Saturated(b)
    <3> DEFINE e == Err(b)
    <3>1. e \in Int /\ b.target \in Floor .. Ceil
      BY ErrIsInteger DEF Bands
    <3>2. PushedOut(b) => \/ b.target = Floor /\ e > 0
                          \/ b.target = Ceil /\ e < 0
      <4> HIDE DEF e
      <4>1. PushedOut(b) =>
              \E d \in {-1, 1} : d * e < 0 /\ b.target + d \notin Floor .. Ceil
        BY DEF PushedOut, e
      <4> QED
        BY <3>1, <4>1, FrontierAssumption
    <3> QED
      BY <3>2 DEF Saturated
  <2> QED
    BY <1>3, <2>1, <2>2, <2>3, HomedTyped DEF Pinned
<1> QED
  BY <1>1, <1>2, <1>3

(***************************************************************************)
(* The notebook.                                                           *)
(***************************************************************************)
LEMMA FreshBookTyped == FreshBook \in Books
BY NotebookAssumption DEF FreshBook, Books

LEMMA CountedTyped ==
  ASSUME NEW limit \in Nat \ {0}, NEW n \in 0 .. limit
  PROVE  Counted(n, limit) \in 0 .. limit /\ Counted(n, limit) > 0
BY DEF Counted

\* A notebook that contradicts itself nowhere: what is exhausted was proved, and
\* nothing that was proved is dry ground.
Sober(b) ==
  /\ \A f \in b.genre : b.counts[f] > 0
  /\ \A f \in b.dry : b.counts[f] = 0

\* The families a notebook has a proof of.
Won(b) == {f \in Families : b.counts[f] > 0}

\* What settled candidates teach keeps a notebook sober, loses no proof, and
\* counts the family that was proved.
LEMMA NotedTyped ==
  ASSUME NEW b \in Books, NEW f \in Families \cup {NoFamily}, NEW outcome,
         Sober(b)
  PROVE  /\ Noted(b, f, outcome) \in Books
         /\ Sober(Noted(b, f, outcome))
         /\ Won(b) \subseteq Won(Noted(b, f, outcome))
         /\ outcome = "proved" => {f} \cap Families \subseteq Won(Noted(b, f, outcome))
<1>1. CASE f = NoFamily
  <2>1. Noted(b, f, outcome) = b
    BY <1>1 DEF Noted
  <2> QED
    BY <1>1, <2>1, NotebookAssumption
<1>2. ASSUME f \in Families, outcome = "proved"
      PROVE  /\ NoteFamily(b, f) \in Books /\ Sober(NoteFamily(b, f))
             /\ Won(b) \cup {f} \subseteq Won(NoteFamily(b, f))
  <2> DEFINE n == Counted(b.counts[f], GenreThreshold)
  <2> DEFINE counts == [b.counts EXCEPT ![f] = n]
  <2> DEFINE dried == [b.dried EXCEPT ![f] = 0]
  <2> DEFINE genre == Listed(b.genre, f, n >= GenreThreshold)
  <2>1. n \in 0 .. GenreThreshold /\ n > 0
    BY <1>2, CountedTyped, NotebookAssumption DEF Books
  <2>2. NoteFamily(b, f) =
          [counts |-> counts, dried |-> dried, genre |-> genre, dry |-> b.dry \ {f}]
    <3>1. NoteFamily(b, f) = [b EXCEPT !.counts[f] = n, !.dried[f] = 0,
                                       !.dry = @ \ {f}, !.genre = genre]
      BY Zenon DEF NoteFamily
    <3> HIDE DEF n, genre
    <3> QED
      BY <3>1 DEF Books
  <2>3. genre \subseteq b.genre \cup {f}
    BY DEF Listed
  <2>4. counts \in [Families -> 0 .. GenreThreshold]
          /\ dried \in [Families -> 0 .. DryThreshold]
    BY <1>2, <2>1, NotebookAssumption DEF Books
  <2>5. counts[f] = n /\ \A h \in Families \ {f} : counts[h] = b.counts[h]
    BY <1>2 DEF Books
  <2>6. b.genre \subseteq Families /\ b.dry \subseteq Families
    BY DEF Books
  <2> HIDE DEF n, counts, dried, genre
  <2> QED
    BY <1>2, <2>1, <2>2, <2>3, <2>4, <2>5, <2>6 DEF Sober, Won, Books
<1>3. ASSUME f \in Families
      PROVE  /\ NoteDryFamily(b, f) \in Books /\ Sober(NoteDryFamily(b, f))
             /\ Won(b) \subseteq Won(NoteDryFamily(b, f))
  <2> DEFINE n == Counted(b.dried[f], DryThreshold)
  <2> DEFINE dried == [b.dried EXCEPT ![f] = n]
  <2> DEFINE dry == Listed(b.dry, f, n >= DryThreshold /\ b.counts[f] = 0)
  <2>1. n \in 0 .. DryThreshold
    BY <1>3, CountedTyped, NotebookAssumption DEF Books
  <2>2. NoteDryFamily(b, f) =
          [counts |-> b.counts, dried |-> dried, genre |-> b.genre, dry |-> dry]
    <3>1. NoteDryFamily(b, f) = [b EXCEPT !.dried[f] = n, !.dry = dry]
      BY Zenon DEF NoteDryFamily
    <3> HIDE DEF n, dry
    <3> QED
      BY <3>1 DEF Books
  <2>3. dry \subseteq b.dry \cup {f} /\ (f \in dry => f \in b.dry \/ b.counts[f] = 0)
    BY DEF Listed
  <2>4. dried \in [Families -> 0 .. DryThreshold]
    BY <1>3, <2>1 DEF Books
  <2> HIDE DEF n, dried, dry
  <2> QED
    BY <1>3, <2>2, <2>3, <2>4 DEF Sober, Won, Books
<1> QED
  BY <1>1, <1>2, <1>3 DEF Noted

(***************************************************************************)
(* The inductive invariant.                                                *)
(***************************************************************************)
Running == stage # "off"

\* A cycle that is turning is one of Cycles.  The count of the band in hand bounds the updates in a row; so does the saved
\* one, except between an update and its save.
BandInv ==
  /\ stage \notin {"off", "cycles"} => turned < Cycles
  /\ Running => stuck <= band.pinned
  /\ stage \notin {"open band", "write band"} =>
       IF bandfile = Garbled THEN stuck = 0 ELSE stuck <= bandfile.pinned

\* The notebook in hand has every proof no kill has taken; the saved one has those
\* but for the ones made since, and is spoilt only while it is written or if it
\* never was.
BookInv ==
  /\ Sober(book)
  /\ Running => proved \ lost \subseteq Won(book)
  /\ ~Running => book = FreshBook
  /\ stage \in {"off", "cycles"} => unsaved = {}
  /\ bookfile # Garbled =>
       Sober(bookfile) /\ (proved \ lost) \ unsaved \subseteq Won(bookfile)
  /\ bookfile = Garbled /\ stage # "write book" => proved \ lost \subseteq unsaved

IInv == TypeOK /\ BandInv /\ BookInv

LEMMA FreshBookSober == Sober(FreshBook) /\ Won(FreshBook) = {}
BY DEF Sober, Won, FreshBook

LEMMA InitIInv == Init => IInv
<1> SUFFICES ASSUME Init PROVE IInv
  OBVIOUS
<1>1. TypeOK
  BY FreshBandTyped, FreshBookTyped, SteeringAssumption DEF Init, TypeOK, Stages
<1>2. BandInv
  BY DEF Init, BandInv, Running
<1>3. BookInv
  BY FreshBookSober DEF Init, BookInv, Running
<1> QED
  BY <1>1, <1>2, <1>3 DEF IInv

LEMMA NextIInv == IInv /\ [Next]_vars => IInv'
<1> SUFFICES ASSUME IInv, [Next]_vars PROVE IInv'
  OBVIOUS
<1> USE DEF IInv
<1>0. /\ FreshBand \in Bands /\ FreshBook \in Books
      /\ FreshBand.pinned = 0 /\ Sober(FreshBook) /\ Won(FreshBook) = {}
      /\ Garbled \notin Bands /\ Garbled \notin Books
  BY FreshBandTyped, FreshBookTyped, FreshBookSober, SteeringAssumption DEF FreshBand
<1>a. /\ CycleSeeds \in Nat /\ Cycles \in Nat
      /\ 0 \in 0 .. CycleSeeds /\ 0 \in 0 .. Cycles
  BY SteeringAssumption
<1>1. CASE BuildDaemon
  <2>1. TypeOK'
    BY <1>0, <1>a, <1>1 DEF BuildDaemon, TypeOK, Stages, files, history
  <2>2. BandInv'
    BY <1>0, <1>a, <1>1 DEF BuildDaemon, BandInv, Running, files, history
  <2>3. BookInv'
    BY <1>0, <1>a, <1>1 DEF BuildDaemon, BookInv, Running, files, history
  <2> QED
    BY <2>1, <2>2, <2>3
<1>2. CASE StartCycle
  <2>1. TypeOK'
    BY <1>0, <1>a, <1>2 DEF StartCycle, TypeOK, Stages, memory, files, history
  <2>2. BandInv' /\ BookInv'
    BY <1>0, <1>a, <1>2
    DEF StartCycle, BandInv, BookInv, Running, memory, files, history
  <2> QED
    BY <2>1, <2>2
<1>3. CASE SettleSeed
  <2>1. PICK outcome \in {"proved", "dry", "other"}, f \in Families \cup {NoFamily} :
          /\ band' = Recorded(band, outcome = "proved")
          /\ book' = Noted(book, f, outcome)
          /\ LET won == IF outcome = "proved" THEN {f} \cap Families ELSE {}
             IN /\ proved' = proved \cup won /\ unsaved' = unsaved \cup won
                /\ lost' = lost \ won
    BY <1>3 DEF SettleSeed
  <2> DEFINE won == IF outcome = "proved" THEN {f} \cap Families ELSE {}
  <2>2. band' \in Bands /\ band'.pinned = band.pinned
    <3>1. band \in Bands /\ (outcome = "proved") \in BOOLEAN
      BY DEF TypeOK
    <3> QED
      BY <2>1, <3>1, RecordedTyped
  <2>3. /\ book' \in Books /\ Sober(book')
        /\ Won(book) \subseteq Won(book') /\ won \subseteq Won(book')
    BY <2>1, NotedTyped DEF TypeOK, BookInv
  <2>4. /\ proved' = proved \cup won /\ unsaved' = unsaved \cup won
        /\ lost' = lost \ won /\ won \subseteq Families
    BY <2>1
  <2> HIDE DEF won
  <2>5. TypeOK'
    BY <1>3, <2>2, <2>3, <2>4, <1>a DEF SettleSeed, TypeOK, Stages, files
  <2>6. BandInv'
    BY <1>3, <2>2 DEF SettleSeed, BandInv, Running, files
  <2>7. BookInv'
    BY <1>3, <2>3, <2>4 DEF SettleSeed, BookInv, Running, files
  <2> QED
    BY <2>5, <2>6, <2>7
<1>4. CASE SeedErrored
  <2>1. TypeOK'
    BY <1>a, <1>4 DEF SeedErrored, TypeOK, Stages, memory, files, history
  <2>2. BandInv' /\ BookInv'
    BY <1>4 DEF SeedErrored, BandInv, BookInv, Running, memory, files, history
  <2> QED
    BY <2>1, <2>2
<1>5. CASE Update
  <2>1. /\ band' \in Bands
        /\ stuck' \in Nat /\ stuck' <= band'.pinned
    <3>1. band \in Bands /\ stuck \in Nat /\ stuck <= band.pinned
      BY <1>5 DEF TypeOK, BandInv, Running, Update
    <3>2. /\ band' = Retuned(band)
          /\ stuck' = IF ~Ready(band) THEN stuck
                      ELSE IF PushedOut(band) /\ band'.target = band.target
                           THEN stuck + 1 ELSE 0
      BY <1>5 DEF Update
    <3>3. band' \in Bands /\ band'.pinned \in Nat /\ band.pinned \in Nat
      BY <3>1, <3>2, RetunedTyped, FrontierAssumption DEF Bands
    <3>4. /\ ~Ready(band) => band' = band
          /\ Ready(band) /\ PushedOut(band) /\ band'.target = band.target
               => band'.pinned = band.pinned + 1
      BY <3>1, <3>2, RetunedTyped
    <3> QED
      BY <3>1, <3>2, <3>3, <3>4
  <2>2. TypeOK'
    BY <1>5, <2>1, <1>0 DEF Update, TypeOK, Stages, files
  <2>3. BandInv'
    BY <1>5, <2>1 DEF Update, BandInv, Running, files
  <2>4. BookInv'
    BY <1>5 DEF Update, BookInv, Running, files
  <2> QED
    BY <2>2, <2>3, <2>4
<1>6. CASE OpenBand
  <2>1. TypeOK' /\ BandInv'
    BY <1>6 DEF OpenBand, TypeOK, Stages, BandInv, Running, memory, history
  <2>2. BookInv'
    BY <1>6 DEF OpenBand, BookInv, Running, memory, history
  <2> QED
    BY <2>1, <2>2
<1>7. CASE WriteBand
  <2>1. TypeOK' /\ BandInv'
    BY <1>0, <1>7 DEF WriteBand, TypeOK, Stages, BandInv, Running, memory, history
  <2>2. BookInv'
    BY <1>7 DEF WriteBand, BookInv, Running, memory, history
  <2> QED
    BY <2>1, <2>2
<1>8. CASE OpenBook
  <2>1. TypeOK' /\ BandInv'
    BY <1>8 DEF OpenBook, TypeOK, Stages, BandInv, Running, memory, history
  <2>2. BookInv'
    BY <1>8 DEF OpenBook, BookInv, Running, memory, history
  <2> QED
    BY <2>1, <2>2
<1>9. CASE WriteBook
  <2>1. TypeOK' /\ BandInv'
    <3>1. turned' \in 0 .. Cycles
      <4>1. stage = "write book" /\ turned' = turned + 1
        BY <1>9 DEF WriteBook
      <4>2. turned \in 0 .. Cycles /\ turned < Cycles
        BY <4>1 DEF TypeOK, BandInv
      <4>3. turned + 1 \in 0 .. Cycles
        BY <1>a, <4>2, SMT
      <4> QED
        BY <4>1, <4>3
    <3> QED
      BY <1>0, <1>a, <1>9, <3>1 DEF WriteBook, TypeOK, Stages, BandInv, Running, memory
  <2>2. BookInv'
    BY <1>0, <1>9 DEF WriteBook, TypeOK, BookInv, Running, memory
  <2> QED
    BY <2>1, <2>2
<1>10. CASE EndBeat
  <2>1. TypeOK' /\ BandInv'
    BY <1>0, <1>a, <1>10 DEF EndBeat, Ends, TypeOK, Stages, BandInv, Running, files, history
  <2>2. BookInv'
    BY <1>0, <1>a, <1>10 DEF EndBeat, Ends, BookInv, Running, files, history
  <2> QED
    BY <2>1, <2>2
<1>11. CASE Kill
  <2>1. TypeOK'
    <3>1. stuck' \in Nat /\ lost' \subseteq proved /\ unsaved' = {} /\ proved' = proved
      BY <1>11 DEF Kill, TypeOK
    <3>2. /\ stage' \in Stages /\ turned' \in 0 .. Cycles /\ left' \in 0 .. CycleSeeds
          /\ band' \in Bands /\ book' \in Books
      BY <1>0, <1>a, <1>11 DEF Kill, Ends, Stages
    <3>3. bandfile' \in Bands \cup {Garbled} /\ bookfile' \in Books \cup {Garbled}
          /\ proved' \subseteq Families
      BY <1>11 DEF Kill, TypeOK, files
    <3> QED
      BY <3>1, <3>2, <3>3 DEF TypeOK
  <2>2. BandInv'
    <3>1. bandfile # Garbled => bandfile.pinned >= 0
      BY FrontierAssumption DEF TypeOK, Bands
    <3> QED
      BY <1>11, <3>1 DEF Kill, Ends, BandInv, Running, files
  <2>3. BookInv'
    BY <1>0, <1>11 DEF Kill, Ends, TypeOK, BookInv, Running, files
  <2> QED
    BY <2>1, <2>2, <2>3
<1>12. CASE UNCHANGED vars
  BY <1>12
  DEF vars, process, memory, files, history, TypeOK, BandInv, BookInv, Running
<1> QED
  BY <1>1, <1>2, <1>3, <1>4, <1>5, <1>6, <1>7, <1>8, <1>9, <1>10, <1>11, <1>12 DEF Next

(***************************************************************************)
(* The theorems.                                                           *)
(***************************************************************************)
LEMMA InvariantHolds == Spec => []IInv
BY InitIInv, NextIInv, PTL DEF Spec

\* Every value keeps its type: the target stays in its range, the window within
\* its size, the count below its limit, in memory and in the files.
THEOREM TypeCorrectness == Spec => []TypeOK
<1>1. IInv => TypeOK
  BY DEF IInv
<1> QED
  BY <1>1, InvariantHolds, PTL

\* A band that is held at a bound is let go by the PinLimit-th update in a row,
\* whatever the range, the window, the aim, the gain, and however many beats the
\* updates are spread over.
THEOREM SaturationEnds == Spec => []SaturationIsBrief
<1>1. IInv => SaturationIsBrief
  <2> SUFFICES ASSUME IInv PROVE stuck < PinLimit
    BY DEF SaturationIsBrief
  <2>1. stuck \in Nat /\ PinLimit \in Nat \ {0}
    BY FrontierAssumption DEF IInv, TypeOK
  <2>2. CASE Running
    <3>1. stuck <= band.pinned /\ band.pinned \in 0 .. PinLimit - 1
      BY <2>2 DEF IInv, BandInv, TypeOK, Bands
    <3> QED
      BY <2>1, <3>1
  <2>3. CASE ~Running /\ bandfile # Garbled
    <3>1. stuck <= bandfile.pinned /\ bandfile.pinned \in 0 .. PinLimit - 1
      BY <2>3 DEF IInv, BandInv, TypeOK, Bands, Running
    <3> QED
      BY <2>1, <3>1
  <2>4. CASE ~Running /\ bandfile = Garbled
    BY <2>1, <2>4 DEF IInv, BandInv, Running
  <2> QED
    BY <2>2, <2>3, <2>4
<1> QED
  BY <1>1, InvariantHolds, PTL

\* No family is called dry that was exhausted or has a proof no killed beat took
\* with it, for any families, thresholds and list sizes.
THEOREM DryGroundIsUnproven == Spec => []DryGroundUnproven
<1>1. IInv => DryGroundUnproven
  <2> SUFFICES ASSUME IInv, NEW f \in book.dry
               PROVE  f \notin book.genre /\ f \notin proved \ lost
    BY DEF DryGroundUnproven
  <2>1. book \in Books /\ f \in Families /\ book.counts[f] = 0
    BY DEF IInv, TypeOK, Books, BookInv, Sober
  <2>2. f \notin book.genre
    <3> DEFINE n == book.counts[f]
    <3>1. f \in book.genre => n > 0
      BY DEF IInv, BookInv, Sober
    <3>2. n = 0
      BY <2>1
    <3> HIDE DEF n
    <3> QED
      BY <3>1, <3>2
  <2>3. Running
    <3>1. FreshBook.dry = {}
      BY DEF FreshBook
    <3> QED
      BY <3>1 DEF IInv, BookInv
  <2>4. f \notin Won(book)
    BY <2>1 DEF Won
  <2> QED
    BY <2>2, <2>3, <2>4 DEF IInv, BookInv
<1> QED
  BY <1>1, InvariantHolds, PTL
================================================================================
