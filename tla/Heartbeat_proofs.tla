---------------------------- MODULE Heartbeat_proofs ----------------------------
(***************************************************************************)
(* Proofs about Heartbeat, for any number of nights, cycles and crashes    *)
(* and any limits of the watchdog: what the journal and the alarms say of  *)
(* the nights, and what the stall detector may and must condemn.           *)
(***************************************************************************)
EXTENDS Heartbeat, FiniteSetTheorems, SequenceTheorems, TLAPS

(***************************************************************************)
(* The inductive invariant.                                                *)
(***************************************************************************)
\* The watchdog runs in a process, and not before it is armed; a process belongs
\* to the night of the last launch.
ThreadInv ==
  /\ night \in Nat /\ launched \in Nat
  /\ pc \in {"off", "preflight"} => wpc = "off"
  /\ pc # "off" => launched = night

JournalInv ==
  /\ \A e \in journal : e.night \in Nat /\ e.night <= night
  /\ wpc \in {"alarm", "exit"} => JournaledOn(night)
  /\ KilledBeatIsJournaled

\* Until it journals, main has not left an entry of its own for the night.
UnwrittenInv ==
  /\ pc \notin {"off", "review"} =>
       \A e \in journal : e.night = night => e.kind = "timed_out"
  /\ TwinEntriesOnlyWhenCondemned

IInv == ThreadInv /\ JournalInv /\ UnwrittenInv /\ TwoSilentNightsAreAlarmed

(***************************************************************************)
(* Lemmas about the steps.                                                 *)
(***************************************************************************)
\* A step that leaves night and journal alone, starts no process and does not
\* bring main or the watchdog to where an entry is owed.
LEMMA SilentStep ==
  ASSUME IInv, UNCHANGED <<night, launched, journal, alarms>>,
         pc' = pc \/ pc' \notin {"preflight"},
         pc = "off" => pc' = "off",
         pc = "review" => pc' \in {"review", "off"},
         wpc' = wpc \/ wpc' = "off" \/ wpc' \notin {"alarm", "exit"}
           \/ (wpc = "alarm" /\ wpc' = "exit"),
         pc' \in {"off", "preflight"} => wpc' = "off",
         ended' = "killed" => ended = "killed" \/ wpc = "exit"
  PROVE  IInv'
<1> USE DEF IInv, JournaledOn
<1>1. ThreadInv'
  BY DEF ThreadInv
<1>2. JournalInv'
  BY DEF ThreadInv, JournalInv, KilledBeatIsJournaled
<1>3. UnwrittenInv'
  BY DEF UnwrittenInv, TwinEntriesOnlyWhenCondemned
<1>4. TwoSilentNightsAreAlarmed'
  BY DEF TwoSilentNightsAreAlarmed
<1> QED
  BY <1>1, <1>2, <1>3, <1>4

\* A step that journals the night, main's own entry once, the watchdog's at will.
LEMMA JournalStep ==
  ASSUME IInv, NEW e, e.night = night, journal' = journal \cup {e},
         UNCHANGED <<night, launched, alarms>>,
         pc # "off", pc' # "preflight",
         \/ pc \notin {"off", "review"} /\ pc' \in {"off", "review"}
         \/ pc' = pc /\ e.kind = "timed_out",
         pc' = "off" => wpc' = "off",
         ended' # "killed"  \/ ended' = ended
  PROVE  IInv'
<1> USE DEF IInv, JournaledOn
<1>1. ThreadInv'
  BY DEF ThreadInv
<1>2. JournalInv'
  <2>1. JournaledOn(night)' /\ \A n : JournaledOn(n) => JournaledOn(n)'
    OBVIOUS
  <2> QED
    BY <2>1 DEF ThreadInv, JournalInv, KilledBeatIsJournaled
<1>3. UnwrittenInv'
  <2>1. pc' \notin {"off", "review"} =>
          \A d \in journal' : d.night = night' => d.kind = "timed_out"
    BY DEF UnwrittenInv
  <2>2. ASSUME NEW d \in journal, d.night = e.night
        PROVE  "timed_out" \in {d.kind, e.kind}
    BY <2>2 DEF UnwrittenInv
  <2> QED
    BY <2>1, <2>2 DEF UnwrittenInv, TwinEntriesOnlyWhenCondemned
<1>4. TwoSilentNightsAreAlarmed'
  BY DEF TwoSilentNightsAreAlarmed
<1> QED
  BY <1>1, <1>2, <1>3, <1>4

LEMMA EntryTyped ==
  ASSUME NEW kind, NEW t, NEW l
  PROVE  Entry(kind, t, l).night = night /\ Entry(kind, t, l).kind = kind
BY DEF Entry

(***************************************************************************)
(* The invariant holds at first, and every step keeps it.                  *)
(***************************************************************************)
LEMMA InitIInv == Init => IInv
BY DEF Init, IInv, ThreadInv, JournalInv, UnwrittenInv, TwoSilentNightsAreAlarmed,
   KilledBeatIsJournaled, TwinEntriesOnlyWhenCondemned

LEMMA LaunchKeeps == ASSUME IInv, Launch PROVE IInv'
<1> USE DEF IInv, JournaledOn
<1>1. /\ pc = "off" /\ wpc = "off" /\ wpc' = "off" /\ pc' = "preflight"
      /\ ended' = "running" /\ night' = night + 1 /\ launched' = night + 1
      /\ journal' = journal
      /\ alarms' = IF Stale(night + 1) THEN alarms \cup {night + 1} ELSE alarms
  BY DEF Launch, ThreadInv
<1>2. ThreadInv'
  BY <1>1 DEF ThreadInv
<1>3. JournalInv'
  BY <1>1 DEF ThreadInv, JournalInv, KilledBeatIsJournaled
<1>4. UnwrittenInv'
  BY <1>1 DEF ThreadInv, JournalInv, UnwrittenInv, TwinEntriesOnlyWhenCondemned
<1>5. TwoSilentNightsAreAlarmed'
  <2> SUFFICES ASSUME \E e \in journal : e.night < (night + 1) - 2,
                      \A e \in journal : e.night # (night + 1) - 1,
                      \A e \in journal : e.night # (night + 1) - 2
               PROVE  night + 1 \in alarms'
    BY <1>1 DEF TwoSilentNightsAreAlarmed
  <2>1. \A e \in journal : (night + 1) - e.night > 2
    <3> SUFFICES ASSUME NEW e \in journal PROVE (night + 1) - e.night > 2
      OBVIOUS
    <3> DEFINE m == e.night
    <3>1. m \in Nat /\ night \in Nat /\ m <= night
      BY DEF JournalInv, ThreadInv
    <3>2. m # (night + 1) - 1 /\ m # (night + 1) - 2
      OBVIOUS
    <3> HIDE DEF m
    <3>3. (night + 1) - m > 2
      BY <3>1, <3>2
    <3> QED
      BY <3>3 DEF m
  <2>2. Stale(night + 1)
    BY <2>1 DEF Stale
  <2> QED
    BY <1>1, <2>2
<1> QED
  BY <1>2, <1>3, <1>4, <1>5

LEMMA SkipNightKeeps == ASSUME IInv, SkipNight PROVE IInv'
<1> USE DEF IInv, JournaledOn
<1>1. pc = "off" /\ wpc = "off" /\ night' = night + 1
      /\ UNCHANGED <<launched, pc, wpc, ended, journal, alarms>>
  BY DEF SkipNight, ThreadInv, nights, record, tally, stall, activity
<1>2. ThreadInv'
  BY <1>1 DEF ThreadInv
<1>3. JournalInv'
  BY <1>1 DEF ThreadInv, JournalInv, KilledBeatIsJournaled
<1>4. UnwrittenInv' /\ TwoSilentNightsAreAlarmed'
  BY <1>1 DEF UnwrittenInv, TwinEntriesOnlyWhenCondemned, TwoSilentNightsAreAlarmed
<1> QED
  BY <1>2, <1>3, <1>4

LEMMA BoundedMainKeeps == ASSUME IInv, BoundedMain PROVE IInv'
<1> USE DEF nights, record, ThreadInv, IInv
<1>1. CASE PreflightAborts
  BY <1>1, EntryTyped, JournalStep DEF PreflightAborts
<1>2. CASE ArmWatchdog
  BY <1>2, SilentStep DEF ArmWatchdog
<1>3. CASE CyclesReturn
  BY <1>3, SilentStep DEF CyclesReturn
<1>4. CASE Report
  BY <1>4, SilentStep DEF Report
<1>5. CASE Teardown
  BY <1>5, SilentStep DEF Teardown
<1>6. CASE Disarm
  BY <1>6, SilentStep DEF Disarm
<1>7. CASE WriteJournal
  BY <1>7, EntryTyped, JournalStep DEF WriteJournal
<1>8. CASE Exit
  BY <1>8, SilentStep DEF Exit
<1> QED
  BY <1>1, <1>2, <1>3, <1>4, <1>5, <1>6, <1>7, <1>8 DEF BoundedMain

LEMMA BeatKeeps == ASSUME IInv, Beat PROVE IInv'
<1> USE DEF nights, record, ThreadInv, IInv
<1>1. CASE Build
  BY <1>1, SilentStep DEF Build
<1>2. CASE BuildRaises
  BY <1>2, SilentStep DEF BuildRaises
<1>3. CASE StartCycle
  BY <1>3, SilentStep DEF StartCycle
<1>4. CASE EndCycle
  BY <1>4, SilentStep DEF EndCycle
<1>5. CASE CyclesRaise
  BY <1>5, SilentStep DEF CyclesRaise
<1>6. CASE Compute
  BY <1>6, SilentStep DEF Compute
<1>7. CASE WriteState
  BY <1>7, SilentStep DEF WriteState
<1> QED
  BY <1>1, <1>2, <1>3, <1>4, <1>5, <1>6, <1>7 DEF Beat

LEMMA WatchdogKeeps == ASSUME IInv, Watchdog PROVE IInv'
<1> USE DEF nights, record, ThreadInv, IInv
<1>1. CASE Poll
  BY <1>1, SilentStep DEF Poll
<1>2. CASE WatchdogReturns
  BY <1>2, SilentStep DEF WatchdogReturns
<1>3. CASE WatchdogCloses
  BY <1>3, SilentStep DEF WatchdogCloses
<1>4. CASE WatchdogJournals
  BY <1>4, EntryTyped, JournalStep DEF WatchdogJournals
<1>5. CASE WatchdogAlarms
  BY <1>5, SilentStep DEF WatchdogAlarms
<1>6. CASE WatchdogExits
  BY <1>6, SilentStep DEF WatchdogExits
<1> QED
  BY <1>1, <1>2, <1>3, <1>4, <1>5, <1>6 DEF Watchdog

LEMMA NextIInv == IInv /\ [Next]_vars => IInv'
<1> SUFFICES ASSUME IInv, [Next]_vars PROVE IInv'
  OBVIOUS
<1>1. CASE Crash
  BY <1>1, SilentStep DEF Crash, nights, record, ThreadInv, IInv
<1>2. CASE UNCHANGED vars
  BY <1>2, SilentStep DEF vars, nights, record, ThreadInv, IInv
<1> QED
  BY <1>1, <1>2, LaunchKeeps, SkipNightKeeps, BoundedMainKeeps, BeatKeeps, WatchdogKeeps
  DEF Next

LEMMA InvariantHolds == Spec => []IInv
BY InitIInv, NextIInv, PTL DEF Spec

(***************************************************************************)
(* The stall detector: what is in its window, and what the verdict on it   *)
(* says of the beat.                                                       *)
(***************************************************************************)
Taken == [wall: Nat, cpu: Nat, mtime: Nat]

\* One sample per tick of the clock, the last at t.
Consecutive(s, t) == \A i \in 1..Len(s) : s[i].wall = t - Len(s) + i

\* How many of n such samples are at most r old.
Kept(n, r) == IF n > r THEN r + 1 ELSE n

\* The samples at most r old are a suffix.
LEMMA SinceIsSuffix ==
  ASSUME NEW s \in Seq(Taken), NEW t \in Int, Consecutive(s, t), NEW r \in Nat
  PROVE  LET n == Len(s)
             l == Kept(n, r)
         IN /\ Since(s, t - r) \in Seq(Taken)
            /\ Len(Since(s, t - r)) = l
            /\ \A i \in 1..l : Since(s, t - r)[i] = s[n - l + i]
<1> DEFINE n == Len(s)
           l == Kept(n, r)
           kept == {i \in 1..n : s[i].wall >= t - r}
           f == n - l + 1
<1>1. n \in Nat
  OBVIOUS
<1>2. l \in 0..n /\ l \in Int
  <2> HIDE DEF n
  <2> QED
    BY <1>1 DEF Kept
<1>3. \A i \in 1..n : s[i].wall = t - n + i
  BY DEF Consecutive
<1>4. \A i \in 1..n : s[i] \in Taken
  OBVIOUS
<1>5. Since(s, t - r) = SubSeq(s, n - Cardinality(kept) + 1, n)
  BY DEF Since
<1> HIDE DEF n
<1>6. kept = f..n
  <2>1. ASSUME NEW i \in 1..n PROVE (s[i].wall >= t - r) <=> i >= f
    <3>1. s[i].wall = t - n + i
      BY <1>3
    <3> QED
      BY <1>1, <1>2, <3>1 DEF Kept
  <2>2. f \in 1..(n + 1)
    BY <1>1, <1>2
  <2> HIDE DEF f
  <2> QED
    BY <1>1, <2>1, <2>2
<1> HIDE DEF l, kept
<1>7. n - Cardinality(kept) + 1 = f
  <2>1. f \in Int /\ n \in Int
    BY <1>1, <1>2
  <2>2. Cardinality(f..n) = IF f > n THEN 0 ELSE n - f + 1
    BY <2>1, FS_Interval
  <2> QED
    BY <1>1, <1>2, <1>6, <2>2
<1>8. /\ SubSeq(s, f, n) \in Seq(Taken)
      /\ Len(SubSeq(s, f, n)) = IF f <= n THEN n - f + 1 ELSE 0
      /\ \A i \in 1..(n - f + 1) : SubSeq(s, f, n)[i] = s[f + i - 1]
  <2>1. f \in Int /\ n \in Int /\ f >= 1
    BY <1>1, <1>2
  <2>2. \A i \in f..n : s[i] \in Taken
    BY <1>1, <2>1, <1>4
  <2> HIDE DEF f
  <2> QED
    BY <2>1, <2>2, SubSeqProperties
<1>9. n - f + 1 = l /\ (IF f <= n THEN n - f + 1 ELSE 0) = l
      /\ \A i \in 1..l : f + i - 1 = n - l + i
  BY <1>1, <1>2
<1> HIDE DEF f
<1>10. /\ Since(s, t - r) \in Seq(Taken)
       /\ Len(Since(s, t - r)) = l
       /\ \A i \in 1..l : Since(s, t - r)[i] = s[n - l + i]
  BY <1>5, <1>7, <1>8, <1>9
<1> QED
  BY <1>10 DEF n, l

\* The window of samples up to time t.
LEMMA WindowFacts ==
  ASSUME NEW s \in Seq(Taken), Len(s) > 0, NEW t \in Int, Consecutive(s, t)
  PROVE  LET n == Len(s)
             l == Kept(n, WindowS)
         IN /\ Len(WindowOf(s)) = l
            /\ First(WindowOf(s)) = s[n - l + 1] /\ Newest(WindowOf(s)) = s[n]
            /\ s[n].wall = t /\ s[n - l + 1].wall = t - l + 1
<1> DEFINE n == Len(s)
           l == Kept(n, WindowS)
<1>1. n \in Nat \ {0} /\ WindowS \in Nat
  BY StallAssumption
<1>2. l \in 1..n
  <2> HIDE DEF n
  <2>1. l \in 0..n /\ l > 0
    BY <1>1 DEF Kept
  <2> QED
    BY <1>1, <2>1
<1>3. \A i \in 1..n : s[i].wall = t - n + i
  BY DEF Consecutive
<1>4. Newest(s) = s[n]
  BY DEF Newest
<1>5. /\ Len(Since(s, t - WindowS)) = l
      /\ \A i \in 1..l : Since(s, t - WindowS)[i] = s[n - l + i]
  BY <1>1, SinceIsSuffix
<1> HIDE DEF n, l
<1>6. s[n].wall = t /\ s[n - l + 1].wall = t - l + 1
  BY <1>1, <1>2, <1>3
<1>7. WindowOf(s) = Since(s, t - WindowS)
  BY <1>4, <1>6 DEF WindowOf
<1>8. n - l + l = n
  BY <1>1, <1>2
<1>9. /\ Len(WindowOf(s)) = l
      /\ First(WindowOf(s)) = s[n - l + 1] /\ Newest(WindowOf(s)) = s[n]
  BY <1>2, <1>5, <1>7, <1>8 DEF First, Newest
<1> QED
  BY <1>6, <1>9 DEF n, l

\* A beat is called wedged on a full window of low CPU without a write, past the floor.
LEMMA WedgedVerdict ==
  ASSUME NEW s, NEW e \in Int
  PROVE  StallVerdict(s, e) = "wedged" <=>
           /\ e >= FloorS /\ WindowFull(WindowOf(s))
           /\ LowCpu(WindowOf(s)) /\ ~Progressed(WindowOf(s))
<1> DEFINE full == WindowFull(WindowOf(s))
<1>1. FloorS \in Int /\ ("unknown" # "wedged") /\ ("alive" # "wedged")
  BY StallAssumption
<1>2. CASE e < FloorS \/ ~full
  <2>1. StallVerdict(s, e) = "unknown"
    BY <1>1, <1>2 DEF StallVerdict
  <2> QED
    BY <1>1, <1>2, <2>1
<1>3. CASE e >= FloorS /\ full
  <2>1. StallVerdict(s, e) =
          IF LowCpu(WindowOf(s)) /\ ~Progressed(WindowOf(s)) THEN "wedged" ELSE "alive"
    BY <1>1, <1>3 DEF StallVerdict
  <2> QED
    BY <1>1, <1>3, <2>1
<1> QED
  BY <1>1, <1>2, <1>3

ClockInv ==
  /\ clock \in Nat /\ cpu \in Nat /\ cpu <= clock /\ idle \in Nat /\ idle <= clock
  /\ wrote \in Nat /\ active \in Nat /\ wrote <= active /\ active <= clock + 1
  /\ working => active = clock + 1

\* A sample was taken at every poll of the last two windows, and since its last
\* activity, or its last idle poll, the beat has left its mark on none, or on each.
SamplesInv ==
  /\ samples \in Seq(Taken)
  /\ Len(samples) = Kept(clock, 2 * WindowS)
  /\ Consecutive(samples, clock)
  /\ \A i \in 1..Len(samples) :
       /\ samples[i].mtime <= samples[i].wall /\ samples[i].mtime <= wrote
       /\ samples[i].wall >= active => samples[i].cpu = cpu /\ samples[i].mtime = wrote
       /\ samples[i].wall >= idle => cpu - samples[i].cpu = clock - samples[i].wall

LEMMA PollKeepsSamples ==
  ASSUME ClockInv, SamplesInv, Poll
  PROVE  ClockInv' /\ SamplesInv'
<1> DEFINE new == [wall |-> clock', cpu |-> cpu', mtime |-> wrote]
           s == Append(samples, new)
           n == Len(samples)
           r == 2 * WindowS
           t == clock + 1
           l == Kept(n + 1, r)
<1>1. /\ clock' = t /\ samples' = Sample(samples, clock', cpu', wrote)
      /\ cpu' = cpu + (IF working THEN 1 ELSE 0) /\ working' = FALSE
      /\ idle' = (IF working THEN idle ELSE clock') /\ wrote' = wrote /\ active' = active
  BY DEF Poll, activity
<1>2. clock \in Nat /\ t \in Nat /\ t \in Int /\ n \in Nat /\ r \in Nat /\ cpu \in Nat /\ cpu' \in Nat
  BY <1>1, StallAssumption DEF ClockInv, SamplesInv
<1>3. ClockInv'
  <2>1. cpu' \in 0..clock' /\ idle' \in 0..clock'
    BY <1>1, <1>2 DEF ClockInv
  <2>2. wrote' \in 0..(clock' + 1) /\ active' \in 0..(clock' + 1) /\ wrote' <= active'
    BY <1>1, <1>2 DEF ClockInv
  <2> QED
    BY <1>1, <1>2, <2>1, <2>2 DEF ClockInv
<1>4. s \in Seq(Taken) /\ Len(s) = n + 1 /\ s[n + 1] = new /\ \A i \in 1..n : s[i] = samples[i]
  <2>1. new \in Taken
    BY <1>1, <1>2 DEF Taken, ClockInv
  <2> HIDE DEF new
  <2> QED
    BY <2>1 DEF SamplesInv
<1>5. Consecutive(s, t)
  <2>1. \A i \in 1..n : samples[i].wall = clock - n + i
    BY DEF SamplesInv, Consecutive
  <2>2. new.wall = t
    BY <1>1
  <2> HIDE DEF s, new, n
  <2>3. \A i \in 1..(n + 1) : s[i].wall = t - (n + 1) + i
    <3> TAKE i \in 1..(n + 1)
    <3>1. CASE i \in 1..n
      BY <3>1, <1>2, <1>4, <2>1
    <3>2. CASE i = n + 1
      BY <3>2, <1>2, <1>4, <2>2
    <3> QED
      BY <3>1, <3>2, <1>2
  <2> QED
    BY <1>4, <2>3 DEF Consecutive
<1>6. samples' = Since(s, t - r)
  BY <1>1 DEF Sample
<1>7. l \in 1..(n + 1) /\ l = Kept(t, r)
  <2>1. n = Kept(clock, r)
    BY DEF SamplesInv
  <2> HIDE DEF n
  <2> QED
    BY <1>2, <2>1 DEF Kept
<1> HIDE DEF s, n, r, t
<1>8. /\ samples' \in Seq(Taken) /\ Len(samples') = l
      /\ \A i \in 1..l : samples'[i] = s[n + 1 - l + i]
  <2>1. /\ Since(s, t - r) \in Seq(Taken)
        /\ Len(Since(s, t - r)) = Kept(Len(s), r)
        /\ \A i \in 1..Kept(Len(s), r) : Since(s, t - r)[i] = s[Len(s) - Kept(Len(s), r) + i]
    BY <1>2, <1>4, <1>5, SinceIsSuffix
  <2>2. Len(s) = n + 1 /\ Kept(Len(s), r) = l
    BY <1>4
  <2> HIDE DEF l
  <2>3. /\ samples' \in Seq(Taken) /\ Len(samples') = l
        /\ \A i \in 1..l : samples'[i] = s[Len(s) - l + i]
    BY <1>6, <2>1, <2>2
  <2>4. \A i \in 1..l : Len(s) - l + i = n + 1 - l + i
    BY <1>2, <1>7, <2>2
  <2> QED
    BY <2>3, <2>4
<1> HIDE DEF l
<1>9. Consecutive(samples', t)
  <2>1. \A i \in 1..(n + 1) : s[i].wall = t - (n + 1) + i
    BY <1>4, <1>5 DEF Consecutive
  <2>2. \A i \in 1..l : n + 1 - l + i \in 1..(n + 1) /\ t - (n + 1) + (n + 1 - l + i) = t - l + i
    BY <1>2, <1>7
  <2>3. \A i \in 1..l : samples'[i].wall = t - l + i
    BY <1>8, <2>1, <2>2
  <2> QED
    BY <1>8, <2>3 DEF Consecutive
<1> DEFINE Marks(x) ==
      /\ x.mtime <= x.wall /\ x.mtime <= wrote
      /\ x.wall >= active => x.cpu = cpu' /\ x.mtime = wrote
      /\ x.wall >= idle' => cpu' - x.cpu = t - x.wall
<1>10. \A i \in 1..(n + 1) : Marks(s[i])
  <2> TAKE i \in 1..(n + 1)
  <2>1. CASE i \in 1..n
    <3>1. samples[i] \in Taken /\ samples[i].wall <= clock
      <4>1. samples[i] \in Taken
        BY <2>1 DEF n, SamplesInv
      <4>2. samples[i].wall = clock - n + i
        BY <2>1 DEF n, SamplesInv, Consecutive
      <4> QED
        BY <1>2, <2>1, <4>1, <4>2
    <3> DEFINE x == samples[i]
    <3>2. /\ x.mtime <= x.wall /\ x.mtime <= wrote
          /\ x.wall >= active => x.cpu = cpu /\ x.mtime = wrote
          /\ x.wall >= idle => cpu - x.cpu = clock - x.wall
      BY <2>1 DEF n, SamplesInv
    <3>3. x.wall \in Nat /\ x.cpu \in Nat /\ x.mtime \in Nat
      BY <3>1 DEF Taken
    <3>4. s[i] = x
      BY <1>4, <2>1
    <3> HIDE DEF x
    <3>5. x.wall <= clock
      BY <3>1 DEF x
    <3>6. CASE working
      BY <1>1, <1>2, <3>2, <3>3, <3>4, <3>5, <3>6 DEF ClockInv, t
    <3>7. CASE ~working
      BY <1>1, <1>2, <3>2, <3>3, <3>4, <3>5, <3>7 DEF ClockInv, t
    <3> QED
      BY <3>6, <3>7
  <2>2. CASE i = n + 1
    <3>1. s[i] = new
      BY <1>4, <2>2
    <3> QED
      BY <1>1, <1>2, <3>1 DEF ClockInv, t
  <2> QED
    BY <1>2, <2>1, <2>2
<1>11. \A i \in 1..l : Marks(samples'[i])
  <2>1. \A i \in 1..l : n + 1 - l + i \in 1..(n + 1)
    BY <1>2, <1>7
  <2> HIDE DEF Marks
  <2> QED
    BY <1>8, <1>10, <2>1
<1>12. SamplesInv'
  BY <1>1, <1>7, <1>8, <1>9, <1>11 DEF SamplesInv, r
<1> QED
  BY <1>3, <1>12

LEMMA Multiply ==
  ASSUME NEW d \in Nat \ {0}
  PROVE  /\ ~(d * LowDen < LowNum * d)
         /\ 0 * LowDen < LowNum * d
<1>1. LowNum \in Nat \ {0} /\ LowDen \in Nat /\ LowNum <= LowDen
  BY StallAssumption
<1>2. \A a, b, c \in Nat : a <= b => c * a <= c * b
  OBVIOUS
<1>3. \A a, b \in Nat \ {0} : a * b > 0
  OBVIOUS
<1> QED
  BY <1>1, <1>2, <1>3

\* What the verdict of a poll says of the beat.
LEMMA PollVerdict ==
  ASSUME ClockInv, SamplesInv, Poll
  PROVE  /\ StallVerdict(samples', clock') = "wedged" =>
              10 * (clock' - wrote) >= 9 * WindowS /\ clock' - idle' < WindowS
         /\ clock' >= FloorS /\ clock' - active > WindowS =>
              StallVerdict(samples', clock') = "wedged"
<1> DEFINE s == samples'
           t == clock'
           load == cpu'
           late == idle'
           n == Len(s)
           l == Kept(n, WindowS)
           w == WindowOf(s)
           f == s[n - l + 1]
           g == s[n]
<1>1. ClockInv' /\ SamplesInv'
  BY PollKeepsSamples
<1>2. t = clock + 1 /\ wrote' = wrote /\ active' = active
  BY DEF Poll, activity
<1>3. /\ t \in Nat \ {0} /\ t \in Int /\ active \in 0..t /\ late \in 0..t /\ wrote \in Nat
      /\ WindowS \in Nat \ {0} /\ load \in Nat /\ FloorS \in Nat
  BY <1>1, <1>2, StallAssumption DEF ClockInv
<1>4. s \in Seq(Taken) /\ Consecutive(s, t) /\ n = Kept(t, 2 * WindowS)
  BY <1>1 DEF SamplesInv
<1>5. \A i \in 1..n :
        /\ s[i].mtime <= s[i].wall
        /\ s[i].wall >= active => s[i].cpu = load /\ s[i].mtime = wrote
        /\ s[i].wall >= late => load - s[i].cpu = t - s[i].wall
  BY <1>1, <1>2 DEF SamplesInv
<1>6. n \in 1..t /\ n \in Nat /\ n > 0 /\ (n > WindowS \/ n = t)
  <2> HIDE DEF s, t, n
  <2> QED
    BY <1>3, <1>4 DEF Kept
<1>7. l \in 1..n /\ l <= WindowS + 1 /\ (n > WindowS => l = WindowS + 1)
  <2> HIDE DEF s, t, n
  <2> QED
    BY <1>3, <1>6 DEF Kept
<1>8. Len(w) = l /\ First(w) = f /\ Newest(w) = g /\ g.wall = t /\ f.wall = t - l + 1
  BY <1>3, <1>4, <1>6, WindowFacts
<1>9. f \in Taken /\ g \in Taken /\ n - l + 1 \in 1..n /\ n \in 1..n
  <2>1. n - l + 1 \in 1..n /\ n \in 1..n
    <3> HIDE DEF s, t, n, l
    <3> QED
      BY <1>6, <1>7
  <2>2. \A i \in 1..n : s[i] \in Taken
    BY <1>4
  <2> HIDE DEF s, n, l
  <2> QED
    BY <2>1, <2>2
<1>10. /\ f.mtime <= f.wall
       /\ f.wall >= active => f.cpu = load /\ f.mtime = wrote
       /\ f.wall >= late => load - f.cpu = t - f.wall
       /\ g.wall >= active => g.cpu = load /\ g.mtime = wrote
  BY <1>5, <1>9
<1>11. /\ f.mtime \in Nat /\ f.cpu \in Nat /\ g.mtime \in Nat /\ g.cpu \in Nat
  BY <1>9 DEF Taken
<1> HIDE DEF s, t, n, l, w, f, g, load, late
<1>12. g.cpu = load /\ g.mtime = wrote
  BY <1>3, <1>8, <1>10
<1>13. StallVerdict(s, t) = "wedged" <=>
         /\ t >= FloorS /\ WindowFull(w) /\ LowCpu(w) /\ ~Progressed(w)
  BY <1>3, WedgedVerdict DEF w
<1>14. WindowFull(w) <=> l >= 2 /\ 10 * (t - (t - l + 1)) >= 9 * WindowS
  BY <1>8 DEF WindowFull
<1>15. LowCpu(w) <=> (load - f.cpu) * LowDen < LowNum * (t - (t - l + 1))
  BY <1>8, <1>12 DEF LowCpu
<1>16. Progressed(w) <=> wrote > f.mtime
  BY <1>8, <1>12 DEF Progressed
<1>17. t - (t - l + 1) = l - 1 /\ l - 1 \in Nat /\ (l >= 2 => l - 1 \in Nat \ {0})
  BY <1>3, <1>6, <1>7
<1>20. late \in Int /\ t \in Int /\ WindowS \in Int /\ l \in Int
  BY <1>3, <1>6, <1>7
<1>18. ASSUME StallVerdict(s, t) = "wedged"
       PROVE  10 * (t - wrote) >= 9 * WindowS /\ t - late < WindowS
  <2>1. 10 * (l - 1) >= 9 * WindowS /\ l >= 2
    BY <1>13, <1>14, <1>17, <1>18
  <2>2. wrote <= t - l + 1
    BY <1>3, <1>7, <1>8, <1>10, <1>11, <1>13, <1>16, <1>18
  <2>3. 10 * (t - wrote) >= 9 * WindowS
    BY <1>3, <1>6, <1>7, <2>1, <2>2
  <2>4. ASSUME t - late >= WindowS PROVE FALSE
    <3>1. t - l + 1 >= late
      BY <1>3, <1>6, <1>7, <2>4, <1>20
    <3>2. load - f.cpu = l - 1
      BY <1>8, <1>10, <1>17, <3>1
    <3>3. (l - 1) * LowDen < LowNum * (l - 1)
      BY <1>13, <1>15, <1>17, <1>18, <3>2
    <3> QED
      BY <1>17, <2>1, <3>3, Multiply
  <2>5. t - late < WindowS
    BY <1>20, <2>4
  <2> QED
    BY <2>3, <2>5
<1>19. ASSUME t >= FloorS, t - active > WindowS
       PROVE  StallVerdict(s, t) = "wedged"
  <2>1. l = WindowS + 1 /\ l >= 2
    BY <1>3, <1>6, <1>7, <1>19
  <2>2. f.wall >= active
    BY <1>3, <1>8, <1>19, <2>1
  <2>3. f.cpu = load /\ f.mtime = wrote
    BY <1>10, <2>2
  <2>4. WindowFull(w)
    BY <1>3, <1>14, <1>17, <2>1
  <2>5. LowCpu(w)
    <3>1. load - f.cpu = 0
      BY <1>3, <1>11, <2>3
    <3>2. 0 * LowDen < LowNum * (l - 1)
      BY <1>17, <2>1, Multiply
    <3> QED
      BY <1>15, <1>17, <3>1, <3>2
  <2>6. ~Progressed(w)
    BY <1>3, <1>16, <2>3
  <2> QED
    BY <1>13, <1>19, <2>4, <2>5, <2>6
<1> QED
  BY <1>18, <1>19 DEF s, t, late

(***************************************************************************)
(* The inductive invariant of the watchdog, and the types.                 *)
(***************************************************************************)
PlaceInv ==
  /\ pc \in MainPcs /\ wpc \in WatchPcs
  /\ ended \in {"none", "running", "exit", "raised", "killed", "crashed"}
  /\ done \in BOOLEAN /\ working \in BOOLEAN

CountInv ==
  /\ night \in Nat /\ night <= MaxNights /\ crashes \in Nat /\ crashes <= MaxCrashes
  /\ launched \in Nat /\ launched <= night
  /\ turned \in Nat /\ turned <= Cycles /\ listed \in Nat /\ listed <= turned
  /\ pc # "off" => night >= 1
  /\ pc = "turning" => turned < Cycles

EntryInv ==
  /\ \A n \in alarms : n \in Nat /\ 1 <= n /\ n <= MaxNights
  /\ \A e \in journal :
       e.night \in Nat /\ 1 <= e.night /\ e.night <= night /\ e.listed <= e.turned

ControlInv == PlaceInv /\ CountInv /\ EntryInv

\* The watchdog polls short of its limit, and has not polled before it is armed.
LimitInv ==
  /\ reason \in {"none", "wedged", "timed out"}
  /\ clock <= BeatMax /\ (wpc = "watch" => clock < BeatMax)
  /\ pc = "preflight" => clock = 0
  /\ QuietBeatIsCaught

StallInv == ClockInv /\ SamplesInv /\ LimitInv

WatchInv == ThreadInv /\ ControlInv /\ StallInv

LEMMA InitWatchInv == Init => WatchInv
<1> SUFFICES ASSUME Init PROVE WatchInv
  OBVIOUS
<1>1. ThreadInv /\ ControlInv
  <2>1. ThreadInv
    BY DEF Init, ThreadInv
  <2>2. PlaceInv
    BY DEF Init, PlaceInv, MainPcs, WatchPcs
  <2>3. CountInv
    BY HeartbeatAssumption DEF Init, CountInv
  <2>4. EntryInv
    BY DEF Init, EntryInv
  <2> QED
    BY <2>1, <2>2, <2>3, <2>4 DEF ControlInv
<1>2. ClockInv /\ SamplesInv
  <2>1. <<>> \in Seq(Taken) /\ Len(<<>>) = 0
    OBVIOUS
  <2> QED
    BY <2>1, StallAssumption DEF Init, ClockInv, SamplesInv, Consecutive, Kept
<1> QED
  BY <1>1, <1>2, HeartbeatAssumption, StallAssumption
  DEF Init, WatchInv, StallInv, LimitInv, QuietBeatIsCaught

\* The invariant of the samples and that of the limits, after a step that does not poll.
LEMMA UnmarkedStep ==
  ASSUME StallInv, UNCHANGED <<stall, activity>>,
         wpc' = "watch" => wpc = "watch" \/ pc = "preflight",
         pc' = "preflight" => pc = "preflight"
  PROVE  StallInv'
<1>1. ClockInv /\ SamplesInv /\ LimitInv
  BY DEF StallInv
<1>2. ClockInv' /\ SamplesInv'
  BY <1>1 DEF ClockInv, SamplesInv, Consecutive, stall, activity
<1>3. BeatMax \in Nat \ {0} /\ WindowS \in Nat /\ clock \in Nat /\ active \in Nat
  BY <1>1, HeartbeatAssumption, StallAssumption DEF ClockInv
<1>4. pc = "preflight" => clock < BeatMax /\ clock - active <= WindowS
  <2> SUFFICES ASSUME pc = "preflight" PROVE clock < BeatMax /\ clock - active <= WindowS
    OBVIOUS
  <2>1. clock = 0
    BY <1>1 DEF LimitInv
  <2> QED
    BY <1>3, <2>1
<1>5. LimitInv'
  BY <1>1, <1>4 DEF LimitInv, QuietBeatIsCaught, stall, activity
<1> QED
  BY <1>2, <1>5 DEF StallInv

\* A step in which main computes or writes.
LEMMA MarkedStep ==
  ASSUME StallInv, UNCHANGED <<stall, wpc>>, pc' # "preflight",
         active' = clock + 1, wrote' \in {wrote, clock + 1}
  PROVE  StallInv'
<1>1. ClockInv /\ SamplesInv /\ LimitInv
  BY DEF StallInv
<1>2. ClockInv'
  BY <1>1 DEF ClockInv, stall
<1>3. ASSUME NEW i \in 1..Len(samples)
      PROVE  samples[i].mtime <= wrote' /\ ~(samples[i].wall >= clock + 1)
  <2>1. samples[i] \in Taken
    BY <1>1 DEF SamplesInv
  <2>2. samples[i].mtime \in Nat /\ samples[i].wall \in Nat
    BY <2>1 DEF Taken
  <2>3. samples[i].mtime <= wrote /\ wrote \in Nat /\ clock \in Nat /\ wrote <= clock + 1
    BY <1>1 DEF SamplesInv, ClockInv
  <2>4. samples[i].wall = clock - Len(samples) + i /\ Len(samples) \in Nat
    BY <1>1 DEF SamplesInv, Consecutive
  <2> QED
    BY <2>2, <2>3, <2>4
<1>4. SamplesInv'
  BY <1>1, <1>3 DEF SamplesInv, stall, Consecutive
<1>5. clock \in Nat /\ WindowS \in Nat
  BY <1>1, StallAssumption DEF ClockInv
<1>6. clock - (clock + 1) <= WindowS
  BY <1>5
<1>7. LimitInv'
  BY <1>1, <1>6 DEF LimitInv, QuietBeatIsCaught, stall
<1> QED
  BY <1>2, <1>4, <1>7 DEF StallInv

LEMMA LaunchKeepsWatch == ASSUME WatchInv, Launch PROVE WatchInv'
<1>1. ThreadInv' /\ ControlInv'
  <2>1. ThreadInv /\ PlaceInv /\ CountInv /\ EntryInv
    BY DEF WatchInv, ControlInv
  <2>2. ThreadInv' /\ PlaceInv'
    <3>1. PlaceInv'
      BY <2>1 DEF PlaceInv, MainPcs, Launch
    <3>2. night' \in Nat /\ launched' = night' /\ wpc' = "off"
      BY <2>1 DEF ThreadInv, Launch
    <3> QED
      BY <3>1, <3>2 DEF ThreadInv
  <2>3. CountInv'
    BY <2>1, HeartbeatAssumption DEF CountInv, Launch
  <2>4. EntryInv'
    BY <2>1, HeartbeatAssumption DEF CountInv, EntryInv, Launch
  <2> QED
    BY <2>2, <2>3, <2>4 DEF ControlInv
<1>2. /\ clock' = 0 /\ samples' = <<>> /\ cpu' = 0 /\ wrote' = 0 /\ working' = FALSE
      /\ active' = 0 /\ idle' = 0 /\ reason' = "none" /\ wpc' = "off"
  BY DEF WatchInv, ThreadInv, Launch
<1>3. ClockInv' /\ SamplesInv'
  <2>1. <<>> \in Seq(Taken) /\ Len(<<>>) = 0
    OBVIOUS
  <2> QED
    BY <1>2, <2>1, StallAssumption DEF ClockInv, SamplesInv, Consecutive, Kept
<1>4. StallInv'
  BY <1>2, <1>3, HeartbeatAssumption, StallAssumption DEF StallInv, LimitInv, QuietBeatIsCaught
<1> QED
  BY <1>1, <1>4 DEF WatchInv

LEMMA PollKeepsWatch == ASSUME WatchInv, Poll PROVE WatchInv'
<1> DEFINE verdict == StallVerdict(samples', clock')
<1>1. ThreadInv' /\ ControlInv'
  BY DEF WatchInv, ThreadInv, ControlInv, PlaceInv, CountInv, EntryInv, MainPcs, WatchPcs,
    Poll, nights, tally, record
<1>2. ClockInv /\ SamplesInv /\ LimitInv
  BY DEF WatchInv, StallInv
<1>3. ClockInv' /\ SamplesInv'
  BY <1>2, PollKeepsSamples
<1>4. /\ wpc = "watch" /\ clock' = clock + 1 /\ pc' = pc /\ active' = active
      /\ reason' = IF verdict = "wedged" THEN "wedged"
                   ELSE IF clock' >= BeatMax THEN "timed out" ELSE "none"
      /\ wpc' = IF reason' = "none" THEN "watch" ELSE "close"
  BY DEF Poll, activity
<1>5. clock' \in Nat /\ clock' <= BeatMax /\ BeatMax \in Nat /\ active' \in Nat /\ WindowS \in Nat
  <2>1. clock \in Nat /\ clock < BeatMax /\ BeatMax \in Nat /\ active \in Nat /\ WindowS \in Nat
    BY <1>2, <1>4, HeartbeatAssumption, StallAssumption DEF LimitInv, ClockInv
  <2>2. clock + 1 \in Nat /\ clock + 1 <= BeatMax
    BY <2>1
  <2> QED
    BY <1>4, <2>1, <2>2
<1>6. pc' # "preflight"
  BY <1>4 DEF WatchInv, ThreadInv
<1>7. clock' >= FloorS /\ clock' - active' > WindowS => verdict = "wedged"
  BY <1>2, <1>4, PollVerdict
<1> HIDE DEF verdict
<1>8. ASSUME wpc' = "watch" PROVE verdict # "wedged" /\ ~(clock' >= BeatMax)
  BY <1>4, <1>8
<1>9. QuietBeatIsCaught'
  <2> DEFINE age == clock' - active'
  <2>1. age \in Int
    BY <1>5
  <2> HIDE DEF age
  <2>2. age > WindowS \/ age <= WindowS
    BY <1>5, <2>1
  <2> QED
    BY <1>7, <1>8, <2>2 DEF QuietBeatIsCaught, age
<1>10. wpc' = "watch" => clock' < BeatMax
  BY <1>5, <1>8
<1>11. reason' \in {"none", "wedged", "timed out"}
  BY <1>4
<1>12. LimitInv'
  BY <1>5, <1>6, <1>9, <1>10, <1>11 DEF LimitInv
<1> QED
  BY <1>1, <1>3, <1>12 DEF WatchInv, StallInv

LEMMA NextWatchInv == WatchInv /\ [Next]_vars => WatchInv'
<1> SUFFICES ASSUME WatchInv, [Next]_vars PROVE WatchInv'
  OBVIOUS
<1>0. ThreadInv /\ PlaceInv /\ CountInv /\ EntryInv /\ StallInv
  BY DEF WatchInv, ControlInv
<1>1. CASE Launch
  BY <1>1, LaunchKeepsWatch
<1>2. CASE Poll
  BY <1>2, PollKeepsWatch
<1>3. CASE EndCycle \/ Compute \/ WriteState
  <2>1. ThreadInv' /\ PlaceInv'
    BY <1>0, <1>3
    DEF ThreadInv, PlaceInv, CountInv, MainPcs, WatchPcs, EndCycle, Compute, WriteState,
      nights, tally, record, stall, activity
  <2>2. CountInv'
    BY <1>0, <1>3, HeartbeatAssumption
    DEF ThreadInv, CountInv, EndCycle, Compute, WriteState, nights, tally, record, stall,
      activity
  <2>3. EntryInv'
    BY <1>0, <1>3
    DEF CountInv, EntryInv, EndCycle, Compute, WriteState, nights, tally, record, stall,
      activity
  <2>4. /\ UNCHANGED <<stall, wpc>> /\ pc' # "preflight"
        /\ active' = clock + 1 /\ wrote' \in {wrote, clock + 1}
    BY <1>3 DEF EndCycle, Compute, WriteState
  <2> QED
    BY <1>0, <2>1, <2>2, <2>3, <2>4, MarkedStep DEF WatchInv, ControlInv
<1>4. CASE UNCHANGED vars
  <2>1. ThreadInv' /\ PlaceInv' /\ CountInv' /\ EntryInv'
    BY <1>0, <1>4
    DEF ThreadInv, PlaceInv, CountInv, EntryInv, vars, nights, tally, record, activity
  <2> QED
    BY <1>0, <1>4, <2>1, UnmarkedStep DEF WatchInv, ControlInv, vars
<1>5. CASE SkipNight \/ Crash
  <2>1. ThreadInv' /\ PlaceInv'
    BY <1>0, <1>5
    DEF ThreadInv, PlaceInv, CountInv, MainPcs, WatchPcs, SkipNight, Crash, nights,
      tally, record, stall, activity
  <2>2. CountInv'
    BY <1>0, <1>5, HeartbeatAssumption
    DEF ThreadInv, CountInv, SkipNight, Crash, nights, tally, record, stall, activity
  <2>3. EntryInv'
    BY <1>0, <1>5
    DEF CountInv, EntryInv, SkipNight, Crash, nights, tally, record, stall, activity
  <2>4. /\ UNCHANGED <<stall, activity>>
        /\ wpc' = "watch" => wpc = "watch"
        /\ pc' = "preflight" => pc = "preflight"
    BY <1>5 DEF SkipNight, Crash
  <2> QED
    BY <1>0, <2>1, <2>2, <2>3, <2>4, UnmarkedStep DEF WatchInv, ControlInv
<1>6. CASE PreflightAborts \/ WriteJournal \/ WatchdogJournals
  <2>1. ThreadInv' /\ PlaceInv'
    BY <1>0, <1>6
    DEF ThreadInv, PlaceInv, CountInv, MainPcs, WatchPcs, PreflightAborts, WriteJournal,
      WatchdogJournals, nights, tally, record, stall, activity
  <2>2. CountInv'
    BY <1>0, <1>6, HeartbeatAssumption
    DEF ThreadInv, CountInv, PreflightAborts, WriteJournal, WatchdogJournals, nights,
      tally, record, stall, activity
  <2>3. EntryInv'
    <3>1. \E t \in Nat, l \in Nat, kind \in {"aborted", "done", "timed_out"} :
            l <= t /\ journal' = journal \cup {Entry(kind, t, l)}
      <4>1. turned \in Nat /\ listed \in Nat /\ listed <= turned
        BY <1>0 DEF CountInv
      <4>2. \/ journal' = journal \cup {Entry("aborted", 0, 0)}
            \/ journal' = journal \cup {Entry("done", turned, listed)}
            \/ journal' = journal \cup {Entry("timed_out", 0, 0)}
        BY <1>6 DEF PreflightAborts, WriteJournal, WatchdogJournals
      <4> QED
        BY <4>1, <4>2
    <3> PICK t \in Nat, l \in Nat, kind \in {"aborted", "done", "timed_out"} :
            l <= t /\ journal' = journal \cup {Entry(kind, t, l)}
      BY <3>1
    <3>2. /\ Entry(kind, t, l).night = night /\ Entry(kind, t, l).listed = l
          /\ Entry(kind, t, l).turned = t
      BY DEF Entry
    <3>3. night' = night /\ alarms' = alarms /\ night \in Nat /\ 1 <= night
      BY <1>0, <1>6 DEF CountInv, ThreadInv, PreflightAborts, WriteJournal,
        WatchdogJournals, nights
    <3> QED
      BY <1>0, <3>2, <3>3 DEF EntryInv
  <2>4. /\ UNCHANGED <<stall, activity>>
        /\ wpc' = "watch" => wpc = "watch"
        /\ pc' = "preflight" => pc = "preflight"
    BY <1>6 DEF PreflightAborts, WriteJournal, WatchdogJournals
  <2> QED
    BY <1>0, <2>1, <2>2, <2>3, <2>4, UnmarkedStep DEF WatchInv, ControlInv
<1>7. CASE ArmWatchdog \/ CyclesReturn \/ Report \/ Teardown \/ Disarm \/ Exit
  <2>1. ThreadInv' /\ PlaceInv'
    BY <1>0, <1>7
    DEF ThreadInv, PlaceInv, CountInv, MainPcs, WatchPcs, ArmWatchdog, CyclesReturn,
      Report, Teardown, Disarm, Exit, nights, tally, record, stall, activity
  <2>2. CountInv'
    BY <1>0, <1>7, HeartbeatAssumption
    DEF ThreadInv, CountInv, ArmWatchdog, CyclesReturn, Report, Teardown, Disarm, Exit,
      nights, tally, record, stall, activity
  <2>3. EntryInv'
    BY <1>0, <1>7
    DEF CountInv, EntryInv, ArmWatchdog, CyclesReturn, Report, Teardown, Disarm, Exit,
      nights, tally, record, stall, activity
  <2>4. /\ UNCHANGED <<stall, activity>>
        /\ wpc' = "watch" => wpc = "watch" \/ pc = "preflight"
        /\ pc' = "preflight" => pc = "preflight"
    BY <1>7 DEF ArmWatchdog, CyclesReturn, Report, Teardown, Disarm, Exit
  <2> QED
    BY <1>0, <2>1, <2>2, <2>3, <2>4, UnmarkedStep DEF WatchInv, ControlInv
<1>8. CASE Build \/ BuildRaises \/ StartCycle \/ CyclesRaise
  <2>1. ThreadInv' /\ PlaceInv'
    BY <1>0, <1>8
    DEF ThreadInv, PlaceInv, CountInv, MainPcs, WatchPcs, Build, BuildRaises, StartCycle,
      CyclesRaise, nights, tally, record, stall, activity
  <2>2. CountInv'
    BY <1>0, <1>8, HeartbeatAssumption
    DEF ThreadInv, CountInv, Build, BuildRaises, StartCycle, CyclesRaise, nights, tally,
      record, stall, activity
  <2>3. EntryInv'
    BY <1>0, <1>8
    DEF CountInv, EntryInv, Build, BuildRaises, StartCycle, CyclesRaise, nights, tally,
      record, stall, activity
  <2>4. /\ UNCHANGED <<stall, activity>>
        /\ wpc' = "watch" => wpc = "watch"
        /\ pc' = "preflight" => pc = "preflight"
    BY <1>8 DEF Build, BuildRaises, StartCycle, CyclesRaise
  <2> QED
    BY <1>0, <2>1, <2>2, <2>3, <2>4, UnmarkedStep DEF WatchInv, ControlInv
<1>9. CASE WatchdogReturns \/ WatchdogCloses \/ WatchdogAlarms \/ WatchdogExits
  <2>1. ThreadInv' /\ PlaceInv'
    BY <1>0, <1>9
    DEF ThreadInv, PlaceInv, CountInv, MainPcs, WatchPcs, WatchdogReturns,
      WatchdogCloses, WatchdogAlarms, WatchdogExits, nights, tally, record, stall,
      activity
  <2>2. CountInv'
    BY <1>0, <1>9, HeartbeatAssumption
    DEF ThreadInv, CountInv, WatchdogReturns, WatchdogCloses, WatchdogAlarms,
      WatchdogExits, nights, tally, record, stall, activity
  <2>3. EntryInv'
    BY <1>0, <1>9
    DEF CountInv, EntryInv, WatchdogReturns, WatchdogCloses, WatchdogAlarms,
      WatchdogExits, nights, tally, record, stall, activity
  <2>4. /\ UNCHANGED <<stall, activity>>
        /\ wpc' = "watch" => wpc = "watch"
        /\ pc' = "preflight" => pc = "preflight"
    BY <1>9 DEF WatchdogReturns, WatchdogCloses, WatchdogAlarms, WatchdogExits
  <2> QED
    BY <1>0, <2>1, <2>2, <2>3, <2>4, UnmarkedStep DEF WatchInv, ControlInv
<1> QED
  BY <1>1, <1>2, <1>3, <1>4, <1>5, <1>6, <1>7, <1>8, <1>9
  DEF Next, BoundedMain, Beat, Watchdog

LEMMA WatchInvariantHolds == Spec => []WatchInv
BY InitWatchInv, NextWatchInv, PTL DEF Spec

(***************************************************************************)
(* The theorems.                                                           *)
(***************************************************************************)
\* A process the watchdog ends has left an entry for its night.
THEOREM KillsAreJournaled == Spec => []KilledBeatIsJournaled
<1>1. IInv => KilledBeatIsJournaled
  BY DEF IInv, JournalInv
<1> QED
  BY <1>1, InvariantHolds, PTL

\* Two entries for a night are never both main's own.
THEOREM TwinsAreCondemned == Spec => []TwinEntriesOnlyWhenCondemned
<1>1. IInv => TwinEntriesOnlyWhenCondemned
  BY DEF IInv, UnwrittenInv
<1> QED
  BY <1>1, InvariantHolds, PTL

\* The launch after two nights without an entry alarms them, however many nights,
\* crashes and skipped launches there were.
THEOREM SilenceIsAlarmed == Spec => []TwoSilentNightsAreAlarmed
<1>1. IInv => TwoSilentNightsAreAlarmed
  BY DEF IInv
<1> QED
  BY <1>1, InvariantHolds, PTL

\* The types, with the bounds on the clock and on the samples kept.
THEOREM TypeCorrectness == Spec => []TypeOK
<1>1. WatchInv => TypeOK
  <2> SUFFICES ASSUME WatchInv PROVE TypeOK
    OBVIOUS
  <2>1. Len(samples) <= 2 * WindowS + 1
    <3>1. clock \in Nat /\ WindowS \in Nat /\ Len(samples) = Kept(clock, 2 * WindowS)
      BY StallAssumption DEF WatchInv, StallInv, ClockInv, SamplesInv
    <3> QED
      BY <3>1 DEF Kept
  <2>2. PlaceInv /\ CountInv /\ EntryInv /\ ClockInv /\ LimitInv /\ ThreadInv
    BY DEF WatchInv, ControlInv, StallInv
  <2>3. /\ night \in 0..MaxNights /\ launched \in 0..night /\ crashes \in 0..MaxCrashes
        /\ turned \in 0..Cycles /\ listed \in 0..turned
    BY <2>2, HeartbeatAssumption DEF CountInv, ThreadInv
  <2>4. /\ clock \in 0..BeatMax /\ cpu \in 0..clock /\ idle \in 0..clock
        /\ wrote \in 0..(clock + 1) /\ active \in 0..(clock + 1)
    <3>1. clock \in Nat /\ clock <= BeatMax /\ BeatMax \in Nat
      BY <2>2, HeartbeatAssumption DEF ClockInv, LimitInv
    <3>2. /\ cpu \in Nat /\ cpu <= clock /\ idle \in Nat /\ idle <= clock
          /\ wrote \in Nat /\ active \in Nat /\ wrote <= active /\ active <= clock + 1
      BY <2>2 DEF ClockInv
    <3> QED
      BY <3>1, <3>2
  <2>5. alarms \subseteq 1..MaxNights
    BY <2>2, HeartbeatAssumption DEF EntryInv
  <2>6. \A e \in journal : e.night \in 1..night /\ e.listed <= e.turned
    BY <2>2 DEF EntryInv, CountInv
  <2>7. reason \in {"none", "wedged", "timed out"}
    BY <2>2 DEF LimitInv
  <2> QED
    BY <2>1, <2>2, <2>3, <2>4, <2>5, <2>6, <2>7 DEF PlaceInv, TypeOK
<1> QED
  BY <1>1, WatchInvariantHolds, PTL

\* However long the window and the floor: a beat that did nothing for a window is
\* not watched any further (StallVerdict condemns it).
THEOREM QuietIsCaught == Spec => []QuietBeatIsCaught
<1>1. WatchInv => QuietBeatIsCaught
  BY DEF WatchInv, StallInv, LimitInv
<1> QED
  BY <1>1, WatchInvariantHolds, PTL

\* No beat whose state moved within nine tenths of a window, and none that computed
\* in every poll of a window, is condemned as wedged.
THEOREM WedgedBeatsWereIdle == Spec => WedgedIsNotSlow
<1> DEFINE Wedges == reason = "none" /\ reason' = "wedged" =>
              /\ 10 * (clock' - wrote) >= 9 * WindowS
              /\ clock' - idle' < WindowS
<1>1. WatchInv /\ [Next]_vars => Wedges
  <2> SUFFICES ASSUME WatchInv, [Next]_vars, reason = "none", reason' = "wedged"
               PROVE  10 * (clock' - wrote) >= 9 * WindowS /\ clock' - idle' < WindowS
    OBVIOUS
  <2>1. Poll
    BY DEF Next, BoundedMain, Beat, Watchdog, vars, stall, Launch, SkipNight, Crash,
      PreflightAborts, ArmWatchdog, CyclesReturn, Report, Teardown, Disarm, WriteJournal,
      Exit, Build, BuildRaises, StartCycle, EndCycle, CyclesRaise, Compute, WriteState,
      WatchdogReturns, WatchdogCloses, WatchdogJournals, WatchdogAlarms, WatchdogExits
  <2>2. StallVerdict(samples', clock') = "wedged"
    BY <2>1 DEF Poll
  <2> QED
    BY <2>1, <2>2, PollVerdict DEF WatchInv, StallInv
<1>2. WatchInv /\ [Next]_vars => [Wedges]_vars
  BY <1>1
<1> QED
  BY <1>2, WatchInvariantHolds, PTL DEF Spec, WedgedIsNotSlow

----------------------------------------------------------------------------
(***************************************************************************)
(* A hung beat is journaled, but for fairness.  Whatever main does or does *)
(* not do, the steps that end an armed process are bounded in number, one  *)
(* of the two threads is at one of them, and a process they end has left   *)
(* an entry for its night.                                                 *)
(***************************************************************************)
\* Steps of the watchdog before it exits the process or returns.
WatchLeft ==
  CASE wpc = "watch" -> (BeatMax - clock) + 5
    [] wpc = "close" -> 4
    [] wpc = "journal" -> 3
    [] wpc = "alarm" -> 2
    [] wpc = "exit" -> 1
    [] OTHER -> 0

\* Steps of main once it has disarmed the watchdog.
DrainLeft ==
  CASE pc = "off" -> 0
    [] pc = "review" -> 1
    [] pc = "drain" -> 2
    [] OTHER -> 3

EndLeft == WatchLeft + DrainLeft

\* An armed process is never left to main alone before main is past its last
\* unbounded step and has disarmed the watchdog.
Attended ==
  /\ done => pc \in {"off", "drain", "review"}
  /\ ~done => pc \notin {"drain", "review"} /\ (pc # "preflight" => pc = "off" \/ wpc # "off")

\* No process exits, by main's hand or the watchdog's, without an entry.
EndsJournaled ==
  /\ ended \in {"exit", "killed"} => JournaledOn(launched)
  /\ pc = "review" => JournaledOn(night)

EndLowers ==
  /\ Watchdog \/ WriteJournal \/ Exit => EndLeft' < EndLeft
  /\ pc \notin {"off", "preflight"} => EndLeft' <= EndLeft

\* ADR 0092, whatever main does or does not do: an armed process is ended by at most
\* BeatMax + 8 steps of the watchdog and of main's tail, unless an exception or the
\* machine ends it first; between them nothing postpones the end, and the night has
\* its entry when it comes.
HungBeatIsBounded ==
  /\ [](Attended /\ EndsJournaled /\ EndLeft \in Nat /\ EndLeft <= BeatMax + 8)
  /\ [][EndLowers]_vars

LEMMA AttendedKept ==
  WatchInv /\ Attended /\ [Next]_vars => Attended'
<1> SUFFICES ASSUME WatchInv, Attended, [Next]_vars PROVE Attended'
  OBVIOUS
<1>0. ThreadInv /\ PlaceInv
  BY DEF WatchInv, ControlInv
<1>1. CASE UNCHANGED vars
  BY <1>1 DEF vars, Attended
<1>2. CASE Launch \/ SkipNight \/ Crash
  BY <1>2 DEF Launch, SkipNight, Crash, Attended
<1>3. CASE BoundedMain
  BY <1>3 DEF BoundedMain, PreflightAborts, ArmWatchdog, CyclesReturn, Report,
     Teardown, Disarm, WriteJournal, Exit, Attended
<1>4. CASE Beat
  BY <1>4 DEF Beat, Build, BuildRaises, StartCycle, EndCycle, CyclesRaise, Compute,
     WriteState, Attended
<1>5. CASE Watchdog
  <2>1. CASE Poll
    <3>1. ~done /\ done' = done /\ pc' = pc /\ wpc' # "off"
      BY <2>1 DEF Poll
    <3> QED
      BY <3>1 DEF Attended
  <2> QED
    BY <1>0, <1>5, <2>1 DEF Watchdog, WatchdogReturns, WatchdogCloses, WatchdogJournals,
       WatchdogAlarms, WatchdogExits, Attended, ThreadInv
<1> QED
  BY <1>1, <1>2, <1>3, <1>4, <1>5 DEF Next

LEMMA EndsJournaledKept ==
  IInv /\ WatchInv /\ EndsJournaled /\ [Next]_vars => EndsJournaled'
<1> SUFFICES ASSUME IInv, WatchInv, EndsJournaled, [Next]_vars PROVE EndsJournaled'
  OBVIOUS
<1>0. ThreadInv /\ (wpc = "exit" => JournaledOn(night))
  BY DEF IInv, JournalInv
<1>1. ASSUME UNCHANGED <<journal, launched, night>>,
             pc' = "review" => pc = "review",
             ended' = ended \/ ended' \notin {"exit", "killed"}
      PROVE  EndsJournaled'
  BY <1>1 DEF EndsJournaled, JournaledOn
\* The entry of the step at hand is the night's.
<1>2. ASSUME NEW e, e.night = night, journal' = journal \cup {e},
             UNCHANGED <<launched, night>>, launched = night
      PROVE  EndsJournaled'
  BY <1>2 DEF EndsJournaled, JournaledOn
<1>3. CASE UNCHANGED vars
  BY <1>1, <1>3 DEF vars, nights, record
<1>4. CASE Launch
  BY <1>4 DEF Launch, EndsJournaled
<1>5. CASE SkipNight
  <2>1. pc' = "off" /\ UNCHANGED <<ended, launched, journal>>
    BY <1>5 DEF SkipNight, record
  <2> QED
    BY <2>1 DEF EndsJournaled, JournaledOn
<1>6. CASE Crash
  BY <1>1, <1>6 DEF Crash, record
<1>7. CASE PreflightAborts \/ WriteJournal \/ WatchdogJournals
  <2>1. launched = night
    BY <1>0, <1>7 DEF ThreadInv, PreflightAborts, WriteJournal, WatchdogJournals
  <2>2. \E e : e.night = night /\ journal' = journal \cup {e}
    BY <1>7, EntryTyped DEF PreflightAborts, WriteJournal, WatchdogJournals
  <2>3. UNCHANGED <<launched, night>>
    BY <1>7 DEF PreflightAborts, WriteJournal, WatchdogJournals, nights
  <2> QED
    BY <1>2, <2>1, <2>2, <2>3
<1>8. CASE Exit \/ WatchdogExits
  <2>1. launched = night /\ JournaledOn(night)
    BY <1>0, <1>8 DEF ThreadInv, Exit, WatchdogExits, EndsJournaled
  <2>2. UNCHANGED <<launched, night, journal>>
    BY <1>8 DEF Exit, WatchdogExits, nights, record
  <2> QED
    BY <2>1, <2>2 DEF EndsJournaled, JournaledOn
<1>9. CASE ArmWatchdog \/ CyclesReturn \/ Report \/ Teardown \/ Disarm \/ Beat
  <2>1. UNCHANGED <<journal, launched, night>>
    BY <1>9 DEF ArmWatchdog, CyclesReturn, Report, Teardown, Disarm, Beat, Build,
       BuildRaises, StartCycle, EndCycle, CyclesRaise, Compute, WriteState, nights, record
  <2>2. /\ pc' = "review" => pc = "review"
        /\ ended' = ended \/ ended' \notin {"exit", "killed"}
    BY <1>9 DEF ArmWatchdog, CyclesReturn, Report, Teardown, Disarm, Beat, Build,
       BuildRaises, StartCycle, EndCycle, CyclesRaise, Compute, WriteState
  <2> QED
    BY <1>1, <2>1, <2>2
<1>10. CASE Poll \/ WatchdogReturns \/ WatchdogCloses \/ WatchdogAlarms
  BY <1>1, <1>10 DEF Poll, WatchdogReturns, WatchdogCloses, WatchdogAlarms, nights, record
<1> QED
  BY <1>3, <1>4, <1>5, <1>6, <1>7, <1>8, <1>9, <1>10 DEF Next, BoundedMain, Watchdog

LEMMA EndLeftTyped ==
  ASSUME WatchInv
  PROVE  /\ WatchLeft \in Nat /\ WatchLeft <= BeatMax + 5
         /\ DrainLeft \in 0..3
         /\ EndLeft \in Nat /\ EndLeft <= BeatMax + 8
<1>1. clock \in Nat /\ clock <= BeatMax /\ BeatMax \in Nat
  BY HeartbeatAssumption DEF WatchInv, StallInv, ClockInv, LimitInv
<1>2. wpc \in WatchPcs /\ pc \in MainPcs
  BY DEF WatchInv, ControlInv, PlaceInv
<1>3. WatchLeft \in Nat /\ WatchLeft <= BeatMax + 5
  BY <1>1, <1>2 DEF WatchLeft, WatchPcs
<1>4. DrainLeft \in 0..3
  BY <1>2 DEF DrainLeft, MainPcs
<1> HIDE DEF WatchLeft, DrainLeft
<1> QED
  BY <1>1, <1>3, <1>4 DEF EndLeft

LEMMA NextEndLeft == WatchInv /\ [Next]_vars => (EndLeft \in Nat)'
<1>1. WatchInv => EndLeft \in Nat
  BY EndLeftTyped
<1>2. WatchInv /\ [Next]_vars => WatchInv'
  BY NextWatchInv
<1> QED
  BY <1>1, <1>2, PTL

LEMMA NextLowers == WatchInv /\ Attended /\ [Next]_vars => [EndLowers]_vars
<1> SUFFICES ASSUME WatchInv, Attended, Next PROVE EndLowers
  BY DEF vars
<1>0. ThreadInv /\ PlaceInv /\ WatchLeft \in Nat /\ DrainLeft \in Nat
  BY EndLeftTyped DEF WatchInv, ControlInv
<1>1. clock \in Nat /\ clock <= BeatMax /\ BeatMax \in Nat
  BY HeartbeatAssumption DEF WatchInv, StallInv, ClockInv, LimitInv
\* The watchdog's steps.
<1>2. ASSUME Watchdog
      PROVE  EndLeft' < EndLeft
  <2>1. ASSUME WatchLeft' < WatchLeft, WatchLeft' \in Nat, pc' = pc
        PROVE  EndLeft' < EndLeft
    <3>1. DrainLeft' = DrainLeft
      BY <2>1 DEF DrainLeft
    <3>2. PICK w \in Nat, v \in Nat, d \in Nat :
            w = WatchLeft /\ v = WatchLeft' /\ d = DrainLeft
      BY <1>0, <2>1
    <3>3. v < w
      BY <2>1, <3>2
    <3>4. EndLeft = w + d
      BY <3>2 DEF EndLeft
    <3>5. EndLeft' = v + d
      BY <3>1, <3>2 DEF EndLeft
    <3> QED
      BY <3>3, <3>4, <3>5
  <2>2. CASE Poll
    <3>1. wpc = "watch" /\ clock' = clock + 1 /\ wpc' \in {"watch", "close"} /\ pc' = pc
      BY <2>2 DEF Poll
    <3>2. clock < BeatMax
      BY <3>1 DEF WatchInv, StallInv, LimitInv
    <3> QED
      BY <1>1, <2>1, <3>1, <3>2 DEF WatchLeft
  <2>3. CASE WatchdogReturns
    <3>1. wpc = "watch" /\ wpc' = "off" /\ pc' = pc
      BY <2>3 DEF WatchdogReturns
    <3> QED
      BY <1>1, <2>1, <3>1 DEF WatchLeft
  <2>4. CASE WatchdogCloses \/ WatchdogJournals \/ WatchdogAlarms
    <3>1. pc' = pc /\ WatchLeft' < WatchLeft /\ WatchLeft' \in Nat
      BY <2>4 DEF WatchdogCloses, WatchdogJournals, WatchdogAlarms, WatchLeft
    <3> QED
      BY <2>1, <3>1
  <2>5. CASE WatchdogExits
    <3>1. WatchLeft = 1 /\ WatchLeft' = 0 /\ DrainLeft' = 0
      BY <2>5 DEF WatchdogExits, WatchLeft, DrainLeft
    <3> QED
      BY <1>0, <3>1 DEF EndLeft
  <2> QED
    BY <1>2, <2>2, <2>3, <2>4, <2>5 DEF Watchdog
<1>3. ASSUME WriteJournal \/ Exit
      PROVE  EndLeft' < EndLeft
  <2>1. CASE WriteJournal
    <3>1. DrainLeft = 2 /\ DrainLeft' = 1 /\ UNCHANGED <<wpc, clock>>
      BY <2>1 DEF WriteJournal, DrainLeft, stall
    <3>2. WatchLeft' = WatchLeft
      BY <3>1 DEF WatchLeft
    <3> QED
      BY <1>0, <3>1, <3>2 DEF EndLeft
  <2>2. CASE Exit
    <3>1. DrainLeft = 1 /\ DrainLeft' = 0 /\ WatchLeft' = 0
      BY <2>2 DEF Exit, DrainLeft, WatchLeft
    <3> QED
      BY <1>0, <3>1 DEF EndLeft
  <2> QED
    BY <1>3, <2>1, <2>2
\* Everything else.
<1>4. ASSUME pc \notin {"off", "preflight"}
      PROVE  EndLeft' <= EndLeft
  <2>1. ASSUME WatchLeft' = WatchLeft \/ WatchLeft' = 0,
               DrainLeft' \in Nat, DrainLeft' <= DrainLeft
        PROVE  EndLeft' <= EndLeft
    BY <1>0, <2>1 DEF EndLeft
  <2>2. CASE CyclesReturn \/ Report \/ Teardown \/ Disarm \/ Build \/ StartCycle
             \/ EndCycle \/ CyclesRaise \/ Compute \/ WriteState
    <3>1. pc \notin {"off", "drain", "review"} /\ UNCHANGED <<wpc, clock>>
      BY <2>2 DEF CyclesReturn, Report, Teardown, Disarm, Build, StartCycle, EndCycle,
         CyclesRaise, Compute, WriteState, stall
    <3>2. WatchLeft' = WatchLeft
      BY <3>1 DEF WatchLeft
    <3>3. DrainLeft = 3 /\ DrainLeft' \in 0..3
      BY <3>1 DEF DrainLeft
    <3> QED
      BY <2>1, <3>2, <3>3
  <2>3. CASE BuildRaises \/ Crash
    <3>1. WatchLeft' = 0 /\ DrainLeft' = 0
      BY <2>3 DEF BuildRaises, Crash, WatchLeft, DrainLeft
    <3> QED
      BY <1>0, <2>1, <3>1
  <2>4. CASE Watchdog \/ WriteJournal \/ Exit
    <3>1. EndLeft' < EndLeft /\ EndLeft \in Nat
      BY <1>2, <1>3, <2>4, EndLeftTyped
    <3>2. EndLeft' \in Nat
      BY NextEndLeft
    <3> QED
      BY <3>1, <3>2
  <2> QED
    BY <1>4, <2>2, <2>3, <2>4
    DEF Next, Launch, SkipNight, BoundedMain, PreflightAborts, ArmWatchdog, Beat
<1> QED
  BY <1>2, <1>3, <1>4 DEF EndLowers

\* However long the beat, the window and the main thread: a hung beat comes to its
\* end within the watchdog's limit, and not without an entry.
THEOREM HungBeatsAreBounded == Spec => HungBeatIsBounded
<1>1. Init => Attended /\ EndsJournaled
  BY DEF Init, Attended, EndsJournaled
<1>2. WatchInv /\ Attended /\ [Next]_vars => Attended'
  BY AttendedKept
<1>3. IInv /\ WatchInv /\ EndsJournaled /\ [Next]_vars => EndsJournaled'
  BY EndsJournaledKept
<1>4. WatchInv => EndLeft \in Nat /\ EndLeft <= BeatMax + 8
  BY EndLeftTyped
<1>5. WatchInv /\ Attended /\ [Next]_vars => [EndLowers]_vars
  BY NextLowers
<1> QED
  BY <1>1, <1>2, <1>3, <1>4, <1>5, InvariantHolds, WatchInvariantHolds, PTL
  DEF Spec, HungBeatIsBounded
================================================================================
