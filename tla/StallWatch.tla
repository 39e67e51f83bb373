----------------------------- MODULE StallWatch -----------------------------
(***************************************************************************)
(* The stall detector of the heartbeat (scripts/heartbeat.py _StallWatch,  *)
(* ADR 0094): is a beat wedged, judged from samples of the wall clock, the *)
(* CPU time and the newest write to the state directory?  Pure definitions. *)
(***************************************************************************)
EXTENDS Integers, Sequences, FiniteSets

CONSTANTS
  WindowS, \* STALL_WINDOW_S, in polls
  FloorS,  \* STALL_FLOOR_S
  LowNum,  \* STALL_LOW_CPU = LowNum / LowDen, a fraction of one core
  LowDen

ASSUME StallAssumption ==
  /\ WindowS \in Nat \ {0} /\ FloorS \in Nat
  /\ LowNum \in Nat \ {0} /\ LowDen \in Nat /\ LowNum <= LowDen

First(w) == w[1]
Newest(w) == w[Len(w)]

\* The samples taken at c or later.  The clock is monotonic and samples are
\* appended, so they are the last ones.
Since(samples, c) ==
  LET n == Len(samples)
      kept == {i \in 1..n : samples[i].wall >= c}
  IN SubSeq(samples, n - Cardinality(kept) + 1, n)

\* sample(): append, and keep two windows of history.
Sample(samples, wall, cpu, mtime) ==
  Since(Append(samples, [wall |-> wall, cpu |-> cpu, mtime |-> mtime]), wall - 2 * WindowS)

\* Mutant: the window is open at its old end.
OpenWindowOf(samples) == Since(samples, Newest(samples).wall - WindowS + 1)

WindowOf(samples) == Since(samples, Newest(samples).wall - WindowS)

\* There are two samples, and they span nine tenths of a window.
WindowFull(w) ==
  /\ Len(w) >= 2
  /\ 10 * (Newest(w).wall - First(w).wall) >= 9 * WindowS

LowCpu(w) ==
  (Newest(w).cpu - First(w).cpu) * LowDen < LowNum * (Newest(w).wall - First(w).wall)

Progressed(w) == Newest(w).mtime > First(w).mtime

\* Mutant: the CPU alone condemns.
StallByCpu(samples, elapsed) ==
  LET w == WindowOf(samples)
  IN CASE elapsed < FloorS \/ ~WindowFull(w) -> "unknown"
       [] elapsed >= FloorS /\ WindowFull(w) -> IF LowCpu(w) THEN "wedged" ELSE "alive"

StallVerdict(samples, elapsed) ==
  LET w == WindowOf(samples)
  IN CASE elapsed < FloorS \/ ~WindowFull(w) -> "unknown"
       [] elapsed >= FloorS /\ WindowFull(w) ->
            IF LowCpu(w) /\ ~Progressed(w) THEN "wedged" ELSE "alive"
=============================================================================
