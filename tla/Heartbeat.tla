------------------------------ MODULE Heartbeat ------------------------------
(***************************************************************************)
(* The nightly beat (scripts/heartbeat.py): launch, stale-journal check,   *)
(* preflight, the cycles of the daemon, teardown, journal, exit; and the   *)
(* watchdog thread (ADR 0092, ADR 0094) that may close the Lean backends,  *)
(* journal, alarm and exit the process under the main thread's feet.       *)
(*                                                                         *)
(* Time is counted in polls of the watchdog, nights in beats of the        *)
(* schedule.  Building the daemon and turning a cycle may take forever, or *)
(* raise; every other step of the main thread is bounded by timeouts of    *)
(* its own.  The state directory can be written.                           *)
(***************************************************************************)
EXTENDS StallWatch

CONSTANTS
  Cycles,     \* LEIBNIZ_HEARTBEAT_CYCLES
  BeatMax,    \* BEAT_MAX_S, in polls
  MaxNights,  \* bound: nights
  MaxCrashes  \* bound: times the machine kills the process

ASSUME HeartbeatAssumption ==
  /\ Cycles \in Nat /\ BeatMax \in Nat \ {0}
  /\ MaxNights \in Nat /\ MaxCrashes \in Nat

VARIABLES
  night,   \* nights so far
  launched, \* history: the night of the last launch
  pc,      \* the main thread; "off": no process
  ended,   \* history: how the last process ended
  turned,  \* cycles the daemon turned this beat
  listed,  \* cycles the beat's entry reports
  done,    \* the Event that disarms the watchdog
  wpc,     \* the watchdog thread
  reason,  \* history: why the watchdog kills
  clock,   \* polls since the watchdog was armed
  samples, \* _StallWatch.samples
  cpu,     \* CPU consumed, in polls spent computing
  wrote,   \* the poll during which the state directory was last written
  working, \* the main thread computed since the last poll
  active,  \* history: the last poll the main thread computed or wrote in
  idle,    \* history: the last poll it did not compute in
  journal, \* journal.jsonl
  alarms,  \* nights a stale journal was alarmed
  crashes

nights == <<night, launched, crashes>>
tally == <<turned, listed>>
stall == <<reason, clock, samples, cpu, idle>>
activity == <<wrote, working, active>>
record == <<journal, alarms>>

vars == <<nights, pc, ended, tally, done, wpc, stall, activity, record>>

MainPcs == {"off", "preflight", "build", "cycles", "turning", "report", "teardown",
            "disarm", "drain", "review"}

WatchPcs == {"off", "watch", "close", "journal", "alarm", "exit"}

Entry(kind, t, l) == [night |-> night, kind |-> kind, turned |-> t, listed |-> l]

JournaledOn(n) == \E e \in journal : e.night = n

----------------------------------------------------------------------------
\* Mutant: a night more before the alarm.
StaleLate(n) ==
  /\ journal # {}
  /\ \A e \in journal : n - e.night > 3

\* stale_journal_alarm: the entries are a beat's length younger than the night
\* they belong to, so 48 hours have passed on the third night after.
Stale(n) ==
  /\ journal # {}
  /\ \A e \in journal : n - e.night > 2

Launch ==
  /\ pc = "off" /\ night < MaxNights
  /\ night' = night + 1 /\ launched' = night'
  /\ alarms' = IF Stale(night') THEN alarms \cup {night'} ELSE alarms
  /\ pc' = "preflight" /\ ended' = "running"
  /\ turned' = 0 /\ listed' = 0 /\ done' = FALSE /\ reason' = "none"
  /\ clock' = 0 /\ samples' = <<>> /\ cpu' = 0 /\ wrote' = 0
  /\ working' = FALSE /\ active' = 0 /\ idle' = 0
  /\ UNCHANGED <<crashes, wpc, journal>>

\* The schedule does not fire, or the bootstrap aborts.
SkipNight ==
  /\ pc = "off" /\ night < MaxNights
  /\ night' = night + 1
  /\ UNCHANGED <<launched, crashes, pc, ended, tally, done, wpc, stall, activity,
                 record>>

\* Mutant: main goes on after journaling the abort.
PreflightComplains ==
  /\ pc = "preflight"
  /\ journal' = journal \cup {Entry("aborted", 0, 0)}
  /\ UNCHANGED <<nights, pc, ended, tally, done, wpc, stall, activity, alarms>>

PreflightAborts ==
  /\ pc = "preflight"
  /\ journal' = journal \cup {Entry("aborted", 0, 0)}
  /\ pc' = "off" /\ ended' = "exit"
  /\ UNCHANGED <<nights, tally, done, wpc, stall, activity, alarms>>

ArmWatchdog ==
  /\ pc = "preflight"
  /\ pc' = "build" /\ wpc' = "watch"
  /\ UNCHANGED <<nights, ended, tally, done, stall, activity, record>>

\* build_daemon, load_env or write_provenance, before the beat's try.
Build ==
  /\ pc = "build" /\ pc' = "cycles"
  /\ UNCHANGED <<nights, ended, tally, done, wpc, stall, activity, record>>

BuildRaises ==
  /\ pc = "build"
  /\ pc' = "off" /\ wpc' = "off" /\ ended' = "raised"
  /\ UNCHANGED <<nights, tally, done, stall, activity, record>>

\* run_cycles: the next cycle, unless all were turned or the cap is exhausted.
StartCycle ==
  /\ pc = "cycles" /\ turned < Cycles
  /\ pc' = "turning"
  /\ UNCHANGED <<nights, ended, tally, done, wpc, stall, activity, record>>

EndCycle ==
  /\ pc = "turning"
  /\ turned' = turned + 1
  /\ wrote' = clock + 1 /\ active' = clock + 1
  /\ pc' = "cycles"
  /\ UNCHANGED <<nights, ended, listed, done, wpc, stall, working, record>>

\* The list of reports is returned, or an exception loses it.
CyclesReturn ==
  /\ pc = "cycles" /\ pc' = "report"
  /\ UNCHANGED <<nights, ended, tally, done, wpc, stall, activity, record>>

CyclesRaise ==
  /\ pc = "turning" /\ pc' = "teardown"
  /\ UNCHANGED <<nights, ended, tally, done, wpc, stall, activity, record>>

\* The main thread computes, or a candidate's row is written to the ledger.
Compute ==
  /\ pc \in {"build", "turning"} /\ ~working
  /\ working' = TRUE /\ active' = clock + 1
  /\ UNCHANGED <<nights, pc, ended, tally, done, wpc, stall, wrote, record>>

WriteState ==
  /\ pc = "turning" /\ wrote # clock + 1
  /\ wrote' = clock + 1 /\ active' = clock + 1
  /\ UNCHANGED <<nights, pc, ended, tally, done, wpc, stall, working, record>>

\* Mutant: one report too many.
ReportPastEnd ==
  /\ pc = "report"
  /\ IF listed <= turned
     THEN /\ listed' = listed + 1
          /\ pc' = IF 2 * clock > BeatMax THEN "teardown" ELSE "report"
     ELSE pc' = "teardown" /\ UNCHANGED listed
  /\ UNCHANGED <<nights, ended, turned, done, wpc, stall, activity, record>>

\* One iteration over the reports, with the soft budget at its end.
Report ==
  /\ pc = "report"
  /\ IF listed < turned
     THEN /\ listed' = listed + 1
          /\ pc' = IF 2 * clock > BeatMax THEN "teardown" ELSE "report"
     ELSE pc' = "teardown" /\ UNCHANGED listed
  /\ UNCHANGED <<nights, ended, turned, done, wpc, stall, activity, record>>

\* close_all(), then the end of beat().
Teardown ==
  /\ pc = "teardown" /\ pc' = "disarm"
  /\ UNCHANGED <<nights, ended, tally, done, wpc, stall, activity, record>>

Disarm ==
  /\ pc = "disarm"
  /\ done' = TRUE /\ pc' = "drain"
  /\ UNCHANGED <<nights, ended, tally, wpc, stall, activity, record>>

\* After the drain, the feed and the exchange.
WriteJournal ==
  /\ pc = "drain"
  /\ journal' = journal \cup {Entry("done", turned, listed)}
  /\ pc' = "review"
  /\ UNCHANGED <<nights, ended, tally, done, wpc, stall, activity, alarms>>

\* The review queue, the alarms, and the exit of main, with every daemon thread.
Exit ==
  /\ pc = "review"
  /\ pc' = "off" /\ wpc' = "off" /\ ended' = "exit"
  /\ UNCHANGED <<nights, tally, done, stall, activity, record>>

----------------------------------------------------------------------------
\* One turn of the watchdog's loop.
Poll ==
  /\ wpc = "watch" /\ ~done
  /\ clock' = clock + 1
  /\ cpu' = cpu + IF working THEN 1 ELSE 0
  /\ working' = FALSE
  /\ idle' = IF working THEN idle ELSE clock'
  /\ samples' = Sample(samples, clock', cpu', wrote)
  /\ reason' = IF StallVerdict(samples', clock') = "wedged" THEN "wedged"
               ELSE IF clock' >= BeatMax THEN "timed out" ELSE "none"
  /\ wpc' = IF reason' = "none" THEN "watch" ELSE "close"
  /\ UNCHANGED <<nights, pc, ended, tally, done, wrote, active, record>>

WatchdogReturns ==
  /\ wpc = "watch" /\ done
  /\ wpc' = "off"
  /\ UNCHANGED <<nights, pc, ended, tally, done, stall, activity, record>>

\* Mutant: the watchdog exits without journaling.
WatchdogClosesOnly ==
  /\ wpc = "close" /\ wpc' = "exit"
  /\ UNCHANGED <<nights, pc, ended, tally, done, stall, activity, record>>

WatchdogCloses ==
  /\ wpc = "close" /\ wpc' = "journal"
  /\ UNCHANGED <<nights, pc, ended, tally, done, stall, activity, record>>

\* Mutant: the watchdog waits for the main thread before it journals.
WatchdogWaits ==
  /\ wpc = "journal" /\ done
  /\ journal' = journal \cup {Entry("timed_out", 0, 0)}
  /\ wpc' = "alarm"
  /\ UNCHANGED <<nights, pc, ended, tally, done, stall, activity, alarms>>

WatchdogJournals ==
  /\ wpc = "journal"
  /\ journal' = journal \cup {Entry("timed_out", 0, 0)}
  /\ wpc' = "alarm"
  /\ UNCHANGED <<nights, pc, ended, tally, done, stall, activity, alarms>>

WatchdogAlarms ==
  /\ wpc = "alarm" /\ wpc' = "exit"
  /\ UNCHANGED <<nights, pc, ended, tally, done, stall, activity, record>>

\* os._exit(3), whatever the main thread is at.
WatchdogExits ==
  /\ wpc = "exit"
  /\ pc' = "off" /\ wpc' = "off" /\ ended' = "killed"
  /\ UNCHANGED <<nights, tally, done, stall, activity, record>>

Crash ==
  /\ pc # "off" /\ crashes < MaxCrashes
  /\ crashes' = crashes + 1
  /\ pc' = "off" /\ wpc' = "off" /\ ended' = "crashed"
  /\ UNCHANGED <<night, launched, tally, done, stall, activity, record>>

----------------------------------------------------------------------------
Init ==
  /\ night = 0 /\ launched = 0 /\ pc = "off" /\ wpc = "off" /\ ended = "none"
  /\ turned = 0 /\ listed = 0 /\ done = FALSE /\ reason = "none"
  /\ clock = 0 /\ samples = <<>> /\ cpu = 0 /\ wrote = 0
  /\ working = FALSE /\ active = 0 /\ idle = 0
  /\ journal = {} /\ alarms = {} /\ crashes = 0

BoundedMain ==
  \/ PreflightAborts \/ ArmWatchdog \/ CyclesReturn
  \/ Report \/ Teardown \/ Disarm \/ WriteJournal \/ Exit

Beat ==
  \/ Build \/ BuildRaises \/ StartCycle \/ EndCycle \/ CyclesRaise
  \/ Compute \/ WriteState

Watchdog ==
  \/ Poll \/ WatchdogReturns \/ WatchdogCloses
  \/ WatchdogJournals \/ WatchdogAlarms \/ WatchdogExits

Next == Launch \/ SkipNight \/ BoundedMain \/ Beat \/ Watchdog \/ Crash

\* Both threads are scheduled; what the beat itself does may never end.
Fairness == WF_vars(BoundedMain) /\ WF_vars(Watchdog)

Spec == Init /\ [][Next]_vars /\ Fairness

(***************************************************************************)
(* Properties.                                                             *)
(***************************************************************************)
TypeOK ==
  /\ night \in 0..MaxNights /\ launched \in 0..night /\ crashes \in 0..MaxCrashes
  /\ pc \in MainPcs /\ wpc \in WatchPcs
  /\ ended \in {"none", "running", "exit", "raised", "killed", "crashed"}
  /\ turned \in 0..Cycles /\ listed \in 0..turned
  /\ done \in BOOLEAN /\ working \in BOOLEAN
  /\ reason \in {"none", "wedged", "timed out"}
  /\ clock \in 0..BeatMax /\ cpu \in 0..clock /\ idle \in 0..clock
  /\ wrote \in 0..(clock + 1) /\ active \in 0..(clock + 1)
  /\ Len(samples) <= 2 * WindowS + 1
  /\ alarms \subseteq 1..MaxNights
  /\ \A e \in journal : e.night \in 1..night /\ e.listed <= e.turned

\* A beat that hangs is not silent (ADR 0092): once the watchdog is armed, the
\* night gets a journal entry whatever the main thread does or does not do,
\* unless an exception or the machine ends the process first.
HungBeatIsJournaled ==
  \A n \in 1..MaxNights :
    (night = n /\ wpc = "watch") ~>
      (JournaledOn(n) \/ (night = n /\ ended \in {"raised", "crashed"}))

\* The watchdog "STILL JOURNALS": no process ends by its hand without an entry.
KilledBeatIsJournaled == ended = "killed" => JournaledOn(launched)

\* Wedged is not slow (ADR 0094): the stall detector never condemns a beat
\* whose state moved within nine tenths of a window, nor one that computed in
\* every poll of a window.
WedgedIsNotSlow ==
  [][reason = "none" /\ reason' = "wedged" =>
       /\ 10 * (clock' - wrote) >= 9 * WindowS
       /\ clock' - idle' < WindowS]_vars

\* A beat that neither computed nor wrote for a window, past the floor, is no
\* longer being watched: it has been caught.
QuietBeatIsCaught ==
  wpc = "watch" /\ clock >= FloorS => clock - active <= WindowS

\* Two nights in a row that left no entry, however they came to, are alarmed by
\* the next launch once there is a journal (ADR 0092: "two missed nights is
\* unambiguous").
TwoSilentNightsAreAlarmed ==
  pc = "preflight" /\ (\E e \in journal : e.night < night - 2)
    /\ ~JournaledOn(night - 1) /\ ~JournaledOn(night - 2) => night \in alarms

\* Main thread and watchdog race to journal; a night has two entries only when
\* the watchdog had condemned the beat.
TwinEntriesOnlyWhenCondemned ==
  \A d, e \in journal :
    d.night = e.night /\ d # e => "timed_out" \in {d.kind, e.kind}
=============================================================================
