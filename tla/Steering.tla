------------------------------- MODULE Steering -------------------------------
(***************************************************************************)
(* What the daemon learns from one night to the next (leibniz/daemon.py,   *)
(* run_cycles and _settle): the difficulty band and the notebook, read     *)
(* when it is built, told every outcome, and each written in place at the  *)
(* end of every cycle, the band first.  A beat that is killed leaves the   *)
(* two files as they are.                                                  *)
(***************************************************************************)
EXTENDS Frontier, Notebook

CONSTANTS
  CycleSeeds, \* bound: seeds of a cycle
  Cycles,     \* cycles of a beat
  Garbled     \* content of a file no JSON parser accepts

ASSUME SteeringAssumption ==
  CycleSeeds \in Nat /\ Cycles \in Nat /\ Garbled \notin Bands \cup Books

VARIABLES
  stage,    \* what run_cycles is doing; "off": no process
  turned,   \* cycles turned
  left,     \* seeds of this cycle still to run
  band,     \* the frontier in memory
  book,     \* the notebook in memory
  bandfile, \* frontier.json
  bookfile, \* notebook.json
  stuck,    \* history: updates in a row that left a saturated band where it was
  proved,   \* history: families with a proof
  unsaved,  \* history: those with one since the notebook was last saved
  lost      \* history: those whose proofs a killed beat took with it

process == <<stage, turned, left>>
memory == <<band, book>>
files == <<bandfile, bookfile>>
history == <<stuck, proved, unsaved, lost>>
vars == <<process, memory, files, history>>

Stages == {"off", "cycles", "seeds", "open band", "write band", "open book", "write book"}

TypeOK ==
  /\ stage \in Stages /\ turned \in 0 .. Cycles /\ left \in 0 .. CycleSeeds
  /\ band \in Bands /\ bandfile \in Bands \cup {Garbled}
  /\ book \in Books /\ bookfile \in Books \cup {Garbled}
  /\ stuck \in Nat
  /\ proved \subseteq Families /\ unsaved \subseteq proved /\ lost \subseteq proved

Init ==
  /\ stage = "off" /\ turned = 0 /\ left = 0
  /\ band = FreshBand /\ book = FreshBook
  /\ bandfile = Garbled /\ bookfile = Garbled
  /\ stuck = 0 /\ proved = {} /\ unsaved = {} /\ lost = {}

----------------------------------------------------------------------------
\* build_daemon loads both; a missing or spoilt file makes a fresh start.
BuildDaemon ==
  /\ stage = "off" /\ stage' = "cycles" /\ turned' = 0
  /\ band' = IF bandfile = Garbled THEN FreshBand ELSE bandfile
  /\ book' = IF bookfile = Garbled THEN FreshBook ELSE bookfile
  /\ UNCHANGED <<left, files, history>>

StartCycle ==
  /\ stage = "cycles" /\ turned < Cycles
  /\ stage' = "seeds" /\ left' \in 0 .. CycleSeeds
  /\ UNCHANGED <<turned, memory, files, history>>

\* A settled candidate.  Over the trust budget or revalidated away, it is still
\* proved; known and trivial are dry; every other end teaches nothing of a family.
SettleSeed ==
  /\ stage = "seeds" /\ left > 0 /\ left' = left - 1
  /\ \E outcome \in {"proved", "dry", "other"}, f \in Families \cup {NoFamily} :
       /\ band' = Recorded(band, outcome = "proved")
       /\ book' = Noted(book, f, outcome)
       /\ LET won == IF outcome = "proved" THEN {f} \cap Families ELSE {}
          IN /\ proved' = proved \cup won /\ unsaved' = unsaved \cup won
             /\ lost' = lost \ won
  /\ UNCHANGED <<stage, turned, files, stuck>>

\* An errored seed is skipped before it teaches anything.
SeedErrored ==
  /\ stage = "seeds" /\ left > 0 /\ left' = left - 1
  /\ UNCHANGED <<stage, turned, memory, files, history>>

\* For history: the next target in the direction of the correction is out of range.
PushedOut(b) ==
  \E d \in {-1, 1} : d * Err(b) < 0 /\ b.target + d \notin Floor .. Ceil

Update ==
  /\ stage = "seeds" /\ left = 0
  /\ band' = Retuned(band)
  /\ stuck' = IF ~Ready(band) THEN stuck
              ELSE IF PushedOut(band) /\ band'.target = band.target THEN stuck + 1 ELSE 0
  /\ stage' = "open band"
  /\ UNCHANGED <<turned, left, book, files, proved, unsaved, lost>>

\* write_text opens the file, which empties it, and then writes.
OpenBand ==
  /\ stage = "open band" /\ stage' = "write band"
  /\ bandfile' = Garbled
  /\ UNCHANGED <<turned, left, memory, bookfile, history>>

\* Mutant: the saved state lacks the pin count.
WriteBandUnpinned ==
  /\ stage = "write band" /\ stage' = "open book"
  /\ bandfile' = [band EXCEPT !.pinned = 0]
  /\ UNCHANGED <<turned, left, memory, bookfile, history>>

WriteBand ==
  /\ stage = "write band" /\ stage' = "open book"
  /\ bandfile' = band
  /\ UNCHANGED <<turned, left, memory, bookfile, history>>

OpenBook ==
  /\ stage = "open book" /\ stage' = "write book"
  /\ bookfile' = Garbled
  /\ UNCHANGED <<turned, left, memory, bandfile, history>>

\* Mutant: the histogram of proofs is not saved.
WriteBookUncounted ==
  /\ stage = "write book" /\ stage' = "cycles" /\ turned' = turned + 1
  /\ bookfile' = [book EXCEPT !.counts = FreshBook.counts] /\ unsaved' = {}
  /\ UNCHANGED <<left, memory, bandfile, stuck, proved, lost>>

WriteBook ==
  /\ stage = "write book" /\ stage' = "cycles" /\ turned' = turned + 1
  /\ bookfile' = book /\ unsaved' = {}
  /\ UNCHANGED <<left, memory, bandfile, stuck, proved, lost>>

\* Nothing outlives the process but the files.
Ends ==
  /\ stage' = "off" /\ turned' = 0 /\ left' = 0
  /\ band' = FreshBand /\ book' = FreshBook

\* Every cycle was turned, or the cost cap stops the next one.
EndBeat ==
  /\ stage = "cycles" /\ Ends
  /\ UNCHANGED <<files, history>>

\* The watchdog or the machine ends the process, or a write raises.
Kill ==
  /\ stage # "off" /\ Ends
  /\ stuck' = IF stage \in {"open band", "write band"} THEN 0 ELSE stuck
  /\ lost' = IF bookfile = Garbled THEN proved ELSE lost \cup unsaved
  /\ unsaved' = {}
  /\ UNCHANGED <<files, proved>>

Next ==
  \/ BuildDaemon \/ StartCycle \/ SettleSeed \/ SeedErrored \/ Update
  \/ OpenBand \/ WriteBand \/ OpenBook \/ WriteBook \/ EndBeat \/ Kill

Spec == Init /\ [][Next]_vars

----------------------------------------------------------------------------
\* A band held at a bound by a correction that points past it is let go by the
\* PinLimit-th update in a row, however many beats these take, unless a kill
\* between an update and its save took the count (FrontierController.update).
SaturationIsBrief == stuck < PinLimit

\* The prompt calls a family dry ground only if no proof of it is known: of those
\* on record in this beat or in an earlier one only a killed beat loses any.  And
\* no family is both exhausted and dry (_note_family, _note_dry_family, to_dict).
DryGroundUnproven ==
  \A f \in book.dry : f \notin book.genre /\ f \notin proved \ lost
=============================================================================
