----------------------------- MODULE Housekeeping -----------------------------
(***************************************************************************)
(* What the nightly beat does once its cycles are over and its watchdog is *)
(* disarmed (scripts/heartbeat.py, main): the arXiv sweep, the folio       *)
(* export, the journal entry.  An exception of the sweep or the export is  *)
(* a note in the entry and the beat goes on; a process that is killed      *)
(* leaves the files as they are and no entry.                              *)
(***************************************************************************)
EXTENDS ArxivFeed, Exchange

CONSTANTS
  MaxNights, \* bound: nights after which the calendar stands still
  MaxFaults  \* bound: blank pages, failed queries, exceptions and kills

ASSUME HousekeepingAssumption ==
  /\ MaxNights \in Nat /\ MaxFaults \in Nat
  /\ SeenCap >= MaxPages * PageSize

VARIABLES
  night,    \* the beat's date
  stage,    \* what main is doing
  note,     \* entry["arxiv_feed"]
  due,      \* history: papers of the window when the sweep began
  vouched,  \* history: papers due in a sweep whose entry reports no gap, no page blank
  faults,   \* those so far
  halted    \* history: sweeps stopped between a first hit and the saved set

beatVars == <<night, stage, note, due, vouched, faults, halted>>
vars == <<feedVars, exportVars, beatVars>>

TypeOK ==
  /\ FeedTypeOK /\ ExchangeTypeOK
  /\ night \in 0 .. MaxNights /\ stage \in {"off", "feed", "export", "journal"}
  /\ note \in {"none", "full", "truncated", "error"}
  /\ due \subseteq Papers /\ vouched \subseteq Papers
  /\ faults \in 0 .. MaxFaults /\ halted \in 0 .. MaxFaults
  /\ feedpc # "idle" => stage = "feed"
  /\ exportpc # "idle" => stage = "export"

Init ==
  /\ FeedInit /\ ExchangeInit
  /\ night = 0 /\ stage = "off" /\ note = "none"
  /\ due = {} /\ vouched = {}
  /\ faults = 0 /\ halted = 0

----------------------------------------------------------------------------
\* Only FetchPage reads arXiv, and only Query the ledger: what arrives while
\* neither can is as good as arriving before the next of them.
World ==
  /\ \/ /\ stage = "off" \/ feedpc = "fetch"
        /\ Submit(night) /\ UNCHANGED exportVars
     \/ stage = "off" /\ Promulgate /\ UNCHANGED feedVars
  /\ UNCHANGED beatVars

Beat ==
  /\ stage = "off" /\ stage' = "feed"
  /\ night' = IF night < MaxNights THEN night + 1 ELSE night
  /\ due' = {p \in 1 .. arrived : InWindow(p, night')}
  /\ UNCHANGED <<feedVars, exportVars, note, vouched, faults, halted>>

Feed ==
  /\ stage = "feed" /\ FeedStep(night)
  /\ UNCHANGED <<exportVars, beatVars>>

FeedReturns ==
  /\ stage = "feed" /\ EndSweep
  /\ stage' = "export"
  /\ note' = IF truncated THEN "truncated" ELSE "full"
  /\ UNCHANGED <<exportVars, night, due, vouched, faults, halted>>

Fault ==
  /\ faults < MaxFaults /\ faults' = faults + 1
  /\ halted' = IF feedpc \in {"append", "empty", "save"} THEN halted + 1 ELSE halted

FeedGetsBlank ==
  /\ stage = "feed" /\ FetchBlank /\ Fault
  /\ UNCHANGED <<exportVars, night, stage, note, due, vouched>>

FeedRaises ==
  /\ stage = "feed" /\ Interrupt /\ Fault
  /\ stage' = "export" /\ note' = "error"
  /\ UNCHANGED <<exportVars, night, due, vouched>>

Export ==
  /\ stage = "export" /\ ExportStep
  /\ UNCHANGED <<feedVars, beatVars>>

ExportQueryFails ==
  /\ stage = "export" /\ QueryFails /\ Fault
  /\ UNCHANGED <<feedVars, night, stage, note, due, vouched>>

ExportReturns ==
  /\ stage = "export" /\ EndExport
  /\ stage' = "journal"
  /\ UNCHANGED <<feedVars, night, note, due, vouched, faults, halted>>

ExportRaises ==
  /\ stage = "export" /\ Abort /\ Fault
  /\ stage' = "journal"
  /\ UNCHANGED <<feedVars, night, note, due, vouched>>

WriteJournal ==
  /\ stage = "journal" /\ stage' = "off"
  /\ vouched' = IF note = "full" /\ ~blank THEN vouched \cup due ELSE vouched
  /\ note' = "none" /\ due' = {} /\ truncated' = FALSE /\ blank' = FALSE
  /\ UNCHANGED <<arxiv, feedpc, pageno, fresh, known, pending, feedfiles, exportVars,
                 night, faults, halted>>

\* The process is killed; the watchdog no longer runs.
Kill ==
  /\ stage # "off" /\ Fault
  /\ stage' = "off" /\ note' = "none" /\ due' = {}
  /\ \/ Interrupt
     \/ /\ feedpc = "idle" /\ truncated' = FALSE /\ blank' = FALSE
        /\ UNCHANGED <<arxiv, feedpc, pageno, fresh, known, pending, feedfiles>>
  /\ \/ Abort
     \/ exportpc = "idle" /\ UNCHANGED exportVars
  /\ UNCHANGED <<night, vouched>>

Next ==
  \/ World \/ Beat \/ Feed \/ FeedReturns \/ FeedGetsBlank \/ FeedRaises
  \/ Export \/ ExportQueryFails \/ ExportReturns \/ ExportRaises \/ WriteJournal \/ Kill

Spec == Init /\ [][Next]_vars

\* Nights follow on one another, and every statement of main after the watchdog
\* is disarmed is bounded by a timeout of its own or does no waiting.
FairSpec ==
  Spec /\ WF_vars(Beat \/ Feed \/ FeedReturns \/ Export \/ ExportReturns \/ WriteJournal)

----------------------------------------------------------------------------
\* A hit is queued again only by a sweep that was stopped after it wrote a hit
\* and before it saved what it had seen: two pages that list one paper, a paper
\* two windows share, or a capped seen set never queue it twice (update_queue).
CopiesBounded == \A p \in Papers : Cardinality(Lines(p)) <= 1 + halted

\* When the entry of a beat reports a sweep without a gap, and no page came back
\* blank, every paper with a finite core that was in its window has been written to
\* the queue, and can be read back, whichever sweeps were stopped at whichever
\* statement: but for at most one paper for each sweep that was stopped, the one
\* whose line went behind a torn one.  That paper is seen, so it stays lost
\* (fetch_recent_detail, update_queue, _render_md).
ReportedHitsAreReadable ==
  /\ \A p \in vouched \cap Cored : Lines(p) # {}
  /\ Cardinality({p \in vouched \cap Cored : ~Readable(p)}) <= halted

\* The manifest lists no law whose folio is missing or half written, at any
\* statement an export may be stopped at (export_new).
ListedFoliosAreWhole == listed = Spoilt \/ \A l \in listed : folios[l] = "whole"

\* Every law of the ledger that can be rendered ends up listed with its whole
\* folio, through a spoilt manifest, failed queries, exceptions and kills.
EveryLawIsExported ==
  \A l \in Laws \ Unrenderable :
    l \in ToSet(laws) ~> folios[l] = "whole" /\ listed # Spoilt /\ l \in listed
=============================================================================
