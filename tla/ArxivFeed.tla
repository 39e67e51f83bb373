------------------------------ MODULE ArxivFeed ------------------------------
(***************************************************************************)
(* The nightly arXiv sweep (leibniz/arxiv_feed.py, ADR 0069 and ADR 0091): *)
(* page through the newest submissions until they run out of the window,   *)
(* append the hits to amplification_queue.jsonl, then save the set of ids  *)
(* that were seen.                                                         *)
(*                                                                         *)
(* Papers are numbered as they are submitted, so a number is at once the   *)
(* arXiv id, its place in the seen set's sort and its place in a listing,  *)
(* and time is counted in nights.  What a score is made of is left out:    *)
(* Cored are the papers that reach QUEUE_THRESHOLD.                        *)
(***************************************************************************)
EXTENDS Integers, FiniteSets, Sequences, FiniteSetsExt, SequencesExt

CONSTANTS
  Papers,    \* bound: 1 .. n, in order of submission
  Cored,     \* papers whose abstract shows a finite core
  Window,    \* days
  PageSize,  \* page_size
  MaxPages,  \* max_pages
  SeenCap,   \* _SEEN_CAP
  Corrupt    \* content of a file no JSON parser accepts

ASSUME ArxivFeedAssumption ==
  /\ IsFiniteSet(Papers) /\ Papers = 1 .. Cardinality(Papers) /\ Cored \subseteq Papers
  /\ Window \in Nat /\ PageSize \in Nat \ {0} /\ MaxPages \in Nat \ {0}
  /\ SeenCap \in Nat \ {0}
  /\ \A s \in SUBSET Papers : s # Corrupt

VARIABLES
  arrived,   \* arXiv: number of papers submitted
  published, \* arXiv: the night each was submitted
  feedpc,    \* next statement of run_feed; "idle": not running
  pageno,    \* pages requested by this sweep
  fresh,     \* entries inside the window, in the order they were read
  truncated, \* the sweep's flag
  known,     \* update_queue's seen set in memory
  pending,   \* hits still to be written
  queue,     \* amplification_queue.jsonl
  torn,      \* its last line has no newline
  seen,      \* seen_arxiv.json
  blank      \* history: a page of this sweep came back empty too soon

arxiv == <<arrived, published>>
sweep == <<pageno, fresh, truncated, blank>>
feedfiles == <<queue, torn, seen>>
feedVars == <<arxiv, feedpc, sweep, known, pending, feedfiles>>

FeedPcs == {"idle", "fetch", "update", "append", "empty", "save", "done"}

Line(p, readable) == [paper |-> p, readable |-> readable]

Newer(ps, p) == {q \in ps : q > p}

NewestFirst(ps) ==
  [i \in 1 .. Cardinality(ps) |->
     CHOOSE p \in ps : Cardinality(Newer(ps, p)) = i - 1]

Lines(p) == {i \in DOMAIN queue : queue[i].paper = p}

\* A reader of the queue meets the paper: the lines json.loads refuses are skipped.
Readable(p) == \E i \in Lines(p) : queue[i].readable

FeedTypeOK ==
  /\ arrived \in 0 .. Cardinality(Papers) /\ published \in [Papers -> Nat]
  /\ feedpc \in FeedPcs /\ pageno \in 0 .. MaxPages
  /\ fresh \in Seq(Papers) /\ pending \in Seq(Papers) /\ known \subseteq Papers
  /\ truncated \in BOOLEAN /\ torn \in BOOLEAN /\ blank \in BOOLEAN
  /\ queue \in Seq([paper : Papers, readable : BOOLEAN])
  /\ seen = Corrupt \/ seen \subseteq Papers

FeedInit ==
  /\ arrived = 0 /\ published = [p \in Papers |-> 0]
  /\ feedpc = "idle" /\ pageno = 0 /\ fresh = <<>> /\ truncated = FALSE
  /\ blank = FALSE /\ known = {} /\ pending = <<>>
  /\ queue = <<>> /\ torn = FALSE /\ seen = Corrupt

----------------------------------------------------------------------------
\* arXiv announces one more paper; a sweep may be going on.
Submit(night) ==
  /\ arrived < Cardinality(Papers)
  /\ arrived' = arrived + 1
  /\ published' = [published EXCEPT ![arrived'] = night]
  /\ UNCHANGED <<feedpc, sweep, known, pending, feedfiles>>

StartSweep ==
  /\ feedpc = "idle"
  /\ feedpc' = "fetch" /\ pageno' = 0 /\ fresh' = <<>> /\ truncated' = FALSE
  /\ blank' = FALSE
  /\ UNCHANGED <<arxiv, known, pending, feedfiles>>

\* Entries start .. start + max_results of the listing, newest first.
Page(k) == {p \in 1 .. arrived : arrived - p \in k * PageSize .. (k + 1) * PageSize - 1}

InWindow(p, night) == published[p] >= night - Window

\* Mutant: a sweep that runs out of pages ends like one that covered the window.
NeverTruncated(page, recent) == FALSE

\* The page is the last one allowed and nothing on it was stale or missing.
RanOutOfPages(page, recent) ==
  /\ pageno + 1 = MaxPages
  /\ page = recent /\ Cardinality(page) = PageSize

\* Mutant of AnotherPage: one page too many.
AnotherPageInclusive(page, recent) ==
  page = recent /\ Cardinality(page) = PageSize /\ pageno + 1 <= MaxPages

\* Full, nothing on it stale, and another one allowed.
AnotherPage(page, recent) ==
  page = recent /\ Cardinality(page) = PageSize /\ pageno + 1 < MaxPages

\* One request of fetch_recent_detail.
FetchPage(night) ==
  LET page == Page(pageno)
      recent == {p \in page : InWindow(p, night)}
  IN /\ feedpc = "fetch"
     /\ pageno' = pageno + 1
     /\ fresh' = fresh \o NewestFirst(recent)
     /\ truncated' = RanOutOfPages(page, recent)
     /\ feedpc' = IF AnotherPage(page, recent) THEN "fetch" ELSE "update"
     /\ UNCHANGED <<arxiv, blank, known, pending, feedfiles>>

\* A page whose body is no Atom feed, or an empty one: parse_atom returns no
\* entries and the loop takes the feed for exhausted.
FetchBlank ==
  /\ feedpc = "fetch" /\ Page(pageno) # {}
  /\ pageno' = pageno + 1 /\ blank' = TRUE
  /\ feedpc' = "update"
  /\ UNCHANGED <<arxiv, fresh, truncated, known, pending, feedfiles>>

----------------------------------------------------------------------------
\* Mutant: an entry that two pages list is tested against the saved set only.
HitsPerEntry(ids) == SelectSeq(fresh, LAMBDA p : p \notin ids /\ p \in Cored)

\* The hits no earlier sweep saw, each once, in the order they were read.
Hits(ids) == NewestFirst((ToSet(fresh) \ ids) \cap Cored)

AfterHits(rest) == IF rest = <<>> THEN "empty" ELSE "append"

Largest(ids) == {p \in ids : Cardinality(Newer(ids, p)) < SeenCap}

\* Mutant: the seen set is saved before the hits are appended.
UpdateSavesFirst ==
  LET ids == IF seen = Corrupt THEN {} ELSE seen
  IN /\ feedpc = "update"
     /\ known' = ids \cup ToSet(fresh)
     /\ pending' = Hits(ids)
     /\ feedpc' = AfterHits(pending')
     /\ seen' = Largest(known')
     /\ UNCHANGED <<arxiv, sweep, queue, torn>>

UpdateQueue ==
  LET ids == IF seen = Corrupt THEN {} ELSE seen
  IN /\ feedpc = "update"
     /\ known' = ids \cup ToSet(fresh)
     /\ pending' = Hits(ids)
     /\ feedpc' = AfterHits(pending')
     /\ UNCHANGED <<arxiv, sweep, feedfiles>>

\* A line written behind one without a newline is one line with it, and
\* json.loads refuses the two together.
Appended(lines, p, cut) ==
  Append(IF torn THEN [lines EXCEPT ![Len(lines)].readable = FALSE] ELSE lines,
         Line(p, ~torn /\ ~cut))

\* Mutant of AppendLine: the newline is forgotten.
AppendUnterminated ==
  /\ feedpc = "append"
  /\ queue' = Appended(queue, Head(pending), FALSE) /\ torn' = TRUE
  /\ pending' = Tail(pending) /\ feedpc' = AfterHits(pending')
  /\ UNCHANGED <<arxiv, sweep, known, seen>>

AppendLine ==
  /\ feedpc = "append"
  /\ queue' = Appended(queue, Head(pending), FALSE) /\ torn' = FALSE
  /\ pending' = Tail(pending) /\ feedpc' = AfterHits(pending')
  /\ UNCHANGED <<arxiv, sweep, known, seen>>

\* write_text opens the file, which empties it, and then writes.
EmptySeen ==
  /\ feedpc = "empty"
  /\ seen' = Corrupt /\ feedpc' = "save"
  /\ UNCHANGED <<arxiv, sweep, known, pending, queue, torn>>

SaveSeen ==
  /\ feedpc = "save"
  /\ seen' = Largest(known) /\ feedpc' = "done"
  /\ UNCHANGED <<arxiv, sweep, known, pending, queue, torn>>

\* run_feed's locals go with it; its flags are in the entry.
Return ==
  /\ feedpc' = "idle" /\ pageno' = 0
  /\ fresh' = <<>> /\ known' = {} /\ pending' = <<>>

EndSweep ==
  /\ feedpc = "done" /\ Return
  /\ UNCHANGED <<arxiv, truncated, blank, feedfiles>>

\* run_feed stops where it is, by an exception or because the process is
\* killed: a line being written may be cut short, or miss only its newline.
Interrupt ==
  /\ feedpc # "idle" /\ Return
  /\ \/ UNCHANGED <<queue, torn>>
     \/ /\ feedpc = "append"
        /\ \E cut \in BOOLEAN : queue' = Appended(queue, Head(pending), cut)
        /\ torn' = TRUE
  /\ truncated' = FALSE /\ blank' = FALSE
  /\ UNCHANGED <<arxiv, seen>>

FeedStep(night) ==
  StartSweep \/ FetchPage(night) \/ UpdateQueue \/ AppendLine \/ EmptySeen
     \/ SaveSeen
=============================================================================
