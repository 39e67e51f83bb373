------------------------------- MODULE Exchange -------------------------------
(***************************************************************************)
(* The outbound folio exchange (leibniz/newton_exchange.py, ADR 0072):     *)
(* export_new writes a folio for every kernel-verified law of the ledger   *)
(* that the manifest does not list, and the manifest once, at the end.  A  *)
(* law whose folio is refused is only counted, and tried again by the next *)
(* export.                                                                 *)
(***************************************************************************)
EXTENDS Sequences, FiniteSets

CONSTANTS
  Laws,        \* bound: the laws a prod ledger may come to hold
  Unrenderable, \* laws whose folio is refused: law_folio returns None
  Spoilt       \* content of a file no JSON parser accepts

ASSUME ExchangeAssumption ==
  Unrenderable \subseteq Laws /\ \A s \in SUBSET Laws : s # Spoilt

VARIABLES
  laws,     \* the ledger's promulgated, kernel-verified rows, by rowid
  exportpc, \* next statement of export_new; "idle": not running
  rows,     \* rows of the query still to be looked at
  manifest, \* the manifest in memory
  folios,   \* the exchange directory: state of each law's folio
  listed    \* manifest.json

exportRun == <<rows, manifest>>
exportFiles == <<folios, listed>>
exportVars == <<laws, exportpc, exportRun, exportFiles>>

ExchangeTypeOK ==
  /\ laws \in Seq(Laws) /\ rows \in Seq(Laws)
  /\ exportpc \in {"idle", "query", "rows", "write", "empty", "save", "done"}
  /\ manifest \subseteq Laws
  /\ folios \in [Laws -> {"none", "part", "whole"}]
  /\ listed = Spoilt \/ listed \subseteq Laws

ExchangeInit ==
  /\ laws = <<>> /\ exportpc = "idle" /\ rows = <<>>
  /\ manifest = {}
  /\ folios = [l \in Laws |-> "none"] /\ listed = Spoilt

----------------------------------------------------------------------------
\* The daemon remembers a law, this process's or another's.
Promulgate ==
  /\ \E l \in Laws : /\ \A i \in DOMAIN laws : laws[i] # l
                     /\ laws' = Append(laws, l)
  /\ UNCHANGED <<exportpc, exportRun, exportFiles>>

\* Mutant: a manifest that cannot be read stops the export.
ReadManifestOrStop ==
  /\ exportpc = "idle" /\ exportpc' = IF listed = Spoilt THEN "done" ELSE "query"
  /\ manifest' = IF listed = Spoilt THEN {} ELSE listed
  /\ UNCHANGED <<laws, rows, exportFiles>>

ReadManifest ==
  /\ exportpc = "idle" /\ exportpc' = "query"
  /\ manifest' = IF listed = Spoilt THEN {} ELSE listed
  /\ UNCHANGED <<laws, rows, exportFiles>>

Query ==
  /\ exportpc = "query" /\ exportpc' = "rows"
  /\ rows' = laws
  /\ UNCHANGED <<laws, manifest, exportFiles>>

\* The ledger is locked or missing: the export goes on without a row.
QueryFails ==
  /\ exportpc = "query" /\ exportpc' = "rows"
  /\ rows' = <<>>
  /\ UNCHANGED <<laws, manifest, exportFiles>>

\* The row of a law that is listed or whose folio is refused.
PassOver ==
  /\ exportpc = "rows" /\ rows # <<>>
  /\ Head(rows) \in manifest \cup Unrenderable
  /\ rows' = Tail(rows)
  /\ UNCHANGED <<laws, exportpc, manifest, exportFiles>>

\* Mutant: the manifest is saved law by law, before the folio.
OpenListedFolio ==
  /\ exportpc = "rows" /\ rows # <<>>
  /\ Head(rows) \notin manifest \cup Unrenderable
  /\ folios' = [folios EXCEPT ![Head(rows)] = "part"]
  /\ exportpc' = "write" /\ listed' = manifest \cup {Head(rows)}
  /\ UNCHANGED <<laws, exportRun>>

\* write_text opens the folio, which empties it, and then writes.
OpenFolio ==
  /\ exportpc = "rows" /\ rows # <<>>
  /\ Head(rows) \notin manifest \cup Unrenderable
  /\ folios' = [folios EXCEPT ![Head(rows)] = "part"]
  /\ exportpc' = "write"
  /\ UNCHANGED <<laws, exportRun, listed>>

WriteFolio ==
  /\ exportpc = "write" /\ exportpc' = "rows"
  /\ folios' = [folios EXCEPT ![Head(rows)] = "whole"]
  /\ manifest' = manifest \cup {Head(rows)} /\ rows' = Tail(rows)
  /\ UNCHANGED <<laws, listed>>

EmptyManifest ==
  /\ exportpc = "rows" /\ rows = <<>>
  /\ listed' = Spoilt /\ exportpc' = "save"
  /\ UNCHANGED <<laws, exportRun, folios>>

SaveManifest ==
  /\ exportpc = "save" /\ exportpc' = "done"
  /\ listed' = manifest
  /\ UNCHANGED <<laws, exportRun, folios>>

Leave == exportpc' = "idle" /\ rows' = <<>> /\ manifest' = {}

EndExport ==
  /\ exportpc = "done" /\ Leave
  /\ UNCHANGED <<laws, exportFiles>>

\* export_new stops where it is: an exception, or the process is killed.
Abort ==
  /\ exportpc # "idle" /\ Leave
  /\ UNCHANGED <<laws, exportFiles>>

ExportStep ==
  ReadManifest \/ Query \/ PassOver \/ OpenFolio \/ WriteFolio \/ EmptyManifest
    \/ SaveManifest
=============================================================================
