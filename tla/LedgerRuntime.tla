---------------------------- MODULE LedgerRuntime ----------------------------
(***************************************************************************)
(* The runtime database shared by daemon processes                         *)
(* (leibniz/runtime.py PersistentRuntime): a lazily opened SQLite          *)
(* connection, an idempotent migration, the write barrier of ADR 0033 that *)
(* refuses a ledger another instance owns, and remember / recall_recent.   *)
(* Inside a process the runtime's lock serializes the calls; across        *)
(* processes every SQLite statement is a step, and may raise because       *)
(* another process holds the file.                                         *)
(***************************************************************************)
EXTENDS Naturals, FiniteSets

CONSTANTS
  Procs,       \* processes holding a PersistentRuntime on this file
  Instances,   \* prod, uat, dev
  InstanceOf,  \* process -> LEIBNIZ_INSTANCE it was started with
  Legacy,      \* the instance tag of untagged rows (NULL)
  Pids         \* candidate identities (uuid4)

ASSUME LedgerAssumption ==
  /\ Legacy \notin Instances
  /\ InstanceOf \in [Procs -> Instances]

VARIABLES
  pc,       \* p's place in remember / recall_recent / _db
  row,      \* the row p's remember is writing; {} for recall_recent
  conn,     \* p's _conn is not None
  migrated, \* the table exists with every column
  rows,     \* the committed table
  txn,      \* p's uncommitted inserts
  checked,  \* history: p's connection went through the barrier
  claimed,  \* history: the owners of the ledger when p connected
  acked     \* history: rows whose remember returned

vars == <<pc, row, conn, migrated, rows, txn, checked, claimed, acked>>

\* A row carries, as history, what was known of the connection it came through.
Row == [pid: Pids, instance: Instances \cup {Legacy}, checked: BOOLEAN,
        claimed: SUBSET Instances]

Pcs == {"down", "idle", "connect", "schema", "alter", "barrier", "insert",
        "commit", "select"}

\* Mutant: untagged rows count as an owner's.
OwnersAndLegacy(rs) == {r.instance : r \in rs}

Owners(rs) == {r.instance : r \in rs} \ {Legacy}

\* Mutant: an instance that has written counts as the only owner.
OthersUnlessOwner(p, rs) == IF InstanceOf[p] \in Owners(rs) THEN {} ELSE Owners(rs)

Others(p, rs) == Owners(rs) \ {InstanceOf[p]}

\* SQLite's write lock: held by the process with a transaction in progress.
Locked(p) == \E q \in Procs \ {p} : txn[q] # {}

Taken == {r.pid : r \in rows \cup acked
                        \cup UNION {txn[p] \cup row[p] : p \in Procs}}

(***************************************************************************)
(* A process starts, and exits at any moment: SQLite rolls its             *)
(* transaction back.                                                       *)
(***************************************************************************)
Start(p) ==
  /\ pc[p] = "down"
  /\ pc' = [pc EXCEPT ![p] = "idle"]
  /\ UNCHANGED <<row, conn, migrated, rows, txn, checked, claimed, acked>>

Disconnect(p) ==
  /\ conn' = [conn EXCEPT ![p] = FALSE]
  /\ checked' = [checked EXCEPT ![p] = FALSE]
  /\ claimed' = [claimed EXCEPT ![p] = {}]
  /\ txn' = [txn EXCEPT ![p] = {}]

Crash(p) ==
  /\ pc[p] # "down"
  /\ pc' = [pc EXCEPT ![p] = "down"]
  /\ row' = [row EXCEPT ![p] = {}]
  /\ Disconnect(p)
  /\ UNCHANGED <<migrated, rows, acked>>

\* close(), under the lock: no call is in progress.
Close(p) ==
  /\ pc[p] = "idle" /\ conn[p]
  /\ Disconnect(p)
  /\ UNCHANGED <<pc, row, migrated, rows, acked>>

(***************************************************************************)
(* remember and recall_recent up to _db().                                 *)
(***************************************************************************)
FirstStep(p, next) == IF conn[p] THEN next ELSE "connect"

Remember(p, id) ==
  /\ pc[p] = "idle" /\ id \notin Taken
  /\ row' = [row EXCEPT ![p] = {[pid |-> id, instance |-> InstanceOf[p],
                                 checked |-> FALSE, claimed |-> {}]}]
  /\ pc' = [pc EXCEPT ![p] = FirstStep(p, "insert")]
  /\ UNCHANGED <<conn, migrated, rows, txn, checked, claimed, acked>>

RecallRecent(p) ==
  /\ pc[p] = "idle"
  /\ pc' = [pc EXCEPT ![p] = FirstStep(p, "select")]
  /\ UNCHANGED <<row, conn, migrated, rows, txn, checked, claimed, acked>>

\* The statement after _db() in the call in progress.
AfterDb(p) == IF row[p] = {} THEN "select" ELSE "insert"

(***************************************************************************)
(* _db().  The connection is kept from the moment sqlite3.connect returns. *)
(***************************************************************************)
Connect(p) ==
  /\ pc[p] = "connect"
  /\ conn' = [conn EXCEPT ![p] = TRUE]
  /\ claimed' = [claimed EXCEPT ![p] = Owners(rows)]
  /\ pc' = [pc EXCEPT ![p] = "schema"]
  /\ UNCHANGED <<row, migrated, rows, txn, checked, acked>>

\* CREATE TABLE IF NOT EXISTS makes a new table complete and leaves an old one
\* alone; table_info then says whether columns are missing.  A table without
\* rows stands for an absent one.
Schema(p) ==
  /\ pc[p] = "schema"
  /\ migrated' = (migrated \/ rows = {})
  /\ pc' = [pc EXCEPT ![p] = IF migrated' THEN "barrier" ELSE "alter"]
  /\ UNCHANGED <<row, conn, rows, txn, checked, claimed, acked>>

\* ALTER TABLE ADD COLUMN: a column another process has added meanwhile is a
\* duplicate, and raises (see Raise).  Nobody can hold the write lock yet.
Alter(p) ==
  /\ pc[p] = "alter" /\ ~migrated
  /\ migrated' = TRUE
  /\ pc' = [pc EXCEPT ![p] = "barrier"]
  /\ UNCHANGED <<row, conn, rows, txn, checked, claimed, acked>>

Barrier(p) ==
  /\ pc[p] = "barrier" /\ Others(p, rows) = {}
  /\ checked' = [checked EXCEPT ![p] = TRUE]
  /\ pc' = [pc EXCEPT ![p] = AfterDb(p)]
  /\ UNCHANGED <<row, conn, migrated, rows, txn, claimed, acked>>

\* The call ends by an exception; the caller's seed is errored.
Fail(p) ==
  /\ row' = [row EXCEPT ![p] = {}]
  /\ pc' = [pc EXCEPT ![p] = "idle"]

\* Another instance owns the ledger: the connection is closed.
Refuse(p) ==
  /\ pc[p] = "barrier" /\ Others(p, rows) # {}
  /\ Disconnect(p) /\ Fail(p)
  /\ UNCHANGED <<migrated, rows, acked>>

\* sqlite3.OperationalError (locked, disk I/O, duplicate column) in any
\* statement: nothing closes the connection or ends the transaction.
Raise(p) ==
  /\ pc[p] \in {"connect", "schema", "alter", "barrier", "insert", "commit", "select"}
  /\ Fail(p)
  /\ UNCHANGED <<conn, migrated, rows, txn, checked, claimed, acked>>

(***************************************************************************)
(* The statements after _db().                                             *)
(***************************************************************************)
Stamped(p, r) == [r EXCEPT !.checked = checked[p], !.claimed = claimed[p]]

Insert(p) ==
  /\ pc[p] = "insert" /\ migrated /\ ~Locked(p)
  /\ txn' = [txn EXCEPT ![p] = @ \cup {Stamped(p, r) : r \in row[p]}]
  /\ pc' = [pc EXCEPT ![p] = "commit"]
  /\ UNCHANGED <<row, conn, migrated, rows, checked, claimed, acked>>

\* Mutant: remember returns without committing.
CommitUnnoticed(p) ==
  /\ pc[p] = "commit"
  /\ acked' = acked \cup {Stamped(p, r) : r \in row[p]}
  /\ row' = [row EXCEPT ![p] = {}]
  /\ pc' = [pc EXCEPT ![p] = "idle"]
  /\ UNCHANGED <<conn, migrated, rows, txn, checked, claimed>>

\* commit() publishes the whole transaction, including rows left in it by an
\* earlier call whose commit raised.
Commit(p) ==
  /\ pc[p] = "commit"
  /\ rows' = rows \cup txn[p]
  /\ txn' = [txn EXCEPT ![p] = {}]
  /\ acked' = acked \cup {Stamped(p, r) : r \in row[p]}
  /\ row' = [row EXCEPT ![p] = {}]
  /\ pc' = [pc EXCEPT ![p] = "idle"]
  /\ UNCHANGED <<conn, migrated, checked, claimed>>

Select(p) ==
  /\ pc[p] = "select" /\ migrated
  /\ pc' = [pc EXCEPT ![p] = "idle"]
  /\ UNCHANGED <<row, conn, migrated, rows, txn, checked, claimed, acked>>

LegacyRow(id) ==
  [pid |-> id, instance |-> Legacy, checked |-> FALSE, claimed |-> {}]

\* No file yet, or one written before rows were tagged and columns added.
Init ==
  /\ pc = [p \in Procs |-> "down"]
  /\ row = [p \in Procs |-> {}]
  /\ conn = [p \in Procs |-> FALSE]
  /\ rows \in {{}} \cup {{LegacyRow(id)} : id \in Pids}
  /\ migrated = FALSE
  /\ txn = [p \in Procs |-> {}]
  /\ checked = [p \in Procs |-> FALSE]
  /\ claimed = [p \in Procs |-> {}]
  /\ acked = {}

Next ==
  \E p \in Procs :
    \/ Start(p) \/ Crash(p) \/ Close(p)
    \/ \E id \in Pids : Remember(p, id)
    \/ RecallRecent(p)
    \/ Connect(p) \/ Schema(p) \/ Alter(p) \/ Barrier(p) \/ Refuse(p) \/ Raise(p)
    \/ Insert(p) \/ Commit(p) \/ Select(p)

Spec == Init /\ [][Next]_vars

(***************************************************************************)
(* Properties.                                                             *)
(***************************************************************************)
TypeOK ==
  /\ pc \in [Procs -> Pcs]
  /\ row \in [Procs -> SUBSET Row]
  /\ conn \in [Procs -> BOOLEAN]
  /\ migrated \in BOOLEAN
  /\ rows \subseteq Row
  /\ txn \in [Procs -> SUBSET Row]
  /\ checked \in [Procs -> BOOLEAN]
  /\ claimed \in [Procs -> SUBSET Instances]
  /\ acked \subseteq Row

\* What remember acknowledged is on the ledger for good: through failed
\* commits, crashes, reopened connections and other writers.
AckedIsDurable == acked \subseteq rows

\* No row was written through a connection that passed the write barrier onto
\* a ledger another instance owned when the connection was opened.
GuardedOpen == \A r \in rows : r.checked => r.claimed \subseteq {r.instance}

(***************************************************************************)
(* What the repository says and the code does not do.                      *)
(***************************************************************************)

\* runtime.py: "refuse a ledger already claimed by a DIFFERENT instance": no
\* row at all joins a ledger another instance owned when its connection was
\* opened.  A statement of _db() that raises leaves an unchecked connection.
ClaimedLedgerRefused == \A r \in rows : r.claimed \subseteq {r.instance}
=============================================================================
