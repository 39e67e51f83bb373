------------------------ MODULE LedgerRuntime_proofs ------------------------
(***************************************************************************)
(* Proofs about LedgerRuntime, for every set of processes and instances.   *)
(***************************************************************************)
EXTENDS LedgerRuntime, TLAPS

\* The barrier compares with a later table than the one found on connecting,
\* and the table only grows; so what the barrier let through was clean then.
BarrierInv ==
  /\ \A p \in Procs : pc[p] = "connect" => ~checked[p]
  /\ \A p \in Procs : pc[p] \in {"schema", "alter", "barrier"} =>
                        conn[p] /\ claimed[p] \subseteq Owners(rows) /\ ~checked[p]
  /\ \A p \in Procs : ~conn[p] => ~checked[p]
  /\ \A p \in Procs : checked[p] => claimed[p] \subseteq {InstanceOf[p]}
  /\ \A p \in Procs : \A r \in row[p] : r.instance = InstanceOf[p] /\ ~r.checked
  /\ \A p \in Procs : \A r \in txn[p] : r.checked => r.claimed \subseteq {r.instance}
  /\ GuardedOpen

IInv == TypeOK /\ BarrierInv

LEMMA OwnersTyped ==
  ASSUME NEW rs \in SUBSET Row
  PROVE  Owners(rs) \subseteq Instances
BY DEF Owners, Row

LEMMA StampedFacts ==
  ASSUME IInv, NEW p \in Procs, NEW r \in row[p]
  PROVE  /\ Stamped(p, r) \in Row
         /\ Stamped(p, r).checked =>
              Stamped(p, r).claimed \subseteq {Stamped(p, r).instance}
<1>1. /\ r \in Row /\ checked[p] \in BOOLEAN /\ claimed[p] \in SUBSET Instances
  BY DEF IInv, TypeOK
<1>2. /\ Stamped(p, r) \in Row
      /\ Stamped(p, r).checked = checked[p]
      /\ Stamped(p, r).claimed = claimed[p]
      /\ Stamped(p, r).instance = r.instance
  BY <1>1 DEF Stamped, Row
<1> QED
  BY <1>2 DEF IInv, BarrierInv

LEMMA InitIInv == Init => IInv
<1> SUFFICES ASSUME Init PROVE IInv
  OBVIOUS
<1>1. rows \subseteq Row /\ \A r \in rows : ~r.checked
  <2>1. \A id \in Pids : LegacyRow(id) \in Row /\ ~LegacyRow(id).checked
    BY DEF LegacyRow, Row
  <2> QED
    BY <2>1 DEF Init
<1>2. TypeOK
  BY <1>1 DEF Init, TypeOK, Pcs
<1>3. BarrierInv
  BY <1>1 DEF Init, BarrierInv, GuardedOpen
<1> QED
  BY <1>2, <1>3 DEF IInv

----------------------------------------------------------------------------
LEMMA StepType == IInv /\ [Next]_vars => TypeOK'
<1> SUFFICES ASSUME IInv, [Next]_vars PROVE TypeOK'
  OBVIOUS
<1> USE DEF TypeOK, Pcs
<1>0. TypeOK
  BY DEF IInv
<1>1. ASSUME NEW p \in Procs, Start(p) \/ Crash(p) \/ Close(p) PROVE TypeOK'
  BY <1>0, <1>1 DEF Start, Crash, Close, Disconnect
<1>2. ASSUME NEW p \in Procs, NEW id \in Pids, Remember(p, id) PROVE TypeOK'
  <2>1. [pid |-> id, instance |-> InstanceOf[p], checked |-> FALSE, claimed |-> {}] \in Row
    BY LedgerAssumption DEF Row
  <2> QED
    BY <1>0, <1>2, <2>1 DEF Remember, FirstStep
<1>3. ASSUME NEW p \in Procs, RecallRecent(p) PROVE TypeOK'
  BY <1>0, <1>3 DEF RecallRecent, FirstStep
<1>4. ASSUME NEW p \in Procs, Connect(p) PROVE TypeOK'
  BY <1>0, <1>4, OwnersTyped DEF Connect
<1>5. ASSUME NEW p \in Procs, Schema(p) \/ Alter(p) PROVE TypeOK'
  BY <1>0, <1>5 DEF Schema, Alter
<1>6. ASSUME NEW p \in Procs, Barrier(p) PROVE TypeOK'
  BY <1>0, <1>6 DEF Barrier, AfterDb
<1>7. ASSUME NEW p \in Procs, Refuse(p) \/ Raise(p) PROVE TypeOK'
  BY <1>0, <1>7 DEF Refuse, Raise, Disconnect, Fail
<1>8. ASSUME NEW p \in Procs, Insert(p) PROVE TypeOK'
  <2>1. {Stamped(p, r) : r \in row[p]} \subseteq Row
    BY StampedFacts
  <2> QED
    BY <1>0, <1>8, <2>1 DEF Insert
<1>9. ASSUME NEW p \in Procs, Commit(p) PROVE TypeOK'
  <2>1. {Stamped(p, r) : r \in row[p]} \subseteq Row
    BY StampedFacts
  <2> QED
    BY <1>0, <1>9, <2>1 DEF Commit
<1>10. ASSUME NEW p \in Procs, Select(p) PROVE TypeOK'
  BY <1>0, <1>10 DEF Select
<1>11. CASE UNCHANGED vars
  BY <1>0, <1>11 DEF vars
<1> QED
  BY <1>1, <1>2, <1>3, <1>4, <1>5, <1>6, <1>7, <1>8, <1>9, <1>10, <1>11 DEF Next

LEMMA StepBarrier == IInv /\ TypeOK' /\ [Next]_vars => BarrierInv'
<1> SUFFICES ASSUME IInv, TypeOK', [Next]_vars PROVE BarrierInv'
  OBVIOUS
<1> USE DEF BarrierInv, GuardedOpen
<1>0. TypeOK /\ BarrierInv
  BY DEF IInv
<1>1. ASSUME NEW p \in Procs, Start(p) \/ Crash(p) \/ Close(p) PROVE BarrierInv'
  BY <1>0, <1>1 DEF TypeOK, Start, Crash, Close, Disconnect
<1>2. ASSUME NEW p \in Procs, NEW id \in Pids, Remember(p, id) PROVE BarrierInv'
  BY <1>0, <1>2 DEF TypeOK, Remember, FirstStep
<1>3. ASSUME NEW p \in Procs, RecallRecent(p) PROVE BarrierInv'
  BY <1>0, <1>3 DEF TypeOK, RecallRecent, FirstStep
<1>4. ASSUME NEW p \in Procs, Connect(p) PROVE BarrierInv'
  BY <1>0, <1>4 DEF TypeOK, Connect
<1>5. ASSUME NEW p \in Procs, Schema(p) \/ Alter(p) PROVE BarrierInv'
  BY <1>0, <1>5 DEF TypeOK, Schema, Alter
<1>6. ASSUME NEW p \in Procs, Barrier(p) PROVE BarrierInv'
  <2>1. claimed[p] \subseteq {InstanceOf[p]}
    BY <1>0, <1>6 DEF Barrier, Others
  <2> QED
    BY <1>0, <1>6, <2>1 DEF TypeOK, Barrier, AfterDb
<1>7. ASSUME NEW p \in Procs, Refuse(p) \/ Raise(p) PROVE BarrierInv'
  BY <1>0, <1>7 DEF TypeOK, Refuse, Raise, Disconnect, Fail
<1>8. ASSUME NEW p \in Procs, Insert(p) PROVE BarrierInv'
  <2>1. \A r \in {Stamped(p, x) : x \in row[p]} :
          r.checked => r.claimed \subseteq {r.instance}
    BY StampedFacts
  <2> QED
    BY <1>0, <1>8, <2>1 DEF TypeOK, Insert
<1>9. ASSUME NEW p \in Procs, Commit(p) PROVE BarrierInv'
  <2>1. Owners(rows) \subseteq Owners(rows')
    BY <1>9 DEF Commit, Owners
  <2> QED
    BY <1>0, <1>9, <2>1 DEF TypeOK, Commit
<1>10. ASSUME NEW p \in Procs, Select(p) PROVE BarrierInv'
  BY <1>0, <1>10 DEF TypeOK, Select
<1>11. CASE UNCHANGED vars
  BY <1>0, <1>11 DEF vars
<1> QED
  BY <1>1, <1>2, <1>3, <1>4, <1>5, <1>6, <1>7, <1>8, <1>9, <1>10, <1>11 DEF Next

----------------------------------------------------------------------------
\* Every variable keeps its type; in particular no row carries another tag than an
\* instance's or the legacy one.
THEOREM TypeCorrectness == Spec => []TypeOK
<1>1. IInv /\ [Next]_vars => IInv'
  BY StepType, StepBarrier DEF IInv
<1>2. IInv => TypeOK
  BY DEF IInv
<1> QED
  BY InitIInv, <1>1, <1>2, PTL DEF Spec

\* Whatever processes share the file, whatever statement raises and whenever a
\* process dies, a row that came through the write barrier joined a ledger its
\* own instance owned, or nobody.
THEOREM BarrierSoundness == Spec => []GuardedOpen
<1>1. IInv /\ [Next]_vars => IInv'
  BY StepType, StepBarrier DEF IInv
<1>2. IInv => GuardedOpen
  BY DEF IInv, BarrierInv
<1> QED
  BY InitIInv, <1>1, <1>2, PTL DEF Spec

\* An acknowledged row is never lost.
THEOREM Durability == Spec => []AckedIsDurable
<1>1. Init => AckedIsDurable
  BY DEF Init, AckedIsDurable
<1> DEFINE Acknowledging ==
      \A p \in Procs : pc[p] = "commit" => {Stamped(p, r) : r \in row[p]} \subseteq txn[p]
<1>2. Init => Acknowledging
  BY DEF Init
<1>3. AckedIsDurable /\ Acknowledging /\ [Next]_vars => AckedIsDurable'
  <2> SUFFICES ASSUME AckedIsDurable, Acknowledging, [Next]_vars PROVE AckedIsDurable'
    OBVIOUS
  <2>1. ASSUME NEW p \in Procs, Commit(p) PROVE AckedIsDurable'
    BY <2>1 DEF Commit, AckedIsDurable
  <2>2. CASE ~\E p \in Procs : Commit(p)
    <3>1. acked' = acked /\ rows' = rows
      BY <2>2 DEF Next, vars, Start, Crash, Close, Remember, RecallRecent, Connect,
         Schema, Alter, Barrier, Refuse, Raise, Insert, Select
    <3> QED
      BY <3>1 DEF AckedIsDurable
  <2> QED
    BY <2>1, <2>2
<1>4. IInv /\ Acknowledging /\ [Next]_vars => Acknowledging'
  <2> SUFFICES ASSUME IInv, Acknowledging, [Next]_vars, NEW p \in Procs, pc'[p] = "commit"
               PROVE  ({Stamped(p, r) : r \in row[p]} \subseteq txn[p])'
    OBVIOUS
  <2>0. TypeOK
    BY DEF IInv
  <2>1. ASSUME Insert(p) PROVE ({Stamped(p, r) : r \in row[p]} \subseteq txn[p])'
    <3>1. txn'[p] = txn[p] \cup {Stamped(p, r) : r \in row[p]} /\ row' = row
      BY <2>0, <2>1 DEF Insert, TypeOK
    <3>2. \A r : Stamped(p, r)' = Stamped(p, r)' /\ checked' = checked /\ claimed' = claimed
      BY <2>1 DEF Insert
    <3> QED
      BY <3>1, <3>2 DEF Stamped
  <2>2. CASE ~Insert(p)
    <3>1. pc[p] = "commit"
      BY <2>0, <2>2 DEF Next, vars, TypeOK, Start, Crash, Close, Remember, RecallRecent,
         Connect, Schema, Alter, Barrier, Refuse, Raise, Fail, Insert, Commit, Select,
         FirstStep, AfterDb
    <3>2. /\ row'[p] = row[p] /\ checked'[p] = checked[p]
          /\ claimed'[p] = claimed[p] /\ txn'[p] = txn[p]
      BY <2>0, <2>2, <3>1 DEF Next, vars, TypeOK, Start, Crash, Close, Disconnect,
         Remember, RecallRecent, Connect, Schema, Alter, Barrier, Refuse, Raise, Fail,
         Insert, Commit, Select, FirstStep, AfterDb
    <3> QED
      BY <3>1, <3>2 DEF Stamped
  <2> QED
    BY <2>1, <2>2
<1>5. IInv /\ [Next]_vars => IInv'
  BY StepType, StepBarrier DEF IInv
<1> HIDE DEF Acknowledging
<1> QED
  BY InitIInv, <1>1, <1>2, <1>3, <1>4, <1>5, PTL DEF Spec
=============================================================================
