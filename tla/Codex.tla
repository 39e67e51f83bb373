-------------------------------- MODULE Codex --------------------------------
(***************************************************************************)
(* What the daemon promises a reader of its ledger: the Codex is a growing *)
(* record of laws.  Laws enter one at a time, each under an identity of    *)
(* its own, only if the Lean kernel can prove the statement, and only with *)
(* a faithfulness certificate issued for that very statement; the daemon   *)
(* never alters or withdraws a law.                                        *)
(***************************************************************************)
CONSTANTS
  Statements,  \* the statements a law can have
  Provable,    \* those the Lean kernel can accept a proof of
  Ids          \* identities of laws

VARIABLE codex \* the laws published so far

Law(id, s) == [id |-> id, stmt |-> s, certified |-> {s}]

Init == codex = {}

Enter(id, s) ==
  /\ s \in Provable
  /\ \A l \in codex : l.id # id
  /\ codex' = codex \cup {Law(id, s)}

Next == \E id \in Ids, s \in Statements : Enter(id, s)

Spec == Init /\ [][Next]_codex
=============================================================================
