------------------------------ MODULE LeanRepl ------------------------------
(***************************************************************************)
(* The Lean REPL backend (leibniz/backends/lean_repl.py): one long-lived   *)
(* REPL process behind a lock, restarted when found dead, with a cache of  *)
(* the environments it holds preloaded imports in.  The checks run in the  *)
(* threads of the prover ensemble; the process may abort at any moment or  *)
(* never answer; the heartbeat's watchdog closes the backend without the   *)
(* lock.                                                                   *)
(*                                                                         *)
(* The REPL itself is external.  It numbers the environments it creates    *)
(* from 0, afresh in each process; a command naming an environment it does *)
(* not have is answered by {"message": "Unknown environment."}, a response *)
(* without "messages", hence without errors.                               *)
(***************************************************************************)
EXTENDS Naturals, Sequences

CONSTANTS
  Threads,    \* the threads calling the backend
  Keys,       \* import sets
  NoOne,      \* nobody holds the lock
  MaxProcs,   \* bound: REPL processes started
  MaxChecks,  \* bound: calls one thread makes
  MaxCloses   \* bound: times the watchdog closes the backend

ASSUME ReplAssumption ==
  /\ NoOne \notin Threads /\ Keys # {}
  /\ MaxProcs \in Nat /\ MaxChecks \in Nat /\ MaxCloses \in Nat

VARIABLES
  lock,    \* _lock
  proc,    \* _proc, by the number of the process; 0 is None
  spawned, \* processes started so far
  alive,   \* which of them run
  held,    \* external: the environments of each, by what they hold
  inbox,   \* external: what is written to each and not yet answered
  outbox,  \* external: what each answered and nobody has read
  envs,    \* _envs: the set of cached <<key, id>>
  calls,   \* per thread: calls made
  pc,      \* per thread: its place in a call
  stage,   \* per thread: the exchange of the call it is at
  goal,    \* per thread: the call [kind, key]
  env,     \* per thread: the local env id
  handle,  \* per thread: the process its exchange talks to
  result,  \* per thread: what its last call returned, and (history) where the
           \* command of that call was elaborated
  closes,  \* times the watchdog entered close()
  closing  \* the watchdog has yet to clear the cache

vars == <<lock, proc, spawned, alive, held, inbox, outbox, envs, calls, pc, stage, goal,
          env, handle, result, closes, closing>>

Procs == 1..MaxProcs

\* check_proof; or compile_statement, or one tactic of the decision ladder.
Kinds == {"compile", "proof"}

Stages == {"import", "canary", "check"}

Pcs == {"idle", "lock", "env", "start", "poll", "write", "wait"}

\* A command, in the environment `id` unless it imports.
Request(t) == [thread |-> t, nth |-> calls[t], stage |-> stage[t],
               key |-> goal[t].key, id |-> env[t]]

\* An answer: where the command was elaborated (an import set, "broken" for a
\* coreless environment, "unknown" for none), whether without errors, and the
\* id of the environment it created.  This one stands for Python's None.
NoAnswer == [at |-> "none", clean |-> FALSE, new |-> 0]

----------------------------------------------------------------------------
\* close(): the process loses its stdin and _proc is None.  It may still answer
\* what it was asked, and ends when it reads EOF.
Drop == proc' = 0

Begin(t, kind, key) ==
  /\ pc[t] = "idle" /\ calls[t] < MaxChecks
  /\ calls' = [calls EXCEPT ![t] = @ + 1]
  /\ goal' = [goal EXCEPT ![t] = [kind |-> kind, key |-> key]]
  /\ pc' = [pc EXCEPT ![t] = "lock"]
  /\ UNCHANGED <<lock, proc, spawned, alive, held, inbox, outbox, envs, stage, env,
                 handle, result, closes, closing>>

Acquire(t) ==
  /\ pc[t] = "lock" /\ lock = NoOne
  /\ lock' = t
  /\ pc' = [pc EXCEPT ![t] = "env"]
  /\ UNCHANGED <<proc, spawned, alive, held, inbox, outbox, envs, calls, stage, goal,
                 env, handle, result, closes, closing>>

\* _env_for: the cached id is taken as it is, before anything looks at the
\* process.
EnvFor(t) ==
  /\ pc[t] = "env"
  /\ LET cached == {e \in envs : e[1] = goal[t].key}
     IN IF cached # {}
        THEN /\ env' = [env EXCEPT ![t] = (CHOOSE e \in cached : TRUE)[2]]
             /\ stage' = [stage EXCEPT ![t] = "check"]
        ELSE stage' = [stage EXCEPT ![t] = "import"] /\ UNCHANGED env
  /\ pc' = [pc EXCEPT ![t] = "start"]
  /\ UNCHANGED <<lock, proc, spawned, alive, held, inbox, outbox, envs, calls, goal,
                 handle, result, closes, closing>>

(***************************************************************************)
(* _send: _start, then the exchange with the process it returned.  _start  *)
(* reads _proc twice, and the watchdog may drop it in between.             *)
(***************************************************************************)
StartFinds(t) ==
  /\ pc[t] = "start" /\ proc # 0
  /\ pc' = [pc EXCEPT ![t] = "poll"]
  /\ UNCHANGED <<lock, proc, spawned, alive, held, inbox, outbox, envs, calls, stage,
                 goal, env, handle, result, closes, closing>>

PollAlive(t) ==
  /\ pc[t] = "poll" /\ proc # 0 /\ alive[proc]
  /\ handle' = [handle EXCEPT ![t] = proc]
  /\ pc' = [pc EXCEPT ![t] = "write"]
  /\ UNCHANGED <<lock, proc, spawned, alive, held, inbox, outbox, envs, calls, stage,
                 goal, env, result, closes, closing>>

\* A corpse: _start closes it, which clears the cache, and starts another.
PollDead(t) ==
  /\ pc[t] = "poll" /\ proc # 0 /\ ~alive[proc]
  /\ Drop /\ envs' = {}
  /\ pc' = [pc EXCEPT ![t] = "start"]
  /\ UNCHANGED <<lock, spawned, alive, held, inbox, outbox, calls, stage, goal, env,
                 handle, result, closes, closing>>

Spawn(t) ==
  /\ pc[t] = "start" /\ proc = 0 /\ spawned < MaxProcs
  /\ spawned' = spawned + 1
  /\ proc' = spawned + 1
  /\ alive' = [alive EXCEPT ![spawned + 1] = TRUE]
  /\ handle' = [handle EXCEPT ![t] = spawned + 1]
  /\ pc' = [pc EXCEPT ![t] = "write"]
  /\ UNCHANGED <<lock, held, inbox, outbox, envs, calls, stage, goal, env, result,
                 closes, closing>>

Write(t) ==
  /\ pc[t] = "write" /\ handle[t] = proc /\ alive[proc]
  /\ inbox' = [inbox EXCEPT ![proc] = Append(@, Request(t))]
  /\ pc' = [pc EXCEPT ![t] = "wait"]
  /\ UNCHANGED <<lock, proc, spawned, alive, held, outbox, envs, calls, stage, goal,
                 env, handle, result, closes, closing>>

\* Mutant: check_proof does not ask for the axiom report.
VerdictWithoutReport(kind, answer) == answer.clean

\* What the caller makes of an answer, stage by stage; a call returns TRUE on
\* errors' absence, and check_proof only with an axiom report besides, which
\* an unknown environment does not print.
Verdict(kind, answer) ==
  /\ answer.clean
  /\ kind = "proof" => answer.at # "unknown"

\* Mutant: the lock is not released.
ReturnHolding(t, answer) ==
  /\ result' = [result EXCEPT ![t] =
       [kind |-> goal[t].kind, key |-> goal[t].key, at |-> answer.at,
        verdict |-> Verdict(goal[t].kind, answer)]]
  /\ pc' = [pc EXCEPT ![t] = "idle"]
  /\ UNCHANGED lock

Return(t, answer) ==
  /\ result' = [result EXCEPT ![t] =
       [kind |-> goal[t].kind, key |-> goal[t].key, at |-> answer.at,
        verdict |-> Verdict(goal[t].kind, answer)]]
  /\ pc' = [pc EXCEPT ![t] = "idle"]
  /\ lock' = NoOne

\* _send returns None, and so does _run: docker is not there, or the stdin to
\* write to is closed or broken.  A _proc dropped between the two reads of
\* _start raises AttributeError, which releases the lock all the same.
SendFails(t) ==
  /\ \/ pc[t] = "start" /\ proc = 0
     \/ pc[t] = "write" /\ (handle[t] # proc \/ ~alive[handle[t]])
     \/ pc[t] = "poll" /\ proc = 0
  /\ Return(t, NoAnswer)
  /\ UNCHANGED <<proc, spawned, alive, held, inbox, outbox, envs, calls, stage, goal,
                 env, handle, closes, closing>>

\* The answer is read, and acted on.
Got(t, answer) ==
  CASE stage[t] = "import" /\ answer.clean ->
         /\ env' = [env EXCEPT ![t] = answer.new]
         /\ stage' = [stage EXCEPT ![t] = "canary"]
         /\ pc' = [pc EXCEPT ![t] = "start"]
         /\ UNCHANGED <<envs, result, lock>>
    [] stage[t] = "canary" /\ answer.clean ->
         /\ envs' = {e \in envs : e[1] # goal[t].key} \cup {<<goal[t].key, env[t]>>}
         /\ stage' = [stage EXCEPT ![t] = "check"]
         /\ pc' = [pc EXCEPT ![t] = "start"]
         /\ UNCHANGED <<env, result, lock>>
    [] stage[t] = "check" ->
         Return(t, answer) /\ UNCHANGED <<env, envs, stage>>
    [] OTHER ->
         Return(t, NoAnswer) /\ UNCHANGED <<env, envs, stage>>

Read(t) ==
  /\ pc[t] = "wait" /\ outbox[handle[t]] # <<>>
  /\ Got(t, Head(outbox[handle[t]]).answer)
  /\ outbox' = [outbox EXCEPT ![handle[t]] = Tail(@)]
  /\ UNCHANGED <<proc, spawned, alive, held, inbox, calls, goal, handle, closes, closing>>

\* EOF or a broken pipe: None, and nothing is torn down.
ReadEof(t) ==
  /\ pc[t] = "wait" /\ ~alive[handle[t]] /\ outbox[handle[t]] = <<>>
  /\ Return(t, NoAnswer)
  /\ UNCHANGED <<proc, spawned, alive, held, inbox, outbox, envs, calls, stage, goal,
                 env, handle, closes, closing>>

\* Mutant: the process that timed out is kept.
TimeoutKeeping(t) ==
  /\ pc[t] = "wait"
  /\ Return(t, NoAnswer)
  /\ UNCHANGED <<proc, envs, spawned, alive, held, inbox, outbox, calls, stage, goal,
                 env, handle, closes, closing>>

\* No answer within timeout_s: close(), and None.
Timeout(t) ==
  /\ pc[t] = "wait"
  /\ Drop /\ envs' = {}
  /\ Return(t, NoAnswer)
  /\ UNCHANGED <<spawned, alive, held, inbox, outbox, calls, stage, goal, env, handle,
                 closes, closing>>

(***************************************************************************)
(* The REPL (external).                                                    *)
(***************************************************************************)
\* What holds in environment `id` of process p.
At(p, id) == IF id < Len(held[p]) THEN held[p][id + 1] ELSE "unknown"

\* Importing succeeds, silently yields a coreless environment, or errors; any
\* other command elaborates in its environment, where only a coreless one
\* makes the canary fail, or is refused there.
Outcomes(p, r) ==
  IF r.stage = "import"
  THEN {[at |-> a, clean |-> TRUE] : a \in {r.key, "broken"}}
       \cup {[at |-> r.key, clean |-> FALSE]}
  ELSE LET a == At(p, r.id)
       IN {[at |-> a, clean |-> ok] : ok \in {ok \in BOOLEAN :
             /\ a = "unknown" => ok
             /\ a = "broken" => ~ok
             /\ r.stage = "canary" /\ a # "broken" => ok}}

Respond(p) ==
  /\ alive[p] /\ inbox[p] # <<>>
  /\ LET r == Head(inbox[p])
     IN \E o \in Outcomes(p, r) :
          /\ outbox' = [outbox EXCEPT ![p] = Append(@,
               [to |-> r,
                answer |-> [at |-> o.at, clean |-> o.clean, new |-> Len(held[p])]])]
          /\ held' = [held EXCEPT ![p] =
               IF o.at = "unknown" THEN @ ELSE Append(@, o.at)]
  /\ inbox' = [inbox EXCEPT ![p] = Tail(@)]
  /\ UNCHANGED <<lock, proc, spawned, alive, envs, calls, pc, stage, goal, env, handle,
                 result, closes, closing>>

\* The process aborts (a kernel stack overflow exits 134), or read EOF.
Die(p) ==
  /\ alive[p]
  /\ alive' = [alive EXCEPT ![p] = FALSE]
  /\ inbox' = [inbox EXCEPT ![p] = <<>>]
  /\ UNCHANGED <<lock, proc, spawned, held, outbox, envs, calls, pc, stage, goal, env,
                 handle, result, closes, closing>>

(***************************************************************************)
(* The watchdog's close_all(), without the lock.                           *)
(***************************************************************************)
WatchdogClose ==
  /\ closes < MaxCloses /\ ~closing /\ proc # 0
  /\ Drop
  /\ closes' = closes + 1 /\ closing' = TRUE
  /\ UNCHANGED <<lock, spawned, alive, held, inbox, outbox, envs, calls, pc, stage, goal,
                 env, handle, result>>

WatchdogClear ==
  /\ closing
  /\ envs' = {} /\ closing' = FALSE
  /\ UNCHANGED <<lock, proc, spawned, alive, held, inbox, outbox, calls, pc, stage, goal,
                 env, handle, result, closes>>

----------------------------------------------------------------------------
AnyKey == CHOOSE k \in Keys : TRUE

Init ==
  /\ lock = NoOne /\ proc = 0 /\ spawned = 0
  /\ alive = [p \in Procs |-> FALSE]
  /\ held = [p \in Procs |-> <<>>]
  /\ inbox = [p \in Procs |-> <<>>]
  /\ outbox = [p \in Procs |-> <<>>]
  /\ envs = {}
  /\ calls = [t \in Threads |-> 0]
  /\ pc = [t \in Threads |-> "idle"]
  /\ stage = [t \in Threads |-> "import"]
  /\ goal = [t \in Threads |-> [kind |-> "compile", key |-> AnyKey]]
  /\ env = [t \in Threads |-> 0]
  /\ handle = [t \in Threads |-> 0]
  /\ result = [t \in Threads |->
       [kind |-> "compile", key |-> AnyKey, at |-> "none", verdict |-> FALSE]]
  /\ closes = 0 /\ closing = FALSE

Step(t) ==
  \/ Acquire(t) \/ EnvFor(t)
  \/ StartFinds(t) \/ PollAlive(t) \/ PollDead(t) \/ Spawn(t)
  \/ Write(t) \/ SendFails(t)
  \/ Read(t) \/ ReadEof(t) \/ Timeout(t)

Next ==
  \/ \E t \in Threads : Step(t) \/ \E kind \in Kinds, key \in Keys : Begin(t, kind, key)
  \/ \E p \in Procs : Respond(p) \/ Die(p)
  \/ WatchdogClose \/ WatchdogClear

\* The threads run, and worker.join(timeout_s) returns; the REPL owes nothing.
Fairness == \A t \in Threads : WF_vars(Step(t))

Spec == Init /\ [][Next]_vars /\ Fairness

(***************************************************************************)
(* Properties.                                                             *)
(***************************************************************************)
Places == Keys \cup {"broken", "unknown", "none"}

TypeOK ==
  /\ lock \in Threads \cup {NoOne}
  /\ proc \in 0..MaxProcs /\ spawned \in 0..MaxProcs
  /\ alive \in [Procs -> BOOLEAN]
  /\ \A p \in Procs : \A i \in DOMAIN held[p] : held[p][i] \in Places
  /\ \A p \in Procs : Len(inbox[p]) + Len(outbox[p]) <= 1
  /\ \A e \in envs : e[1] \in Keys /\ e[2] \in Nat
  /\ pc \in [Threads -> Pcs] /\ stage \in [Threads -> Stages]
  /\ goal \in [Threads -> [kind: Kinds, key: Keys]]
  /\ handle \in [Threads -> 0..MaxProcs]
  /\ result \in [Threads -> [kind: Kinds, key: Keys, at: Places, verdict: BOOLEAN]]

\* The answer a thread is about to read answers the command it sent: neither a
\* timed-out call's late answer nor another thread's is ever taken for it.
AnswersMatch ==
  \A t \in Threads :
    pc[t] = "wait" /\ outbox[handle[t]] # <<>> =>
      LET r == Head(outbox[handle[t]]).to
      IN r.thread = t /\ r.nth = calls[t] /\ r.stage = stage[t]

\* check_proof fails closed: it is TRUE only of a source a REPL elaborated in a
\* sound environment, whatever died, was closed or timed out meanwhile.
KernelVerdictsAreElaborated ==
  \A t \in Threads :
    result[t].kind = "proof" /\ result[t].verdict => result[t].at \in Keys

\* A REPL that never answers, or dies, holds up no caller for good: every call
\* returns, and the lock with it.
CallsReturn == \A t \in Threads : pc[t] # "idle" ~> pc[t] = "idle"

(***************************************************************************)
(* What the repository says and the code does not do.                      *)
(***************************************************************************)

\* lean_repl.py _env_for: "REPL env id with `key` imports preloaded (cached)":
\* what check_proof accepts was elaborated under the statement's own imports.
ProofCheckedInItsImports ==
  \A t \in Threads :
    result[t].kind = "proof" /\ result[t].verdict => result[t].at = result[t].key
=============================================================================
