---------------------------- MODULE LeanRepl_proofs ----------------------------
(***************************************************************************)
(* Proofs about LeanRepl, for any number of threads, import sets,          *)
(* processes, calls and closes: an answer is never taken for another's,    *)
(* and a proof is accepted only from a sound environment.                  *)
(***************************************************************************)
EXTENDS LeanRepl, SequenceTheorems, TLAPS

(***************************************************************************)
(* The types.                                                              *)
(***************************************************************************)
Requests == [thread : Threads, nth : Nat, stage : Stages, key : Keys, id : Nat]

Answers == [at : Places, clean : BOOLEAN, new : Nat]

Replies == [to : Requests, answer : Answers]

\* What a process holds, and what is under way to and from it.
PipesTyped ==
  /\ alive \in [Procs -> BOOLEAN]
  /\ held \in [Procs -> Seq(Keys \cup {"broken"})]
  /\ inbox \in [Procs -> Seq(Requests)]
  /\ outbox \in [Procs -> Seq(Replies)]

ThreadsTyped ==
  /\ lock \in Threads \cup {NoOne}
  /\ proc \in 0 .. MaxProcs /\ spawned \in 0 .. MaxProcs
  /\ envs \subseteq Keys \X Nat
  /\ calls \in [Threads -> Nat]
  /\ pc \in [Threads -> Pcs] /\ stage \in [Threads -> Stages]
  /\ goal \in [Threads -> [kind : Kinds, key : Keys]]
  /\ env \in [Threads -> Nat]
  /\ handle \in [Threads -> 0 .. MaxProcs]
  /\ result \in [Threads -> [kind : Kinds, key : Keys, at : Places, verdict : BOOLEAN]]

(***************************************************************************)
(* The inductive invariant.                                                *)
(***************************************************************************)
\* Only the thread that holds the lock is past it.
LockInv == \A t \in Threads : pc[t] \notin {"idle", "lock"} => lock = t

\* A process that was not started is silent; the current one was started; a dead
\* one has nothing left to read; a thread that writes or waits has a process.
ProcInv ==
  /\ proc <= spawned
  /\ \A p \in Procs : p > spawned => inbox[p] = <<>> /\ outbox[p] = <<>>
  /\ \A p \in Procs : ~alive[p] => inbox[p] = <<>>
  /\ \A t \in Threads : pc[t] \in {"write", "wait"} => handle[t] \in Procs

Mine(t, r) == r.thread = t /\ r.nth = calls[t] /\ r.stage = stage[t]

Waits(t, p) == pc[t] = "wait" /\ handle[t] = p

\* What the pipes of a process carry: nothing, one command, or one answer.
Silent(p) == inbox[p] = <<>> /\ outbox[p] = <<>>
Asked(p) == \E r \in Requests : inbox[p] = <<r>> /\ outbox[p] = <<>>
Answered(p) == \E a \in Replies : inbox[p] = <<>> /\ outbox[p] = <<a>>

\* The pipes of the current process carry nothing unless a thread waits for it; those
\* of a process that is waited for carry nothing but what concerns the waiter.
PipeInv ==
  /\ \A p \in Procs : Silent(p) \/ Asked(p) \/ Answered(p)
  /\ \A p \in Procs : p = proc => Silent(p) \/ \E t \in Threads : Waits(t, p)
  /\ \A t \in Threads, p \in Procs : Waits(t, p) =>
       /\ inbox[p] # <<>> => Mine(t, Head(inbox[p]))
       /\ outbox[p] # <<>> => Mine(t, Head(outbox[p]).to)

\* A clean answer to a check comes from a sound environment, or from none.
Sound(answer) == answer.clean => answer.at \in Keys \cup {"unknown"}

AnswerInv ==
  /\ \A p \in Procs : outbox[p] # <<>> /\ Head(outbox[p]).to.stage = "check" =>
       Sound(Head(outbox[p]).answer)
  /\ KernelVerdictsAreElaborated

IInv == PipesTyped /\ ThreadsTyped /\ LockInv /\ ProcInv /\ PipeInv /\ AnswerInv

(***************************************************************************)
(* Lemmas about the pipes, and about the steps.                            *)
(***************************************************************************)
LEMMA ConstantsTyped == NoOne \notin Threads /\ MaxProcs \in Nat /\ Keys # {}
BY ReplAssumption

\* A message put into an empty pipe and taken out of it again.
LEMMA OneMessage ==
  ASSUME NEW S, NEW x \in S
  PROVE  /\ Append(<<>>, x) = <<x>> /\ <<x>> \in Seq(S) /\ <<x>> # <<>>
         /\ Head(<<x>>) = x /\ Tail(<<x>>) = <<>> /\ Len(<<x>>) = 1
BY SMT

LEMMA NoMessage == ASSUME NEW S PROVE <<>> \in Seq(S) /\ Len(<<>>) = 0
BY SMT

\* A step of t that neither starts nor ends a wait, touches no pipe, and makes
\* current only a process whose pipes are empty.
OthersKept(t) ==
  \A u \in Threads \ {t} :
    /\ pc'[u] = pc[u] /\ handle'[u] = handle[u]
    /\ calls'[u] = calls[u] /\ stage'[u] = stage[u]

LEMMA QuietStep ==
  ASSUME PipeInv, NEW t \in Threads, OthersKept(t), UNCHANGED <<inbox, outbox>>,
         pc[t] # "wait", pc'[t] # "wait",
         proc' \in Procs => proc' = proc \/ (inbox[proc'] = <<>> /\ outbox[proc'] = <<>>)
  PROVE  PipeInv'
<1>1. \A u \in Threads, p \in Procs : Waits(u, p)' <=> Waits(u, p)
  BY DEF Waits, OthersKept
<1>2. \A p \in Procs : /\ Silent(p)' <=> Silent(p)
                       /\ Asked(p)' <=> Asked(p)
                       /\ Answered(p)' <=> Answered(p)
  BY DEF Silent, Asked, Answered
<1>3. \A p \in Procs : p = proc' => Silent(p)' \/ \E u \in Threads : Waits(u, p)'
  BY <1>1, <1>2 DEF PipeInv, Silent
<1>4. ASSUME NEW u \in Threads, NEW p \in Procs, Waits(u, p)'
      PROVE  /\ inbox'[p] # <<>> => Mine(u, Head(inbox[p]))'
             /\ outbox'[p] # <<>> => Mine(u, Head(outbox[p]).to)'
  <2>1. Waits(u, p) /\ u # t
    BY <1>1, <1>4 DEF Waits
  <2>2. calls'[u] = calls[u] /\ stage'[u] = stage[u]
    BY <2>1 DEF OthersKept
  <2> QED
    BY <2>1, <2>2 DEF PipeInv, Mine
<1> QED
  BY <1>2, <1>3, <1>4 DEF PipeInv

\* The end of t's wait: t, which holds the lock, was the only one to wait, so the
\* current process is left without a message, or there is none.
LEMMA WaitEnds ==
  ASSUME PipeInv, LockInv, ProcInv, NEW t \in Threads, OthersKept(t),
         pc[t] = "wait", pc'[t] # "wait",
         \A p \in Procs : p # handle[t] => inbox'[p] = inbox[p] /\ outbox'[p] = outbox[p],
         \A p \in Procs : Silent(p)' \/ Asked(p)' \/ Answered(p)',
         \/ proc' = 0
         \/ proc' = proc /\ inbox'[handle[t]] = <<>> /\ outbox'[handle[t]] = <<>>
  PROVE  PipeInv'
<1>1. \A u \in Threads : pc[u] = "wait" => u = t
  BY DEF LockInv
<1>2. \A u \in Threads, p \in Procs : ~Waits(u, p)'
  BY <1>1 DEF Waits, OthersKept
<1>3. ASSUME NEW p \in Procs, p = proc'
      PROVE  Silent(p)'
  <2>1. proc' = proc /\ inbox'[handle[t]] = <<>> /\ outbox'[handle[t]] = <<>>
    BY <1>3 DEF Procs
  <2>2. CASE p = handle[t]
    BY <2>1, <2>2 DEF Silent
  <2>3. CASE p # handle[t]
    <3>1. \A u \in Threads : ~Waits(u, p)
      BY <1>1, <2>3 DEF Waits
    <3>2. Silent(p)
      BY <1>3, <2>1, <3>1 DEF PipeInv
    <3> QED
      BY <2>3, <3>2 DEF Silent
  <2> QED
    BY <2>2, <2>3
<1> QED
  BY <1>2, <1>3 DEF PipeInv

LEMMA NoAnswerTyped == NoAnswer \in Answers /\ ~NoAnswer.clean
BY DEF NoAnswer, Answers, Places

\* What a call returns is typed, and accepts a proof only on a sound answer.
LEMMA ReturnKeeps ==
  ASSUME ThreadsTyped, LockInv, KernelVerdictsAreElaborated, NEW t \in Threads,
         NEW answer \in Answers, Sound(answer), Return(t, answer),
         lock = t
  PROVE  /\ lock' \in Threads \cup {NoOne} /\ pc' \in [Threads -> Pcs]
         /\ result' \in [Threads ->
              [kind : Kinds, key : Keys, at : Places, verdict : BOOLEAN]]
         /\ \A u \in Threads : pc'[u] \in {"idle", "lock"}
         /\ pc'[t] = "idle" /\ \A u \in Threads \ {t} : pc'[u] = pc[u]
         /\ KernelVerdictsAreElaborated'
<1> DEFINE v == Verdict(goal[t].kind, answer)
           row == [kind |-> goal[t].kind, key |-> goal[t].key,
                   at |-> answer.at, verdict |-> v]
<1>1. v \in BOOLEAN
  BY DEF Verdict
<1>2. v /\ goal[t].kind = "proof" => answer.at \in Keys
  BY DEF Verdict, Sound
<1> HIDE DEF v
<1>3. row \in [kind : Kinds, key : Keys, at : Places, verdict : BOOLEAN]
  BY <1>1 DEF ThreadsTyped, Answers
<1>4. row.kind = "proof" /\ row.verdict => row.at \in Keys
  BY <1>2
<1>5. result' = [result EXCEPT ![t] = row] /\ pc' = [pc EXCEPT ![t] = "idle"]
      /\ lock' = NoOne
  BY DEF Return, v
<1> HIDE DEF row
<1>6. \A u \in Threads : result'[u] = IF u = t THEN row ELSE result[u]
  BY <1>5 DEF ThreadsTyped
<1>7. KernelVerdictsAreElaborated'
  BY <1>4, <1>6 DEF KernelVerdictsAreElaborated
<1>8. result' \in [Threads -> [kind : Kinds, key : Keys, at : Places, verdict : BOOLEAN]]
  BY <1>3, <1>5 DEF ThreadsTyped
<1>9. /\ pc' \in [Threads -> Pcs] /\ pc'[t] = "idle"
      /\ \A u \in Threads \ {t} : pc'[u] = pc[u]
      /\ \A u \in Threads : pc'[u] \in {"idle", "lock"}
  BY <1>5 DEF ThreadsTyped, LockInv, Pcs
<1> QED
  BY <1>5, <1>7, <1>8, <1>9

(***************************************************************************)
(* The invariant holds at first, and every step keeps it.                  *)
(***************************************************************************)
LEMMA InitIInv == Init => IInv
<1> SUFFICES ASSUME Init PROVE IInv
  OBVIOUS
<1>1. AnyKey \in Keys
  BY ConstantsTyped DEF AnyKey
<1>2. PipesTyped /\ ThreadsTyped
  BY <1>1, ConstantsTyped
  DEF Init, PipesTyped, ThreadsTyped, Pcs, Stages, Kinds, Places
<1>3. LockInv /\ ProcInv /\ PipeInv /\ AnswerInv
  BY ConstantsTyped
  DEF Init, LockInv, ProcInv, PipeInv, AnswerInv, Waits, Silent,
      KernelVerdictsAreElaborated, Procs
<1> QED
  BY <1>2, <1>3 DEF IInv

LEMMA BeginKeeps ==
  ASSUME IInv, NEW t \in Threads, NEW kind \in Kinds, NEW key \in Keys, Begin(t, kind, key)
  PROVE  IInv'
<1> USE DEF IInv
<1>1. PipesTyped' /\ ThreadsTyped'
  <2>1. [kind |-> kind, key |-> key] \in [kind : Kinds, key : Keys]
    OBVIOUS
  <2>2. goal' \in [Threads -> [kind : Kinds, key : Keys]]
    BY <2>1 DEF Begin, ThreadsTyped
  <2>3. calls' \in [Threads -> Nat] /\ pc' \in [Threads -> Pcs]
    BY DEF Begin, ThreadsTyped, Pcs
  <2> QED
    BY <2>2, <2>3 DEF Begin, PipesTyped, ThreadsTyped
<1>2. LockInv'
  BY ConstantsTyped DEF Begin, LockInv, ThreadsTyped
<1>3. ProcInv'
  BY ConstantsTyped DEF Begin, ProcInv, PipesTyped, ThreadsTyped, LockInv, Procs
<1>4. PipeInv'
  <2>1. OthersKept(t) /\ UNCHANGED <<inbox, outbox>> /\ pc[t] # "wait" /\ pc'[t] # "wait"
    BY DEF Begin, OthersKept, ThreadsTyped
  <2>2. proc' \in Procs => proc' = proc \/ (inbox[proc'] = <<>> /\ outbox[proc'] = <<>>)
    BY ConstantsTyped DEF Begin, Procs, ProcInv, ThreadsTyped
  <2> QED
    BY <2>1, <2>2, QuietStep
<1>5. AnswerInv'
  BY DEF Begin, AnswerInv, KernelVerdictsAreElaborated
<1> QED
  BY <1>1, <1>2, <1>3, <1>4, <1>5

LEMMA AcquireKeeps ==
  ASSUME IInv, NEW t \in Threads, Acquire(t)
  PROVE  IInv'
<1> USE DEF IInv
<1>1. PipesTyped' /\ ThreadsTyped'
  BY ConstantsTyped DEF Acquire, PipesTyped, ThreadsTyped, Pcs, Stages, Kinds, Procs
<1>2. LockInv'
  BY ConstantsTyped DEF Acquire, LockInv, ThreadsTyped
<1>3. ProcInv'
  BY ConstantsTyped DEF Acquire, ProcInv, PipesTyped, ThreadsTyped, LockInv, Procs
<1>4. PipeInv'
  <2>1. OthersKept(t) /\ UNCHANGED <<inbox, outbox>> /\ pc[t] # "wait" /\ pc'[t] # "wait"
    BY DEF Acquire, OthersKept, ThreadsTyped
  <2>2. proc' \in Procs => proc' = proc \/ (inbox[proc'] = <<>> /\ outbox[proc'] = <<>>)
    BY ConstantsTyped DEF Acquire, Procs, ProcInv, ThreadsTyped
  <2> QED
    BY <2>1, <2>2, QuietStep
<1>5. AnswerInv'
  BY DEF Acquire, AnswerInv, KernelVerdictsAreElaborated
<1> QED
  BY <1>1, <1>2, <1>3, <1>4, <1>5

LEMMA EnvForKeeps ==
  ASSUME IInv, NEW t \in Threads, EnvFor(t)
  PROVE  IInv'
<1> USE DEF IInv
<1>1. PipesTyped' /\ ThreadsTyped'
  BY ConstantsTyped DEF EnvFor, PipesTyped, ThreadsTyped, Pcs, Stages, Kinds, Procs
<1>2. LockInv'
  BY ConstantsTyped DEF EnvFor, LockInv, ThreadsTyped
<1>3. ProcInv'
  BY ConstantsTyped DEF EnvFor, ProcInv, PipesTyped, ThreadsTyped, LockInv, Procs
<1>4. PipeInv'
  <2>1. OthersKept(t) /\ UNCHANGED <<inbox, outbox>> /\ pc[t] # "wait" /\ pc'[t] # "wait"
    BY DEF EnvFor, OthersKept, ThreadsTyped
  <2>2. proc' \in Procs => proc' = proc \/ (inbox[proc'] = <<>> /\ outbox[proc'] = <<>>)
    BY ConstantsTyped DEF EnvFor, Procs, ProcInv, ThreadsTyped
  <2> QED
    BY <2>1, <2>2, QuietStep
<1>5. AnswerInv'
  BY DEF EnvFor, AnswerInv, KernelVerdictsAreElaborated
<1> QED
  BY <1>1, <1>2, <1>3, <1>4, <1>5

LEMMA StartFindsKeeps ==
  ASSUME IInv, NEW t \in Threads, StartFinds(t)
  PROVE  IInv'
<1> USE DEF IInv
<1>1. PipesTyped' /\ ThreadsTyped'
  BY ConstantsTyped DEF StartFinds, PipesTyped, ThreadsTyped, Pcs, Stages, Kinds, Procs
<1>2. LockInv'
  BY ConstantsTyped DEF StartFinds, LockInv, ThreadsTyped
<1>3. ProcInv'
  BY ConstantsTyped DEF StartFinds, ProcInv, PipesTyped, ThreadsTyped, LockInv, Procs
<1>4. PipeInv'
  <2>1. OthersKept(t) /\ UNCHANGED <<inbox, outbox>> /\ pc[t] # "wait" /\ pc'[t] # "wait"
    BY DEF StartFinds, OthersKept, ThreadsTyped
  <2>2. proc' \in Procs => proc' = proc \/ (inbox[proc'] = <<>> /\ outbox[proc'] = <<>>)
    BY ConstantsTyped DEF StartFinds, Procs, ProcInv, ThreadsTyped
  <2> QED
    BY <2>1, <2>2, QuietStep
<1>5. AnswerInv'
  BY DEF StartFinds, AnswerInv, KernelVerdictsAreElaborated
<1> QED
  BY <1>1, <1>2, <1>3, <1>4, <1>5

LEMMA PollAliveKeeps ==
  ASSUME IInv, NEW t \in Threads, PollAlive(t)
  PROVE  IInv'
<1> USE DEF IInv
<1>1. PipesTyped' /\ ThreadsTyped'
  BY ConstantsTyped DEF PollAlive, PipesTyped, ThreadsTyped, Pcs, Stages, Kinds, Procs
<1>2. LockInv'
  BY ConstantsTyped DEF PollAlive, LockInv, ThreadsTyped
<1>3. ProcInv'
  BY ConstantsTyped DEF PollAlive, ProcInv, PipesTyped, ThreadsTyped, LockInv, Procs
<1>4. PipeInv'
  <2>1. OthersKept(t) /\ UNCHANGED <<inbox, outbox>> /\ pc[t] # "wait" /\ pc'[t] # "wait"
    BY DEF PollAlive, OthersKept, ThreadsTyped
  <2>2. proc' \in Procs => proc' = proc \/ (inbox[proc'] = <<>> /\ outbox[proc'] = <<>>)
    BY ConstantsTyped DEF PollAlive, Procs, ProcInv, ThreadsTyped
  <2> QED
    BY <2>1, <2>2, QuietStep
<1>5. AnswerInv'
  BY DEF PollAlive, AnswerInv, KernelVerdictsAreElaborated
<1> QED
  BY <1>1, <1>2, <1>3, <1>4, <1>5

LEMMA PollDeadKeeps ==
  ASSUME IInv, NEW t \in Threads, PollDead(t)
  PROVE  IInv'
<1> USE DEF IInv
<1>1. PipesTyped' /\ ThreadsTyped'
  <2>1. /\ proc' = 0 /\ envs' = {} /\ pc' = [pc EXCEPT ![t] = "start"]
        /\ UNCHANGED <<lock, spawned, alive, held, inbox, outbox, calls, stage, goal, env,
                       handle, result>>
    BY DEF PollDead, Drop
  <2>2. proc' \in 0 .. MaxProcs /\ envs' \subseteq Keys \X Nat /\ pc' \in [Threads -> Pcs]
    BY <2>1, ConstantsTyped DEF ThreadsTyped, Pcs
  <2> QED
    BY <2>1, <2>2 DEF PipesTyped, ThreadsTyped
<1>2. LockInv'
  BY ConstantsTyped DEF PollDead, Drop, LockInv, ThreadsTyped
<1>3. ProcInv'
  BY ConstantsTyped DEF PollDead, Drop, ProcInv, PipesTyped, ThreadsTyped, LockInv, Procs
<1>4. PipeInv'
  <2>1. OthersKept(t) /\ UNCHANGED <<inbox, outbox>> /\ pc[t] # "wait" /\ pc'[t] # "wait"
    BY DEF PollDead, Drop, OthersKept, ThreadsTyped
  <2>2. proc' \in Procs => proc' = proc \/ (inbox[proc'] = <<>> /\ outbox[proc'] = <<>>)
    BY ConstantsTyped DEF PollDead, Drop, Procs, ProcInv, ThreadsTyped
  <2> QED
    BY <2>1, <2>2, QuietStep
<1>5. AnswerInv'
  BY DEF PollDead, Drop, AnswerInv, KernelVerdictsAreElaborated
<1> QED
  BY <1>1, <1>2, <1>3, <1>4, <1>5

LEMMA SpawnKeeps ==
  ASSUME IInv, NEW t \in Threads, Spawn(t)
  PROVE  IInv'
<1> USE DEF IInv
<1> DEFINE n == spawned + 1
<1>0. n \in Procs /\ n \in 0 .. MaxProcs /\ n > spawned /\ proc' = n /\ spawned' = n
  BY ConstantsTyped DEF Spawn, ThreadsTyped, Procs
<1>1. /\ alive' = [alive EXCEPT ![n] = TRUE] /\ handle' = [handle EXCEPT ![t] = n]
      /\ pc' = [pc EXCEPT ![t] = "write"] /\ pc[t] = "start"
      /\ UNCHANGED <<lock, held, inbox, outbox, envs, calls, stage, goal, env, result>>
  BY DEF Spawn
<1>2. n > spawned /\ \A p \in Procs : p > n => p > spawned
  BY ConstantsTyped DEF ThreadsTyped, Procs
<1> HIDE DEF n
<1>3. PipesTyped' /\ ThreadsTyped'
  <2>1. alive' \in [Procs -> BOOLEAN]
    BY <1>0, <1>1 DEF PipesTyped
  <2>2. handle' \in [Threads -> 0 .. MaxProcs] /\ pc' \in [Threads -> Pcs]
    BY <1>0, <1>1 DEF ThreadsTyped, Pcs
  <2> QED
    BY <1>0, <1>1, <2>1, <2>2 DEF PipesTyped, ThreadsTyped
<1>4. LockInv'
  BY <1>1 DEF LockInv, ThreadsTyped
<1>5. ProcInv'
  <2>1. proc' <= spawned'
    BY <1>0 DEF ThreadsTyped
  <2>2. \A p \in Procs : p > spawned' => inbox'[p] = <<>> /\ outbox'[p] = <<>>
    BY <1>0, <1>1, <1>2 DEF ProcInv
  <2>3. \A p \in Procs : ~alive'[p] => inbox'[p] = <<>>
    BY <1>1 DEF ProcInv, PipesTyped
  <2>4. \A u \in Threads : pc'[u] \in {"write", "wait"} => handle'[u] \in Procs
    BY <1>0, <1>1 DEF ProcInv, ThreadsTyped
  <2> QED
    BY <2>1, <2>2, <2>3, <2>4 DEF ProcInv
<1>6. PipeInv'
  <2>1. OthersKept(t) /\ UNCHANGED <<inbox, outbox>> /\ pc[t] # "wait" /\ pc'[t] # "wait"
    BY <1>1 DEF OthersKept, ThreadsTyped
  <2>2. inbox[proc'] = <<>> /\ outbox[proc'] = <<>>
    BY <1>0 DEF ProcInv
  <2> QED
    BY <2>1, <2>2, QuietStep
<1>7. AnswerInv'
  BY <1>1 DEF AnswerInv, KernelVerdictsAreElaborated
<1> QED
  BY <1>3, <1>4, <1>5, <1>6, <1>7

LEMMA WriteKeeps ==
  ASSUME IInv, NEW t \in Threads, Write(t)
  PROVE  IInv'
<1> USE DEF IInv
<1>0. /\ pc[t] = "write" /\ proc \in Procs /\ handle[t] = proc /\ lock = t
      /\ \A u \in Threads : pc[u] # "wait"
  BY DEF Write, LockInv, ProcInv
<1>1. inbox[proc] = <<>> /\ outbox[proc] = <<>>
  BY <1>0 DEF PipeInv, Waits, Silent
<1>2. PICK r \in Requests : r = Request(t) /\ Mine(t, r)
  <2>1. Request(t) \in Requests /\ Mine(t, Request(t))
    BY DEF Request, Requests, ThreadsTyped, Mine
  <2> QED
    BY <2>1
<1>3. Append(inbox[proc], r) = <<r>> /\ <<r>> \in Seq(Requests) /\ Head(<<r>>) = r
  BY <1>1, <1>2, OneMessage
<1>4. inbox' = [inbox EXCEPT ![proc] = <<r>>] /\ pc' = [pc EXCEPT ![t] = "wait"]
  BY <1>2, <1>3 DEF Write
<1>5. /\ inbox'[proc] = <<r>> /\ pc'[t] = "wait"
      /\ \A p \in Procs : p # proc => inbox'[p] = inbox[p]
      /\ \A u \in Threads : u # t => pc'[u] = pc[u]
  BY <1>0, <1>4 DEF PipesTyped, ThreadsTyped
<1>6. PipesTyped' /\ ThreadsTyped'
  <2>1. inbox' \in [Procs -> Seq(Requests)]
    BY <1>0, <1>3, <1>4 DEF PipesTyped
  <2>2. pc' \in [Threads -> Pcs]
    BY <1>4 DEF ThreadsTyped, Pcs
  <2> QED
    BY <2>1, <2>2 DEF Write, PipesTyped, ThreadsTyped
<1>7. LockInv'
  BY <1>0, <1>5 DEF Write, LockInv
<1>8. ProcInv'
  <2>1. alive[proc] /\ ~(proc > spawned)
    BY <1>0 DEF Write, ProcInv, ThreadsTyped
  <2>2. \A u \in Threads : pc'[u] \in {"write", "wait"} => handle'[u] \in Procs
    BY <1>0, <1>5 DEF Write, ProcInv
  <2> QED
    BY <1>5, <2>1, <2>2 DEF Write, ProcInv
<1>9. PipeInv'
  <2>1. \A u \in Threads, p \in Procs : Waits(u, p)' => u = t /\ p = proc
    BY <1>0, <1>5 DEF Waits, Write
  <2>2. Waits(t, proc)'
    BY <1>0, <1>5 DEF Waits, Write
  <2>3. \A p \in Procs : Silent(p)' \/ Asked(p)' \/ Answered(p)'
    BY <1>1, <1>2, <1>5 DEF PipeInv, Silent, Asked, Answered, Write
  <2>4. Mine(t, r)'
    BY <1>2 DEF Mine, Write
  <2>5. proc' = proc /\ outbox' = outbox /\ handle' = handle
    BY DEF Write
  <2>6. \A p \in Procs : p = proc' => \E u \in Threads : Waits(u, p)'
    BY <2>2, <2>5
  <2>7. ASSUME NEW u \in Threads, NEW p \in Procs, Waits(u, p)'
        PROVE  /\ inbox'[p] # <<>> => Mine(u, Head(inbox[p]))'
               /\ outbox'[p] # <<>> => Mine(u, Head(outbox[p]).to)'
    <3>1. u = t /\ p = proc
      BY <2>1, <2>7
    <3>2. Head(inbox'[p]) = r /\ outbox'[p] = <<>>
      BY <1>1, <1>3, <1>5, <2>5, <3>1
    <3> QED
      BY <2>4, <3>1, <3>2 DEF Mine
  <2> QED
    BY <2>3, <2>6, <2>7 DEF PipeInv
<1>10. AnswerInv'
  BY DEF Write, AnswerInv, KernelVerdictsAreElaborated
<1> QED
  BY <1>6, <1>7, <1>8, <1>9, <1>10

LEMMA SendFailsKeeps ==
  ASSUME IInv, NEW t \in Threads, SendFails(t)
  PROVE  IInv'
<1> USE DEF IInv
<1>0. pc[t] \in {"start", "write", "poll"} /\ lock = t
  BY DEF SendFails, LockInv
<1>1. Return(t, NoAnswer) /\ Sound(NoAnswer)
  BY NoAnswerTyped DEF SendFails, Sound
<1>2. /\ lock' \in Threads \cup {NoOne} /\ pc' \in [Threads -> Pcs]
      /\ result' \in [Threads ->
           [kind : Kinds, key : Keys, at : Places, verdict : BOOLEAN]]
      /\ \A u \in Threads : pc'[u] \in {"idle", "lock"}
      /\ pc'[t] = "idle" /\ \A u \in Threads \ {t} : pc'[u] = pc[u]
      /\ KernelVerdictsAreElaborated'
  BY <1>0, <1>1, NoAnswerTyped, ReturnKeeps DEF AnswerInv
<1>3. PipesTyped' /\ ThreadsTyped'
  BY <1>2 DEF SendFails, PipesTyped, ThreadsTyped
<1>4. LockInv'
  BY <1>2 DEF LockInv
<1>5. ProcInv'
  BY <1>2 DEF SendFails, ProcInv
<1>6. PipeInv'
  <2>1. OthersKept(t)
    BY <1>2 DEF SendFails, OthersKept
  <2> QED
    BY <1>0, <1>2, <2>1, QuietStep DEF SendFails
<1>7. AnswerInv'
  BY <1>2 DEF SendFails, AnswerInv
<1> QED
  BY <1>3, <1>4, <1>5, <1>6, <1>7

LEMMA ReadEofKeeps ==
  ASSUME IInv, NEW t \in Threads, ReadEof(t)
  PROVE  IInv'
<1> USE DEF IInv
<1>0. pc[t] = "wait" /\ lock = t /\ handle[t] \in Procs
  BY DEF ReadEof, LockInv, ProcInv
<1>1. Return(t, NoAnswer) /\ Sound(NoAnswer)
  BY NoAnswerTyped DEF ReadEof, Sound
<1>2. /\ lock' \in Threads \cup {NoOne} /\ pc' \in [Threads -> Pcs]
      /\ result' \in [Threads ->
           [kind : Kinds, key : Keys, at : Places, verdict : BOOLEAN]]
      /\ \A u \in Threads : pc'[u] \in {"idle", "lock"}
      /\ pc'[t] = "idle" /\ \A u \in Threads \ {t} : pc'[u] = pc[u]
      /\ KernelVerdictsAreElaborated'
  BY <1>0, <1>1, NoAnswerTyped, ReturnKeeps DEF AnswerInv
<1>3. PipesTyped' /\ ThreadsTyped'
  BY <1>2 DEF ReadEof, PipesTyped, ThreadsTyped
<1>4. LockInv'
  BY <1>2 DEF LockInv
<1>5. ProcInv'
  BY <1>2 DEF ReadEof, ProcInv
<1>6. PipeInv'
  <2>1. OthersKept(t)
    BY <1>2 DEF ReadEof, OthersKept
  <2>2. \A p \in Procs : Silent(p)' \/ Asked(p)' \/ Answered(p)'
    BY DEF ReadEof, PipeInv, Silent, Asked, Answered
  <2>3. inbox'[handle[t]] = <<>> /\ outbox'[handle[t]] = <<>>
    BY <1>0 DEF ReadEof, ProcInv
  <2> QED
    BY <1>0, <1>2, <2>1, <2>2, <2>3, WaitEnds DEF ReadEof
<1>7. AnswerInv'
  BY <1>2 DEF ReadEof, AnswerInv
<1> QED
  BY <1>3, <1>4, <1>5, <1>6, <1>7

LEMMA TimeoutKeeps ==
  ASSUME IInv, NEW t \in Threads, Timeout(t)
  PROVE  IInv'
<1> USE DEF IInv
<1>0. pc[t] = "wait" /\ lock = t /\ handle[t] \in Procs /\ proc' = 0
  BY DEF Timeout, LockInv, ProcInv, Drop
<1>1. Return(t, NoAnswer) /\ Sound(NoAnswer)
  BY NoAnswerTyped DEF Timeout, Sound
<1>2. /\ lock' \in Threads \cup {NoOne} /\ pc' \in [Threads -> Pcs]
      /\ result' \in [Threads ->
           [kind : Kinds, key : Keys, at : Places, verdict : BOOLEAN]]
      /\ \A u \in Threads : pc'[u] \in {"idle", "lock"}
      /\ pc'[t] = "idle" /\ \A u \in Threads \ {t} : pc'[u] = pc[u]
      /\ KernelVerdictsAreElaborated'
  BY <1>0, <1>1, NoAnswerTyped, ReturnKeeps DEF AnswerInv
<1>3. PipesTyped' /\ ThreadsTyped'
  BY <1>0, <1>2, ConstantsTyped DEF Timeout, PipesTyped, ThreadsTyped
<1>4. LockInv'
  BY <1>2 DEF LockInv
<1>5. ProcInv'
  BY <1>0, <1>2 DEF Timeout, ProcInv, ThreadsTyped
<1>6. PipeInv'
  <2>1. OthersKept(t)
    BY <1>2 DEF Timeout, OthersKept
  <2>2. \A p \in Procs : Silent(p)' \/ Asked(p)' \/ Answered(p)'
    BY DEF Timeout, PipeInv, Silent, Asked, Answered
  <2> QED
    BY <1>0, <1>2, <2>1, <2>2, WaitEnds DEF Timeout
<1>7. AnswerInv'
  BY <1>2 DEF Timeout, AnswerInv
<1> QED
  BY <1>3, <1>4, <1>5, <1>6, <1>7

\* What the reader does with the answer: it goes on to the next exchange, or
\* returns, and accepts a proof only on the answer to its check.
LEMMA GotKeeps ==
  ASSUME ThreadsTyped, LockInv, KernelVerdictsAreElaborated, NEW t \in Threads,
         lock = t, NEW answer \in Answers, stage[t] = "check" => Sound(answer),
         Got(t, answer)
  PROVE  /\ lock' \in Threads \cup {NoOne} /\ pc' \in [Threads -> Pcs]
         /\ result' \in [Threads ->
              [kind : Kinds, key : Keys, at : Places, verdict : BOOLEAN]]
         /\ env' \in [Threads -> Nat] /\ stage' \in [Threads -> Stages]
         /\ envs' \subseteq Keys \X Nat
         /\ pc'[t] \in {"idle", "start"}
         /\ \A u \in Threads \ {t} : pc'[u] = pc[u] /\ stage'[u] = stage[u]
         /\ LockInv'
         /\ KernelVerdictsAreElaborated'
<1>1. CASE stage[t] = "import" /\ answer.clean
  <2>1. /\ env' = [env EXCEPT ![t] = answer.new]
        /\ stage' = [stage EXCEPT ![t] = "canary"]
        /\ pc' = [pc EXCEPT ![t] = "start"]
        /\ UNCHANGED <<envs, result, lock>>
    BY <1>1 DEF Got
  <2> QED
    BY <2>1
    DEF ThreadsTyped, LockInv, KernelVerdictsAreElaborated, Answers, Pcs, Stages
<1>2. CASE stage[t] = "canary" /\ answer.clean
  <2>1. /\ envs' = {e \in envs : e[1] # goal[t].key} \cup {<<goal[t].key, env[t]>>}
        /\ stage' = [stage EXCEPT ![t] = "check"]
        /\ pc' = [pc EXCEPT ![t] = "start"]
        /\ UNCHANGED <<env, result, lock>>
    BY <1>2 DEF Got
  <2>2. envs' \subseteq Keys \X Nat
    BY <2>1 DEF ThreadsTyped
  <2> QED
    BY <2>1, <2>2
    DEF ThreadsTyped, LockInv, KernelVerdictsAreElaborated, Pcs, Stages
<1>3. CASE stage[t] = "check"
  <2>1. Return(t, answer) /\ UNCHANGED <<env, envs, stage>>
    BY <1>3 DEF Got
  <2>2. Sound(answer)
    BY <1>3
  <2> QED
    BY <2>1, <2>2, ReturnKeeps DEF ThreadsTyped, LockInv
<1>4. CASE ~(stage[t] = "import" /\ answer.clean) /\ stage[t] # "check"
           /\ ~(stage[t] = "canary" /\ answer.clean)
  <2>1. Return(t, NoAnswer) /\ UNCHANGED <<env, envs, stage>>
    BY <1>4 DEF Got
  <2>2. Sound(NoAnswer) /\ NoAnswer \in Answers
    BY NoAnswerTyped DEF Sound
  <2> QED
    BY <2>1, <2>2, ReturnKeeps DEF ThreadsTyped, LockInv
<1> QED
  BY <1>1, <1>2, <1>3, <1>4

LEMMA ReadKeeps ==
  ASSUME IInv, NEW t \in Threads, Read(t)
  PROVE  IInv'
<1> USE DEF IInv
<1> DEFINE h == handle[t]
<1>0. pc[t] = "wait" /\ lock = t /\ h \in Procs /\ outbox[h] # <<>>
  BY DEF Read, LockInv, ProcInv
<1> HIDE DEF h
<1>1. PICK a \in Replies : inbox[h] = <<>> /\ outbox[h] = <<a>>
  BY <1>0 DEF PipeInv, Silent, Asked, Answered
<1>2. Head(outbox[h]) = a /\ Tail(outbox[h]) = <<>> /\ <<>> \in Seq(Replies)
  BY <1>1, OneMessage, NoMessage
<1>3. Waits(t, h) /\ Mine(t, a.to)
  BY <1>0, <1>1, <1>2 DEF PipeInv, Waits, h
<1>4. a.answer \in Answers /\ (stage[t] = "check" => Sound(a.answer))
  BY <1>0, <1>1, <1>2, <1>3 DEF Replies, AnswerInv, Mine
<1>5. Got(t, a.answer)
  BY <1>2 DEF Read, h
<1>6. /\ lock' \in Threads \cup {NoOne} /\ pc' \in [Threads -> Pcs]
      /\ result' \in [Threads ->
           [kind : Kinds, key : Keys, at : Places, verdict : BOOLEAN]]
      /\ env' \in [Threads -> Nat] /\ stage' \in [Threads -> Stages]
      /\ envs' \subseteq Keys \X Nat
      /\ pc'[t] \in {"idle", "start"}
      /\ \A u \in Threads \ {t} : pc'[u] = pc[u] /\ stage'[u] = stage[u]
      /\ LockInv'
      /\ KernelVerdictsAreElaborated'
  BY <1>0, <1>4, <1>5, GotKeeps DEF AnswerInv
<1>7. outbox' = [outbox EXCEPT ![h] = <<>>]
  BY <1>2 DEF Read, h
<1>8. outbox'[h] = <<>> /\ \A p \in Procs : p # h => outbox'[p] = outbox[p]
  BY <1>0, <1>7 DEF PipesTyped
<1>9. PipesTyped'
  BY <1>2, <1>7 DEF Read, PipesTyped
<1>10. ThreadsTyped'
  BY <1>6 DEF Read, ThreadsTyped
<1>11. ProcInv'
  BY <1>6, <1>8 DEF Read, ProcInv
<1>12. PipeInv'
  <2>1. OthersKept(t)
    BY <1>6 DEF Read, OthersKept
  <2>3. \A p \in Procs : Silent(p)' \/ Asked(p)' \/ Answered(p)'
    BY <1>1, <1>8 DEF Read, PipeInv, Silent, Asked, Answered
  <2>4. inbox'[handle[t]] = <<>> /\ outbox'[handle[t]] = <<>>
    BY <1>1, <1>8 DEF Read, h
  <2>5. \A p \in Procs : p # handle[t] => inbox'[p] = inbox[p] /\ outbox'[p] = outbox[p]
    BY <1>8 DEF Read, h
  <2> QED
    BY <1>0, <1>6, <2>1, <2>3, <2>4, <2>5, WaitEnds DEF Read
<1>13. AnswerInv'
  BY <1>6, <1>8 DEF AnswerInv
<1> QED
  BY <1>6, <1>9, <1>10, <1>11, <1>12, <1>13

\* A clean outcome of a check is that of a sound environment, or of none.
LEMMA OutcomesTyped ==
  ASSUME PipesTyped, NEW p \in Procs, NEW r \in Requests, NEW o \in Outcomes(p, r)
  PROVE  /\ o.at \in Keys \cup {"broken", "unknown"} /\ o.clean \in BOOLEAN
         /\ r.stage = "check" => Sound(o)
<1>1. r.key \in Keys /\ r.id \in Nat
  BY DEF Requests
<1>2. At(p, r.id) \in Keys \cup {"broken", "unknown"}
  <2>1. CASE r.id < Len(held[p])
    <3>1. held[p] \in Seq(Keys \cup {"broken"})
      BY DEF PipesTyped
    <3>2. r.id + 1 \in 1 .. Len(held[p])
      BY <1>1, <2>1, <3>1, LenProperties
    <3>3. held[p][r.id + 1] \in Keys \cup {"broken"}
      BY <3>1, <3>2, ElementOfSeq
    <3> QED
      BY <2>1, <3>3 DEF At
  <2>2. CASE ~(r.id < Len(held[p]))
    BY <2>2 DEF At
  <2> QED
    BY <2>1, <2>2
<1>3. CASE r.stage = "import"
  <2>1. \/ \E a \in {r.key, "broken"} : o = [at |-> a, clean |-> TRUE]
        \/ o = [at |-> r.key, clean |-> FALSE]
    BY <1>3 DEF Outcomes
  <2>2. o.at \in {r.key, "broken"} /\ o.clean \in BOOLEAN
    <3>1. CASE \E a \in {r.key, "broken"} : o = [at |-> a, clean |-> TRUE]
      <4>1. PICK a \in {r.key, "broken"} : o = [at |-> a, clean |-> TRUE]
        BY <3>1
      <4>2. o.at = a /\ o.clean = TRUE
        BY <4>1
      <4> QED
        BY <4>1, <4>2
    <3>2. CASE o = [at |-> r.key, clean |-> FALSE]
      <4>1. o.at = r.key /\ o.clean = FALSE
        BY <3>2
      <4> QED
        BY <4>1
    <3> QED
      BY <2>1, <3>1, <3>2
  <2> QED
    BY <1>1, <1>3, <2>2
<1>4. CASE r.stage # "import"
  <2> DEFINE a == At(p, r.id)
             oks == {ok \in BOOLEAN :
                       /\ a = "unknown" => ok
                       /\ a = "broken" => ~ok
                       /\ r.stage = "canary" /\ a # "broken" => ok}
  <2>1. Outcomes(p, r) = {[at |-> a, clean |-> ok] : ok \in oks}
    BY <1>4 DEF Outcomes
  <2>2. \A ok \in oks : ok \in BOOLEAN /\ (a = "broken" => ~ok)
    OBVIOUS
  <2> HIDE DEF a, oks
  <2>3. PICK ok \in oks : o = [at |-> a, clean |-> ok]
    BY <2>1
  <2>4. o.at = a /\ o.clean = ok /\ ok \in BOOLEAN
    BY <2>2, <2>3
  <2>5. Sound(o)
    BY <1>2, <2>2, <2>3, <2>4 DEF Sound, a
  <2> QED
    BY <1>2, <2>4, <2>5 DEF a
<1> QED
  BY <1>3, <1>4

LEMMA RespondKeeps ==
  ASSUME IInv, NEW p \in Procs, Respond(p)
  PROVE  IInv'
<1> USE DEF IInv
<1>1. PICK r \in Requests : inbox[p] = <<r>> /\ outbox[p] = <<>>
  BY DEF Respond, PipeInv, Silent, Asked, Answered
<1>2. Head(inbox[p]) = r /\ Tail(inbox[p]) = <<>> /\ <<>> \in Seq(Requests)
  BY <1>1, OneMessage, NoMessage
<1>3. PICK o \in Outcomes(p, r) :
        /\ outbox' = [outbox EXCEPT ![p] = Append(@,
             [to |-> r,
              answer |-> [at |-> o.at, clean |-> o.clean, new |-> Len(held[p])]])]
        /\ held' = [held EXCEPT ![p] =
             IF o.at = "unknown" THEN @ ELSE Append(@, o.at)]
  BY <1>2 DEF Respond
<1>4. /\ o.at \in Keys \cup {"broken", "unknown"} /\ o.clean \in BOOLEAN
      /\ r.stage = "check" => Sound(o)
  BY OutcomesTyped
<1> DEFINE a == [to |-> r,
                 answer |-> [at |-> o.at, clean |-> o.clean, new |-> Len(held[p])]]
<1>5. held[p] \in Seq(Keys \cup {"broken"}) /\ Len(held[p]) \in Nat
  BY LenProperties DEF PipesTyped
<1>6. a \in Replies /\ a.to = r /\ (r.stage = "check" => Sound(a.answer))
  BY <1>4, <1>5 DEF Replies, Answers, Places, Sound
<1>7. outbox' = [outbox EXCEPT ![p] = Append(@, a)]
  BY <1>3
<1> HIDE DEF a
<1>8. Append(outbox[p], a) = <<a>> /\ <<a>> \in Seq(Replies) /\ Head(<<a>>) = a
      /\ <<a>> # <<>>
  BY <1>1, <1>6, OneMessage
<1>9. /\ outbox' = [outbox EXCEPT ![p] = <<a>>]
      /\ inbox' = [inbox EXCEPT ![p] = <<>>]
  BY <1>2, <1>7, <1>8 DEF Respond
<1>10. /\ outbox'[p] = <<a>> /\ inbox'[p] = <<>>
       /\ \A q \in Procs : q # p => outbox'[q] = outbox[q] /\ inbox'[q] = inbox[q]
  BY <1>9 DEF PipesTyped
<1>11. PipesTyped' /\ ThreadsTyped'
  <2> DEFINE hp == IF o.at = "unknown" THEN held[p] ELSE Append(held[p], o.at)
  <2>1. hp \in Seq(Keys \cup {"broken"})
    BY <1>4, <1>5, AppendProperties
  <2>2. held' = [held EXCEPT ![p] = hp]
    BY <1>3
  <2> HIDE DEF hp
  <2>3. held' \in [Procs -> Seq(Keys \cup {"broken"})]
    BY <2>1, <2>2 DEF PipesTyped
  <2>4. inbox' \in [Procs -> Seq(Requests)] /\ outbox' \in [Procs -> Seq(Replies)]
    BY <1>2, <1>8, <1>9 DEF PipesTyped
  <2> QED
    BY <2>3, <2>4 DEF Respond, PipesTyped, ThreadsTyped
<1>12. LockInv'
  BY DEF Respond, LockInv
<1>13. ProcInv'
  <2>1. ~(p > spawned)
    BY DEF Respond, ProcInv
  <2> QED
    BY <1>10, <2>1 DEF Respond, ProcInv
<1>14. PipeInv'
  <2>1. \A u \in Threads, q \in Procs : Waits(u, q)' <=> Waits(u, q)
    BY DEF Respond, Waits
  <2>2. \A q \in Procs : Silent(q)' \/ Asked(q)' \/ Answered(q)'
    BY <1>6, <1>10 DEF PipeInv, Silent, Asked, Answered
  <2>3. ASSUME NEW q \in Procs, q = proc'
        PROVE  Silent(q)' \/ \E u \in Threads : Waits(u, q)'
    <3>1. q = proc
      BY <2>3 DEF Respond
    <3>2. CASE q = p
      <4>1. ~Silent(p)
        BY DEF Respond, Silent
      <4> QED
        BY <2>1, <3>1, <3>2, <4>1 DEF PipeInv
    <3>3. CASE q # p
      BY <1>10, <2>1, <3>1, <3>3 DEF PipeInv, Silent
    <3> QED
      BY <3>2, <3>3
  <2>4. ASSUME NEW u \in Threads, NEW q \in Procs, Waits(u, q)'
        PROVE  /\ inbox'[q] # <<>> => Mine(u, Head(inbox[q]))'
               /\ outbox'[q] # <<>> => Mine(u, Head(outbox[q]).to)'
    <3>1. Waits(u, q)
      BY <2>1, <2>4
    <3>2. CASE q = p
      <4>1. Mine(u, r)
        BY <1>1, <1>2, <3>1, <3>2 DEF PipeInv, Respond
      <4>2. Mine(u, r)'
        BY <4>1 DEF Mine, Respond
      <4>3. outbox'[q] = <<a>> /\ inbox'[q] = <<>> /\ Head(outbox'[q]).to = r
        BY <1>6, <1>8, <1>10, <3>2
      <4> QED
        BY <4>2, <4>3 DEF Mine
    <3>3. CASE q # p
      BY <1>10, <3>1, <3>3 DEF PipeInv, Mine, Respond
    <3> QED
      BY <3>2, <3>3
  <2> QED
    BY <2>2, <2>3, <2>4 DEF PipeInv
<1>15. AnswerInv'
  <2>1. ASSUME NEW q \in Procs, outbox'[q] # <<>>, Head(outbox'[q]).to.stage = "check"
        PROVE  Sound(Head(outbox'[q]).answer)
    <3>1. CASE q = p
      <4>1. Head(outbox'[q]) = a
        BY <1>8, <1>10, <3>1
      <4> QED
        BY <1>6, <2>1, <4>1
    <3>2. CASE q # p
      BY <1>10, <2>1, <3>2 DEF AnswerInv
    <3> QED
      BY <3>1, <3>2
  <2>2. KernelVerdictsAreElaborated'
    BY DEF Respond, AnswerInv, KernelVerdictsAreElaborated
  <2> QED
    BY <2>1, <2>2 DEF AnswerInv, Sound
<1> QED
  BY <1>11, <1>12, <1>13, <1>14, <1>15

LEMMA DieKeeps ==
  ASSUME IInv, NEW p \in Procs, Die(p)
  PROVE  IInv'
<1> USE DEF IInv
<1>1. /\ inbox' = [inbox EXCEPT ![p] = <<>>] /\ alive' = [alive EXCEPT ![p] = FALSE]
      /\ <<>> \in Seq(Requests)
  BY NoMessage DEF Die
<1>2. /\ inbox'[p] = <<>> /\ alive'[p] = FALSE
      /\ \A q \in Procs : q # p => inbox'[q] = inbox[q] /\ alive'[q] = alive[q]
  BY <1>1 DEF PipesTyped
<1>3. PipesTyped' /\ ThreadsTyped'
  BY <1>1 DEF Die, PipesTyped, ThreadsTyped
<1>4. LockInv'
  BY DEF Die, LockInv
<1>5. ProcInv'
  BY <1>2 DEF Die, ProcInv
<1>6. PipeInv'
  <2>1. \A u \in Threads, q \in Procs : Waits(u, q)' <=> Waits(u, q)
    BY DEF Die, Waits
  <2>2. \A q \in Procs : (Silent(q) => Silent(q)') /\ (Silent(q)' \/ Asked(q)' \/ Answered(q)')
    BY <1>2 DEF Die, PipeInv, Silent, Asked, Answered
  <2>3. \A u \in Threads, q \in Procs : Waits(u, q)' =>
          /\ inbox'[q] # <<>> => Mine(u, Head(inbox[q]))'
          /\ outbox'[q] # <<>> => Mine(u, Head(outbox[q]).to)'
    BY <1>2, <2>1 DEF Die, PipeInv, Mine
  <2>4. \A q \in Procs : q = proc' => Silent(q)' \/ \E u \in Threads : Waits(u, q)'
    BY <2>1, <2>2 DEF Die, PipeInv
  <2> QED
    BY <2>2, <2>3, <2>4 DEF PipeInv
<1>7. AnswerInv'
  BY DEF Die, AnswerInv, KernelVerdictsAreElaborated
<1> QED
  BY <1>3, <1>4, <1>5, <1>6, <1>7

\* The watchdog takes the process away, or the cache, and touches nothing else.
LEMMA WatchdogKeeps ==
  ASSUME IInv, WatchdogClose \/ WatchdogClear
  PROVE  IInv'
<1> USE DEF IInv
<1>1. /\ proc' \in {0, proc} /\ envs' \in {{}, envs}
      /\ UNCHANGED <<lock, spawned, alive, held, inbox, outbox, calls, pc, stage, goal,
                     env, handle, result>>
  BY DEF WatchdogClose, WatchdogClear, Drop
<1>2. PipesTyped' /\ ThreadsTyped'
  BY <1>1, ConstantsTyped DEF PipesTyped, ThreadsTyped
<1>3. LockInv' /\ ProcInv'
  BY <1>1 DEF LockInv, ProcInv, ThreadsTyped
<1>4. PipeInv'
  BY <1>1 DEF PipeInv, Silent, Asked, Answered, Waits, Mine, Procs
<1>5. AnswerInv'
  BY <1>1 DEF AnswerInv, KernelVerdictsAreElaborated
<1> QED
  BY <1>2, <1>3, <1>4, <1>5

LEMMA NextIInv == IInv /\ [Next]_vars => IInv'
<1> SUFFICES ASSUME IInv, [Next]_vars PROVE IInv'
  OBVIOUS
<1>1. ASSUME NEW t \in Threads, Step(t) PROVE IInv'
  BY <1>1, AcquireKeeps, EnvForKeeps, StartFindsKeeps, PollAliveKeeps, PollDeadKeeps,
     SpawnKeeps, WriteKeeps, SendFailsKeeps, ReadKeeps, ReadEofKeeps, TimeoutKeeps
  DEF Step
<1>2. ASSUME NEW t \in Threads, NEW kind \in Kinds, NEW key \in Keys, Begin(t, kind, key)
      PROVE  IInv'
  BY <1>2, BeginKeeps
<1>3. ASSUME NEW p \in Procs, Respond(p) \/ Die(p) PROVE IInv'
  BY <1>3, RespondKeeps, DieKeeps
<1>4. ASSUME WatchdogClose \/ WatchdogClear PROVE IInv'
  BY <1>4, WatchdogKeeps
<1>5. CASE UNCHANGED vars
  BY <1>5 DEF vars, IInv, PipesTyped, ThreadsTyped, LockInv, ProcInv, PipeInv, AnswerInv,
     Silent, Asked, Answered, Waits, Mine, KernelVerdictsAreElaborated
<1> QED
  BY <1>1, <1>2, <1>3, <1>4, <1>5 DEF Next

LEMMA InvariantHolds == Spec => []IInv
BY InitIInv, NextIInv, PTL DEF Spec

(***************************************************************************)
(* The theorems.                                                           *)
(***************************************************************************)
\* Every variable keeps its type, and the pipes of a process never carry more
\* than one message between them.
THEOREM TypeCorrectness == Spec => []TypeOK
<1>1. IInv => TypeOK
  <2> SUFFICES ASSUME IInv PROVE TypeOK
    OBVIOUS
  <2>1. \A p \in Procs : \A i \in DOMAIN held[p] : held[p][i] \in Places
    <3> SUFFICES ASSUME NEW p \in Procs, NEW i \in DOMAIN held[p]
                 PROVE  held[p][i] \in Places
      OBVIOUS
    <3>1. held[p] \in Seq(Keys \cup {"broken"})
      BY DEF IInv, PipesTyped
    <3>2. i \in 1 .. Len(held[p])
      BY <3>1, LenProperties
    <3> QED
      BY <3>1, <3>2, ElementOfSeq DEF Places
  <2>2. ASSUME NEW p \in Procs PROVE Len(inbox[p]) + Len(outbox[p]) <= 1
    <3>1. Len(<<>>) = 0
      BY NoMessage
    <3>2. \A S, x : x \in S => Len(<<x>>) = 1
      BY OneMessage
    <3>3. CASE Silent(p)
      BY <3>1, <3>3 DEF Silent
    <3>4. CASE Asked(p)
      BY <3>1, <3>2, <3>4 DEF Asked
    <3>5. CASE Answered(p)
      BY <3>1, <3>2, <3>5 DEF Answered
    <3> QED
      BY <3>3, <3>4, <3>5 DEF IInv, PipeInv
  <2> QED
    BY <2>1, <2>2 DEF IInv, PipesTyped, ThreadsTyped, TypeOK
<1> QED
  BY <1>1, InvariantHolds, PTL

\* A thread reads the answer to its own command, for any number of threads,
\* processes, timeouts and closes by the watchdog.
THEOREM AnswersAreOnesOwn == Spec => []AnswersMatch
<1>1. IInv => AnswersMatch
  <2> SUFFICES ASSUME IInv, NEW t \in Threads, pc[t] = "wait", outbox[handle[t]] # <<>>
               PROVE  Mine(t, Head(outbox[handle[t]]).to)
    BY DEF AnswersMatch, Mine
  <2>1. handle[t] \in Procs
    BY DEF IInv, ProcInv
  <2> QED
    BY <2>1 DEF IInv, PipeInv, Waits
<1> QED
  BY <1>1, InvariantHolds, PTL

\* A proof is accepted only of a source that a sound environment elaborated.
THEOREM VerdictsAreElaborated == Spec => []KernelVerdictsAreElaborated
<1>1. IInv => KernelVerdictsAreElaborated
  BY DEF IInv, AnswerInv
<1> QED
  BY <1>1, InvariantHolds, PTL

----------------------------------------------------------------------------
(***************************************************************************)
(* Calls return, but for fairness.  What a call has still to do is bounded *)
(* and lowered by each of its own steps, and nothing else raises it,       *)
(* whatever the REPL, the other threads and the watchdog do in between.    *)
(***************************************************************************)
\* Exchanges to come after the one at hand.
Exchanges(t) ==
  CASE stage[t] = "import" -> 2 [] stage[t] = "canary" -> 1 [] OTHER -> 0

\* Steps left in an exchange: a corpse found by poll costs another start, but with
\* _proc None there is nothing to poll.
InExchange(t) ==
  CASE pc[t] = "start" -> IF proc = 0 THEN 3 ELSE 5
    [] pc[t] = "poll" -> 4
    [] pc[t] = "write" -> 2
    [] OTHER -> 1

Left(t) ==
  CASE pc[t] = "idle" -> 0
    [] pc[t] = "lock" -> 17
    [] pc[t] = "env" -> 16
    [] OTHER -> 5 * Exchanges(t) + InExchange(t)

\* The lock is held by a thread within a call, never by one that returned.
LockHeld == lock # NoOne => pc[lock] \notin {"idle", "lock"}

StepsLeft ==
  \A t \in Threads : Left(t) \in Nat /\ Left(t) <= 17 /\ (Left(t) = 0 <=> pc[t] = "idle")

Shrinks ==
  \A t \in Threads : /\ Step(t) => Left(t)' < Left(t)
                     /\ pc[t] # "idle" => Left(t)' <= Left(t)

\* A call returns after at most 17 steps of its own thread, however often the REPL
\* dies, stays silent or is closed meanwhile, and the lock it may have waited for
\* is only ever held by another call of which the same is true.
CallsShrink == [](StepsLeft /\ LockHeld) /\ [][Shrinks]_vars

LEMMA LeftTyped ==
  ASSUME ThreadsTyped
  PROVE  StepsLeft
<1> SUFFICES ASSUME NEW t \in Threads
             PROVE  Left(t) \in Nat /\ Left(t) <= 17 /\ (Left(t) = 0 <=> pc[t] = "idle")
  BY DEF StepsLeft
<1>1. pc[t] \in Pcs /\ stage[t] \in Stages
  BY DEF ThreadsTyped
<1>2. Exchanges(t) \in 0..2
  BY <1>1 DEF Exchanges, Stages
<1>3. InExchange(t) \in 1..5
  BY <1>1 DEF InExchange, Pcs
<1>4. 5 * Exchanges(t) + InExchange(t) \in 1..15
  BY <1>2, <1>3
<1> HIDE DEF Exchanges, InExchange
<1> QED
  BY <1>1, <1>4 DEF Left, Pcs

\* Every step of a call lowers what it has left.
LEMMA OwnStepLowers ==
  ASSUME IInv, NEW t \in Threads, Step(t)
  PROVE  Left(t)' < Left(t)
<1>0. /\ pc \in [Threads -> Pcs] /\ stage \in [Threads -> Stages]
      /\ proc \in Nat /\ NoOne \notin Threads /\ pc[t] # "idle"
  BY ConstantsTyped
  DEF IInv, ThreadsTyped, Step, Acquire, EnvFor, StartFinds, PollAlive, PollDead, Spawn,
      Write, SendFails, Read, ReadEof, Timeout
<1>1. Left(t) \in Nat /\ Left(t) > 0
  BY <1>0, LeftTyped DEF StepsLeft, IInv
\* The call returned.
<1>2. ASSUME NEW answer, Return(t, answer)
      PROVE  Left(t)' < Left(t)
  <2>1. pc'[t] = "idle"
    BY <1>0, <1>2 DEF Return
  <2>2. Left(t)' = 0
    BY <2>1 DEF Left
  <2> QED
    BY <1>1, <2>2
\* It goes on within the exchange.
<1>3. ASSUME NEW k \in Nat, NEW l \in Nat, l < k,
             pc[t] \in {"start", "poll", "write", "wait"},
             pc'[t] \in {"start", "poll", "write", "wait"}, stage'[t] = stage[t],
             InExchange(t) = k, InExchange(t)' = l
      PROVE  Left(t)' < Left(t)
  <2>1. Exchanges(t)' = Exchanges(t)
    BY <1>3 DEF Exchanges
  <2>2. PICK e \in Nat : e = Exchanges(t)
    BY DEF Exchanges
  <2>3. Left(t) = 5 * e + k /\ Left(t)' = 5 * e + l
    BY <1>3, <2>1, <2>2 DEF Left
  <2> QED
    BY <1>3, <2>3
<1>4. CASE Acquire(t)
  <2>1. pc[t] = "lock" /\ pc'[t] = "env"
    BY <1>0, <1>4 DEF Acquire
  <2> QED
    BY <2>1 DEF Left
<1>5. CASE EnvFor(t)
  <2>1. pc[t] = "env" /\ pc'[t] = "start" /\ stage'[t] \in {"import", "check"}
    BY <1>0, <1>5 DEF EnvFor
  <2>2. Exchanges(t)' \in 0..2 /\ InExchange(t)' \in 1..5
    BY <2>1 DEF Exchanges, InExchange
  <2>3. Left(t) = 16 /\ Left(t)' = 5 * Exchanges(t)' + InExchange(t)'
    BY <2>1 DEF Left
  <2> QED
    BY <2>2, <2>3
<1>6. CASE StartFinds(t)
  <2>1. pc[t] = "start" /\ proc # 0 /\ pc'[t] = "poll" /\ stage' = stage
    BY <1>0, <1>6 DEF StartFinds
  <2>2. InExchange(t) = 5 /\ InExchange(t)' = 4
    BY <2>1 DEF InExchange
  <2> QED
    BY <1>3, <2>1, <2>2
<1>7. CASE PollAlive(t)
  <2>1. pc[t] = "poll" /\ pc'[t] = "write" /\ stage' = stage
    BY <1>0, <1>7 DEF PollAlive
  <2>2. InExchange(t) = 4 /\ InExchange(t)' = 2
    BY <2>1 DEF InExchange
  <2> QED
    BY <1>3, <2>1, <2>2
<1>8. CASE PollDead(t)
  <2>1. pc[t] = "poll" /\ pc'[t] = "start" /\ proc' = 0 /\ stage' = stage
    BY <1>0, <1>8 DEF PollDead, Drop
  <2>2. InExchange(t) = 4 /\ InExchange(t)' = 3
    BY <2>1 DEF InExchange
  <2> QED
    BY <1>3, <2>1, <2>2
<1>9. CASE Spawn(t)
  <2>1. pc[t] = "start" /\ proc = 0 /\ pc'[t] = "write" /\ stage' = stage
    BY <1>0, <1>9 DEF Spawn
  <2>2. InExchange(t) = 3 /\ InExchange(t)' = 2
    BY <2>1 DEF InExchange
  <2> QED
    BY <1>3, <2>1, <2>2
<1>10. CASE Write(t)
  <2>1. pc[t] = "write" /\ pc'[t] = "wait" /\ stage' = stage
    BY <1>0, <1>10 DEF Write
  <2>2. InExchange(t) = 2 /\ InExchange(t)' = 1
    BY <2>1 DEF InExchange
  <2> QED
    BY <1>3, <2>1, <2>2
<1>11. CASE Read(t)
  <2>1. PICK answer : Got(t, answer)
    BY <1>11 DEF Read
  <2>2. \/ \E a : Return(t, a)
        \/ /\ pc'[t] = "start"
           /\ \/ stage[t] = "import" /\ stage'[t] = "canary"
              \/ stage[t] = "canary" /\ stage'[t] = "check"
    BY <1>0, <2>1 DEF Got
  <2>3. ASSUME pc'[t] = "start", pc[t] = "wait",
               \/ stage[t] = "import" /\ stage'[t] = "canary"
               \/ stage[t] = "canary" /\ stage'[t] = "check"
        PROVE  Left(t)' < Left(t)
    <3>1. PICK e \in Nat : Exchanges(t) = e + 1 /\ Exchanges(t)' = e
      BY <2>3 DEF Exchanges
    <3>2. PICK l \in Nat : l = InExchange(t)' /\ l <= 5
      BY <2>3 DEF InExchange
    <3>3. Left(t) = 5 * (e + 1) + 1
      BY <2>3, <3>1 DEF Left, InExchange
    <3>4. Left(t)' = 5 * e + l
      BY <2>3, <3>1, <3>2 DEF Left
    <3> QED
      BY <3>2, <3>3, <3>4
  <2>4. pc[t] = "wait"
    BY <1>11 DEF Read
  <2> QED
    BY <1>2, <2>2, <2>3, <2>4
<1> QED
  BY <1>2, <1>4, <1>5, <1>6, <1>7, <1>8, <1>9, <1>10, <1>11
  DEF Step, SendFails, ReadEof, Timeout

\* A call that goes on is not set back by what is not its own step: while it is
\* about to look for a process, it holds the lock, and only its own thread starts
\* one.
LEMMA OthersDoNotRaise ==
  ASSUME IInv, NEW u \in Threads, pc[u] # "idle",
         pc'[u] = pc[u], stage'[u] = stage[u],
         pc[u] = "start" => proc' = proc \/ proc' = 0
  PROVE  Left(u)' <= Left(u)
<1>1. Left(u) \in Nat
  BY LeftTyped DEF IInv, StepsLeft
<1>2. Exchanges(u)' = Exchanges(u)
  BY DEF Exchanges
<1>3. CASE pc[u] # "start" \/ proc' = proc
  <2>1. InExchange(u)' = InExchange(u)
    BY <1>3 DEF InExchange
  <2>2. Left(u)' = Left(u)
    BY <1>2, <2>1 DEF Left
  <2> QED
    BY <1>1, <2>2
<1>4. CASE pc[u] = "start" /\ proc' = 0
  <2>1. PICK e \in Nat : e = Exchanges(u)
    BY DEF Exchanges
  <2>2. PICK k \in Nat : k = InExchange(u) /\ k >= 3
    BY <1>4 DEF InExchange
  <2>3. InExchange(u)' = 3
    BY <1>4 DEF InExchange
  <2>4. Left(u) = 5 * e + k /\ Left(u)' = 5 * e + 3
    BY <1>2, <1>4, <2>1, <2>2, <2>3 DEF Left
  <2> QED
    BY <2>2, <2>4
<1> QED
  BY <1>3, <1>4

LEMMA NextStepsLeft == IInv /\ [Next]_vars => StepsLeft'
<1>1. IInv => StepsLeft
  BY LeftTyped DEF IInv
<1>2. IInv /\ [Next]_vars => IInv'
  BY NextIInv
<1> QED
  BY <1>1, <1>2, PTL

LEMMA NextShrinks == IInv /\ [Next]_vars => [Shrinks]_vars
<1> SUFFICES ASSUME IInv, Next PROVE Shrinks
  BY DEF vars
<1> SUFFICES ASSUME NEW u \in Threads, pc[u] # "idle" PROVE Left(u)' <= Left(u)
  BY OwnStepLowers DEF Shrinks
<1>0. /\ pc \in [Threads -> Pcs] /\ stage \in [Threads -> Stages]
      /\ LockInv /\ NoOne \notin Threads
  BY ConstantsTyped DEF IInv, ThreadsTyped
<1>1. ASSUME NEW t \in Threads, Step(t)
      PROVE  Left(u)' <= Left(u)
  <2>1. CASE t = u
    <3>1. Left(u)' < Left(u)
      BY <1>1, <2>1, OwnStepLowers
    <3>2. Left(u) \in Nat /\ Left(u)' \in Nat
      BY LeftTyped, NextStepsLeft DEF IInv, StepsLeft
    <3> QED
      BY <3>1, <3>2
  <2>2. CASE t # u
    <3>1. pc'[u] = pc[u] /\ stage'[u] = stage[u]
      <4>1. CASE Read(t)
        <5>1. PICK answer : Got(t, answer)
          BY <4>1 DEF Read
        <5> QED
          BY <1>0, <2>2, <5>1 DEF Got, Return
      <4> QED
        BY <1>0, <1>1, <2>2, <4>1
        DEF Step, Acquire, EnvFor, StartFinds, PollAlive, PollDead, Spawn, Write,
            SendFails, ReadEof, Timeout, Return
    <3>2. pc[u] = "start" => proc' = proc \/ proc' = 0
      <4>1. CASE Spawn(t)
        BY <1>0, <2>2, <4>1 DEF LockInv, Spawn
      <4> QED
        BY <1>1, <4>1
        DEF Step, Acquire, EnvFor, StartFinds, PollAlive, PollDead, Drop, Write,
            SendFails, Read, ReadEof, Timeout
    <3> QED
      BY <3>1, <3>2, OthersDoNotRaise
  <2> QED
    BY <2>1, <2>2
<1>2. ASSUME NEW t \in Threads, NEW kind \in Kinds, NEW key \in Keys, Begin(t, kind, key)
      PROVE  Left(u)' <= Left(u)
  <2>1. u # t /\ pc'[u] = pc[u] /\ stage' = stage /\ proc' = proc
    BY <1>0, <1>2 DEF Begin
  <2> QED
    BY <2>1, OthersDoNotRaise
<1>3. CASE (\E p \in Procs : Respond(p) \/ Die(p)) \/ WatchdogClose \/ WatchdogClear
  <2>1. pc' = pc /\ stage' = stage /\ (proc' = proc \/ proc' = 0)
    BY <1>3 DEF Respond, Die, WatchdogClose, WatchdogClear, Drop
  <2> QED
    BY <2>1, OthersDoNotRaise
<1> QED
  BY <1>1, <1>2, <1>3 DEF Next

\* Who takes the lock is within a call, and who leaves the call gives it back.
LEMMA LockHeldKept == IInv /\ LockHeld /\ [Next]_vars => LockHeld'
<1> SUFFICES ASSUME IInv, LockHeld, [Next]_vars PROVE LockHeld'
  OBVIOUS
<1>0. /\ pc \in [Threads -> Pcs] /\ lock \in Threads \cup {NoOne}
      /\ LockInv /\ NoOne \notin Threads
  BY ConstantsTyped DEF IInv, ThreadsTyped
<1>1. CASE UNCHANGED <<pc, lock>>
  BY <1>1 DEF LockHeld
<1>2. ASSUME NEW t \in Threads, Step(t)
      PROVE  LockHeld'
  <2>1. CASE lock' = NoOne
    BY <2>1 DEF LockHeld
  <2>2. ASSUME lock' = t, pc'[t] \notin {"idle", "lock"}
        PROVE  LockHeld'
    BY <2>2 DEF LockHeld
  <2>3. CASE Acquire(t)
    BY <1>0, <2>2, <2>3 DEF Acquire
  <2>4. CASE pc[t] \notin {"idle", "lock"}
    <3>1. lock = t
      BY <1>0, <2>4 DEF LockInv
    <3>2. CASE Read(t)
      <4>1. PICK answer : Got(t, answer)
        BY <3>2 DEF Read
      <4>2. \/ lock' = NoOne
            \/ lock' = lock /\ pc'[t] = "start"
        BY <1>0, <4>1 DEF Got, Return
      <4> QED
        BY <2>1, <2>2, <3>1, <4>2
    <3>3. CASE SendFails(t) \/ ReadEof(t) \/ Timeout(t)
      BY <2>1, <3>3 DEF SendFails, ReadEof, Timeout, Return
    <3>4. CASE \/ EnvFor(t) \/ StartFinds(t) \/ PollAlive(t) \/ PollDead(t)
               \/ Spawn(t) \/ Write(t)
      <4>1. lock' = lock /\ pc'[t] \in {"start", "poll", "write", "wait"}
        BY <1>0, <3>4 DEF EnvFor, StartFinds, PollAlive, PollDead, Spawn, Write
      <4> QED
        BY <2>2, <3>1, <4>1
    <3>5. ~Acquire(t)
      BY <2>4 DEF Acquire
    <3> QED
      BY <1>2, <3>2, <3>3, <3>4, <3>5 DEF Step
  <2> QED
    BY <1>2, <2>3, <2>4
    DEF Step, EnvFor, StartFinds, PollAlive, PollDead, Spawn, Write, SendFails, Read,
        ReadEof, Timeout
<1>3. ASSUME NEW t \in Threads, NEW kind \in Kinds, NEW key \in Keys, Begin(t, kind, key)
      PROVE  LockHeld'
  <2>1. lock' = lock /\ pc[t] = "idle" /\ \A u \in Threads : u # t => pc'[u] = pc[u]
    BY <1>0, <1>3 DEF Begin
  <2> QED
    BY <1>0, <2>1 DEF LockHeld
<1>4. CASE UNCHANGED vars
  BY <1>1, <1>4 DEF vars
<1>5. CASE (\E p \in Procs : Respond(p) \/ Die(p)) \/ WatchdogClose \/ WatchdogClear
  BY <1>1, <1>5 DEF Respond, Die, WatchdogClose, WatchdogClear
<1> QED
  BY <1>2, <1>3, <1>4, <1>5 DEF Next

\* A call takes a bounded number of its thread's steps, whatever happens to the REPL
\* and to the other calls, and never leaves the lock behind.
THEOREM CallsAreBounded == Spec => CallsShrink
<1>1. Init => LockHeld
  BY DEF Init, LockHeld
<1>2. IInv /\ LockHeld /\ [Next]_vars => LockHeld'
  BY LockHeldKept
<1>3. IInv => StepsLeft
  BY LeftTyped DEF IInv
<1>4. IInv /\ [Next]_vars => [Shrinks]_vars
  BY NextShrinks
<1> QED
  BY <1>1, <1>2, <1>3, <1>4, InvariantHolds, PTL DEF Spec, CallsShrink
================================================================================
