--------------------------- MODULE Threads_proofs ---------------------------
(***************************************************************************)
(* Proofs about the components that other threads call into: TaskSpawner   *)
(* for any number of spawners and tasks, and, in the second half, the      *)
(* Inspector for any number of debuggers, workers and messages.            *)
(*                                                                         *)
(* TaskSpawner's inductive invariant IInv adds three facts to the checked  *)
(* invariants: the retry budget is positive while the dispatch loop runs,  *)
(* a batch exists only while it is being run, and a spawn_blocking caller  *)
(* has at most one closure outstanding.                                    *)
(***************************************************************************)
EXTENDS TaskSpawner, Inspector, TLAPS, SequenceTheorems

(* What has been pushed and not yet run, in order. *)
Queued == batch \o tasks

Retrying == loopPc \in {"poll", "take", "run", "send"} => retries # 0

BatchOnlyWhileRunning == loopPc \notin {"run", "send"} => batch = <<>>

(* The spawn_blocking caller whose result is being sent. *)
Sending(s) == loopPc = "send" /\ ran # <<>> /\ ran[Len(ran)][1] = s

OneOutstanding ==
  /\ loopPc = "send" => ran # <<>>
  /\ \A s \in Blocking :
       /\ \A i, j \in 1 .. Len(Queued) :
            Queued[i][1] = s /\ Queued[j][1] = s => i = j
       /\ (spawnPc[s] = "idle" \/ Sending(s)) =>
            \A i \in 1 .. Len(Queued) : Queued[i][1] # s
       /\ Sending(s) => spawnPc[s] # "idle"

IInv ==
  /\ TypeOK /\ Retrying /\ BatchOnlyWhileRunning
  /\ RunsOnceInOrder /\ FlagCoversTasks /\ OneOutstanding

(* Every value of a variable stays in its type, and the retry counter of   *)
(* dispatch_task_spawner never runs below zero.                            *)
LEMMA TypeInductive == TypeOK /\ Retrying /\ [Next]_vars => (TypeOK /\ Retrying)'
<1> SUFFICES ASSUME TypeOK, Retrying, [Next]_vars
             PROVE  (TypeOK /\ Retrying)'
  OBVIOUS
<1> USE DEF TypeOK, Retrying, MaxRetries
<1>1. ASSUME NEW s \in Spawner, Push(s) PROVE (TypeOK /\ Retrying)'
  <2>1. <<s, sent[s]>> \in Task
    BY DEF Task
  <2> QED BY <1>1, <2>1 DEF Push, loopVars
<1>2. ASSUME NEW s \in Spawner, StoreFlag(s) PROVE (TypeOK /\ Retrying)'
  BY <1>2 DEF StoreFlag, loopVars
<1>3. ASSUME NEW s \in Spawner, Wake(s) PROVE (TypeOK /\ Retrying)'
  BY <1>3 DEF Wake, AfterWake, loopVars
<1>4. ASSUME NEW s \in Spawner, Rendezvous(s) PROVE (TypeOK /\ Retrying)'
  BY <1>4 DEF Rendezvous, queueVars
<1>5. CASE StartTick
  <2>1. UNCHANGED <<tasks, has_tasks, waker, spawnPc, sent, batch, pushed, ran>>
    BY <1>5 DEF StartTick, queueVars
  <2>2. retries' = 3 /\ woken' \in BOOLEAN /\ loopPc' = "poll"
    BY <1>5 DEF StartTick
  <2> QED BY <2>1, <2>2
<1>6. CASE PollFlag
  BY <1>6 DEF PollFlag
<1>7. CASE PollTake
  BY <1>7 DEF PollTake
<1>8. CASE PollRegister
  BY <1>8 DEF PollRegister
<1>9. CASE RunTask
  <2>1. Head(batch) \in Task /\ Tail(batch) \in Seq(Task)
    BY <1>9 DEF RunTask
  <2> QED BY <1>9, <2>1 DEF RunTask, queueVars
<1>10. CASE EndBatch
  BY <1>10 DEF EndBatch, queueVars, RetriesSpent, SelfWake
<1>11. CASE Evaluate
  BY <1>11 DEF Evaluate, queueVars
<1>12. CASE WakeOther
  BY <1>12 DEF WakeOther, queueVars
<1>13. CASE UNCHANGED vars
  BY <1>13 DEF vars
<1> QED BY <1>1, <1>2, <1>3, <1>4, <1>5, <1>6, <1>7, <1>8, <1>9, <1>10,
           <1>11, <1>12, <1>13 DEF Next, LoopStep, SpawnerStep

(* What each step does to the sequence of queued tasks. *)
LEMMA QueuedStep ==
  ASSUME TypeOK, BatchOnlyWhileRunning, [Next]_vars
  PROVE  \/ /\ UNCHANGED <<pushed, ran>> /\ Queued' = Queued
         \/ \E s \in Spawner :
              /\ Push(s) /\ UNCHANGED ran
              /\ Queued' = Append(Queued, <<s, sent[s]>>)
              /\ pushed' = Append(pushed, <<s, sent[s]>>)
         \/ /\ RunTask /\ UNCHANGED pushed /\ Queued # <<>>
            /\ Queued' = Tail(Queued) /\ Head(Queued) = Head(batch)
            /\ ran' = Append(ran, Head(Queued))
<1> USE DEF TypeOK, Queued, BatchOnlyWhileRunning
<1>1. ASSUME NEW s \in Spawner, Push(s)
      PROVE /\ UNCHANGED ran
            /\ Queued' = Append(Queued, <<s, sent[s]>>)
            /\ pushed' = Append(pushed, <<s, sent[s]>>)
  <2>1. <<s, sent[s]>> \in Task
    BY DEF Task
  <2> QED BY <1>1, <2>1 DEF Push, loopVars
<1>2. ASSUME NEW s \in Spawner, StoreFlag(s) \/ Wake(s) \/ Rendezvous(s)
      PROVE  UNCHANGED <<pushed, ran>> /\ Queued' = Queued
  BY <1>2 DEF StoreFlag, Wake, Rendezvous, loopVars, queueVars
<1>3. CASE StartTick \/ PollFlag \/ PollRegister \/ EndBatch \/ Evaluate \/ WakeOther
  BY <1>3 DEF StartTick, PollFlag, PollRegister, EndBatch, Evaluate, WakeOther, queueVars
<1>4. ASSUME PollTake PROVE UNCHANGED <<pushed, ran>> /\ Queued' = Queued
  <2>1. batch = <<>> /\ batch' = tasks /\ tasks' = <<>>
    BY <1>4 DEF PollTake
  <2> QED BY <1>4, <2>1 DEF PollTake
<1>5. ASSUME RunTask
      PROVE /\ UNCHANGED pushed /\ Queued # <<>>
            /\ Queued' = Tail(Queued) /\ Head(Queued) = Head(batch)
            /\ ran' = Append(ran, Head(Queued))
  <2>1. /\ batch # <<>> /\ batch' = Tail(batch) /\ tasks' = tasks
        /\ ran' = Append(ran, Head(batch)) /\ pushed' = pushed
    BY <1>5 DEF RunTask, queueVars
  <2>2. Queued # <<>> /\ Head(Queued) = Head(batch)
    BY <2>1
  <2>3. Tail(batch) \o tasks = Tail(batch \o tasks)
    BY <2>1
  <2> QED BY <2>1, <2>2, <2>3
<1>6. CASE UNCHANGED vars
  BY <1>6 DEF vars
<1> QED BY <1>1, <1>2, <1>3, <1>4, <1>5, <1>6 DEF Next, LoopStep, SpawnerStep

(* Appending to the queue appends to history and queue together. *)
LEMMA ConcatAppend ==
  ASSUME NEW S, NEW r \in Seq(S), NEW q \in Seq(S), NEW e \in S
  PROVE  r \o Append(q, e) = Append(r \o q, e)
<1>1. Append(q, e) = q \o <<e>> /\ Append(r \o q, e) = (r \o q) \o <<e>>
  BY AppendIsConcat, ConcatProperties
<1>2. <<e>> \in Seq(S)
  OBVIOUS
<1> QED BY <1>1, <1>2, ConcatAssociative

(* Moving the head of the queue to the end of the history. *)
LEMMA ConcatMoveHead ==
  ASSUME NEW S, NEW r \in Seq(S), NEW q \in Seq(S), q # <<>>
  PROVE  Append(r, Head(q)) \o Tail(q) = r \o q
<1>1. Head(q) \in S /\ Tail(q) \in Seq(S) /\ <<Head(q)>> \in Seq(S)
  OBVIOUS
<1>2. Append(r, Head(q)) = r \o <<Head(q)>>
  BY <1>1, AppendIsConcat
<1>3. <<Head(q)>> \o Tail(q) = q
  BY <1>1
<1> QED BY <1>1, <1>2, <1>3, ConcatAssociative

(* Push, take and run keep the order of the lock and neither drop nor      *)
(* repeat a task.                                                          *)
LEMMA OrderInductive ==
  TypeOK /\ Retrying /\ BatchOnlyWhileRunning /\ RunsOnceInOrder /\ [Next]_vars
     => RunsOnceInOrder'
<1> SUFFICES ASSUME TypeOK, Retrying, BatchOnlyWhileRunning, RunsOnceInOrder,
                    [Next]_vars
             PROVE  RunsOnceInOrder'
  OBVIOUS
<1>0. Queued \in Seq(Task) /\ pushed \in Seq(Task) /\ ran \in Seq(Task)
  BY DEF TypeOK, Queued
<1>1. pushed = ran \o Queued
  BY ConcatAssociative DEF RunsOnceInOrder, Queued, TypeOK
<1>2. SUFFICES pushed' = ran' \o Queued'
  <2>1. TypeOK'
    BY TypeInductive
  <2>2. (ran' \o batch') \o tasks' = ran' \o (batch' \o tasks')
    <3>1. ran' \in Seq(Task) /\ batch' \in Seq(Task) /\ tasks' \in Seq(Task)
      BY <2>1 DEF TypeOK
    <3> QED BY <3>1, ConcatAssociative
  <2> QED BY <2>2 DEF RunsOnceInOrder, Queued
<1>3. CASE UNCHANGED <<pushed, ran>> /\ Queued' = Queued
  BY <1>1, <1>3
<1>4. ASSUME NEW s \in Spawner, Push(s), UNCHANGED ran,
             Queued' = Append(Queued, <<s, sent[s]>>),
             pushed' = Append(pushed, <<s, sent[s]>>)
      PROVE  pushed' = ran' \o Queued'
  <2>1. <<s, sent[s]>> \in Task
    BY DEF Task, TypeOK
  <2>2. ran \o Append(Queued, <<s, sent[s]>>) = Append(ran \o Queued, <<s, sent[s]>>)
    BY <1>0, <2>1, ConcatAppend
  <2> QED BY <1>1, <1>4, <2>2
<1>5. CASE /\ UNCHANGED pushed /\ Queued # <<>> /\ Queued' = Tail(Queued)
           /\ ran' = Append(ran, Head(Queued))
  BY <1>0, <1>1, <1>5, ConcatMoveHead
<1> QED BY <1>3, <1>4, <1>5, QueuedStep

(* A batch is held only between poll_inner's Ready and its last task. *)
LEMMA BatchInductive ==
  BatchOnlyWhileRunning /\ [Next]_vars => BatchOnlyWhileRunning'
<1> SUFFICES ASSUME BatchOnlyWhileRunning, [Next]_vars
             PROVE  BatchOnlyWhileRunning'
  OBVIOUS
<1> USE DEF BatchOnlyWhileRunning
<1>1. ASSUME NEW s \in Spawner, SpawnerStep(s) PROVE BatchOnlyWhileRunning'
  BY <1>1 DEF SpawnerStep, Push, StoreFlag, Wake, Rendezvous, loopVars
<1>2. CASE LoopStep
  BY <1>2 DEF LoopStep, StartTick, PollFlag, PollTake, PollRegister, RunTask,
              EndBatch, Evaluate
<1>3. CASE WakeOther
  BY <1>3 DEF WakeOther
<1>4. CASE UNCHANGED vars
  BY <1>4 DEF vars
<1> QED BY <1>1, <1>2, <1>3, <1>4 DEF Next

(* The flag is lowered only by the step that goes on to take the queue. *)
LEMMA FlagInductive ==
  TypeOK /\ FlagCoversTasks /\ [Next]_vars => FlagCoversTasks'
<1> SUFFICES ASSUME TypeOK, FlagCoversTasks, [Next]_vars
             PROVE  FlagCoversTasks'
  OBVIOUS
<1> USE DEF TypeOK, FlagCoversTasks
<1>1. ASSUME NEW s \in Spawner, Push(s) PROVE FlagCoversTasks'
  BY <1>1 DEF Push
<1>2. ASSUME NEW s \in Spawner, StoreFlag(s) PROVE FlagCoversTasks'
  BY <1>2 DEF StoreFlag
<1>3. ASSUME NEW s \in Spawner, Wake(s) PROVE FlagCoversTasks'
  BY <1>3 DEF Wake, loopVars
<1>4. ASSUME NEW s \in Spawner, Rendezvous(s) PROVE FlagCoversTasks'
  BY <1>4 DEF Rendezvous, queueVars
<1>5. CASE PollFlag
  BY <1>5 DEF PollFlag
<1>6. CASE PollTake
  BY <1>6 DEF PollTake
<1>7. CASE StartTick \/ PollRegister \/ RunTask \/ EndBatch \/ Evaluate \/ WakeOther
  BY <1>7 DEF StartTick, PollRegister, RunTask, EndBatch, Evaluate, WakeOther,
              queueVars
<1>8. CASE UNCHANGED vars
  BY <1>8 DEF vars
<1> QED BY <1>1, <1>2, <1>3, <1>4, <1>5, <1>6, <1>7, <1>8
        DEF Next, LoopStep, SpawnerStep

(* A spawn_blocking caller is back at "idle" only once its only closure    *)
(* has left the queue and been run.                                        *)
LEMMA OutstandingInductive ==
  /\ TypeOK /\ BatchOnlyWhileRunning /\ OneOutstanding /\ [Next]_vars
  => OneOutstanding'
<1> SUFFICES ASSUME TypeOK, BatchOnlyWhileRunning, OneOutstanding, [Next]_vars
             PROVE  OneOutstanding'
  OBVIOUS
<1>0. Queued \in Seq(Task) /\ ran \in Seq(Task)
  BY DEF TypeOK, Queued
<1>1. ASSUME NEW s \in Spawner, Push(s) PROVE OneOutstanding'
  <2>2. <<s, sent[s]>> \in Task
    BY DEF Task, TypeOK
  <2>0. /\ tasks' = Append(tasks, <<s, sent[s]>>) /\ batch' = batch
        /\ tasks \in Seq(Task) /\ batch \in Seq(Task)
    BY <1>1 DEF Push, loopVars, TypeOK
  <2>1. /\ Queued' = Append(Queued, <<s, sent[s]>>) /\ ran' = ran
        /\ loopPc' = loopPc /\ spawnPc[s] = "idle"
        /\ spawnPc' = [spawnPc EXCEPT ![s] = "flag"]
    <3>1. batch \o Append(tasks, <<s, sent[s]>>) = Append(batch \o tasks, <<s, sent[s]>>)
      BY <2>0, <2>2, ConcatAppend
    <3> QED BY <1>1, <2>0, <3>1 DEF Push, loopVars, Queued
  <2>3. /\ Len(Queued') = Len(Queued) + 1
        /\ \A i \in 1 .. Len(Queued) : Queued'[i] = Queued[i]
        /\ Queued'[Len(Queued) + 1][1] = s
    BY <1>0, <2>1, <2>2
  <2> QED BY <1>0, <2>1, <2>3 DEF OneOutstanding, Sending, TypeOK
<1>2. ASSUME NEW s \in Spawner, StoreFlag(s) \/ Wake(s) PROVE OneOutstanding'
  <2>1. /\ Queued' = Queued /\ ran' = ran /\ loopPc' = loopPc
        /\ spawnPc[s] # "idle"
        /\ \A t \in Blocking : t # s => spawnPc'[t] = spawnPc[t]
        /\ s \in Blocking => spawnPc'[s] # "idle"
    BY <1>2, SpawnerAssumption
       DEF StoreFlag, Wake, AfterWake, loopVars, Queued, TypeOK, Spawner
  <2> QED BY <2>1 DEF OneOutstanding, Sending
<1>3. ASSUME NEW s \in Spawner, Rendezvous(s) PROVE OneOutstanding'
  <2>1. /\ Queued' = Queued /\ loopPc' = "run" /\ Sending(s)
        /\ \A t \in Blocking : t # s => spawnPc'[t] = spawnPc[t]
    BY <1>3, SpawnerAssumption
       DEF Rendezvous, queueVars, Queued, TypeOK, Spawner, Sending, OneOutstanding
  <2> QED BY <2>1 DEF OneOutstanding, Sending
<1>4. CASE RunTask
  <2>1. /\ Queued # <<>> /\ Queued' = Tail(Queued) /\ Head(Queued) = Head(batch)
        /\ ran' = Append(ran, Head(Queued)) /\ spawnPc' = spawnPc
    <3>1. ~ \E s \in Spawner : Push(s)
      BY <1>4 DEF RunTask, Push, queueVars, TypeOK
    <3>2. ~ (UNCHANGED <<pushed, ran>>)
      BY <1>4 DEF RunTask, TypeOK
    <3> QED BY <1>4, <3>1, <3>2, QueuedStep DEF RunTask
  <2>2. /\ Len(Queued') = Len(Queued) - 1
        /\ \A i \in 1 .. Len(Queued') : Queued'[i] = Queued[i + 1]
        /\ Queued[1] = Head(Queued) /\ Len(Queued) >= 1 /\ Len(Queued) \in Nat
    BY <1>0, <2>1
  <2>3. ran' # <<>> /\ ran'[Len(ran')] = Queued[1]
    BY <1>0, <2>1, <2>2
  <2>4. loopPc = "run" /\ spawnPc' = spawnPc
    BY <1>4 DEF RunTask
  <2>5. ASSUME NEW s \in Blocking
        PROVE  /\ \A i, j \in 1 .. Len(Queued') :
                    Queued'[i][1] = s /\ Queued'[j][1] = s => i = j
               /\ (spawnPc'[s] = "idle" \/ Queued[1][1] = s) =>
                    \A i \in 1 .. Len(Queued') : Queued'[i][1] # s
               /\ Queued[1][1] = s => spawnPc'[s] # "idle"
    BY <2>2, <2>4 DEF OneOutstanding
  <2> QED BY <2>3, <2>5 DEF OneOutstanding, Sending
<1>5. CASE (LoopStep /\ ~RunTask) \/ WakeOther \/ UNCHANGED vars
  <2>1. Queued' = Queued /\ ran' = ran /\ spawnPc' = spawnPc
    BY <1>5, ConcatEmptySeq
       DEF LoopStep, StartTick, PollFlag, PollTake, PollRegister, EndBatch,
           Evaluate, WakeOther, vars, queueVars, Queued, TypeOK, BatchOnlyWhileRunning
  <2>2. loopPc' = "send" => loopPc = "send"
    BY <1>5 DEF LoopStep, StartTick, PollFlag, PollTake, PollRegister, EndBatch,
           Evaluate, WakeOther, vars
  <2> QED BY <2>1, <2>2 DEF OneOutstanding, Sending
<1> QED BY <1>1, <1>2, <1>3, <1>4, <1>5 DEF Next, SpawnerStep

(* IInv holds initially and is kept by every step. *)
THEOREM Invariance == Spec => []IInv
<1>1. Init => IInv
  <2> SUFFICES ASSUME Init PROVE IInv
    OBVIOUS
  <2> USE DEF Init
  <2>1. TypeOK /\ Retrying
    <3>1. has_tasks \in BOOLEAN /\ waker \in BOOLEAN /\ woken \in BOOLEAN
      OBVIOUS
    <3>2. retries = 3 /\ loopPc = "parked"
      BY DEF MaxRetries
    <3>3. /\ tasks \in Seq(Task) /\ batch \in Seq(Task)
          /\ pushed \in Seq(Task) /\ ran \in Seq(Task)
      BY EmptySeq
    <3>4. /\ spawnPc \in [Spawner -> {"idle", "flag", "wake", "recv"}]
          /\ sent \in [Spawner -> Nat]
      OBVIOUS
    <3> HIDE DEF Init
    <3> QED BY <3>1, <3>2, <3>3, <3>4 DEF TypeOK, Retrying, MaxRetries
  <2>2. BatchOnlyWhileRunning /\ FlagCoversTasks
    BY DEF BatchOnlyWhileRunning, FlagCoversTasks
  <2>5. RunsOnceInOrder
    <3>1. <<>> \o <<>> = <<>>
      BY ConcatEmptySeq, EmptySeq
    <3> QED BY <3>1 DEF RunsOnceInOrder
  <2>3. Queued = <<>>
    BY DEF Queued
  <2>4. OneOutstanding
    BY <2>3 DEF OneOutstanding, Sending
  <2> QED BY <2>1, <2>2, <2>4, <2>5 DEF IInv
<1>2. IInv /\ [Next]_vars => IInv'
  BY TypeInductive, BatchInductive, OrderInductive, FlagInductive,
     OutstandingInductive DEF IInv
<1> QED BY <1>1, <1>2, PTL DEF Spec

(* Type correctness of the queue, the flag and the dispatch loop. *)
THEOREM TypeCorrect == Spec => []TypeOK
BY Invariance, PTL DEF IInv

(* Each spawned task is run at most once, in the order in which the lock   *)
(* was taken, and is never dropped while it waits.                         *)
THEOREM RunsOnce == Spec => []RunsOnceInOrder
BY Invariance, PTL DEF IInv

(* has_pending_tasks() is reliable outside the two windows it documents. *)
THEOREM FlagSound == Spec => []FlagCoversTasks
BY Invariance, PTL DEF IInv

(* The lifetime transmute in spawn_blocking is justified. *)
THEOREM BlockingSafe == Spec => []BlockingBorrowSafe
<1>1. IInv => BlockingBorrowSafe
  BY DEF IInv, OneOutstanding, BlockingBorrowSafe, Queued
<1> QED BY <1>1, Invariance, PTL

(* run_event_loop never reports completion over a fully spawned task. *)
THEOREM FinishSound == Spec => FinishedMeansNoneQueued
<1>1. IInv /\ [Next]_vars =>
        [loopPc = "rest" /\ loopPc' = "done" =>
           tasks = <<>> \/ \E s \in Spawner : spawnPc[s] = "flag"]_vars
  <2> SUFFICES ASSUME IInv, [Next]_vars, loopPc = "rest", loopPc' = "done"
               PROVE  tasks = <<>> \/ \E s \in Spawner : spawnPc[s] = "flag"
    OBVIOUS
  <2>1. Evaluate
    BY DEF Next, SpawnerStep, Push, StoreFlag, Wake, Rendezvous, LoopStep,
           StartTick, PollFlag, PollTake, PollRegister, RunTask, EndBatch,
           WakeOther, vars, loopVars
  <2>2. ~has_tasks
    BY <2>1 DEF Evaluate, StaysPending
  <2> QED BY <2>2 DEF IInv, FlagCoversTasks
<1> QED BY <1>1, Invariance, PTL DEF Spec, FinishedMeansNoneQueued

(***************************************************************************)
(* The inspector.  InsIInv ties the waker's state to where the thread is   *)
(* and says which channels the thread has found empty (Checked): each of   *)
(* them still has the thread's waker, and what has arrived on it since is  *)
(* yet to be announced, unless the waker has been called.                  *)
(***************************************************************************)
SessType ==
  [queue : Seq(Peers), handshake : Debuggers \cup {Nobody}, established : SUBSET Debuggers,
   local : SUBSET Debuggers, main : Debuggers \cup {Nobody}, targets : SUBSET InsWorkers,
   attached : SUBSET InsWorkers, discover : BOOLEAN, auto_attach : BOOLEAN,
   tasks : SUBSET {"discover", "attach"}, to_worker : Nat]
PeerType ==
  [state : {"new", "sent", "on", "off"}, inbox : Seq(AllCommands), sent : Nat, created : Nat,
   attach : Nat, got : Nat]
ChanType == [Channels -> [waker : BOOLEAN, due : BOOLEAN]]

SessionTypes ==
  /\ insThread \in ThreadType /\ insWaker \in WakerType
  /\ insSess \in SessType /\ insPeer \in [Peers -> PeerType] /\ insChan \in ChanType

InPoll == {"poll", "established", "pump", "update"}

(* The waker's state says where the thread is; a thread that leaves        *)
(* poll_sessions will be polled again once a waker is called.              *)
WakerAgrees(t, w) ==
  /\ t.pc # "unreachable"
  /\ t.pc \in InPoll => w.poll_state \in {"Polling", "Woken"}
  /\ t.pc = "parked" => \/ w.poll_state = "Parked" /\ ~w.unpark
                        \/ w.poll_state = "Woken" /\ w.unpark
  /\ w.unpark => t.pc = "parked"
  /\ t.pc \in {"js", "away"} => \/ w.poll_state = "Idle"
                                \/ w.poll_state = "Woken" /\ w.polls
  /\ w.task \/ w.polls \/ (t.from = "loop" /\ t.pc \notin {"js", "away"})

(* The session that is pumped is the one in the handshake or an            *)
(* established one; once there is an established one there is a main one.  *)
PumpAgrees(t, s) ==
  /\ t.pc = "pump" => /\ t.cur \in Debuggers
                      /\ s.handshake = Nobody => t.cur \in s.established
  /\ t.pc = "established" => s.handshake = Nobody
  /\ s.established # {} => s.main # Nobody

(* The channels that have been found empty since the inner loop started    *)
(* over, where the thread is at t.                                         *)
Polled(s) == {"sessions"} \cup (IF s.main = Nobody THEN {} ELSE s.targets)
Checked(t, s) ==
  IF t.pc = "established" \/ (t.pc = "pump" /\ s.handshake = Nobody) THEN Polled(s)
  ELSE IF t.pc \in {"update", "parked", "js", "away"} THEN Polled(s) \cup s.established
  ELSE {}

Active(s, peer, c) ==
  IF c = "sessions" THEN s.queue # <<>> ELSE peer[c].inbox # <<>> \/ peer[c].state = "off"

(* Such a channel has kept its waker, and what has arrived on it since has *)
(* not been announced, unless the waker has been called.                   *)
Covered(t, w, s, peer, chan) ==
  w.poll_state = "Woken" \/
    \A c \in Checked(t, s) : chan[c].waker /\ (Active(s, peer, c) => chan[c].due)

(* A peer connects once, and has not been announced until it is accepted. *)
Unaccepted(s, peer, p) == peer[p].state = "new" \/ \E i \in DOMAIN s.queue : s.queue[i] = p
Announcements(s, peer) ==
  /\ \A i, j \in DOMAIN s.queue : s.queue[i] = s.queue[j] => i = j
  /\ \A i \in DOMAIN s.queue : peer[s.queue[i]].state # "new"
  /\ \A p \in Peers : Unaccepted(s, peer, p) =>
       p \notin s.targets /\ p \notin s.attached /\ peer[p].attach = 0
  /\ \A p \in InsWorkers : /\ peer[p].attach <= 1
                           /\ p \notin s.attached => peer[p].attach = 0

InsIInv ==
  /\ SessionTypes /\ WakerAgrees(insThread, insWaker) /\ PumpAgrees(insThread, insSess)
  /\ Covered(insThread, insWaker, insSess, insPeer, insChan) /\ Announcements(insSess, insPeer)

----------------------------------------------------------------------------
LEMMA ChannelsApart ==
  /\ "sessions" \in Channels /\ Peers \subseteq Channels /\ "sessions" \notin Peers
  /\ Debuggers \subseteq Peers /\ InsWorkers \subseteq Peers
  /\ \A d \in Debuggers : d # Nobody /\ d \notin InsWorkers
BY InspectorAssumption DEF Channels, Peers, Nobody

(* What a peer puts into the channel c is still to be announced. *)
LEMMA SentIsCovered ==
  ASSUME SessionTypes, Covered(insThread, insWaker, insSess, insPeer, insChan),
         NEW c \in Channels, Sent(c), UNCHANGED <<insThread, insWaker>>,
         Checked(insThread, insSess') \subseteq Checked(insThread, insSess),
         Checked(insThread, insSess) \subseteq Channels,
         \A x \in Channels \ {c} : Active(insSess', insPeer', x) => Active(insSess, insPeer, x)
  PROVE  insChan' \in ChanType /\ Covered(insThread, insWaker, insSess, insPeer, insChan)'
<1> DEFINE k == [insChan[c] EXCEPT !.due = TRUE]
<1>1. insChan[c] \in [waker : BOOLEAN, due : BOOLEAN]
  BY DEF SessionTypes, ChanType
<1>2. k \in [waker : BOOLEAN, due : BOOLEAN] /\ k.due = TRUE /\ k.waker = insChan[c].waker
  BY <1>1
<1>3. insChan' = [insChan EXCEPT ![c] = k]
  BY DEF Sent
<1> HIDE DEF k
<1>4. /\ insChan' \in ChanType /\ insChan'[c] = k
      /\ \A x \in Channels \ {c} : insChan'[x] = insChan[x]
  BY <1>2, <1>3 DEF SessionTypes, ChanType
<1>5. ASSUME NEW x \in Checked(insThread, insSess'), insWaker.poll_state # "Woken"
      PROVE  insChan'[x].waker /\ (Active(insSess', insPeer', x) => insChan'[x].due)
  <2>1. x \in Channels /\ insChan[x].waker /\ (Active(insSess, insPeer, x) => insChan[x].due)
    BY <1>5 DEF Covered
  <2>2. CASE x = c
    BY <2>1, <2>2, <1>2, <1>4
  <2>3. CASE x # c
    BY <2>1, <2>3, <1>4
  <2> QED BY <2>2, <2>3
<1> QED BY <1>4, <1>5 DEF Covered

LEMMA CheckedAreChannels ==
  ASSUME SessionTypes PROVE Checked(insThread, insSess) \subseteq Channels
<1>1. insSess.targets \subseteq InsWorkers /\ insSess.established \subseteq Debuggers
  BY DEF SessionTypes, SessType
<1> QED BY <1>1, ChannelsApart DEF Checked, Polled

LEMMA ConnectKeeps ==
  ASSUME InsIInv, NEW p \in Peers, Connect(p)
  PROVE  InsIInv'
<1> DEFINE x == [insPeer[p] EXCEPT !.state = "sent"]
           q == insSess.queue
           q2 == Append(q, p)
<1>0. SessionTypes /\ Checked(insThread, insSess) \subseteq Channels
  BY CheckedAreChannels DEF InsIInv
<1>1. insPeer[p] \in PeerType /\ insSess \in SessType /\ q \in Seq(Peers)
  BY <1>0 DEF SessionTypes, SessType
<1>2. /\ x \in PeerType /\ x.state = "sent" /\ x.inbox = insPeer[p].inbox
      /\ x.attach = insPeer[p].attach
  BY <1>1 DEF PeerType
<1>3. /\ insPeer' = [insPeer EXCEPT ![p] = x] /\ insSess' = [insSess EXCEPT !.queue = q2]
      /\ Sent("sessions") /\ UNCHANGED <<insThread, insWaker>> /\ insPeer[p].state = "new"
  BY DEF Connect
<1> HIDE DEF x
<1>4. /\ insPeer' \in [Peers -> PeerType] /\ insPeer'[p] = x
      /\ \A r \in Peers \ {p} : insPeer'[r] = insPeer[r]
  BY <1>0, <1>2, <1>3 DEF SessionTypes
<1>5. /\ q2 \in Seq(Peers) /\ Len(q) \in Nat /\ DOMAIN q = 1 .. Len(q)
      /\ DOMAIN q2 = 1 .. Len(q) + 1 /\ q2[Len(q) + 1] = p
      /\ \A i \in 1 .. Len(q) : q2[i] = q[i]
  BY <1>1
<1> HIDE DEF q2
<1>6. /\ insSess' \in SessType /\ insSess'.queue = q2
      /\ insSess'.handshake = insSess.handshake /\ insSess'.main = insSess.main
      /\ insSess'.targets = insSess.targets /\ insSess'.established = insSess.established
      /\ insSess'.attached = insSess.attached
  BY <1>1, <1>3, <1>5 DEF SessType
<1>7. insChan' \in ChanType /\ Covered(insThread, insWaker, insSess, insPeer, insChan)'
  <2>1. \A c \in Channels \ {"sessions"} :
          Active(insSess', insPeer', c) => Active(insSess, insPeer, c)
    BY <1>2, <1>4, ChannelsApart DEF Active, Channels
  <2>2. Checked(insThread, insSess') = Checked(insThread, insSess)
    BY <1>6 DEF Checked, Polled
  <2>3. Covered(insThread, insWaker, insSess, insPeer, insChan)
    BY DEF InsIInv
  <2> QED BY <1>0, <1>3, <2>1, <2>2, <2>3, ChannelsApart, SentIsCovered
<1>8. SessionTypes' /\ WakerAgrees(insThread, insWaker)' /\ PumpAgrees(insThread, insSess)'
  BY <1>0, <1>3, <1>4, <1>6, <1>7 DEF InsIInv, SessionTypes, WakerAgrees, PumpAgrees
<1>9. Announcements(insSess, insPeer)'
  <2> USE DEF InsIInv, Announcements
  <2>1. \A i \in DOMAIN q : q[i] # p
    BY <1>3
  <2>2. \A i \in DOMAIN q2 : \/ i \in DOMAIN q /\ q2[i] = q[i] /\ q[i] \in Peers
                             \/ i = Len(q) + 1 /\ q2[i] = p
    BY <1>1, <1>5
  <2>3. \A i, j \in DOMAIN q2 : q2[i] = q2[j] => i = j
    BY <2>1, <2>2
  <2>4. \A i \in DOMAIN q2 : insPeer'[q2[i]].state # "new"
    BY <2>1, <2>2, <1>2, <1>4
  <2>5. ASSUME NEW r \in Peers, Unaccepted(insSess', insPeer', r) PROVE Unaccepted(insSess, insPeer, r)
    BY <2>2, <2>5, <1>3, <1>4, <1>6 DEF Unaccepted
  <2>6. \A r \in Peers : insPeer'[r].attach = insPeer[r].attach
    BY <1>2, <1>4
  <2> QED BY <2>3, <2>4, <2>5, <2>6, <1>6, ChannelsApart
<1> QED BY <1>7, <1>8, <1>9 DEF InsIInv

(* Steps that announce no worker. *)
LEMMA AnnouncementsKept ==
  ASSUME SessionTypes, Announcements(insSess, insPeer),
         insSess'.queue = insSess.queue, insSess'.targets \subseteq insSess.targets,
         insSess'.attached = insSess.attached,
         \A p \in Peers : /\ insPeer'[p].attach = insPeer[p].attach
                          /\ insPeer'[p].state = "new" <=> insPeer[p].state = "new"
  PROVE  Announcements(insSess, insPeer)'
<1>1. \A i \in DOMAIN insSess.queue : insSess.queue[i] \in Peers
  BY DEF SessionTypes, SessType
<1> QED BY <1>1, ChannelsApart DEF Announcements, Unaccepted

LEMMA SendKeeps ==
  ASSUME InsIInv, NEW p \in Peers, NEW cmd \in AllCommands, Send(p, cmd) \/ Leave(p)
  PROVE  InsIInv'
<1>0. /\ SessionTypes /\ Checked(insThread, insSess) \subseteq Channels
      /\ Covered(insThread, insWaker, insSess, insPeer, insChan) /\ Announcements(insSess, insPeer)
  BY CheckedAreChannels DEF InsIInv
<1>1. insPeer[p] \in PeerType
  BY <1>0 DEF SessionTypes
<1>2. PICK x \in PeerType : /\ insPeer' = [insPeer EXCEPT ![p] = x]
                            /\ x.state # "new" /\ insPeer[p].state # "new"
                            /\ x.attach = insPeer[p].attach
  <2>1. CASE Send(p, cmd)
    <3> DEFINE b == Append(insPeer[p].inbox, cmd)
               x == [[insPeer[p] EXCEPT !.sent = insPeer[p].sent + 1] EXCEPT !.inbox = b]
    <3>1. b \in Seq(AllCommands) /\ insPeer[p].sent + 1 \in Nat
      BY <1>1 DEF PeerType
    <3>2. insPeer' = [insPeer EXCEPT ![p] = x] /\ insPeer[p].state # "new"
      BY <2>1 DEF Send
    <3> HIDE DEF b
    <3>3. x \in PeerType /\ x.state = insPeer[p].state /\ x.attach = insPeer[p].attach
      BY <1>1, <3>1 DEF PeerType
    <3> HIDE DEF x
    <3> QED BY <3>2, <3>3
  <2>2. CASE Leave(p)
    <3> DEFINE x == [insPeer[p] EXCEPT !.state = "off"]
    <3>1. insPeer' = [insPeer EXCEPT ![p] = x] /\ insPeer[p].state # "new"
      BY <2>2 DEF Leave
    <3>2. x \in PeerType /\ x.state = "off" /\ x.attach = insPeer[p].attach
      BY <1>1 DEF PeerType
    <3> HIDE DEF x
    <3> QED BY <3>1, <3>2
  <2> QED BY <2>1, <2>2
<1>3. Sent(p) /\ UNCHANGED <<insThread, insWaker, insSess>>
  BY DEF Send, Leave
<1>4. /\ insPeer' \in [Peers -> PeerType] /\ insPeer'[p] = x
      /\ \A r \in Peers \ {p} : insPeer'[r] = insPeer[r]
  BY <1>0, <1>2 DEF SessionTypes
<1>5. insChan' \in ChanType /\ Covered(insThread, insWaker, insSess, insPeer, insChan)'
  <2>1. \A c \in Channels \ {p} : Active(insSess', insPeer', c) => Active(insSess, insPeer, c)
    BY <1>3, <1>4 DEF Active, Channels
  <2> QED BY <1>0, <1>3, <2>1, ChannelsApart, SentIsCovered
<1>6. SessionTypes' /\ WakerAgrees(insThread, insWaker)' /\ PumpAgrees(insThread, insSess)'
  BY <1>0, <1>3, <1>4, <1>5 DEF InsIInv, SessionTypes, WakerAgrees, PumpAgrees
<1>7. Announcements(insSess, insPeer)'
  BY <1>0, <1>2, <1>3, <1>4, AnnouncementsKept
<1> QED BY <1>5, <1>6, <1>7 DEF InsIInv

(* wake_by_ref in each of the waker's states. *)
LEMMA WakeKeeps ==
  ASSUME InsIInv, NEW c \in Channels, WakeReceiver(c)
  PROVE  InsIInv'
<1>0. /\ SessionTypes /\ Checked(insThread, insSess) \subseteq Channels
      /\ Covered(insThread, insWaker, insSess, insPeer, insChan) /\ Announcements(insSess, insPeer)
      /\ WakerAgrees(insThread, insWaker) /\ PumpAgrees(insThread, insSess)
  BY CheckedAreChannels DEF InsIInv
<1>1. /\ insChan' = [insChan EXCEPT ![c] = [waker |-> FALSE, due |-> FALSE]]
      /\ insWaker' = IF insChan[c].waker THEN Woken(insWaker) ELSE insWaker
      /\ UNCHANGED <<insThread, insSess, insPeer>>
  BY DEF WakeReceiver
<1>2. /\ insChan' \in ChanType /\ \A x \in Channels \ {c} : insChan'[x] = insChan[x]
  BY <1>0, <1>1 DEF SessionTypes, ChanType
<1>3. insThread \in ThreadType /\ insWaker \in WakerType
  BY <1>0 DEF SessionTypes
<1>4. /\ Woken(insWaker) \in WakerType /\ Woken(insWaker).poll_state = "Woken"
      /\ insThread.pc = "parked" <=> Woken(insWaker).unpark
      /\ insThread.pc \in {"js", "away"} => Woken(insWaker).polls
      /\ \/ Woken(insWaker).task \/ Woken(insWaker).polls
         \/ insThread.from = "loop" /\ insThread.pc \notin {"js", "away"}
  <2>1. Woken(insWaker) \in WakerType /\ Woken(insWaker).poll_state = "Woken"
    BY <1>3 DEF Woken, WakerType
  <2>2. insThread.pc = "parked" <=> Woken(insWaker).unpark
    BY <1>0, <1>3 DEF Woken, WakerAgrees, ThreadType, InPoll
  <2>3. insThread.pc \in {"js", "away"} => Woken(insWaker).polls
    BY <1>0 DEF Woken, WakerAgrees
  <2>4. \/ Woken(insWaker).task \/ Woken(insWaker).polls
        \/ insThread.from = "loop" /\ insThread.pc \notin {"js", "away"}
    BY <1>0 DEF Woken, WakerAgrees
  <2> QED BY <2>1, <2>2, <2>3, <2>4
<1>5. insWaker' \in WakerType /\ WakerAgrees(insThread, insWaker)'
  <2>1. CASE insChan[c].waker
    <3>1. insWaker' = Woken(insWaker) /\ insThread' = insThread
      BY <1>1, <2>1
    <3> QED BY <1>0, <1>4, <3>1 DEF WakerAgrees
  <2>2. CASE ~insChan[c].waker
    BY <1>0, <1>1, <1>3, <2>2
  <2> QED BY <2>1, <2>2
<1>6. Covered(insThread, insWaker, insSess, insPeer, insChan)'
  <2>1. CASE insChan[c].waker
    BY <1>1, <1>4, <2>1 DEF Covered
  <2>2. CASE ~insChan[c].waker /\ c \notin Checked(insThread, insSess)
    BY <1>0, <1>1, <1>2, <2>2 DEF Covered
  <2>3. CASE ~insChan[c].waker /\ c \in Checked(insThread, insSess)
    <3>1. insWaker' = insWaker /\ insWaker.poll_state = "Woken"
      BY <1>0, <1>1, <2>3 DEF Covered
    <3> QED BY <3>1 DEF Covered
  <2> QED BY <2>1, <2>2, <2>3
<1>7. Announcements(insSess, insPeer)' /\ SessionTypes' /\ PumpAgrees(insThread, insSess)'
  BY <1>0, <1>1, <1>2, <1>5 DEF Announcements, Unaccepted, SessionTypes, PumpAgrees
<1> QED BY <1>5, <1>6, <1>7 DEF InsIInv

(* Steps of the thread that touch neither sessions nor channels. *)
LEMMA ThreadKeeps ==
  ASSUME InsIInv, UNCHANGED <<insSess, insPeer, insChan>>,
         insThread' \in ThreadType, insWaker' \in WakerType,
         WakerAgrees(insThread, insWaker)', PumpAgrees(insThread, insSess)',
         Checked(insThread', insSess) \subseteq Checked(insThread, insSess),
         \/ Checked(insThread', insSess) = {}
         \/ insWaker.poll_state = "Woken" => insWaker'.poll_state = "Woken"
  PROVE  InsIInv'
<1>1. Covered(insThread, insWaker, insSess, insPeer, insChan)'
  BY DEF InsIInv, Covered
<1>2. Announcements(insSess, insPeer)' /\ SessionTypes'
  BY DEF InsIInv, Announcements, Unaccepted, SessionTypes
<1> QED BY <1>1, <1>2 DEF InsIInv

LEMMA EnterKeeps ==
  ASSUME InsIInv, InsPoll \/ TickEnds \/ Interrupt \/ Pause \/ Handshake \/ Unparked
  PROVE  InsIInv'
<1>0. /\ insThread \in ThreadType /\ insWaker \in WakerType /\ insSess \in SessType
      /\ WakerAgrees(insThread, insWaker) /\ PumpAgrees(insThread, insSess)
      /\ InsMaxPauses \in Nat
  BY InspectorAssumption DEF InsIInv, SessionTypes
<1>1. CASE InsPoll
  <2> DEFINE w == [insWaker EXCEPT !.polls = FALSE]
  <2>1. Enter("loop", w) /\ insThread.pc = "away" /\ UNCHANGED <<insSess, insPeer, insChan>>
    BY <1>1 DEF InsPoll
  <2>2. /\ w \in WakerType /\ w.poll_state = insWaker.poll_state /\ w.poll_state \in {"Idle", "Woken"}
        /\ w.unpark = insWaker.unpark
    BY <1>0, <2>1 DEF WakerType, WakerAgrees
  <2> HIDE DEF w
  <2>3. /\ insThread' = [[insThread EXCEPT !.from = "loop"] EXCEPT !.pc = "poll"]
        /\ insWaker' = [w EXCEPT !.poll_state = "Polling"]
    BY <2>1, <2>2 DEF Enter
  <2>4. /\ insThread' \in ThreadType /\ insThread'.pc = "poll" /\ insThread'.from = "loop"
        /\ insWaker' \in WakerType /\ insWaker'.poll_state = "Polling" /\ insWaker'.unpark = insWaker.unpark
    BY <1>0, <2>2, <2>3 DEF ThreadType, WakerType
  <2> QED BY <1>0, <2>1, <2>4, ThreadKeeps DEF WakerAgrees, PumpAgrees, Checked, InPoll
<1>2. CASE TickEnds
  <2>1. /\ insThread' = [insThread EXCEPT !.pc = "away"] /\ insThread.pc = "js"
        /\ UNCHANGED <<insWaker, insSess, insPeer, insChan>>
    BY <1>2 DEF TickEnds
  <2>2. insThread' \in ThreadType /\ insThread'.pc = "away" /\ insThread'.from = insThread.from
    BY <1>0, <2>1 DEF ThreadType
  <2>3. WakerAgrees(insThread, insWaker)' /\ PumpAgrees(insThread, insSess)'
    BY <1>0, <2>1, <2>2 DEF WakerAgrees, PumpAgrees, InPoll
  <2>4. Checked(insThread', insSess) = Checked(insThread, insSess)
    BY <2>1, <2>2 DEF Checked
  <2> QED BY <1>0, <2>1, <2>2, <2>3, <2>4, ThreadKeeps
<1>3. CASE Interrupt
  <2> DEFINE w == [insWaker EXCEPT !.interrupt = FALSE]
  <2>1. Enter("js", w) /\ insThread.pc = "js" /\ UNCHANGED <<insSess, insPeer, insChan>>
    BY <1>3 DEF Interrupt
  <2>2. /\ w \in WakerType /\ w.poll_state = insWaker.poll_state /\ w.poll_state \in {"Idle", "Woken"}
        /\ w.task = insWaker.task /\ w.polls = insWaker.polls /\ w.unpark = insWaker.unpark
    BY <1>0, <2>1 DEF WakerType, WakerAgrees
  <2> HIDE DEF w
  <2>3. /\ insThread' = [[insThread EXCEPT !.from = "js"] EXCEPT !.pc = "poll"]
        /\ insWaker' = [w EXCEPT !.poll_state = "Polling"]
    BY <2>1, <2>2 DEF Enter
  <2>4. /\ insThread' \in ThreadType /\ insThread'.pc = "poll"
        /\ insWaker' \in WakerType /\ insWaker'.poll_state = "Polling" /\ insWaker'.unpark = insWaker.unpark
        /\ insWaker'.task = insWaker.task /\ insWaker'.polls = insWaker.polls
    BY <1>0, <2>2, <2>3 DEF ThreadType, WakerType
  <2> QED BY <1>0, <2>1, <2>4, ThreadKeeps DEF WakerAgrees, PumpAgrees, Checked, InPoll
<1>4. CASE Pause
  <2>1. /\ insThread' = [[[[insThread EXCEPT !.pc = "poll"] EXCEPT !.from = "js"]
                            EXCEPT !.on_pause = TRUE] EXCEPT !.pauses = insThread.pauses + 1]
        /\ insThread.pc = "js" /\ insThread.pauses < InsMaxPauses
        /\ insWaker' = [insWaker EXCEPT !.poll_state = "Polling"]
        /\ UNCHANGED <<insSess, insPeer, insChan>>
    BY <1>4 DEF Pause
  <2>2. insThread.pauses \in 0 .. InsMaxPauses
    BY <1>0 DEF ThreadType
  <2>3. insThread.pauses + 1 \in 0 .. InsMaxPauses
    BY <1>0, <2>1, <2>2
  <2>4. insThread' \in ThreadType /\ insThread'.pc = "poll"
    BY <1>0, <2>1, <2>3 DEF ThreadType
  <2>5. /\ insWaker' \in WakerType /\ insWaker'.poll_state = "Polling"
        /\ insWaker'.task = insWaker.task /\ insWaker'.polls = insWaker.polls
    BY <1>0, <2>1 DEF WakerType
  <2> QED BY <1>0, <2>1, <2>4, <2>5, ThreadKeeps DEF WakerAgrees, PumpAgrees, Checked, InPoll
<1>5. CASE Handshake
  <2>1. /\ insThread' = [[insThread EXCEPT !.pc = "pump"] EXCEPT !.cur = insSess.handshake]
        /\ insThread.pc = "poll" /\ insSess.handshake \in Debuggers /\ insSess.handshake # Nobody
        /\ UNCHANGED <<insWaker, insSess, insPeer, insChan>>
    BY <1>0, <1>5 DEF Handshake, Polling, Pumping, SessType
  <2>2. /\ insThread' \in ThreadType /\ insThread'.pc = "pump" /\ insThread'.cur = insSess.handshake
        /\ insThread'.from = insThread.from
    BY <1>0, <2>1 DEF ThreadType
  <2> QED BY <1>0, <2>1, <2>2, ThreadKeeps DEF WakerAgrees, PumpAgrees, Checked, InPoll
<1>6. CASE Unparked
  <2>1. /\ insThread' = [insThread EXCEPT !.pc = "poll"] /\ insThread.pc = "parked"
        /\ insWaker' = [insWaker EXCEPT !.unpark = FALSE] /\ insWaker.unpark
        /\ UNCHANGED <<insSess, insPeer, insChan>>
    BY <1>6 DEF Unparked
  <2>2. insThread' \in ThreadType /\ insThread'.pc = "poll" /\ insThread'.from = insThread.from
    BY <1>0, <2>1 DEF ThreadType
  <2>3. /\ insWaker' \in WakerType /\ insWaker'.poll_state = insWaker.poll_state
        /\ insWaker'.task = insWaker.task /\ insWaker'.polls = insWaker.polls
        /\ insWaker'.unpark = FALSE
    BY <1>0, <2>1 DEF WakerType
  <2> QED BY <1>0, <2>1, <2>2, <2>3, ThreadKeeps DEF WakerAgrees, PumpAgrees, Checked, InPoll
<1> QED BY <1>1, <1>2, <1>3, <1>4, <1>5, <1>6

(* Steps inside the inner loop before anything has been found empty. *)
LEMMA PollKeeps ==
  ASSUME InsIInv, insThread.pc = "poll", UNCHANGED <<insThread, insWaker>>,
         insSess' \in SessType, insPeer' \in [Peers -> PeerType], insChan' \in ChanType,
         insSess'.established = insSess.established, insSess'.main = insSess.main,
         Announcements(insSess, insPeer)'
  PROVE  InsIInv'
<1>1. Covered(insThread, insWaker, insSess, insPeer, insChan)'
  BY DEF Covered, Checked
<1>2. SessionTypes' /\ WakerAgrees(insThread, insWaker)' /\ PumpAgrees(insThread, insSess)'
  BY DEF InsIInv, SessionTypes, WakerAgrees, PumpAgrees
<1> QED BY <1>1, <1>2 DEF InsIInv

(* The peer that leaves the queue is the only one that is accepted. *)
LEMMA TailOfQueue ==
  ASSUME InsIInv, insSess.queue # <<>>, insSess'.queue = Tail(insSess.queue),
         NEW p \in Peers, p = Head(insSess.queue),
         insPeer'[p].state # "new",
         \A r \in Peers \ {p} : insPeer'[r] = insPeer[r]
  PROVE  /\ insSess'.queue \in Seq(Peers)
         /\ Unaccepted(insSess, insPeer, p) /\ ~Unaccepted(insSess', insPeer', p)
         /\ \A r \in Peers : Unaccepted(insSess', insPeer', r) => Unaccepted(insSess, insPeer, r)
         /\ \A i, j \in DOMAIN insSess'.queue : insSess'.queue[i] = insSess'.queue[j] => i = j
         /\ \A i \in DOMAIN insSess'.queue : insPeer'[insSess'.queue[i]].state # "new"
<1> DEFINE q == insSess.queue
           t == insSess'.queue
<1>1. q \in Seq(Peers) /\ q # <<>> /\ t = Tail(q) /\ p = Head(q)
  BY DEF InsIInv, SessionTypes, SessType
<1>2. /\ \A i, j \in DOMAIN q : q[i] = q[j] => i = j
      /\ \A i \in DOMAIN q : insPeer[q[i]].state # "new"
  BY DEF InsIInv, Announcements
<1> HIDE DEF q, t
<1>3. /\ t \in Seq(Peers) /\ Len(q) \in Nat /\ DOMAIN q = 1 .. Len(q) /\ Len(q) >= 1
      /\ DOMAIN t = 1 .. Len(q) - 1 /\ p = q[1]
      /\ \A i \in 1 .. Len(q) - 1 : t[i] = q[i + 1]
  BY <1>1
<1>4. \A i \in DOMAIN t : i + 1 \in DOMAIN q /\ i + 1 # 1 /\ t[i] = q[i + 1] /\ t[i] \in Peers
  BY <1>3
<1>5. 1 \in DOMAIN q
  BY <1>3
<1>6. \A i \in DOMAIN t : t[i] # p /\ insPeer[t[i]].state # "new"
  BY <1>2, <1>3, <1>4, <1>5
<1>7. \A i, j \in DOMAIN t : t[i] = t[j] => i = j
  <2> TAKE i, j \in DOMAIN t
  <2> HAVE t[i] = t[j]
  <2>1. i + 1 = j + 1
    BY <1>2, <1>4
  <2> QED BY <2>1, <1>3
<1>8. Unaccepted(insSess, insPeer, p) /\ ~Unaccepted(insSess', insPeer', p)
  BY <1>3, <1>5, <1>6 DEF Unaccepted, q, t
<1>9. ASSUME NEW r \in Peers, Unaccepted(insSess', insPeer', r)
      PROVE  Unaccepted(insSess, insPeer, r)
  <2>1. r # p
    BY <1>8, <1>9
  <2>2. insPeer'[r] = insPeer[r]
    BY <2>1
  <2> QED BY <1>4, <1>9, <2>2 DEF Unaccepted, q, t
<1> QED BY <1>3, <1>4, <1>6, <1>7, <1>8, <1>9 DEF t

LEMMA AcceptKeeps ==
  ASSUME InsIInv, Accept
  PROVE  InsIInv'
<1> DEFINE p == Head(insSess.queue)
           t == Tail(insSess.queue)
           a == Arrived(p)
<1>0. /\ insSess \in SessType /\ insPeer \in [Peers -> PeerType] /\ insChan \in ChanType
      /\ Announcements(insSess, insPeer)
  BY DEF InsIInv, SessionTypes
<1>1. /\ insThread.pc = "poll" /\ UNCHANGED <<insThread, insWaker, insChan>>
      /\ insSess.handshake = Nobody /\ insSess.queue # <<>>
  BY DEF Accept, Polling
<1>2. p \in Peers /\ t \in Seq(Peers) /\ insPeer[p] \in PeerType /\ p \in Channels
      /\ \E i \in DOMAIN insSess.queue : insSess.queue[i] = p
  <2>1. insSess.queue \in Seq(Peers) /\ insSess.queue # <<>>
    BY <1>0, <1>1 DEF SessType
  <2>2. /\ p \in Peers /\ t \in Seq(Peers) /\ 1 \in DOMAIN insSess.queue /\ p = insSess.queue[1]
    BY <2>1
  <2> QED BY <1>0, <2>2, ChannelsApart
<1>3. a \in {"sent", "on", "off"}
  BY <1>0, <1>2 DEF Arrived, PeerType, Announcements
<1> HIDE DEF p, t, a
<1>4. CASE p \in Debuggers
  <2> DEFINE x == [insPeer[p] EXCEPT !.state = a]
  <2>1. /\ insSess' = [[insSess EXCEPT !.queue = t] EXCEPT !.handshake = p]
        /\ insPeer' = [insPeer EXCEPT ![p] = x]
    BY <1>4, ChannelsApart DEF Accept, p, t, a
  <2>2. x \in PeerType /\ x.state = a /\ x.attach = insPeer[p].attach
    BY <1>2, <1>3 DEF PeerType
  <2> HIDE DEF x
  <2>3. /\ insPeer' \in [Peers -> PeerType] /\ insPeer'[p] = x
        /\ \A r \in Peers \ {p} : insPeer'[r] = insPeer[r]
    BY <1>0, <1>2, <2>1, <2>2
  <2>4. /\ insSess' \in SessType /\ insSess'.queue = t /\ insSess'.targets = insSess.targets
        /\ insSess'.attached = insSess.attached /\ insSess'.established = insSess.established
        /\ insSess'.main = insSess.main
    BY <1>0, <1>2, <1>4, <2>1 DEF SessType
  <2>5. /\ \A r \in Peers : Unaccepted(insSess', insPeer', r) => Unaccepted(insSess, insPeer, r)
        /\ \A i, j \in DOMAIN insSess'.queue : insSess'.queue[i] = insSess'.queue[j] => i = j
        /\ \A i \in DOMAIN insSess'.queue : insPeer'[insSess'.queue[i]].state # "new"
    BY <1>1, <1>2, <1>3, <2>2, <2>3, <2>4, TailOfQueue DEF p, t
  <2>6. \A r \in Peers : insPeer'[r].attach = insPeer[r].attach
    BY <2>2, <2>3
  <2>7. Announcements(insSess, insPeer)'
    BY <1>0, <2>4, <2>5, <2>6, ChannelsApart DEF Announcements
  <2> QED BY <1>0, <1>1, <2>3, <2>4, <2>7, PollKeeps
<1>5. CASE p \in InsWorkers
  <2> DEFINE told == IF insSess.main # Nobody /\ insSess.auto_attach THEN 1 ELSE 0
             made == IF insSess.main # Nobody /\ insSess.discover THEN 1 ELSE 0
             at == IF told = 1 THEN insSess.attached \cup {p} ELSE insSess.attached
             x == [[[insPeer[p] EXCEPT !.state = a] EXCEPT !.created = insPeer[p].created + made]
                     EXCEPT !.attach = insPeer[p].attach + told]
  <2>1. /\ insSess' = [[[insSess EXCEPT !.queue = t] EXCEPT !.targets = insSess.targets \cup {p}]
                         EXCEPT !.attached = at]
        /\ insPeer' = [insPeer EXCEPT ![p] = x]
    BY <1>5, ChannelsApart DEF Accept, AcceptWorker, p, t, a
  <2>2. told \in {0, 1} /\ made \in {0, 1} /\ insPeer[p].attach \in Nat /\ insPeer[p].created \in Nat
    BY <1>2 DEF PeerType
  <2>3. insPeer[p].attach + told \in Nat /\ insPeer[p].created + made \in Nat
    BY <2>2
  <2>4. at \subseteq InsWorkers /\ (told = 1 => p \in at) /\ at \subseteq insSess.attached \cup {p}
        /\ insSess.attached \subseteq at
    BY <1>0, <1>5 DEF SessType
  <2> HIDE DEF told, made, at
  <2>5. x \in PeerType /\ x.state = a /\ x.attach = insPeer[p].attach + told
    BY <1>2, <1>3, <2>3 DEF PeerType
  <2> HIDE DEF x
  <2>6. /\ insPeer' \in [Peers -> PeerType] /\ insPeer'[p] = x
        /\ \A r \in Peers \ {p} : insPeer'[r] = insPeer[r]
    BY <1>0, <1>2, <2>1, <2>5
  <2>7. /\ insSess' \in SessType /\ insSess'.queue = t
        /\ insSess'.targets = insSess.targets \cup {p}
        /\ insSess'.attached = at /\ insSess'.established = insSess.established
        /\ insSess'.main = insSess.main
    BY <1>0, <1>2, <1>5, <2>1, <2>4 DEF SessType
  <2>8. /\ Unaccepted(insSess, insPeer, p) /\ ~Unaccepted(insSess', insPeer', p)
        /\ \A r \in Peers : Unaccepted(insSess', insPeer', r) => Unaccepted(insSess, insPeer, r)
        /\ \A i, j \in DOMAIN insSess'.queue : insSess'.queue[i] = insSess'.queue[j] => i = j
        /\ \A i \in DOMAIN insSess'.queue : insPeer'[insSess'.queue[i]].state # "new"
    BY <1>1, <1>2, <1>3, <2>5, <2>6, <2>7, TailOfQueue DEF p, t
  <2>9. insPeer[p].attach = 0
    BY <1>0, <1>2, <2>8 DEF Announcements
  <2>10. x.attach = told /\ told <= 1 /\ (p \notin at => told = 0)
    BY <2>2, <2>4, <2>5, <2>9
  <2>11. ASSUME NEW r \in Peers, Unaccepted(insSess', insPeer', r)
         PROVE  r \notin insSess'.targets /\ r \notin insSess'.attached /\ insPeer'[r].attach = 0
    <3>1. r # p /\ Unaccepted(insSess, insPeer, r)
      BY <2>8, <2>11
    <3> QED BY <1>0, <2>4, <2>6, <2>7, <3>1 DEF Announcements
  <2>12. ASSUME NEW r \in InsWorkers
         PROVE  insPeer'[r].attach <= 1 /\ (r \notin insSess'.attached => insPeer'[r].attach = 0)
    <3>1. CASE r = p
      BY <2>6, <2>7, <2>10, <3>1
    <3>2. CASE r # p
      BY <1>0, <2>4, <2>6, <2>7, <3>2, ChannelsApart DEF Announcements
    <3> QED BY <3>1, <3>2
  <2>13. Announcements(insSess, insPeer)'
    BY <2>8, <2>11, <2>12 DEF Announcements
  <2> QED BY <1>0, <1>1, <2>6, <2>7, <2>13, PollKeeps
<1> QED BY <1>2, <1>4, <1>5 DEF Peers

(* A waker is only ever registered by the thread. *)
LEMMA ListeningKeeps ==
  ASSUME insChan \in ChanType, NEW S, Listening(S)
  PROVE  /\ insChan' \in ChanType
         /\ \A c \in Channels : /\ insChan'[c].due = insChan[c].due
                                /\ insChan[c].waker \/ c \in S => insChan'[c].waker
<1>1. \A c \in Channels : insChan[c] \in [waker : BOOLEAN, due : BOOLEAN]
  BY DEF ChanType
<1> DEFINE k(c) == [insChan[c] EXCEPT !.waker = TRUE]
<1>2. \A c \in Channels : /\ k(c) \in [waker : BOOLEAN, due : BOOLEAN] /\ k(c).waker = TRUE
                          /\ k(c).due = insChan[c].due
  BY <1>1
<1>3. insChan' = [c \in Channels |-> IF c \in S THEN k(c) ELSE insChan[c]]
  BY DEF Listening
<1> HIDE DEF k
<1> QED BY <1>1, <1>2, <1>3 DEF ChanType

LEMMA PollWorkerKeeps ==
  ASSUME InsIInv, NEW w \in InsWorkers, PollWorker(w)
  PROVE  InsIInv'
<1>0. /\ SessionTypes /\ insSess \in SessType /\ insPeer \in [Peers -> PeerType]
      /\ insChan \in ChanType /\ Announcements(insSess, insPeer)
  BY DEF InsIInv, SessionTypes
<1>1. /\ insThread.pc = "poll" /\ UNCHANGED <<insThread, insWaker>> /\ Listening({"sessions"})
  BY DEF PollWorker, Accepted, Polling
<1>2. insChan' \in ChanType
  BY <1>0, <1>1, ListeningKeeps
<1>3. CASE Heard(w) /\ UNCHANGED insSess
           /\ insPeer' = [insPeer EXCEPT ![w] = [@ EXCEPT !.inbox = Tail(insPeer[w].inbox)]]
  <2> DEFINE b == Tail(insPeer[w].inbox)
             x == [insPeer[w] EXCEPT !.inbox = b]
  <2>1. w \in Peers /\ insPeer[w] \in PeerType
    BY <1>0, ChannelsApart
  <2>2. insPeer[w].inbox \in Seq(AllCommands) /\ insPeer[w].inbox # <<>>
    BY <2>1, <1>3 DEF PeerType, Heard
  <2>3. b \in Seq(AllCommands)
    BY <2>2
  <2> HIDE DEF b
  <2>4. x \in PeerType /\ x.state = insPeer[w].state /\ x.attach = insPeer[w].attach
    BY <2>1, <2>3 DEF PeerType
  <2>5. insPeer' = [insPeer EXCEPT ![w] = x]
    BY <1>3 DEF b
  <2> HIDE DEF x
  <2>6. insPeer' \in [Peers -> PeerType]
    BY <1>0, <2>1, <2>4, <2>5
  <2>7. \A r \in Peers : insPeer'[r].attach = insPeer[r].attach /\ insPeer'[r].state = insPeer[r].state
    BY <1>0, <2>1, <2>4, <2>5
  <2>8. Announcements(insSess, insPeer)'
    BY <1>0, <1>3, <2>7, AnnouncementsKept
  <2> QED BY <1>0, <1>1, <1>2, <1>3, <2>6, <2>8, PollKeeps
<1>4. CASE insSess' = [insSess EXCEPT !.targets = insSess.targets \ {w}] /\ UNCHANGED insPeer
  <2>1. /\ insSess' \in SessType /\ insSess'.queue = insSess.queue
        /\ insSess'.targets \subseteq insSess.targets /\ insSess'.attached = insSess.attached
        /\ insSess'.established = insSess.established /\ insSess'.main = insSess.main
    BY <1>0, <1>4 DEF SessType
  <2>2. Announcements(insSess, insPeer)'
    BY <1>0, <1>4, <2>1, AnnouncementsKept
  <2> QED BY <1>0, <1>1, <1>2, <1>4, <2>1, <2>2, PollKeeps
<1> QED BY <1>3, <1>4 DEF PollWorker

(* The connections and the workers' messages have been polled: they have   *)
(* the thread's waker.                                                     *)
LEMMA PolledAreCovered ==
  ASSUME InsIInv, Rest \/ (Accepted /\ WorkersQuiet), NEW S, Listening(S),
         Rest \/ Polled(insSess) \subseteq S
  PROVE  \/ insWaker.poll_state = "Woken"
         \/ \A c \in Polled(insSess) :
              insChan'[c].waker /\ (Active(insSess, insPeer, c) => insChan'[c].due)
<1>0. insSess.targets \subseteq InsWorkers /\ insChan \in ChanType
  BY DEF InsIInv, SessionTypes, SessType
<1>1. Polled(insSess) \subseteq Channels
  BY <1>0, ChannelsApart DEF Polled
<1>2. \A c \in Channels : /\ insChan'[c].due = insChan[c].due
                          /\ insChan[c].waker \/ c \in S => insChan'[c].waker
  BY <1>0, ListeningKeeps
<1>3. CASE Rest
  <2>1. Checked(insThread, insSess) = Polled(insSess)
    BY <1>3 DEF Rest, Checked
  <2>2. Covered(insThread, insWaker, insSess, insPeer, insChan)
    BY DEF InsIInv
  <2> QED BY <1>1, <1>2, <2>1, <2>2 DEF Covered
<1>4. CASE ~Rest
  <2>1. ASSUME NEW c \in Polled(insSess) PROVE ~Active(insSess, insPeer, c)
    <3>1. Accepted /\ WorkersQuiet
      BY <1>4
    <3>2. CASE c = "sessions"
      BY <3>1, <3>2 DEF Accepted, Active
    <3>3. CASE c # "sessions"
      BY <2>1, <3>1, <3>3 DEF WorkersQuiet, Active, Polled, Heard, Ended
    <3> QED BY <3>2, <3>3
  <2> QED BY <1>1, <1>2, <1>4, <2>1
<1> QED BY <1>3, <1>4

LEMMA PollEstablishedKeeps ==
  ASSUME InsIInv, NEW d \in Debuggers, PollEstablished(d)
  PROVE  InsIInv'
<1> DEFINE S == IF Rest THEN {} ELSE {"sessions"} \cup PolledWorkers
<1>0. /\ SessionTypes /\ insThread \in ThreadType /\ insSess \in SessType /\ insChan \in ChanType
      /\ Announcements(insSess, insPeer)
      /\ WakerAgrees(insThread, insWaker) /\ PumpAgrees(insThread, insSess)
  BY DEF InsIInv, SessionTypes
<1>1. /\ Rest \/ (Accepted /\ WorkersQuiet)
      /\ d \in insSess.established /\ Listening(S)
      /\ insThread' = [[insThread EXCEPT !.pc = "pump"] EXCEPT !.cur = d]
      /\ UNCHANGED <<insWaker, insSess, insPeer>>
  BY DEF PollEstablished, Pumping
<1>2. Rest \/ Polled(insSess) \subseteq S
  BY DEF Polled, PolledWorkers
<1> HIDE DEF S
<1>3. /\ insThread' \in ThreadType /\ insThread'.pc = "pump" /\ insThread'.cur = d
      /\ insThread'.from = insThread.from
  BY <1>0, <1>1 DEF ThreadType
<1>4. insThread.pc \in {"poll", "established"} /\ insSess.handshake = Nobody
  BY <1>0, <1>1 DEF Rest, Accepted, Polling, PumpAgrees
<1>5. insChan' \in ChanType
  BY <1>0, <1>1, ListeningKeeps
<1>6. Covered(insThread, insWaker, insSess, insPeer, insChan)'
  <2>1. Checked(insThread', insSess') = Polled(insSess)
    BY <1>1, <1>3, <1>4 DEF Checked
  <2>2. \/ insWaker.poll_state = "Woken"
        \/ \A c \in Polled(insSess) :
             insChan'[c].waker /\ (Active(insSess, insPeer, c) => insChan'[c].due)
    BY <1>1, <1>2, PolledAreCovered
  <2> QED BY <1>1, <2>1, <2>2 DEF Covered
<1>7. WakerAgrees(insThread, insWaker)' /\ PumpAgrees(insThread, insSess)'
  BY <1>0, <1>1, <1>3, <1>4 DEF WakerAgrees, PumpAgrees, InPoll
<1>8. SessionTypes' /\ Announcements(insSess, insPeer)'
  BY <1>0, <1>1, <1>3, <1>5 DEF SessionTypes, Announcements, Unaccepted
<1> QED BY <1>6, <1>7, <1>8 DEF InsIInv

LEMMA InnerLoopEndsKeeps ==
  ASSUME InsIInv, InnerLoopEnds
  PROVE  InsIInv'
<1> DEFINE S == insSess.established \cup IF Rest THEN {} ELSE {"sessions"} \cup PolledWorkers
<1>0. /\ SessionTypes /\ insThread \in ThreadType /\ insSess \in SessType /\ insChan \in ChanType
      /\ Announcements(insSess, insPeer)
      /\ WakerAgrees(insThread, insWaker) /\ PumpAgrees(insThread, insSess)
  BY DEF InsIInv, SessionTypes
<1>1. /\ \A d \in insSess.established : ~Heard(d) /\ ~Ended(d)
      /\ insThread' = [insThread EXCEPT !.pc = "update"]
      /\ UNCHANGED <<insWaker, insSess, insPeer>>
  BY DEF InnerLoopEnds
<1>2. (Rest \/ Polled(insSess) \subseteq S) /\ insSess.established \subseteq S
  BY DEF Polled, PolledWorkers
<1>3. insThread' \in ThreadType /\ insThread'.pc = "update" /\ insThread'.from = insThread.from
  BY <1>0, <1>1 DEF ThreadType
<1>9. Listening(S) /\ (Rest \/ (Accepted /\ WorkersQuiet))
  BY DEF InnerLoopEnds
<1> HIDE DEF S
<1>4. insThread.pc \in {"poll", "established"}
  BY <1>9 DEF Rest, Accepted, Polling
<1>5. /\ insChan' \in ChanType
      /\ \A c \in Channels : insChan[c].waker \/ c \in S => insChan'[c].waker
  BY <1>0, <1>9, ListeningKeeps
<1>6. Covered(insThread, insWaker, insSess, insPeer, insChan)'
  <2>1. Checked(insThread', insSess') = Polled(insSess) \cup insSess.established
    BY <1>1, <1>3 DEF Checked
  <2>2. \/ insWaker.poll_state = "Woken"
        \/ \A c \in Polled(insSess) :
             insChan'[c].waker /\ (Active(insSess, insPeer, c) => insChan'[c].due)
    BY <1>9, <1>2, PolledAreCovered
  <2>3. ASSUME NEW c \in insSess.established
        PROVE  insChan'[c].waker /\ ~Active(insSess, insPeer, c)
    <3>1. c \in Debuggers /\ c \in Channels /\ c # "sessions"
      BY <1>0, <2>3, ChannelsApart DEF SessType
    <3> QED BY <1>1, <1>2, <1>5, <2>3, <3>1 DEF Active, Heard, Ended
  <2> QED BY <1>1, <2>1, <2>2, <2>3 DEF Covered
<1>7. WakerAgrees(insThread, insWaker)' /\ PumpAgrees(insThread, insSess)'
  BY <1>0, <1>1, <1>3, <1>4 DEF WakerAgrees, PumpAgrees, InPoll
<1>8. SessionTypes' /\ Announcements(insSess, insPeer)'
  BY <1>0, <1>1, <1>3, <1>5 DEF SessionTypes, Announcements, Unaccepted
<1> QED BY <1>6, <1>7, <1>8 DEF InsIInv

LEMMA PumpMessageKeeps ==
  ASSUME InsIInv, PumpMessage
  PROVE  InsIInv'
<1> PICK breaks \in BOOLEAN :
      /\ breaks => insThread.pauses < InsMaxPauses
      /\ insThread' = [[[insThread EXCEPT
             !.on_pause = breaks \/ (@ /\ Head(insPeer[insThread.cur].inbox) # "resume")]
             EXCEPT !.waiting = @ /\ Head(insPeer[insThread.cur].inbox) # "run"]
             EXCEPT !.pauses = @ + (IF breaks THEN 1 ELSE 0)]
  BY DEF PumpMessage
<1> DEFINE d == insThread.cur
           cmd == Head(insPeer[d].inbox)
           b == Tail(insPeer[d].inbox)
           x == [insPeer[d] EXCEPT !.inbox = b]
           onp == breaks \/ (insThread.on_pause /\ cmd # "resume")
           wai == insThread.waiting /\ cmd # "run"
           pau == insThread.pauses + (IF breaks THEN 1 ELSE 0)
           dis == insSess.discover \/ cmd = "discover"
           aut == insSess.auto_attach \/ cmd = "attach"
           tas == insSess.tasks \cup ({cmd} \cap {"discover", "attach"})
           tow == insSess.to_worker + (IF cmd = "to_worker" THEN 1 ELSE 0)
<1>0. /\ SessionTypes /\ insThread \in ThreadType /\ insSess \in SessType /\ insChan \in ChanType
      /\ insWaker \in WakerType /\ insPeer \in [Peers -> PeerType]
      /\ Announcements(insSess, insPeer) /\ Covered(insThread, insWaker, insSess, insPeer, insChan)
      /\ WakerAgrees(insThread, insWaker) /\ PumpAgrees(insThread, insSess)
  BY DEF InsIInv, SessionTypes
<1>1. /\ insPeer' = [insPeer EXCEPT ![d] = x] /\ Heard(d) /\ insThread.pc = "pump"
      /\ insThread' = [[[insThread EXCEPT !.on_pause = onp] EXCEPT !.waiting = wai] EXCEPT !.pauses = pau]
      /\ insSess' = [[[[insSess EXCEPT !.discover = dis] EXCEPT !.auto_attach = aut]
                        EXCEPT !.tasks = tas] EXCEPT !.to_worker = tow]
      /\ insWaker' = insWaker \/ insWaker' = [insWaker EXCEPT !.interrupt = FALSE]
      /\ insChan' = insChan
  BY DEF PumpMessage
<1>2. d \in Debuggers /\ d \in Peers /\ insPeer[d] \in PeerType /\ insPeer[d].inbox # <<>>
      /\ insPeer[d].inbox \in Seq(AllCommands)
  BY <1>0, <1>1, ChannelsApart DEF PumpAgrees, Heard, PeerType
<1>3. b \in Seq(AllCommands) /\ onp \in BOOLEAN /\ wai \in BOOLEAN /\ pau \in 0 .. InsMaxPauses
  <2>1. pau \in 0 .. InsMaxPauses
    BY <1>0, InspectorAssumption DEF ThreadType
  <2> QED BY <1>2, <2>1
<1>4. dis \in BOOLEAN /\ aut \in BOOLEAN /\ tas \in SUBSET {"discover", "attach"}
  BY <1>0 DEF SessType
<1>5. tow \in Nat
  <2>1. insSess.to_worker \in Nat
    BY <1>0 DEF SessType
  <2> QED BY <2>1
<1> HIDE DEF d, cmd, b, onp, wai, pau, dis, aut, tas, tow
<1>6. x \in PeerType /\ x.state = insPeer[d].state /\ x.attach = insPeer[d].attach
  BY <1>2, <1>3 DEF PeerType
<1> HIDE DEF x
<1>7. /\ insPeer' \in [Peers -> PeerType] /\ insPeer'[d] = x
      /\ \A r \in Peers \ {d} : insPeer'[r] = insPeer[r]
  BY <1>0, <1>1, <1>2, <1>6
<1>8. /\ insThread' \in ThreadType /\ insThread'.pc = "pump" /\ insThread'.cur = insThread.cur
      /\ insThread'.from = insThread.from
  BY <1>0, <1>1, <1>3 DEF ThreadType
<1>9. /\ insSess' \in SessType /\ insSess'.queue = insSess.queue /\ insSess'.targets = insSess.targets
      /\ insSess'.attached = insSess.attached /\ insSess'.established = insSess.established
      /\ insSess'.main = insSess.main /\ insSess'.handshake = insSess.handshake
  BY <1>0, <1>1, <1>4, <1>5 DEF SessType
<1>10. /\ insWaker' \in WakerType /\ insWaker'.poll_state = insWaker.poll_state
       /\ insWaker'.task = insWaker.task /\ insWaker'.polls = insWaker.polls
       /\ insWaker'.unpark = insWaker.unpark
  BY <1>0, <1>1 DEF WakerType
<1>11. Covered(insThread, insWaker, insSess, insPeer, insChan)'
  <2>1. Checked(insThread', insSess') = Checked(insThread, insSess)
    BY <1>1, <1>8, <1>9 DEF Checked, Polled
  <2>2. d \notin Checked(insThread, insSess) /\ Checked(insThread, insSess) \subseteq Channels
    <3>1. insSess.targets \subseteq InsWorkers
      BY <1>0 DEF SessType
    <3> QED BY <1>0, <1>1, <1>2, <3>1, ChannelsApart, CheckedAreChannels DEF Checked, Polled
  <2>3. ASSUME NEW c \in Checked(insThread, insSess)
        PROVE  Active(insSess', insPeer', c) = Active(insSess, insPeer, c)
    BY <1>7, <1>9, <2>2 DEF Active, Channels
  <2> QED BY <1>0, <1>1, <1>10, <2>1, <2>3 DEF Covered
<1>12. WakerAgrees(insThread, insWaker)' /\ PumpAgrees(insThread, insSess)'
  BY <1>0, <1>1, <1>8, <1>9, <1>10 DEF WakerAgrees, PumpAgrees
<1>13. \A r \in Peers : insPeer'[r].attach = insPeer[r].attach /\ insPeer'[r].state = insPeer[r].state
  BY <1>6, <1>7
<1>14. Announcements(insSess, insPeer)'
  BY <1>0, <1>9, <1>13, AnnouncementsKept
<1>15. SessionTypes'
  BY <1>0, <1>1, <1>7, <1>8, <1>9, <1>10 DEF SessionTypes
<1> QED BY <1>11, <1>12, <1>14, <1>15 DEF InsIInv

LEMMA PumpEndsKeeps ==
  ASSUME InsIInv, PumpEnds
  PROVE  InsIInv'
<1> DEFINE d == insThread.cur
           done == insPeer[d].state = "off"
           est == IF done THEN insSess.established \ {d} ELSE insSess.established \cup {d}
           loc == insSess.local \cup {d}
           mai == IF insSess.main = Nobody THEN d ELSE insSess.main
           at == IF done \/ insSess.handshake # Nobody THEN "poll" ELSE "established"
<1>0. /\ SessionTypes /\ insThread \in ThreadType /\ insSess \in SessType /\ insChan \in ChanType
      /\ insWaker \in WakerType /\ insPeer \in [Peers -> PeerType]
      /\ Announcements(insSess, insPeer) /\ Covered(insThread, insWaker, insSess, insPeer, insChan)
      /\ WakerAgrees(insThread, insWaker) /\ PumpAgrees(insThread, insSess)
  BY DEF InsIInv, SessionTypes
<1>1. /\ insThread.pc = "pump" /\ Listening({d}) /\ UNCHANGED <<insWaker, insPeer>>
      /\ insSess' = [[[[insSess EXCEPT !.handshake = Nobody] EXCEPT !.established = est]
                        EXCEPT !.local = loc] EXCEPT !.main = mai]
      /\ insThread' = [[insThread EXCEPT !.cur = Nobody] EXCEPT !.pc = at]
  BY DEF PumpEnds
<1>2. d \in Debuggers /\ d # Nobody /\ (insSess.handshake = Nobody => insSess.main # Nobody)
  BY <1>0, <1>1, ChannelsApart DEF PumpAgrees
<1>3. /\ est \subseteq Debuggers /\ loc \subseteq Debuggers /\ mai \in Debuggers \cup {Nobody}
      /\ mai # Nobody /\ (insSess.main # Nobody => mai = insSess.main)
      /\ at \in {"poll", "established"} /\ (at = "established" => insSess.handshake = Nobody)
  BY <1>0, <1>2 DEF SessType
<1> HIDE DEF d, done, est, loc, mai, at
<1>4. /\ insThread' \in ThreadType /\ insThread'.pc = at /\ insThread'.from = insThread.from
  BY <1>0, <1>1, <1>3 DEF ThreadType
<1>5. /\ insSess' \in SessType /\ insSess'.queue = insSess.queue /\ insSess'.targets = insSess.targets
      /\ insSess'.attached = insSess.attached /\ insSess'.main = mai /\ insSess'.handshake = Nobody
  BY <1>0, <1>1, <1>3 DEF SessType
<1>6. /\ insChan' \in ChanType
      /\ \A c \in Channels : /\ insChan'[c].due = insChan[c].due
                             /\ insChan[c].waker => insChan'[c].waker
  BY <1>0, <1>1, ListeningKeeps
<1>7. Covered(insThread, insWaker, insSess, insPeer, insChan)'
  <2>1. CASE at = "poll"
    BY <1>4, <2>1 DEF Covered, Checked
  <2>2. CASE at = "established"
    <3>1. Checked(insThread', insSess') = Polled(insSess')
      BY <1>4, <2>2 DEF Checked
    <3>2. Checked(insThread, insSess) = Polled(insSess)
      BY <1>1, <1>3, <2>2 DEF Checked
    <3>3. Polled(insSess') = Polled(insSess)
      BY <1>2, <1>3, <1>5, <2>2 DEF Polled
    <3>4. \A c \in Channels : Active(insSess', insPeer', c) = Active(insSess, insPeer, c)
      BY <1>1, <1>5 DEF Active
    <3>5. Polled(insSess) \subseteq Channels
      BY <1>0, <3>2, CheckedAreChannels
    <3> QED BY <1>0, <1>1, <1>6, <3>1, <3>2, <3>3, <3>4, <3>5 DEF Covered
  <2> QED BY <1>3, <2>1, <2>2
<1>8. WakerAgrees(insThread, insWaker)' /\ PumpAgrees(insThread, insSess)'
  BY <1>0, <1>1, <1>3, <1>4, <1>5 DEF WakerAgrees, PumpAgrees, InPoll
<1>9. Announcements(insSess, insPeer)'
  BY <1>0, <1>1, <1>5, AnnouncementsKept
<1>10. SessionTypes'
  BY <1>0, <1>1, <1>4, <1>5, <1>6 DEF SessionTypes
<1> QED BY <1>7, <1>8, <1>9, <1>10 DEF InsIInv

(* Where the thread goes after the inner loop. *)
LEMMA UpdateGoes ==
  ASSUME InsIInv, Update
  PROVE  /\ insThread' \in ThreadType /\ insWaker' \in WakerType
         /\ WakerAgrees(insThread, insWaker)'
         /\ \/ insThread'.pc = "poll"
            \/ insThread'.pc \in {"js", "parked"} /\ insWaker.poll_state = "Polling"
<1> DEFINE new == NewState(insWaker.poll_state)
           again == new = "Idle" /\ AfterIdle = "poll"
           wai == insThread.waiting \/ again
<1>0. /\ insThread \in ThreadType /\ insWaker \in WakerType /\ WakerAgrees(insThread, insWaker)
      /\ insThread.pc = "update"
  BY DEF InsIInv, SessionTypes, Update
<1>1. insWaker.poll_state \in {"Polling", "Woken"} /\ ~insWaker.unpark
  BY <1>0 DEF WakerAgrees, InPoll
<1>2. /\ insWaker' =
             IF new = "Idle"
             THEN [[[insWaker EXCEPT !.poll_state = IF again THEN "Polling" ELSE "Idle"]
                      EXCEPT !.ptr = TRUE]
                      EXCEPT !.task = insWaker.task \/ insThread.from = "loop"]
             ELSE [insWaker EXCEPT !.poll_state = IF new = "unreachable" THEN @ ELSE new]
      /\ insThread' = [[insThread EXCEPT !.waiting = wai] EXCEPT
             !.pc = CASE new = "Idle" -> AfterIdle [] new = "Polling" -> "poll"
                      [] new = "Parked" -> "parked" [] OTHER -> "unreachable"]
  BY DEF Update
<1>3. /\ insWaker.poll_state = "Woken" => new = "Polling"
      /\ insWaker.poll_state = "Polling" => new \in {"Idle", "Parked"}
      /\ AfterIdle \in {"poll", "js"} /\ wai \in BOOLEAN
  BY <1>0 DEF NewState, AfterIdle, ThreadType
<1>4. CASE new = "Polling"
  <2>1. /\ insWaker' = [insWaker EXCEPT !.poll_state = "Polling"]
        /\ insThread' = [[insThread EXCEPT !.waiting = wai] EXCEPT !.pc = "poll"]
    BY <1>2, <1>4
  <2> HIDE DEF new, again, wai
  <2>2. /\ insThread' \in ThreadType /\ insThread'.pc = "poll" /\ insThread'.from = insThread.from
    BY <1>0, <1>3, <2>1 DEF ThreadType
  <2>3. /\ insWaker' \in WakerType /\ insWaker'.poll_state = "Polling"
        /\ insWaker'.task = insWaker.task /\ insWaker'.polls = insWaker.polls
        /\ insWaker'.unpark = insWaker.unpark
    BY <1>0, <2>1 DEF WakerType
  <2> QED BY <1>0, <1>1, <2>2, <2>3 DEF WakerAgrees, InPoll
<1>5. CASE new = "Parked"
  <2>1. /\ insWaker' = [insWaker EXCEPT !.poll_state = "Parked"]
        /\ insThread' = [[insThread EXCEPT !.waiting = wai] EXCEPT !.pc = "parked"]
        /\ insWaker.poll_state = "Polling"
    BY <1>1, <1>2, <1>3, <1>5
  <2> HIDE DEF new, again, wai
  <2>2. /\ insThread' \in ThreadType /\ insThread'.pc = "parked" /\ insThread'.from = insThread.from
    BY <1>0, <1>3, <2>1 DEF ThreadType
  <2>3. /\ insWaker' \in WakerType /\ insWaker'.poll_state = "Parked"
        /\ insWaker'.task = insWaker.task /\ insWaker'.polls = insWaker.polls
        /\ insWaker'.unpark = insWaker.unpark
    BY <1>0, <2>1 DEF WakerType
  <2> QED BY <1>0, <1>1, <2>1, <2>2, <2>3 DEF WakerAgrees, InPoll
<1>6. CASE new = "Idle"
  <2> DEFINE st == IF again THEN "Polling" ELSE "Idle"
             ta == insWaker.task \/ insThread.from = "loop"
  <2>1. /\ insWaker' = [[[insWaker EXCEPT !.poll_state = st] EXCEPT !.ptr = TRUE]
                          EXCEPT !.task = ta]
        /\ insThread' = [[insThread EXCEPT !.waiting = wai] EXCEPT !.pc = AfterIdle]
        /\ insWaker.poll_state = "Polling"
        /\ \/ AfterIdle = "poll" /\ st = "Polling"
           \/ AfterIdle = "js" /\ st = "Idle"
        /\ ta \in BOOLEAN
    BY <1>0, <1>1, <1>2, <1>3, <1>6 DEF WakerType
  <2>2. ta = (insWaker.task \/ insThread.from = "loop")
    OBVIOUS
  <2> HIDE DEF new, again, wai, st, ta
  <2>3. /\ insThread' \in ThreadType /\ insThread'.pc = AfterIdle /\ insThread'.from = insThread.from
    BY <1>0, <1>3, <2>1 DEF ThreadType
  <2>4. /\ insWaker' \in WakerType /\ insWaker'.poll_state = st
        /\ insWaker'.task = ta /\ insWaker'.polls = insWaker.polls
        /\ insWaker'.unpark = insWaker.unpark
    BY <1>0, <2>1 DEF WakerType
  <2>5. WakerAgrees(insThread, insWaker)'
    BY <1>0, <1>1, <2>1, <2>2, <2>3, <2>4 DEF WakerAgrees, InPoll
  <2> QED BY <2>1, <2>3, <2>4, <2>5
<1> QED BY <1>1, <1>3, <1>4, <1>5, <1>6

LEMMA UpdateKeeps ==
  ASSUME InsIInv, Update
  PROVE  InsIInv'
<1> DEFINE x(p) == [insPeer[p] EXCEPT !.got = insPeer[p].got + insSess.to_worker]
<1>0. /\ SessionTypes /\ insSess \in SessType /\ insChan \in ChanType
      /\ insPeer \in [Peers -> PeerType]
      /\ Announcements(insSess, insPeer) /\ Covered(insThread, insWaker, insSess, insPeer, insChan)
      /\ PumpAgrees(insThread, insSess)
  BY DEF InsIInv, SessionTypes
<1>1. /\ insThread.pc = "update" /\ insSess' = [insSess EXCEPT !.to_worker = 0]
      /\ insChan' = insChan
      /\ insPeer' = [p \in Peers |-> IF p \in insSess.targets THEN x(p) ELSE insPeer[p]]
  BY DEF Update
<1>2. ASSUME NEW p \in Peers
      PROVE  /\ x(p) \in PeerType /\ x(p).state = insPeer[p].state
             /\ x(p).attach = insPeer[p].attach /\ x(p).inbox = insPeer[p].inbox
  <2>1. insPeer[p] \in PeerType /\ insPeer[p].got \in Nat /\ insSess.to_worker \in Nat
    BY <1>0, <1>2 DEF PeerType, SessType
  <2>2. insPeer[p].got + insSess.to_worker \in Nat
    BY <2>1
  <2> QED BY <2>1, <2>2 DEF PeerType
<1> HIDE DEF x
<1>3. /\ insPeer' \in [Peers -> PeerType]
      /\ \A p \in Peers : /\ insPeer'[p].state = insPeer[p].state
                          /\ insPeer'[p].attach = insPeer[p].attach
                          /\ insPeer'[p].inbox = insPeer[p].inbox
  BY <1>0, <1>1, <1>2
<1>4. /\ insSess' \in SessType /\ insSess'.queue = insSess.queue /\ insSess'.targets = insSess.targets
      /\ insSess'.attached = insSess.attached /\ insSess'.established = insSess.established
      /\ insSess'.main = insSess.main
  BY <1>0, <1>1 DEF SessType
<1>5. /\ insThread' \in ThreadType /\ insWaker' \in WakerType
      /\ WakerAgrees(insThread, insWaker)'
      /\ \/ insThread'.pc = "poll"
         \/ insThread'.pc \in {"js", "parked"} /\ insWaker.poll_state = "Polling"
  BY UpdateGoes
<1>6. Covered(insThread, insWaker, insSess, insPeer, insChan)'
  <2>1. CASE insThread'.pc = "poll"
    BY <2>1 DEF Covered, Checked
  <2>2. CASE insThread'.pc \in {"js", "parked"} /\ insWaker.poll_state = "Polling"
    <3>1. Checked(insThread', insSess') = Checked(insThread, insSess)
      BY <1>1, <1>4, <2>2 DEF Checked, Polled
    <3>2. \A c \in Channels : Active(insSess', insPeer', c) = Active(insSess, insPeer, c)
      BY <1>3, <1>4 DEF Active, Channels
    <3> QED BY <1>0, <1>1, <2>2, <3>1, <3>2, CheckedAreChannels DEF Covered
  <2> QED BY <1>5, <2>1, <2>2
<1>7. PumpAgrees(insThread, insSess)'
  BY <1>0, <1>4, <1>5 DEF PumpAgrees
<1>8. Announcements(insSess, insPeer)'
  BY <1>0, <1>3, <1>4, AnnouncementsKept
<1>9. SessionTypes'
  BY <1>0, <1>1, <1>3, <1>4, <1>5 DEF SessionTypes
<1> QED BY <1>5, <1>6, <1>7, <1>8, <1>9 DEF InsIInv

(* A worker that the task announces had not been announced. *)
LEMMA NotifyKeeps ==
  ASSUME InsIInv, NEW cmd \in {"discover", "attach"}, NotifyWorkers(cmd)
  PROVE  InsIInv'
<1> DEFINE new == IF cmd = "attach" THEN NotYetAttached(insSess.targets) ELSE {}
           made == IF cmd = "discover" THEN 1 ELSE 0
           told(p) == IF p \in new THEN 1 ELSE 0
           x(p) == [[insPeer[p] EXCEPT !.created = insPeer[p].created + made]
                      EXCEPT !.attach = insPeer[p].attach + told(p)]
<1>0. /\ SessionTypes /\ insSess \in SessType /\ insChan \in ChanType
      /\ insPeer \in [Peers -> PeerType]
      /\ Announcements(insSess, insPeer) /\ Covered(insThread, insWaker, insSess, insPeer, insChan)
      /\ WakerAgrees(insThread, insWaker) /\ PumpAgrees(insThread, insSess)
  BY DEF InsIInv, SessionTypes
<1>1. /\ insSess' = [[insSess EXCEPT !.tasks = insSess.tasks \ {cmd}]
                       EXCEPT !.attached = insSess.attached \cup new]
      /\ UNCHANGED <<insThread, insWaker, insChan>>
      /\ insPeer' = [p \in Peers |-> IF p \notin insSess.targets THEN insPeer[p] ELSE x(p)]
  BY DEF NotifyWorkers
<1>2. /\ new \subseteq insSess.targets /\ new \cap insSess.attached = {} /\ made \in Nat
      /\ \A p \in Peers : told(p) \in {0, 1} /\ (told(p) = 1 <=> p \in new)
      /\ insSess.targets \subseteq InsWorkers /\ insSess.attached \subseteq InsWorkers
  BY <1>0 DEF NotYetAttached, SessType
<1> HIDE DEF new, made, told
<1>3. ASSUME NEW p \in Peers
      PROVE  /\ x(p) \in PeerType /\ x(p).state = insPeer[p].state
             /\ x(p).attach = insPeer[p].attach + told(p) /\ x(p).inbox = insPeer[p].inbox
             /\ insPeer[p].attach \in Nat
  <2>1. insPeer[p] \in PeerType /\ insPeer[p].created \in Nat /\ insPeer[p].attach \in Nat
    BY <1>0, <1>3 DEF PeerType
  <2>2. insPeer[p].created + made \in Nat /\ insPeer[p].attach + told(p) \in Nat
    BY <1>2, <2>1
  <2> QED BY <2>1, <2>2 DEF PeerType
<1> HIDE DEF x
<1>4. /\ insPeer' \in [Peers -> PeerType]
      /\ \A p \in Peers : /\ insPeer'[p].state = insPeer[p].state
                          /\ insPeer'[p].inbox = insPeer[p].inbox
                          /\ insPeer'[p].attach = insPeer[p].attach + told(p)
  <2>1. ASSUME NEW p \in Peers
        PROVE  /\ insPeer'[p] \in PeerType /\ insPeer'[p].state = insPeer[p].state
               /\ insPeer'[p].inbox = insPeer[p].inbox
               /\ insPeer'[p].attach = insPeer[p].attach + told(p)
    <3>1. CASE p \in insSess.targets
      BY <1>1, <1>3, <3>1
    <3>2. CASE p \notin insSess.targets
      <4>1. insPeer'[p] = insPeer[p] /\ told(p) = 0 /\ insPeer[p].attach \in Nat
        BY <1>1, <1>2, <1>3, <3>2
      <4> QED BY <1>0, <4>1
    <3> QED BY <3>1, <3>2
  <2> QED BY <1>1, <2>1
<1>5. /\ insSess' \in SessType /\ insSess'.queue = insSess.queue /\ insSess'.targets = insSess.targets
      /\ insSess'.attached = insSess.attached \cup new /\ insSess'.established = insSess.established
      /\ insSess'.main = insSess.main /\ insSess'.handshake = insSess.handshake
  BY <1>0, <1>1, <1>2 DEF SessType
<1>6. Covered(insThread, insWaker, insSess, insPeer, insChan)'
  <2>1. Checked(insThread', insSess') = Checked(insThread, insSess)
    BY <1>1, <1>5 DEF Checked, Polled
  <2>2. \A c \in Channels : Active(insSess', insPeer', c) = Active(insSess, insPeer, c)
    BY <1>4, <1>5 DEF Active, Channels
  <2> QED BY <1>0, <1>1, <2>1, <2>2, CheckedAreChannels DEF Covered
<1>7. Announcements(insSess, insPeer)'
  <2>0. \A i \in DOMAIN insSess.queue : insSess.queue[i] \in Peers
    BY <1>0 DEF SessType
  <2>1. \A p \in Peers : Unaccepted(insSess', insPeer', p) => Unaccepted(insSess, insPeer, p)
    BY <1>4, <1>5 DEF Unaccepted
  <2>2. ASSUME NEW p \in Peers, Unaccepted(insSess', insPeer', p)
        PROVE  p \notin insSess'.targets /\ p \notin insSess'.attached /\ insPeer'[p].attach = 0
    <3>1. p \notin insSess.targets /\ p \notin insSess.attached /\ insPeer[p].attach = 0
      BY <1>0, <2>1, <2>2 DEF Announcements
    <3>2. p \notin new /\ told(p) = 0
      BY <1>2, <3>1
    <3> QED BY <1>4, <1>5, <3>1, <3>2
  <2>3. ASSUME NEW p \in InsWorkers
        PROVE  insPeer'[p].attach <= 1 /\ (p \notin insSess'.attached => insPeer'[p].attach = 0)
    <3>0. p \in Peers /\ insPeer[p].attach <= 1 /\ insPeer[p].attach \in Nat
          /\ (p \notin insSess.attached => insPeer[p].attach = 0)
      BY <1>0, <1>3, ChannelsApart DEF Announcements
    <3>1. CASE p \in new
      BY <1>2, <1>4, <1>5, <3>0, <3>1
    <3>2. CASE p \notin new
      <4>1. told(p) = 0
        BY <1>2, <3>0, <3>2
      <4> QED BY <1>4, <1>5, <3>0, <3>2, <4>1
    <3> QED BY <3>1, <3>2
  <2> QED BY <1>0, <1>4, <1>5, <2>0, <2>2, <2>3 DEF Announcements
<1>8. SessionTypes' /\ WakerAgrees(insThread, insWaker)' /\ PumpAgrees(insThread, insSess)'
  BY <1>0, <1>1, <1>4, <1>5 DEF SessionTypes, WakerAgrees, PumpAgrees
<1> QED BY <1>6, <1>7, <1>8 DEF InsIInv

LEMMA InsInitHolds == InsInit => InsIInv
<1> SUFFICES ASSUME InsInit PROVE InsIInv
  OBVIOUS
<1>0. InsMaxPauses \in Nat
  BY InspectorAssumption
<1>1. insThread \in ThreadType /\ insWaker \in WakerType
  BY <1>0 DEF InsInit, ThreadType, WakerType
<1>2. insSess \in SessType
  BY DEF InsInit, SessType
<1>3. insPeer \in [Peers -> PeerType] /\ insChan \in ChanType
  BY DEF InsInit, PeerType, ChanType
<1>4. WakerAgrees(insThread, insWaker)
  BY DEF InsInit, WakerAgrees, InPoll
<1>5. PumpAgrees(insThread, insSess)
  BY DEF InsInit, PumpAgrees
<1>6. Covered(insThread, insWaker, insSess, insPeer, insChan)
  <2>1. Checked(insThread, insSess) \subseteq {"sessions"} /\ insSess.queue = <<>>
    BY DEF InsInit, Checked, Polled
  <2>2. insChan["sessions"].waker
    BY ChannelsApart DEF InsInit
  <2> QED BY <2>1, <2>2 DEF Covered, Active
<1>7. Announcements(insSess, insPeer)
  <2>1. DOMAIN insSess.queue = {} /\ insSess.targets = {} /\ insSess.attached = {}
    BY DEF InsInit
  <2>2. \A p \in Peers : insPeer[p].attach = 0
    BY DEF InsInit
  <2> QED BY <2>1, <2>2, ChannelsApart DEF Announcements
<1> QED BY <1>1, <1>2, <1>3, <1>4, <1>5, <1>6, <1>7 DEF InsIInv, SessionTypes

LEMMA InsInductive == InsIInv /\ [InsNext]_insVars => InsIInv'
<1> SUFFICES ASSUME InsIInv, [InsNext]_insVars PROVE InsIInv'
  OBVIOUS
<1>1. CASE UNCHANGED insVars
  BY <1>1 DEF insVars, InsIInv, SessionTypes, WakerAgrees, PumpAgrees, Covered, Checked, Polled,
     Active, Announcements, Unaccepted
<1>2. ASSUME NEW p \in Peers, Connect(p) \/ Leave(p) PROVE InsIInv'
  <2>1. "plain" \in AllCommands
    BY DEF AllCommands
  <2> QED BY <1>2, <2>1, ConnectKeeps, SendKeeps
<1>3. ASSUME NEW d \in Debuggers, NEW cmd \in Commands, Send(d, cmd) PROVE InsIInv'
  BY <1>3, InspectorAssumption, ChannelsApart, SendKeeps
<1>4. ASSUME NEW w \in InsWorkers, Send(w, "plain") PROVE InsIInv'
  <2>1. "plain" \in AllCommands
    BY DEF AllCommands
  <2> QED BY <1>4, <2>1, ChannelsApart, SendKeeps
<1>5. ASSUME NEW c \in Channels, WakeReceiver(c) PROVE InsIInv'
  BY <1>5, WakeKeeps
<1>6. ASSUME NEW cmd \in {"discover", "attach"}, NotifyWorkers(cmd) PROVE InsIInv'
  BY <1>6, NotifyKeeps
<1>7. ASSUME IsolateStep PROVE InsIInv'
  <2>1. CASE InsPoll \/ TickEnds \/ Interrupt \/ Pause \/ Handshake \/ Unparked
    BY <2>1, EnterKeeps
  <2>2. CASE \E w \in InsWorkers : PollWorker(w)
    BY <2>2, PollWorkerKeeps
  <2>3. CASE \E d \in Debuggers : PollEstablished(d)
    BY <2>3, PollEstablishedKeeps
  <2> QED BY <1>7, <2>1, <2>2, <2>3, AcceptKeeps, InnerLoopEndsKeeps, PumpMessageKeeps,
             PumpEndsKeeps, UpdateKeeps DEF IsolateStep
<1> QED BY <1>1, <1>2, <1>3, <1>4, <1>5, <1>6, <1>7 DEF InsNext

(* What waits on a channel that the thread has left has woken it. *)
LEMMA InsIInvSuffices == InsIInv => SessionsConsistent
<1> SUFFICES ASSUME InsIInv PROVE SessionsConsistent
  OBVIOUS
<1>0. /\ SessionTypes /\ insThread \in ThreadType /\ insWaker \in WakerType /\ insSess \in SessType
      /\ insPeer \in [Peers -> PeerType] /\ insChan \in ChanType
      /\ Announcements(insSess, insPeer) /\ Covered(insThread, insWaker, insSess, insPeer, insChan)
      /\ WakerAgrees(insThread, insWaker)
  BY DEF InsIInv, SessionTypes
<1>1. InsTypeOK
  BY <1>0 DEF InsTypeOK, SessType, PeerType, ChanType
<1>2. NoActivityOverlooked
  <2> SUFFICES ASSUME Waiting, insThread.pc \in {"parked", "js", "away"}
               PROVE  insWaker.poll_state = "Woken"
    BY <1>0 DEF NoActivityOverlooked, WakerAgrees, ThreadType
  <2>1. /\ Checked(insThread, insSess) = Polled(insSess) \cup insSess.established
        /\ insSess.established \subseteq Debuggers /\ insSess.targets \subseteq InsWorkers
    BY <1>0 DEF Checked, SessType
  <2>2. PICK c \in Checked(insThread, insSess) : Active(insSess, insPeer, c) /\ ~insChan[c].due
    <3>1. CASE insSess.queue # <<>> /\ Announced("sessions")
      BY <2>1, <3>1 DEF Polled, Active, Announced
    <3>2. CASE \E d \in insSess.established : (Heard(d) \/ Ended(d)) /\ Announced(d)
      BY <2>1, <3>2, ChannelsApart DEF Active, Announced, Heard, Ended
    <3>3. CASE \E w \in PolledWorkers : (Heard(w) \/ Ended(w)) /\ Announced(w)
      BY <2>1, <3>3, ChannelsApart DEF PolledWorkers, Polled, Active, Announced, Heard, Ended
    <3> QED BY <3>1, <3>2, <3>3 DEF Waiting
  <2> QED BY <1>0, <2>2 DEF Covered
<1>3. PollStatesMatch /\ AttachedOnce
  BY <1>0 DEF WakerAgrees, PollStatesMatch, Announcements, AttachedOnce
<1> QED BY <1>1, <1>2, <1>3 DEF SessionsConsistent

(* poll_sessions, InspectorWaker: however debuggers, workers, interrupts   *)
(* and pauses interleave with the polls, a connection, message or          *)
(* disconnection that has been announced finds the thread polling,         *)
(* unparked or about to be polled; no unreachable!() is reached and no     *)
(* worker is announced twice.                                              *)
THEOREM SessionsStayConsistent == InsSpec => []SessionsConsistent
<1>1. InsIInv => SessionsConsistent
  BY InsIInvSuffices
<1> QED BY <1>1, InsInitHolds, InsInductive, PTL DEF InsSpec
=============================================================================
