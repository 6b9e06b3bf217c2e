---------------------------- MODULE TaskSpawner ----------------------------
(***************************************************************************)
(* V8TaskSpawnerFactory (core/tasks.rs): the queue through which any       *)
(* thread hands closures to the JsRuntime's event loop, together with the  *)
(* part of the event loop that drains it (dispatch_task_spawner and the    *)
(* park/finish decision at the end of poll_event_loop_inner).              *)
(*                                                                         *)
(* The mutex-protected vector, the atomic flag and the AtomicWaker are     *)
(* three separately updated cells; each access of one of them is a step.   *)
(* A task is the pair <<spawner, serial number>>.                          *)
(***************************************************************************)
EXTENDS Naturals, Sequences

CONSTANTS
  Local,     \* V8TaskSpawner handles: they spawn on the event loop's thread
  Remote,    \* V8CrossThreadTaskSpawner handles: each on a thread of its own
  Blocking,  \* the Remote ones that call spawn_blocking instead of spawn
  MaxTasks   \* bound: how often each handle spawns

ASSUME SpawnerAssumption ==
  /\ Local \cap Remote = {}
  /\ Blocking \subseteq Remote
  /\ MaxTasks \in Nat

VARIABLES
  tasks,      \* Mutex<Vec<SendTask>>
  has_tasks,  \* AtomicBool
  waker,      \* AtomicWaker: TRUE when it holds the event loop's waker
  spawnPc,    \* where each spawner is inside spawn / spawn_blocking
  sent,       \* how many tasks each spawner has pushed
  loopPc,     \* where the event loop is
  batch,      \* the tasks dispatch_task_spawner took and has still to run
  retries,    \* its `retries` counter
  woken,      \* the executor will poll the event loop again
  pushed,     \* history: every task pushed, in the order of the lock
  ran         \* history: every task run, in order

vars == <<tasks, has_tasks, waker, spawnPc, sent, loopPc, batch, retries,
          woken, pushed, ran>>
queueVars == <<tasks, has_tasks, waker>>
loopVars == <<loopPc, batch, retries, ran>>

Spawner == Local \cup Remote
Task == Spawner \X Nat

(* `let mut retries = 3` in dispatch_task_spawner. *)
MaxRetries == 3

Init ==
  /\ tasks = <<>> /\ has_tasks = FALSE /\ waker = FALSE
  /\ spawnPc = [s \in Spawner |-> "idle"]
  /\ sent = [s \in Spawner |-> 0]
  /\ loopPc = "parked" /\ batch = <<>> /\ retries = MaxRetries
  /\ woken = TRUE                      \* the first poll of run_event_loop
  /\ pushed = <<>> /\ ran = <<>>

(***************************************************************************)
(* Faulty variants of the definitions below, one per plausible slip; the   *)
(* properties have to notice each of them.                                 *)
(***************************************************************************)
(* spawn forgets the flag. *)
StoreFlagSkipped(s) ==
  /\ spawnPc[s] = "flag"
  /\ spawnPc' = [spawnPc EXCEPT ![s] = "wake"]
  /\ UNCHANGED <<queueVars, sent, woken, pushed, loopVars>>

(* poll_inner clones the vector instead of taking it. *)
PollTakeClones ==
  /\ loopPc = "take"
  /\ batch' = tasks
  /\ loopPc' = IF tasks = <<>> THEN "register" ELSE "run"
  /\ UNCHANGED <<queueVars, spawnPc, sent, retries, woken, pushed, ran>>

(* spawn_blocking does not wait on its channel. *)
AfterWakeReturns(s) == "idle"

(* The third batch ends the dispatch without a wake. *)
SelfWakeForgotten == FALSE

(* The pending state forgets the task spawner. *)
StaysPendingWithoutTasks(other) == other

(***************************************************************************)
(* V8TaskSpawnerFactory::spawn: push under the lock, set the flag, wake.   *)
(* A Local spawner is called from the event loop's own thread, so never    *)
(* from inside poll_inner, and the event loop stands still meanwhile.      *)
(***************************************************************************)
MaySpawn(s) == s \in Local => loopPc \in {"parked", "run", "rest", "done"}

LoopMayStep == \A s \in Local : spawnPc[s] = "idle"

Push(s) ==
  /\ spawnPc[s] = "idle" /\ sent[s] < MaxTasks
  /\ MaySpawn(s)
  /\ s \in Local => LoopMayStep        \* one call at a time on that thread
  /\ tasks' = Append(tasks, <<s, sent[s]>>)
  /\ pushed' = Append(pushed, <<s, sent[s]>>)
  /\ sent' = [sent EXCEPT ![s] = @ + 1]
  /\ spawnPc' = [spawnPc EXCEPT ![s] = "flag"]
  /\ UNCHANGED <<has_tasks, waker, woken, loopVars>>

StoreFlag(s) ==
  /\ spawnPc[s] = "flag"
  /\ has_tasks' = TRUE
  /\ spawnPc' = [spawnPc EXCEPT ![s] = "wake"]
  /\ UNCHANGED <<tasks, waker, sent, woken, pushed, loopVars>>

(* spawn is over; spawn_blocking goes on to rx.recv(). *)
AfterWake(s) == IF s \in Blocking THEN "recv" ELSE "idle"

(* AtomicWaker::wake takes the registered waker, if there is one. *)
Wake(s) ==
  /\ spawnPc[s] = "wake"
  /\ woken' = (woken \/ waker)
  /\ waker' = FALSE
  /\ spawnPc' = [spawnPc EXCEPT ![s] = AfterWake(s)]
  /\ UNCHANGED <<tasks, has_tasks, sent, pushed, loopVars>>

(***************************************************************************)
(* The event loop's side.                                                  *)
(***************************************************************************)
(* The executor polls a woken event loop; dispatch_task_spawner starts. *)
StartTick ==
  /\ loopPc = "parked" /\ woken /\ LoopMayStep
  /\ woken' = FALSE
  /\ retries' = MaxRetries
  /\ loopPc' = "poll"
  /\ UNCHANGED <<queueVars, spawnPc, sent, batch, pushed, ran>>

(* poll_inner, first part: compare_exchange(true, false). *)
PollFlag ==
  /\ loopPc = "poll"
  /\ has_tasks' = FALSE
  /\ loopPc' = IF has_tasks THEN "take" ELSE "register"
  /\ UNCHANGED <<tasks, waker, spawnPc, sent, batch, retries, woken, pushed, ran>>

(* poll_inner, second part: take the vector under the lock. *)
PollTake ==
  /\ loopPc = "take"
  /\ batch' = tasks
  /\ tasks' = <<>>
  /\ loopPc' = IF tasks = <<>> THEN "register" ELSE "run"
  /\ UNCHANGED <<has_tasks, waker, spawnPc, sent, retries, woken, pushed, ran>>

(* poll_inner, either Pending branch: waker.register, then return. *)
PollRegister ==
  /\ loopPc = "register"
  /\ waker' = TRUE
  /\ loopPc' = "rest"
  /\ UNCHANGED <<tasks, has_tasks, spawnPc, sent, batch, retries, woken, pushed, ran>>

(* Run the next task; the task of a spawn_blocking call then sends its     *)
(* result over a rendezvous channel.                                       *)
RunTask ==
  /\ loopPc = "run" /\ batch # <<>> /\ LoopMayStep
  /\ ran' = Append(ran, Head(batch))
  /\ batch' = Tail(batch)
  /\ loopPc' = IF Head(batch)[1] \in Blocking THEN "send" ELSE "run"
  /\ UNCHANGED <<queueVars, spawnPc, sent, retries, woken, pushed>>

(* sync_channel(0): tx.send and rx.recv complete together. *)
Rendezvous(s) ==
  /\ loopPc = "send" /\ ran[Len(ran)][1] = s
  /\ spawnPc[s] = "recv"
  /\ spawnPc' = [spawnPc EXCEPT ![s] = "idle"]
  /\ loopPc' = "run"
  /\ UNCHANGED <<queueVars, sent, batch, retries, woken, pushed, ran>>

(* The batch is done: poll again, or after three batches wake oneself and  *)
(* leave the rest for the next tick.                                       *)
RetriesSpent == retries - 1 = 0

SelfWake == RetriesSpent

EndBatch ==
  /\ loopPc = "run" /\ batch = <<>> /\ LoopMayStep
  /\ retries' = retries - 1
  /\ loopPc' = IF RetriesSpent THEN "rest" ELSE "poll"
  /\ woken' = (woken \/ SelfWake)
  /\ UNCHANGED <<queueVars, spawnPc, sent, batch, pushed, ran>>

(* EventLoopPendingState::new reads the flag; `other` stands for every     *)
(* other reason to stay pending.  Ready ends run_event_loop.               *)
StaysPending(other) == has_tasks \/ other

Evaluate ==
  /\ loopPc = "rest" /\ LoopMayStep
  /\ \E other \in BOOLEAN :
       loopPc' = IF StaysPending(other) THEN "parked" ELSE "done"
  /\ UNCHANGED <<queueVars, spawnPc, sent, batch, retries, woken, pushed, ran>>

(* The embedder calls run_event_loop again, or something else wakes it. *)
WakeOther ==
  /\ loopPc \in {"parked", "done"} /\ LoopMayStep
  /\ loopPc' = "parked" /\ woken' = TRUE
  /\ UNCHANGED <<queueVars, spawnPc, sent, batch, retries, pushed, ran>>

SpawnerStep(s) == Push(s) \/ StoreFlag(s) \/ Wake(s) \/ Rendezvous(s)

LoopStep ==
  \/ StartTick \/ PollFlag \/ PollTake \/ PollRegister
  \/ RunTask \/ EndBatch \/ Evaluate

Next == (\E s \in Spawner : SpawnerStep(s)) \/ LoopStep \/ WakeOther

Spec == Init /\ [][Next]_vars

(* A started spawn call finishes, and a woken event loop runs its tick to  *)
(* the end.  No fairness for Push or WakeOther: nobody has to spawn and    *)
(* nothing else has to wake the event loop.                                *)
Fairness ==
  /\ \A s \in Spawner : WF_vars(StoreFlag(s) \/ Wake(s) \/ Rendezvous(s))
  /\ WF_vars(LoopStep)

FairSpec == Spec /\ Fairness

----------------------------------------------------------------------------
(* The shape of the state: the queue is a sequence of tasks, the atomics   *)
(* are Booleans, and `retries` stays within its three rounds.              *)
TypeOK ==
  /\ tasks \in Seq(Task) /\ batch \in Seq(Task)
  /\ pushed \in Seq(Task) /\ ran \in Seq(Task)
  /\ has_tasks \in BOOLEAN /\ waker \in BOOLEAN /\ woken \in BOOLEAN
  /\ spawnPc \in [Spawner -> {"idle", "flag", "wake", "recv"}]
  /\ sent \in [Spawner -> Nat]
  /\ loopPc \in {"parked", "poll", "register", "take", "run", "send",
                 "rest", "done"}
  /\ retries \in 0 .. MaxRetries

(* Every task is run at most once and in the order of the lock, and none   *)
(* is dropped between spawn, the queue, a taken batch and its execution,   *)
(* whichever threads interleave (Vec push against mem::take).              *)
RunsOnceInOrder == pushed = ran \o batch \o tasks

(* The lock-free fast path is sound: if the flag is down while tasks are   *)
(* queued, some spawner is still between its push and its store, or the    *)
(* event loop has just lowered the flag and is about to take the queue.    *)
FlagCoversTasks ==
  tasks # <<>> =>
    has_tasks \/ loopPc = "take" \/ \E s \in Spawner : spawnPc[s] = "flag"

(* run_event_loop reports completion only if every task whose spawn call   *)
(* had got past the flag was taken: tasks left behind by `Ready` belong to *)
(* spawn calls that set the flag after it was read.                        *)
FinishedMeansNoneQueued ==
  [][loopPc = "rest" /\ loopPc' = "done" =>
       tasks = <<>> \/ \E s \in Spawner : spawnPc[s] = "flag"]_vars

(* spawn_blocking may lend the closure borrows of its caller's stack: when *)
(* the call has returned, every closure it submitted has been run.         *)
BlockingBorrowSafe ==
  \A s \in Blocking : spawnPc[s] = "idle" =>
    \A i \in 1 .. Len(batch \o tasks) : (batch \o tasks)[i][1] # s

(* `spawn` on the event loop's own thread always leads to the task being   *)
(* run, with nothing else waking the event loop.                           *)
Runs(t) ==
  (loopPc # "done" /\ \E i \in DOMAIN pushed : pushed[i] = t) ~>
     \E i \in DOMAIN ran : ran[i] = t

LocalTaskRuns == \A t \in Local \X (0 .. MaxTasks - 1) : Runs(t)

(* The same for a task spawned from another thread while the event loop    *)
(* stays pending: poll_inner's doc says it returns the tasks "if there     *)
(* have been any queued, or" registers "the waker if not".                 *)
RemoteTaskRuns ==
  \A t \in Remote \X (0 .. MaxTasks - 1) :
    (\E i \in DOMAIN pushed : pushed[i] = t) ~>
       (loopPc = "done" \/ \E i \in DOMAIN ran : ran[i] = t)
============================================================================
