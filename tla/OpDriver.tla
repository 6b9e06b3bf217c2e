------------------------------ MODULE OpDriver ------------------------------
(***************************************************************************)
(* The life of an asynchronous op: submission from JavaScript              *)
(* (FuturesUnorderedDriver::submit_op), the driver task that polls the     *)
(* futures (poll_task), completion and batch dispatch to JavaScript        *)
(* (dispatch_pending_ops), ref and unref, and the event loop's decision    *)
(* to finish.                                                              *)
(*                                                                         *)
(* Everything runs on one thread: the driver task, the event loop and      *)
(* scripts exclude each other, only futures finish on their own.  An op    *)
(* that completes inside its call returns its value at once and does not   *)
(* use up a promise id; so ids number the ops that go through the driver.  *)
(***************************************************************************)
EXTENDS Naturals, Sequences, FiniteSets, Functions

CONSTANTS
  MaxOps,            \* bound: ops that go through the driver
  MaxBatch,          \* ops per dispatch: 342 in the code (1024 / 3, rounded up)
  UnrefedResources   \* op_read, op_write on resources unref'd with uv_unref occur

ASSUME DriverAssumption ==
  MaxOps \in Nat /\ MaxBatch \in Nat \ {0} /\ UnrefedResources \in BOOLEAN

VARIABLES
  nextPromiseId,
  inflight,         \* ids in FuturesUnordered
  ready_to_run,     \* the ones it will poll next: new or woken
  finished,         \* ids whose future has its result
  driver,           \* poll_task: "unspawned", "idle", "woken", "running", "aborted"
  item_waker,       \* Queue.item_waker holds the driver task's waker
  futures_waker,    \* FuturesUnordered's own waker is registered
  completed_ops,    \* results waiting for the event loop
  completed_waker,  \* holds the event loop's waker
  len,              \* FuturesUnorderedDriver.len
  unrefed_ops,
  pc,               \* the event loop: "parked", "pop", "js", "done", "shutdown"
  woken,            \* the executor will poll the event loop
  args,             \* results popped for __resolveOps in this dispatch
  resolved,         \* history: ids whose promise was settled
  refd              \* history: ids that ought to keep the event loop alive

vars == <<nextPromiseId, inflight, ready_to_run, finished, driver, item_waker,
          futures_waker, completed_ops, completed_waker, len, unrefed_ops, pc,
          woken, args, resolved, refd>>
jsVars == <<nextPromiseId, resolved, refd>>
taskVars == <<inflight, ready_to_run, finished, driver, item_waker, futures_waker>>
loopVars == <<pc, woken, args, completed_waker>>

Ids == 0 .. MaxOps - 1
Outstanding == inflight \cup Range(completed_ops) \cup Range(args)

(* Faulty variants of definitions below. *)
UnrefedAfterPopKept(id) == unrefed_ops
LenAfterPopKept == len
WakeOnCompletionForgotten == woken

Init ==
  /\ nextPromiseId = 0
  /\ inflight = {} /\ ready_to_run = {} /\ finished = {}
  /\ driver = "unspawned" /\ item_waker = FALSE /\ futures_waker = FALSE
  /\ completed_ops = <<>> /\ completed_waker = FALSE /\ len = 0
  /\ unrefed_ops = {}
  /\ pc = "parked" /\ woken = TRUE /\ args = <<>>
  /\ resolved = {} /\ refd = {}

(***************************************************************************)
(* JavaScript.                                                             *)
(***************************************************************************)
(* Scripts run from the embedder or inside the event loop's tick. *)
ScriptMayRun == pc \in {"parked", "js", "done"} /\ driver # "running"

(* ensure_task, then item_waker.wake_by_ref(). *)
SpawnWakes ==
  IF driver = "unspawned" \/ (driver = "idle" /\ item_waker) THEN "woken" ELSE driver

(* The future is handed to the driver.  `done`: it already has its result, *)
(* as a deferred op's first poll may give it.  `unrefed`: get_resource     *)
(* found the resource unref'd during the first, eager poll.                *)
Submit(done, unrefed) ==
  LET id == nextPromiseId IN
  /\ ScriptMayRun /\ id < MaxOps
  /\ unrefed => UnrefedResources
  /\ nextPromiseId' = id + 1
  /\ inflight' = inflight \cup {id}
  /\ ready_to_run' = ready_to_run \cup {id}
  /\ finished' = IF done THEN finished \cup {id} ELSE finished
  /\ driver' = SpawnWakes
  /\ len' = len + 1
  /\ unrefed_ops' = IF unrefed THEN unrefed_ops \cup {id} ELSE unrefed_ops
  /\ refd' = IF unrefed THEN refd ELSE refd \cup {id}
  /\ UNCHANGED <<item_waker, futures_waker, completed_ops, loopVars, resolved>>

(* The eager poll completes the op: its value goes straight back to        *)
(* JavaScript, but get_resource has run.                                   *)
SubmitReady ==
  /\ ScriptMayRun /\ UnrefedResources /\ nextPromiseId < MaxOps
  /\ unrefed_ops' = unrefed_ops \cup {nextPromiseId}
  /\ UNCHANGED <<jsVars, taskVars, completed_ops, len, loopVars>>

(* refOp and unrefOp, guarded by hasPromise. *)
HasPromise(id) == id < nextPromiseId /\ id \notin resolved

op_ref_op(id) ==
  /\ ScriptMayRun /\ HasPromise(id)
  /\ unrefed_ops' = unrefed_ops \ {id}
  /\ refd' = refd \cup {id}
  /\ UNCHANGED <<nextPromiseId, resolved, taskVars, completed_ops, len, loopVars>>

op_unref_op(id) ==
  /\ ScriptMayRun /\ HasPromise(id)
  /\ unrefed_ops' = unrefed_ops \cup {id}
  /\ refd' = refd \ {id}
  /\ UNCHANGED <<nextPromiseId, resolved, taskVars, completed_ops, len, loopVars>>

(***************************************************************************)
(* Futures and the driver task.                                            *)
(***************************************************************************)
(* A future gets its result.  Once the driver has polled it, its waker     *)
(* queues it again and wakes the task FuturesUnordered last saw.           *)
FutureFinishes(id) ==
  /\ id \in inflight \ finished
  /\ finished' = finished \cup {id}
  /\ ready_to_run' = ready_to_run \cup {id}
  /\ IF id \notin ready_to_run /\ futures_waker
     THEN /\ futures_waker' = FALSE
          /\ driver' = IF driver = "idle" THEN "woken" ELSE driver
     ELSE UNCHANGED <<futures_waker, driver>>
  /\ UNCHANGED <<inflight, item_waker, jsVars, completed_ops, len, unrefed_ops, loopVars>>

DriverStart ==
  /\ driver = "woken" /\ pc \in {"parked", "done"}
  /\ driver' = "running"
  /\ UNCHANGED <<inflight, ready_to_run, finished, item_waker, futures_waker, jsVars,
                 completed_ops, len, unrefed_ops, loopVars>>

(* completed_waker.wake_by_ref() *)
WakeOnCompletion == woken \/ completed_waker

(* FuturesUnordered polls a queued future; a result goes to completed_ops. *)
DriverPolls(id) ==
  /\ driver = "running" /\ id \in ready_to_run
  /\ ready_to_run' = ready_to_run \ {id}
  /\ futures_waker' = TRUE
  /\ IF id \in finished
     THEN /\ inflight' = inflight \ {id}
          /\ completed_ops' = Append(completed_ops, id)
          /\ woken' = WakeOnCompletion
     ELSE UNCHANGED <<inflight, completed_ops, woken>>
  /\ UNCHANGED <<finished, driver, item_waker, jsVars, len, unrefed_ops, pc, args,
                 completed_waker>>

DriverParks ==
  /\ driver = "running" /\ ready_to_run = {}
  /\ driver' = "idle" /\ item_waker' = TRUE
  /\ futures_waker' = (futures_waker \/ inflight # {})
  /\ UNCHANGED <<inflight, ready_to_run, finished, jsVars, completed_ops, len,
                 unrefed_ops, loopVars>>

(***************************************************************************)
(* The event loop.                                                         *)
(***************************************************************************)
StartTick ==
  /\ pc = "parked" /\ woken /\ driver # "running"
  /\ pc' = "pop" /\ woken' = FALSE
  /\ UNCHANGED <<jsVars, taskVars, completed_ops, completed_waker, len, unrefed_ops, args>>

BatchFull == Len(args) >= MaxBatch

UnrefedAfterPop(id) == unrefed_ops \ {id}

LenAfterPop == len - 1

PopOp ==
  /\ pc = "pop" /\ ~BatchFull /\ completed_ops # <<>>
  /\ completed_ops' = Tail(completed_ops)
  /\ args' = Append(args, Head(completed_ops))
  /\ len' = LenAfterPop
  /\ unrefed_ops' = UnrefedAfterPop(Head(completed_ops))
  /\ UNCHANGED <<jsVars, taskVars, pc, woken, completed_waker>>

(* poll_ready is Pending and keeps the waker, or the batch is full and the *)
(* loop wakes itself; then __resolveOps settles the batch.                 *)
ResolveOps ==
  /\ pc = "pop" /\ (BatchFull \/ completed_ops = <<>>)
  /\ IF BatchFull THEN woken' = TRUE /\ UNCHANGED completed_waker
                  ELSE completed_waker' = TRUE /\ UNCHANGED woken
  /\ resolved' = resolved \cup Range(args)
  /\ args' = <<>>
  /\ pc' = "js"
  /\ UNCHANGED <<nextPromiseId, refd, taskVars, completed_ops, len, unrefed_ops>>

(* has_pending_refed_ops, the share of the ops in it. *)
KeepsAlive == len > Cardinality(unrefed_ops)

Evaluate ==
  /\ pc = "js"
  /\ pc' = IF KeepsAlive THEN "parked" ELSE "done"
  /\ UNCHANGED <<jsVars, taskVars, completed_ops, len, unrefed_ops, woken, args,
                 completed_waker>>

(* The embedder runs the event loop again. *)
RunAgain ==
  /\ pc = "done"
  /\ pc' = "parked" /\ woken' = TRUE
  /\ UNCHANGED <<jsVars, taskVars, completed_ops, len, unrefed_ops, args, completed_waker>>

(* The realm is destroyed: the task is aborted, queues are cleared. *)
Shutdown ==
  /\ pc \in {"parked", "done"} /\ driver # "running"
  /\ pc' = "shutdown" /\ driver' = "aborted"
  /\ inflight' = {} /\ ready_to_run' = {} /\ completed_ops' = <<>>
  /\ UNCHANGED <<finished, item_waker, futures_waker, jsVars, len, unrefed_ops, woken,
                 args, completed_waker>>

DriverStep == DriverStart \/ (\E id \in ready_to_run : DriverPolls(id)) \/ DriverParks
LoopStep == StartTick \/ PopOp \/ ResolveOps \/ Evaluate

Next ==
  \/ \E done, unrefed \in BOOLEAN : Submit(done, unrefed)
  \/ SubmitReady
  \/ \E id \in Ids : op_ref_op(id) \/ op_unref_op(id) \/ FutureFinishes(id)
  \/ DriverStep \/ LoopStep \/ RunAgain \/ Shutdown

Spec == Init /\ [][Next]_vars

(* Tokio runs a woken task and the executor polls a woken event loop to    *)
(* the end of its tick; futures, scripts and the embedder owe nothing.     *)
FairSpec == Spec /\ WF_vars(DriverStep) /\ WF_vars(LoopStep)

----------------------------------------------------------------------------
(* Shapes; `len` is a usize and must not underflow. *)
TypeOK ==
  /\ nextPromiseId \in 0 .. MaxOps
  /\ inflight \subseteq Ids /\ ready_to_run \subseteq inflight /\ finished \subseteq Ids
  /\ driver \in {"unspawned", "idle", "woken", "running", "aborted"}
  /\ completed_ops \in Seq(Ids) /\ args \in Seq(Ids)
  /\ {item_waker, futures_waker, completed_waker, woken} \subseteq BOOLEAN
  /\ len \in 0 .. MaxOps /\ unrefed_ops \subseteq 0 .. MaxOps
  /\ pc \in {"parked", "pop", "js", "done", "shutdown"}
  /\ resolved \subseteq Ids /\ refd \subseteq Ids

(* Every op that went to the driver is in exactly one place: with the      *)
(* futures, completed, being dispatched, or resolved; it is resolved only  *)
(* after its future finished, and `len` counts the ones not yet popped.    *)
OpsAccountedFor ==
  TypeOK /\ (pc # "shutdown" =>
    /\ Outstanding \cup resolved = 0 .. nextPromiseId - 1
    /\ Cardinality(inflight) + Len(completed_ops) + Len(args) + Cardinality(resolved)
         = nextPromiseId
    /\ len = Cardinality(inflight) + Len(completed_ops)
    /\ resolved \cup Range(completed_ops) \subseteq finished)

(* "This future resolves when ... there are no more pending ops": the loop *)
(* finishes exactly when no op outstanding is one that should keep it      *)
(* alive, whatever sequence of ref, unref and completion led there, unless *)
(* an op that completed eagerly has left its id in unrefed_ops.            *)
EagerLeftover == nextPromiseId \in unrefed_ops \/ unrefed_ops \cap refd # {}

ExitsExactlyWhenUnrefed ==
  [][pc = "js" /\ pc' # "js" /\ ~EagerLeftover =>
       (pc' = "done" <=> \A id \in Outstanding : id \notin refd)]_vars

(* The direction of it that loses work, without the exception: a ref'd op  *)
(* is never left behind.                                                   *)
NeverAbandonsRefedOps ==
  [][pc = "js" /\ pc' = "done" => \A id \in Outstanding : id \notin refd]_vars

(* A finished future's promise is settled while the event loop is kept     *)
(* running, with no wake-up but the driver's own.                          *)
FinishedOpSettles ==
  \A id \in Ids : (id \in finished) ~> (id \in resolved \/ pc \in {"done", "shutdown"})
=============================================================================
