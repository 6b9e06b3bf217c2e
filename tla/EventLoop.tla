----------------------------- MODULE EventLoop -----------------------------
(***************************************************************************)
(* One poll of the event loop (JsRuntime::poll_event_loop_inner), phase by *)
(* phase, and the executor that repeats it.                                *)
(*                                                                         *)
(* The sources of work are abstracted to what the loop asks of them: each  *)
(* is idle, pending or ready, and becoming ready wakes the task (how each  *)
(* one does so is the business of TaskSpawner, WebTimers and OpDriver).    *)
(* What the loop decides from them is kept: the order of the phases, which *)
(* of them run, whether the tick returns, fails, reports a stalled         *)
(* top-level await or parks, and whether it wakes itself first.            *)
(*                                                                         *)
(* JavaScript runs inside the phases.  A callback may do one of the things *)
(* that matter to the loop, as often as the budget allows.                 *)
(***************************************************************************)
EXTENDS Naturals, FiniteSets

CONSTANTS
  Budget,      \* bound: things that scripts and other threads start
  MaxReject,   \* bound: dynamic imports whose evaluation rejects
  FeatureSets  \* environments to run in: sets of AllFeatures

AllFeatures ==
  {"uv",            \* a uv loop is registered and may hold handles
   "cross_thread",  \* V8CrossThreadTaskSpawner is used by other threads
   "inspector",     \* an inspector session is connected that the loop waits for
   "rejections",    \* scripts reject promises that have no handler
   "throw",         \* callbacks report exceptions (dispatch_exception)
   "close_throw"}   \* so do the close callbacks of phase 6

ASSUME LoopAssumption ==
  Budget \in Nat /\ MaxReject \in Nat /\ FeatureSets \subseteq SUBSET AllFeatures

Sources == {"timer", "task", "op", "import", "background", "external", "uv"}
Unrefable == {"timer", "op"}

VARIABLES
  features,    \* the environment of this run; it does not change
  pc,          \* the phase about to run, "parked" between polls, "returned"
  woken,       \* the executor will poll again
  work,        \* what is scheduled, see WorkType
  did_work,
  dispatched_ops,
  uv_did_io,
  idle,        \* dyn_module_evaluate_idle_counter
  result       \* "none", "ok", "error", "stalled", "panic"

vars == <<features, pc, woken, work, did_work, dispatched_ops, uv_did_io, idle, result>>
tickVars == <<did_work, dispatched_ops, uv_did_io>>

WorkType ==
  [source     : [Sources -> {"none", "pending", "ready"}],
   unrefed    : SUBSET Unrefable,
   tick       : BOOLEAN,      \* has_next_tick_scheduled
   immediates : 0 .. 1,       \* immediate_info.ref_count
   rejections : BOOLEAN,      \* pending_promise_rejections is not empty
   exception  : BOOLEAN,      \* dispatched_exception is set, JS is terminating
   main       : {"none", "pending", "done"},
   dyn        : {"none", "pending", "fulfilled", "rejected"},
   inspector  : BOOLEAN,      \* a session the loop waits for is connected
   budget     : 0 .. Budget,
   reject     : 0 .. MaxReject]

Busy(w, s) == w.source[s] # "none"

(***************************************************************************)
(* EventLoopPendingState: has_pending_... read off the work.               *)
(***************************************************************************)
HasPendingRefedOps(w) ==
  \/ Busy(w, "task")
  \/ \E s \in Unrefable : Busy(w, s) /\ s \notin w.unrefed

HasPendingOps(w) == \E s \in {"task"} \cup Unrefable : Busy(w, s)

(* A settled evaluation counts until evaluate_dyn_imports has seen it. *)
HasPendingDynEval(w) == w.dyn # "none"

(* Faulty variant of IsPending: rejections are left out. *)
IsPendingWithoutRejections(w) ==
  \/ HasPendingRefedOps(w) \/ HasPendingDynEval(w) \/ w.main = "pending"
  \/ w.tick \/ w.immediates > 0
  \/ \E s \in {"import", "background", "external", "uv"} : Busy(w, s)

IsPending(w) ==
  \/ HasPendingRefedOps(w)
  \/ Busy(w, "import")
  \/ HasPendingDynEval(w)
  \/ w.main = "pending"
  \/ Busy(w, "background")
  \/ w.tick
  \/ w.immediates > 0
  \/ w.rejections
  \/ Busy(w, "external")
  \/ Busy(w, "uv")

(* What keeps a pending top-level await from being called stalled; for the *)
(* main module a dynamic evaluation does too.                              *)
MayStillProgressRefedOnly(w) ==   \* faulty: unref'd ops and timers forgotten
  HasPendingRefedOps(w) \/ Busy(w, "import") \/ Busy(w, "external") \/ w.tick

MayStillProgress(w) ==
  \/ HasPendingOps(w)
  \/ \E s \in {"import", "background", "external"} : Busy(w, s)
  \/ w.tick
  \/ w.immediates > 0

(***************************************************************************)
(* What a callback may do.  A terminating isolate runs no JavaScript.      *)
(***************************************************************************)
Spend(w) == [w EXCEPT !.budget = @ - 1]

(* One thing started: a source begins to be pending (a task is ready at    *)
(* once), a tick or an immediate is scheduled, a promise is rejected.  One *)
(* dynamic import is under way at a time.                                  *)
Startable(w) ==
  {s \in Sources : /\ ~Busy(w, s)
                   /\ s = "uv" => "uv" \in features
                   /\ s = "import" => w.dyn = "none"}

Started(w) ==
  IF w.budget = 0 THEN {}
  ELSE {[Spend(w) EXCEPT !.source[s] = IF s = "task" THEN "ready" ELSE "pending"] :
           s \in Startable(w)}
       \cup {[Spend(w) EXCEPT !.tick = TRUE], [Spend(w) EXCEPT !.immediates = 1],
             [Spend(w) EXCEPT !.rejections = "rejections" \in features]}

(* A module's evaluation settles: its top-level await has its value. *)
Settled(w) ==
  {[w EXCEPT !.main = "done"] : x \in {w.main} \cap {"pending"}}
  \cup {[w EXCEPT !.dyn = "fulfilled"] : x \in {w.dyn} \cap {"pending"}}
  \cup {[[w EXCEPT !.dyn = "rejected"] EXCEPT !.reject = @ - 1] :
          x \in {n \in {w.reject} : n > 0 /\ w.dyn = "pending"}}

(* ref and unref of a timer or an op. *)
Toggled(w) ==
  {[Spend(w) EXCEPT !.unrefed = (w.unrefed \ {s}) \cup ({s} \ w.unrefed)] :
     s \in {s \in Unrefable : Busy(w, s) /\ w.budget > 0}}

Thrown(w, feature) ==
  IF feature \in features THEN {[w EXCEPT !.exception = TRUE]} ELSE {}

Script(w) ==
  IF w.exception THEN {w}
  ELSE {w} \cup Started(w) \cup Settled(w) \cup Toggled(w) \cup Thrown(w, "throw")

(* Callbacks of uv handles, which call into JavaScript. *)
UvScript(w) == IF "uv" \in features THEN Script(w) ELSE {w}

(* Taken off its queue: the op, timer, task or handle has delivered. *)
Taken(w, s) == [[w EXCEPT !.source[s] = "none"] EXCEPT !.unrefed = @ \ {s}]

(* __drainNextTickAndMacrotasks: the tick queue is emptied. *)
Drained(w) == IF w.exception THEN w ELSE [w EXCEPT !.tick = FALSE]

(* Wakes that scripts cause: the handlers on the modules' promises         *)
(* (module_waker), notify_new_dynamic_import, and spawning a task.         *)
ModuleWakes(w, v) == v.main # w.main \/ v.dyn # w.dyn

ScriptWakes(w, v) ==
  \/ \E s \in {"import", "task"} : Busy(v, s) /\ ~Busy(w, s)
  \/ ModuleWakes(w, v)

RunAmong(w, outcomes) ==
  work' \in outcomes /\ woken' = (woken \/ ScriptWakes(w, work'))

Run(w) == RunAmong(w, Script(w))

(* A call that is followed by `?`: it returns only without an exception.   *)
RunOrFail(w) == RunAmong(w, {v \in Script(w) : ~v.exception})
Throws == work.exception \/ "throw" \in features

Skip == UNCHANGED <<work, woken>>

(* exception_to_err_result with clear_error: the call is answered with the *)
(* dispatched exception, which is cleared.                                 *)
Fail ==
  /\ pc' = "returned" /\ result' = "error"
  /\ work' = [work EXCEPT !.exception = FALSE]
  /\ UNCHANGED <<woken, did_work, dispatched_ops, uv_did_io, idle>>

(* Faulty variants of ReWake and modules_idle. *)
TickOnlyReWake(p) == p.tick \/ p.rejections
IdleAtOnce == TRUE

(***************************************************************************)
(* The tick.                                                               *)
(***************************************************************************)
EmptyWork ==
  [source |-> [s \in Sources |-> "none"], unrefed |-> {}, tick |-> FALSE,
   immediates |-> 0, rejections |-> FALSE, exception |-> FALSE, main |-> "none",
   dyn |-> "none", inspector |-> "inspector" \in features, budget |-> Budget,
   reject |-> MaxReject]

(* The embedder has evaluated a main module (mod_evaluate) or run a script *)
(* before it runs the loop.                                                *)
Init ==
  /\ features \in FeatureSets
  /\ pc = "parked" /\ woken = TRUE /\ result = "none" /\ idle = 0
  /\ did_work = FALSE /\ dispatched_ops = FALSE /\ uv_did_io = FALSE
  /\ \E m \in {"none", "pending"} :
       work \in Script([EmptyWork EXCEPT !.main = m]) /\ ~work.exception

(* The executor polls: waker.register, sessions, pump_v8_message_loop. *)
Poll ==
  /\ pc = "parked" /\ woken
  /\ did_work' = FALSE /\ dispatched_ops' = FALSE /\ uv_did_io' = FALSE
  /\ pc' = "timers"
  /\ IF work.source["background"] = "ready"
     THEN work' \in Script(Taken(work, "background")) /\ woken' = ScriptWakes(work, work')
     ELSE work' = work /\ woken' = FALSE
  /\ UNCHANGED <<idle, result>>

(* Phase 1, dispatch_timers: the callback, then a drain. *)
Timers ==
  /\ pc = "timers" /\ pc' = "modules"
  /\ \/ /\ work.source["timer"] = "ready"
        /\ did_work' = TRUE
        /\ \E w \in Script(Taken(work, "timer")) :
             work' \in Script(Drained(w)) /\ woken' = (woken \/ ScriptWakes(work, work'))
     \/ work.source["timer"] # "ready" /\ Skip /\ UNCHANGED did_work
  /\ UNCHANGED <<dispatched_ops, uv_did_io, idle, result>>

(* poll_dyn_imports: the load fails, or the module is evaluated, which     *)
(* settles its promise or leaves it waiting.                               *)
EvaluateImport ==
  /\ pc = "modules" /\ work.source["import"] = "ready" /\ ~work.exception
  /\ Run([Taken(work, "import") EXCEPT !.dyn = "pending"])
  /\ UNCHANGED <<pc, did_work, dispatched_ops, uv_did_io, idle, result>>

ImportFails ==
  /\ pc = "modules" /\ work.source["import"] = "ready" /\ ~work.exception
  /\ Run(Taken(work, "import"))
  /\ UNCHANGED <<pc, did_work, dispatched_ops, uv_did_io, idle, result>>

(* evaluate_dyn_imports: only dynamic_import_resolve resets the counter. *)
IdleAfterSettling == IF work.dyn = "fulfilled" THEN 0 ELSE idle

SettleImport ==
  /\ pc = "modules" /\ work.dyn \in {"fulfilled", "rejected"} /\ ~work.exception
  /\ idle' = IdleAfterSettling
  /\ Run([work EXCEPT !.dyn = "none"])
  /\ UNCHANGED <<pc, did_work, dispatched_ops, uv_did_io, result>>

(* poll_progress has nothing more to do; a terminating isolate fails it    *)
(* when there is a module to evaluate.                                     *)
Modules ==
  /\ pc = "modules"
  /\ \/ /\ work.source["import"] # "ready" /\ work.dyn \notin {"fulfilled", "rejected"}
        /\ Skip /\ pc' = "tasks" /\ UNCHANGED <<tickVars, idle, result>>
     \/ work.exception /\ work.source["import"] = "ready" /\ Fail
     \/ /\ work.exception /\ work.source["import"] # "ready"
        /\ work.dyn \in {"fulfilled", "rejected"}
        /\ idle' = IdleAfterSettling /\ work' = [work EXCEPT !.dyn = "none"]
        /\ pc' = "tasks" /\ UNCHANGED <<woken, tickVars, result>>

(* Phase 2a, dispatch_task_spawner: repeated while there are tasks, but    *)
(* only so often; then the tick goes on and is woken again.                *)
Tasks ==
  /\ pc = "tasks"
  /\ \/ /\ work.source["task"] = "ready"
        /\ dispatched_ops' = TRUE /\ pc' \in {"tasks", "ops"}
        /\ work' \in Script(Taken(work, "task"))
        /\ woken' = (woken \/ pc' = "ops" \/ ScriptWakes(work, work'))
     \/ work.source["task"] # "ready" /\ pc' = "ops" /\ Skip /\ UNCHANGED dispatched_ops
  /\ UNCHANGED <<did_work, uv_did_io, idle, result>>

(* Phase 2b, dispatch_pending_ops.  Ok(false) when JS was terminated. *)
Ops ==
  /\ pc = "ops" /\ pc' = "drain"
  /\ \/ /\ work.source["op"] = "ready"
        /\ Run(Taken(work, "op"))
        /\ dispatched_ops' = (dispatched_ops \/ ~work'.exception)
     \/ work.source["op"] # "ready" /\ Skip /\ UNCHANGED dispatched_ops
  /\ UNCHANGED <<did_work, uv_did_io, idle, result>>

(* Phase 2c, drain_next_tick_and_macrotasks. *)
Drain ==
  /\ pc = "drain"
  /\ LET due == dispatched_ops \/ did_work \/ work.tick
     IN \/ /\ due /\ ~work.exception
           /\ RunOrFail(Drained(work)) /\ pc' = "immediates"
           /\ dispatched_ops' = (dispatched_ops \/ work.tick)
           /\ UNCHANGED <<did_work, uv_did_io, idle, result>>
        \/ due /\ Throws /\ Fail
        \/ ~due /\ Skip /\ pc' = "immediates" /\ UNCHANGED <<tickVars, idle, result>>

(* Phase 2d: immediates, if ops or timers did work. *)
ImmediatesRun(w) == [w EXCEPT !.immediates = 0]

Immediates ==
  /\ pc = "immediates"
  /\ LET due == (did_work \/ dispatched_ops) /\ work.immediates > 0
     IN \/ /\ due /\ ~work.exception
           /\ RunOrFail(ImmediatesRun(work)) /\ pc' = "rejections"
           /\ UNCHANGED <<tickVars, idle, result>>
        \/ due /\ Throws /\ Fail
        \/ ~due /\ Skip /\ pc' = "rejections" /\ UNCHANGED <<tickVars, idle, result>>

(* Phase 2e, dispatch_rejections, then the checkpoint that runs what the   *)
(* ops and timers of this tick have resolved.                              *)
DispatchRejections ==
  /\ pc = "rejections"
  /\ \/ /\ work.rejections /\ ~work.exception
        /\ Run([work EXCEPT !.rejections = FALSE])
        /\ pc' = "io" /\ UNCHANGED <<tickVars, idle, result>>
     \/ work.rejections /\ Throws /\ Fail
     \/ /\ ~work.rejections /\ (did_work \/ dispatched_ops)
        /\ Run(work) /\ pc' = "io" /\ UNCHANGED <<tickVars, idle, result>>
     \/ /\ ~work.rejections /\ ~did_work /\ ~dispatched_ops
        /\ Skip /\ pc' = "io" /\ UNCHANGED <<tickVars, idle, result>>

(* Phase 3, run_io: callbacks, then a drain, repeated while there is I/O   *)
(* (8 times at most, more than the budget can ask for).                    *)
IO ==
  /\ pc = "io"
  /\ \/ /\ work.source["uv"] = "ready" /\ ~work.exception
        /\ uv_did_io' = TRUE
        /\ \E w \in Script(Taken(work, "uv")) :
             /\ ~w.exception
             /\ work' \in Script(Drained(w)) /\ woken' = (woken \/ ScriptWakes(work, work'))
        /\ UNCHANGED <<pc, did_work, dispatched_ops, idle, result>>
     \/ (* the callback reports an exception: the drain fails *)
        work.source["uv"] = "ready" /\ Throws /\ Fail
     \/ /\ work.source["uv"] # "ready" /\ Skip /\ pc' = "check"
        /\ UNCHANGED <<tickVars, idle, result>>

(* Phases 4 and 5: idle, prepare and check handles. *)
Check ==
  /\ pc = "check" /\ pc' = "close"
  /\ RunAmong(work, UvScript(work))
  /\ UNCHANGED <<tickVars, idle, result>>

(* Phase 6: check_exception_condition, then the close callbacks. *)
check_exception_condition == work.exception

Close ==
  /\ pc = "close"
  /\ \/ check_exception_condition /\ Fail
     \/ /\ ~check_exception_condition
        /\ RunAmong(work, {w \in UvScript(work) : w.exception = work.exception} \cup Thrown(work, "close_throw"))
        /\ pc' = "decide" /\ UNCHANGED <<tickVars, idle, result>>

(***************************************************************************)
(* The decision.  pending_state is read once; immediates may run after it. *)
(***************************************************************************)
Finish ==
  /\ pc = "decide" /\ ~IsPending(work)
  /\ IF work.inspector THEN pc' = "parked" /\ UNCHANGED result
     ELSE pc' = "returned" /\ result' = "ok"
  /\ UNCHANGED <<woken, work, tickVars, idle>>

RunLateImmediates(p) == ~did_work /\ ~dispatched_ops /\ p.immediates > 0

(* The loop wakes itself, on the pending state p. *)
ReWake(p) ==
  \/ Busy(p, "background") \/ p.tick \/ p.immediates > 0 \/ p.rejections \/ uv_did_io
  \/ (p.main = "pending" \/ HasPendingDynEval(p)) /\ dispatched_ops

MainStalled(p) ==
  p.main = "pending" /\ ~MayStillProgress(p) /\ ~HasPendingDynEval(p)

modules_idle == idle > 1

DynIdle(p) == HasPendingDynEval(p) /\ ~MayStillProgress(p)

(* find_and_report_stalled_level_await_in_any_realm: the message of a      *)
(* module that still waits, and unreachable! if there is none.             *)
StallReport(p) == IF p.main = "pending" \/ p.dyn = "pending" THEN "stalled" ELSE "panic"

Conclude ==
  /\ pc = "decide" /\ IsPending(work)
  /\ RunLateImmediates(work) => ~work.exception
  /\ LET p == work
         stalled == MainStalled(p) \/ (DynIdle(p) /\ modules_idle)
     IN /\ work' \in IF RunLateImmediates(p) THEN Script(ImmediatesRun(p)) ELSE {p}
        /\ woken' = (woken \/ ReWake(p) \/ (DynIdle(p) /\ ~modules_idle) \/ ScriptWakes(p, work'))
        /\ idle' = IF DynIdle(p) /\ ~stalled THEN idle + 1 ELSE idle
        /\ pc' = IF stalled THEN "returned" ELSE "parked"
        /\ result' = IF stalled THEN StallReport(p) ELSE result
  /\ UNCHANGED tickVars

LateImmediatesFail ==
  /\ pc = "decide" /\ IsPending(work) /\ RunLateImmediates(work) /\ Throws
  /\ Fail

(***************************************************************************)
(* The world outside the thread.                                           *)
(***************************************************************************)
(* A future resolves, a deadline passes, a load ends, data arrives. *)
BecomesReady(s) ==
  /\ pc # "returned" /\ work.source[s] = "pending" /\ s # "external"
  /\ work' = [work EXCEPT !.source[s] = "ready"] /\ woken' = TRUE
  /\ UNCHANGED <<pc, tickVars, idle, result>>

(* ExternalOpsTracker::unref_op; the embedder wakes the task itself. *)
ExternalDone ==
  /\ pc # "returned" /\ Busy(work, "external")
  /\ work' = Taken(work, "external") /\ woken' = TRUE
  /\ UNCHANGED <<pc, tickVars, idle, result>>

CrossThreadSpawn ==
  /\ pc # "returned" /\ "cross_thread" \in features
  /\ work.budget > 0 /\ ~Busy(work, "task")
  /\ work' = [Spend(work) EXCEPT !.source["task"] = "ready"] /\ woken' = TRUE
  /\ UNCHANGED <<pc, tickVars, idle, result>>

Tick ==
  \/ Poll \/ Timers \/ EvaluateImport \/ ImportFails \/ SettleImport \/ Modules
  \/ Tasks \/ Ops \/ Drain \/ Immediates \/ DispatchRejections \/ IO \/ Check \/ Close
  \/ Finish \/ Conclude \/ LateImmediatesFail

Done == pc = "returned" /\ UNCHANGED vars

(* A session is never taken off the list that sessions_state counts, so    *)
(* the loop stays pending for ever, with nothing to do.                    *)
WaitForInspector == pc = "parked" /\ ~woken /\ work.inspector /\ UNCHANGED vars

Next ==
  /\ \/ Tick
     \/ \E s \in Sources : BecomesReady(s)
     \/ ExternalDone \/ CrossThreadSpawn
     \/ Done \/ WaitForInspector
  /\ UNCHANGED features

Spec == Init /\ [][Next]_vars

(* The executor polls a woken task and the tick runs on; every future and  *)
(* every deadline comes at some time.                                      *)
FairSpec ==
  /\ Spec
  /\ WF_vars(Tick /\ UNCHANGED features)
  /\ WF_vars(ExternalDone /\ UNCHANGED features)
  /\ \A s \in Sources : WF_vars(BecomesReady(s) /\ UNCHANGED features)

(***************************************************************************)
(* Properties.                                                             *)
(***************************************************************************)
(* The loop is in a phase of the tick, or parked, or has returned. *)
TypeOK ==
  /\ pc \in {"parked", "timers", "modules", "tasks", "ops", "drain", "immediates",
             "rejections", "io", "check", "close", "decide", "returned"}
  /\ woken \in BOOLEAN /\ work \in WorkType
  /\ did_work \in BOOLEAN /\ dispatched_ops \in BOOLEAN /\ uv_did_io \in BOOLEAN
  /\ idle \in Nat /\ result \in {"none", "ok", "error", "stalled", "panic"}

(* run_event_loop resolves with Ok only when nothing that keeps it alive   *)
(* is left: what is left over is unref'd, and no module is half evaluated. *)
(* It must hold although rejections, ticks and handles of the last phases  *)
(* are created after the phases that would have run them.  Nor does an Ok  *)
(* swallow an exception that was dispatched, whichever phase did so before *)
(* check_exception_condition.  (The close callbacks run after it: with the *)
(* feature "close_throw" this part fails.)                                 *)
OkMeansNothingLeft ==
  result = "ok" =>
    /\ \A s \in Sources : Busy(work, s) => s \in work.unrefed
    /\ ~work.tick /\ work.immediates = 0 /\ ~work.rejections
    /\ work.main # "pending" /\ work.dyn = "none"
    /\ ~work.exception

(* "Top-level await promise never resolved" is reported only if a module   *)
(* still waits, nothing is left that could settle its promise, and no      *)
(* settled evaluation has gone unnoticed.  The decision uses a copy of the *)
(* state that the immediates may have outdated, and a counter that several *)
(* ticks share.  (A rejection that waits for delivery does not count.)     *)
StalledMeansNeverResolved ==
  result = "stalled" =>
    /\ work.main = "pending" \/ work.dyn = "pending"
    /\ work.dyn \notin {"fulfilled", "rejected"}
    /\ \A s \in Sources : ~Busy(work, s)
    /\ ~work.tick /\ work.immediates = 0

(* A stall is reported only if it is one: a module still waits, nothing is *)
(* left that could settle its promise, and no evaluation that has settled  *)
(* goes unnoticed.  An op may settle an evaluation in any tick after the   *)
(* phase that looks, and such a tick looks idle: the loop must not take it *)
(* for a stall, whatever idle ticks the counter has seen before.  Holds as *)
(* long as nothing else runs scripts (no uv loop, no spawning thread, no   *)
(* rejection handlers) and at most one import has rejected: the counter is *)
(* reset only by one that resolves, see ExpectedStalledAwait.              *)
OpsOnly == features \cap {"uv", "cross_thread", "rejections"} = {}

StallIsTrue ==
  OpsOnly /\ MaxReject <= 1 /\ result \in {"stalled", "panic"} =>
    /\ (work.main = "pending" /\ work.dyn = "none") \/ work.dyn = "pending"
    /\ \A s \in Sources : ~Busy(work, s)
    /\ ~work.tick /\ work.immediates = 0

(* unreachable!("Expected at least one stalled top-level await"): where a  *)
(* stall is found, some module has a message for it.  Fails: two imports   *)
(* that reject leave the counter at 2, and a third whose evaluation an op  *)
(* settles is taken for stalled in that tick.                              *)
ExpectedStalledAwait == result # "panic"

(* A parked loop that nobody has woken waits for something outside: it is  *)
(* never left alone with work it should do, or with nothing to wait for.   *)
ParkedIsWaiting ==
  (pc = "parked" /\ ~woken) =>
    /\ ~work.tick /\ work.immediates = 0 /\ ~work.rejections /\ ~work.exception
    /\ work.dyn \notin {"fulfilled", "rejected"}
    /\ \A s \in Sources : work.source[s] # "ready"
    /\ (\E s \in Sources : work.source[s] = "pending") \/ work.inspector

(* When the loop ends or goes to sleep it has overlooked nothing. *)
NothingOverlooked == TypeOK /\ OkMeansNothingLeft /\ ParkedIsWaiting

(* With a finite amount of work run_event_loop always ends, unless it is   *)
(* to wait for an inspector session.                                       *)
Returns == ("inspector" \in features) \/ <>(pc = "returned")

=============================================================================
