----------------------------- MODULE DynImport -----------------------------
(***************************************************************************)
(* Dynamic imports in ModuleMap: from import() (load_dynamic_import)       *)
(* through preparation, loading, instantiation and evaluation to the       *)
(* promise the script holds, with ModuleMap::poll_progress step by step.   *)
(*                                                                         *)
(* Everything runs on one thread, but not atomically: resolving a promise  *)
(* or evaluating a module runs JavaScript in the middle of poll_progress,  *)
(* and that JavaScript calls import() again.  The flag `js` is TRUE while  *)
(* such a window is open.                                                  *)
(*                                                                         *)
(* The isolate is never terminated: a module.evaluate() cut short by       *)
(* terminate_execution() makes poll_progress fail (map.rs:1656) and leaves *)
(* its import without an answer.                                           *)
(***************************************************************************)
EXTENDS Naturals, Sequences, FiniteSets

CONSTANTS
  Modules,        \* module specifiers
  MaxImports,     \* bound: calls of import()
  AutoMicrotasks  \* V8 runs microtasks when module.evaluate() returns

ASSUME ImportAssumption == MaxImports \in Nat /\ AutoMicrotasks \in BOOLEAN

Ids == 1 .. MaxImports
None == "none"

VARIABLES
  calls,          \* import() calls so far: the next ModuleLoadId
  target,         \* the module an import names
  source_phase,   \* imports of the source phase
  promise,        \* what the script sees: "none", "pending", "resolved", "rejected"
  status,         \* V8's view of a module, see StatusType
  dynamic_import_map,
  preparing,      \* preparing_dynamic_imports
  preparing_flag, \* preparing_dynamic_imports_pending
  loading,        \* pending_dynamic_imports
  loading_flag,   \* pending_dynamic_imports_pending
  pending,        \* pending_dyn_mod_evaluations
  pending_flag,   \* pending_dyn_mod_evaluations_pending
  waiters,        \* pending_tla_waiters
  pc,             \* "outside" poll_progress, or the step of it under way
  js,             \* JavaScript runs inside that step
  batch,          \* evaluate_dyn_imports: taken, not looked at yet
  still_pending,
  resolved_any,
  has_evaluated,
  current,        \* the load being evaluated
  woken,          \* the event loop will poll again
  early           \* history: imports resolved before their module was done

importVars == <<calls, target, source_phase>>
loadVars == <<preparing, preparing_flag, loading, loading_flag>>
evalVars == <<pending, pending_flag, batch, still_pending, resolved_any, has_evaluated>>
vars == <<importVars, promise, status, dynamic_import_map, loadVars, evalVars,
          waiters, pc, js, current, woken, early>>

(* "awaiting" is a module whose body ran up to a top-level await; V8 calls *)
(* it Evaluated as it does one that has ended.                             *)
StatusType == {"new", "awaiting", "evaluated", "errored"}
BodyRuns(m) == pc = "evaluated" /\ target[current] = m /\ ~AutoMicrotasks
V8Evaluated(m) == status[m] \in {"awaiting", "evaluated"} /\ ~BodyRuns(m)

Members(s) == {s[i] : i \in DOMAIN s}

(* Faulty variants of definitions below. *)
TakenListLost == <<>>
PreparingFlagCleared == FALSE

Init ==
  /\ calls = 0 /\ target = [i \in Ids |-> None] /\ source_phase = {}
  /\ promise = [i \in Ids |-> "none"] /\ status = [m \in Modules |-> "new"]
  /\ dynamic_import_map = {} /\ preparing = {} /\ preparing_flag = FALSE
  /\ loading = {} /\ loading_flag = FALSE /\ pending = <<>> /\ pending_flag = FALSE
  /\ waiters = [m \in Modules |-> {}] /\ pc = "outside" /\ js = FALSE
  /\ batch = <<>> /\ still_pending = <<>> /\ resolved_any = FALSE /\ has_evaluated = FALSE
  /\ current = 0 /\ woken = TRUE /\ early = {}

(***************************************************************************)
(* JavaScript.                                                             *)
(***************************************************************************)
ScriptMayRun == pc = "outside" \/ js

Call(m) ==
  /\ ScriptMayRun /\ calls < MaxImports
  /\ calls' = calls + 1 /\ target' = [target EXCEPT ![calls + 1] = m]

(* The module has an evaluation under way that was started by import(). *)
HasPendingTla(m) == \E id \in Members(pending) : target[id] = m

(* Queued until the module's top-level await completes. *)
ImportWaits(m) ==
  /\ V8Evaluated(m) /\ HasPendingTla(m) /\ Call(m)
  /\ waiters' = [waiters EXCEPT ![m] = @ \cup {calls + 1}]
  /\ promise' = [promise EXCEPT ![calls + 1] = "pending"]
  /\ UNCHANGED <<source_phase, status, dynamic_import_map, loadVars, evalVars, pc, js,
                 current, woken, early>>

(* "No pending TLA, safe to resolve immediately". *)
ImportAtOnce(m) ==
  /\ V8Evaluated(m) /\ ~HasPendingTla(m) /\ Call(m)
  /\ promise' = [promise EXCEPT ![calls + 1] = "resolved"]
  /\ early' = IF status[m] = "evaluated" THEN early ELSE early \cup {calls + 1}
  /\ UNCHANGED <<source_phase, status, dynamic_import_map, loadVars, evalVars, waiters,
                 pc, js, current, woken>>

(* A new load; notify_new_dynamic_import wakes the event loop.  Only the   *)
(* evaluation phase looks for a module that is there; from here on the     *)
(* deferred phase is treated like it.                                      *)
ImportLoads(m, phase) ==
  /\ phase # "evaluation" \/ ~V8Evaluated(m)
  /\ Call(m)
  /\ source_phase' = IF phase = "source" THEN source_phase \cup {calls + 1} ELSE source_phase
  /\ promise' = [promise EXCEPT ![calls + 1] = "pending"]
  /\ dynamic_import_map' = dynamic_import_map \cup {calls + 1}
  /\ preparing' = preparing \cup {calls + 1} /\ preparing_flag' = TRUE /\ woken' = TRUE
  /\ UNCHANGED <<status, loading, loading_flag, evalVars, waiters, pc, js, current, early>>

(* A top-level await completes; the handlers on the module's promise wake. *)
TlaSettles(m, outcome) ==
  /\ ScriptMayRun /\ status[m] = "awaiting"
  /\ status' = [status EXCEPT ![m] = outcome] /\ woken' = TRUE
  /\ UNCHANGED <<importVars, promise, dynamic_import_map, loadVars, evalVars, waiters,
                 pc, js, current, early>>

(* The microtask queue is empty: back to Rust. *)
ScriptEnds ==
  /\ js /\ js' = FALSE
  /\ UNCHANGED <<importVars, promise, status, dynamic_import_map, loadVars, evalVars,
                 waiters, pc, current, woken, early>>

(***************************************************************************)
(* poll_progress.                                                          *)
(***************************************************************************)
PollProgress ==
  /\ pc = "outside" /\ woken
  /\ pc' = "prepare" /\ woken' = FALSE /\ has_evaluated' = FALSE
  /\ UNCHANGED <<importVars, promise, status, dynamic_import_map, loadVars, pending,
                 pending_flag, batch, still_pending, resolved_any, waiters, js, current, early>>

(* dynamic_import_reject: the map entry goes, the promise rejects, scripts run. *)
Reject(id) ==
  /\ dynamic_import_map' = dynamic_import_map \ {id}
  /\ promise' = [promise EXCEPT ![id] = "rejected"]
  /\ js' = TRUE

(* poll_prepare_dyn_imports: load.prepare() has ended. *)
Prepared(id) ==
  /\ pc = "prepare" /\ ~js /\ preparing_flag /\ id \in preparing
  /\ preparing' = preparing \ {id} /\ loading' = loading \cup {id} /\ loading_flag' = TRUE
  /\ UNCHANGED <<importVars, promise, status, dynamic_import_map, preparing_flag, evalVars,
                 waiters, pc, js, current, woken, early>>

PrepareFails(id) ==
  /\ pc = "prepare" /\ ~js /\ preparing_flag /\ id \in preparing
  /\ preparing' = preparing \ {id} /\ Reject(id)
  /\ UNCHANGED <<importVars, status, preparing_flag, loading, loading_flag, evalVars,
                 waiters, pc, current, woken, early>>

PreparingFlagNow == preparing # {}

(* None is ready any more: the futures left will wake the task. *)
PrepareEnds ==
  /\ pc = "prepare" /\ ~js /\ pc' = "load"
  /\ preparing_flag' = IF preparing_flag THEN PreparingFlagNow ELSE FALSE
  /\ UNCHANGED <<importVars, promise, status, dynamic_import_map, preparing, loading,
                 loading_flag, evalVars, waiters, js, current, woken, early>>

(* poll_dyn_imports: a fetch or a registration fails. *)
LoadFails(id) ==
  /\ pc = "load" /\ ~js /\ loading_flag /\ id \in loading
  /\ loading' = loading \ {id} /\ Reject(id)
  /\ UNCHANGED <<importVars, status, preparing, preparing_flag, loading_flag, evalVars,
                 waiters, pc, current, woken, early>>

(* The source phase resolves without evaluation, and keeps its map entry. *)
SourceLoaded(id) ==
  /\ pc = "load" /\ ~js /\ loading_flag /\ id \in loading \cap source_phase
  /\ loading' = loading \ {id} /\ promise' = [promise EXCEPT ![id] = "resolved"]
  /\ js' = TRUE
  /\ UNCHANGED <<importVars, status, dynamic_import_map, preparing, preparing_flag,
                 loading_flag, evalVars, waiters, pc, current, woken, early>>

(* dynamic_import_module_evaluate goes on only if the module is linked. *)
MayEvaluate(m, linked) == linked /\ status[m] # "errored"

(* instantiate_module fails: always for an errored module, or because the  *)
(* graph does not link.  The import is rejected, and                       *)
(* dynamic_import_module_evaluate is called all the same.                  *)
InstantiateFails(id) ==
  /\ pc = "load" /\ ~js /\ loading_flag /\ id \in loading \ source_phase
  /\ status[target[id]] \in {"new", "errored"}
  /\ loading' = loading \ {id} /\ Reject(id)
  /\ IF MayEvaluate(target[id], FALSE)
     THEN pending' = Append(pending, id) /\ pending_flag' = TRUE
     ELSE UNCHANGED <<pending, pending_flag>>
  /\ UNCHANGED <<importVars, status, preparing, preparing_flag, loading_flag, batch,
                 still_pending, resolved_any, has_evaluated, waiters, pc, current, woken, early>>

(* The graph is loaded and instantiated: module.evaluate(), which runs the *)
(* body of a new module and then the microtasks.                           *)
Evaluate(id) ==
  /\ pc = "load" /\ ~js /\ loading_flag /\ id \in loading \ source_phase
  /\ MayEvaluate(target[id], TRUE)
  /\ loading' = loading \ {id} /\ current' = id /\ pc' = "evaluated"
  /\ js' = (status[target[id]] = "new" \/ AutoMicrotasks)
  /\ IF status[target[id]] = "new"
     THEN \E s \in {"awaiting", "evaluated", "errored"} :
            status' = [status EXCEPT ![target[id]] = s]
     ELSE UNCHANGED status
  /\ UNCHANGED <<importVars, promise, dynamic_import_map, preparing, preparing_flag,
                 loading_flag, evalVars, waiters, woken, early>>

(* ... and its promise is put on the list. *)
PushEvaluation ==
  /\ pc = "evaluated" /\ ~js
  /\ pending' = Append(pending, current) /\ pending_flag' = TRUE
  /\ pc' = "load" /\ current' = 0
  /\ woken' = (woken \/ status[target[current]] # "awaiting")
  /\ UNCHANGED <<importVars, promise, status, dynamic_import_map, loadVars, batch,
                 still_pending, resolved_any, has_evaluated, waiters, js, early>>

(* No load is ready; evaluate_dyn_imports takes the list, if it has any. *)
LoadEnds ==
  /\ pc = "load" /\ ~js
  /\ loading_flag' = (loading_flag /\ loading # {})
  /\ resolved_any' = FALSE /\ still_pending' = <<>>
  /\ pc' = "evaluate"
  /\ IF pending_flag THEN batch' = pending /\ pending' = <<>>
     ELSE batch' = <<>> /\ UNCHANGED pending
  /\ UNCHANGED <<importVars, promise, status, dynamic_import_map, preparing, preparing_flag,
                 loading, pending_flag, has_evaluated, waiters, js, current, woken, early>>

StillPending ==
  /\ pc = "evaluate" /\ ~js /\ batch # <<>> /\ status[target[Head(batch)]] = "awaiting"
  /\ still_pending' = Append(still_pending, Head(batch)) /\ batch' = Tail(batch)
  /\ UNCHANGED <<importVars, promise, status, dynamic_import_map, loadVars, pending,
                 pending_flag, resolved_any, has_evaluated, waiters, pc, js, current, woken, early>>

(* What resolve_tla_waiters and reject_tla_waiters make of the promises. *)
SettleWaiters(m, r) == [i \in Ids |-> IF i \in waiters[m] THEN r ELSE promise[i]]

(* dynamic_import_resolve and resolve_tla_waiters, or the two that reject. *)
(* The microtasks between the two calls see the module as it is after.     *)
SettleOne ==
  /\ pc = "evaluate" /\ ~js /\ batch # <<>>
  /\ LET id == Head(batch)
         m == target[id]
         r == IF status[m] = "evaluated" THEN "resolved" ELSE "rejected"
     IN /\ status[m] # "awaiting"
        /\ dynamic_import_map' = dynamic_import_map \ {id}
        /\ promise' = [SettleWaiters(m, r) EXCEPT ![id] = r]
        /\ waiters' = [waiters EXCEPT ![m] = {}]
  /\ batch' = Tail(batch) /\ resolved_any' = TRUE /\ js' = TRUE
  /\ UNCHANGED <<importVars, status, loadVars, pending, pending_flag, still_pending,
                 has_evaluated, pc, current, woken, early>>

PutBack == still_pending

(* The list is put back; the loops of poll_progress go on after progress. *)
EvaluateEnds ==
  /\ pc = "evaluate" /\ ~js /\ batch = <<>>
  /\ IF pending_flag THEN pending' = PutBack /\ pending_flag' = (PutBack # <<>>)
     ELSE UNCHANGED <<pending, pending_flag>>
  /\ pc' = IF resolved_any \/ has_evaluated THEN "prepare" ELSE "outside"
  /\ has_evaluated' = resolved_any
  /\ still_pending' = <<>>
  /\ UNCHANGED <<importVars, promise, status, dynamic_import_map, loadVars, batch,
                 resolved_any, waiters, js, current, woken, early>>

(* A load future that was not ready wakes the task when it is. *)
FutureWakes ==
  /\ pc = "outside" /\ preparing \cup loading # {} /\ ~woken /\ woken' = TRUE
  /\ UNCHANGED <<importVars, promise, status, dynamic_import_map, loadVars, evalVars,
                 waiters, pc, js, current, early>>

Poll ==
  \/ PollProgress \/ PrepareEnds \/ PushEvaluation \/ LoadEnds \/ StillPending
  \/ SettleOne \/ EvaluateEnds \/ ScriptEnds
  \/ \E id \in Ids : \/ Prepared(id) \/ PrepareFails(id) \/ LoadFails(id)
                     \/ SourceLoaded(id) \/ InstantiateFails(id) \/ Evaluate(id)

JavaScript ==
  \E m \in Modules :
    \/ ImportWaits(m) \/ ImportAtOnce(m)
    \/ \E phase \in {"evaluation", "defer", "source"} : ImportLoads(m, phase)
    \/ \E outcome \in {"evaluated", "errored"} : TlaSettles(m, outcome)

(* Every import has been made and has its answer. *)
Quiet == calls = MaxImports /\ \A id \in Ids : promise[id] # "pending"

Next ==
  \/ Poll \/ JavaScript \/ FutureWakes
  \/ Quiet /\ UNCHANGED vars

Spec == Init /\ [][Next]_vars

Completion ==
  \/ \E id \in Ids :
       \/ Prepared(id) \/ PrepareFails(id)
       \/ LoadFails(id) \/ SourceLoaded(id) \/ InstantiateFails(id) \/ Evaluate(id)
  \/ \E m \in Modules, outcome \in {"evaluated", "errored"} : TlaSettles(m, outcome)

(* The event loop polls when woken; the loader's futures end, and so does  *)
(* every top-level await (each import and module completes once, so strong *)
(* fairness of the completions together gives every one of them).          *)
FairSpec ==
  /\ Spec /\ WF_vars(Poll) /\ WF_vars(FutureWakes)
  /\ SF_vars(Completion)

(***************************************************************************)
(* Properties.                                                             *)
(***************************************************************************)
Evaluating == Members(pending) \cup Members(batch) \cup Members(still_pending)
UnderWay == preparing \cup loading \cup Evaluating \cup ({current} \ {0})

(* The fields of the module map hold what they should. *)
TypeOK ==
  /\ calls \in 0 .. MaxImports /\ target \in [Ids -> Modules \cup {None}]
  /\ promise \in [Ids -> {"none", "pending", "resolved", "rejected"}]
  /\ status \in [Modules -> StatusType]
  /\ source_phase \in SUBSET Ids /\ dynamic_import_map \in SUBSET Ids
  /\ preparing \in SUBSET Ids /\ loading \in SUBSET Ids /\ early \in SUBSET Ids
  /\ Evaluating \subseteq Ids /\ waiters \in [Modules -> SUBSET Ids]
  /\ {preparing_flag, loading_flag, pending_flag, js, resolved_any, has_evaluated, woken}
       \subseteq BOOLEAN
  /\ pc \in {"outside", "prepare", "load", "evaluated", "evaluate"}
  /\ current \in 0 .. MaxImports

(* A load that is under way still has its entry in dynamic_import_map and  *)
(* its promise is unsettled, whatever scripts did in between: the          *)
(* expect("Invalid dynamic import id") of resolve and reject cannot fail   *)
(* and no import is answered twice.                                        *)
UnderWayIsUnsettled ==
  \A id \in UnderWay : id \in dynamic_import_map /\ promise[id] = "pending"

(* No import is forgotten: one that has no answer yet is still being       *)
(* prepared, loaded or evaluated, or waits for a module that is.           *)
NoImportForgotten ==
  \A id \in Ids : promise[id] = "pending" =>
    id \in UnderWay \/ id \in waiters[target[id]]

(* Imports that wait for a top-level await wait for an evaluation that is  *)
(* on the list: only its end answers them.                                 *)
WaitersAreServed ==
  \A m \in Modules : waiters[m] # {} => \E id \in Evaluating : target[id] = m

(* The flags that has_pending_dynamic_imports and                          *)
(* has_pending_dyn_module_evaluation read never miss an import: the event  *)
(* loop would end under it.                                                *)
FlagsCoverImports ==
  /\ preparing # {} => preparing_flag
  /\ loading # {} => loading_flag
  /\ Evaluating # {} => pending_flag

(* Whatever scripts import, and modules do, between the steps of           *)
(* poll_progress, the lists, flags and promises tell the same story.       *)
ImportsConsistent ==
  /\ TypeOK /\ UnderWayIsUnsettled /\ NoImportForgotten
  /\ WaitersAreServed /\ FlagsCoverImports

(* An import of a module resolves only when its evaluation has ended: the  *)
(* script never sees a namespace with uninitialised bindings.              *)
ResolvedAfterEvaluation == early = {}

(* Every import() is answered: scripts make finitely many, so after some   *)
(* of them are open a time comes when none is.                             *)
ImportsSettle ==
  (\E id \in Ids : promise[id] = "pending") ~> \A id \in Ids : promise[id] # "pending"

=============================================================================
