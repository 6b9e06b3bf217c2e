----------------------------- MODULE Loop_proofs -----------------------------
(***************************************************************************)
(* Proofs about the event loop and about what it polls: EventLoop first,   *)
(* then Rejections, UvTcp and UvLoop.                                      *)
(*                                                                         *)
(* EventLoop, for any amount of work and any environments in which no      *)
(* close callback throws.  What the invariant needs beyond the properties: *)
(* in a tick during which nobody wakes the task, a source whose phase is   *)
(* over is not ready, and at the decision no exception is left.            *)
(***************************************************************************)
EXTENDS EventLoop, Rejections, UvTcp, UvLoop, TLAPS, NaturalsInduction, WellFoundedInduction,
        FiniteSetTheorems

(* The phases after the one that serves a source. *)
AfterIO == {"check", "close", "decide"}
AfterOps == {"drain", "immediates", "rejections", "io"} \cup AfterIO
AfterTasks == {"ops"} \cup AfterOps
AfterModules == {"tasks"} \cup AfterTasks
AfterTimers == {"modules"} \cup AfterModules
AfterPoll == {"timers"} \cup AfterTimers

LoopTypes ==
  /\ features \in FeatureSets
  /\ pc \in {"parked", "returned"} \cup AfterPoll
  /\ work \in WorkType /\ idle \in Nat /\ result \in {"none", "ok", "error", "stalled", "panic"}

LoopFlags ==
  woken \in BOOLEAN /\ did_work \in BOOLEAN /\ dispatched_ops \in BOOLEAN /\ uv_did_io \in BOOLEAN

(* What came before the phase p is done. *)
ServedAt(source, dyn, p) ==
  /\ p \in AfterPoll => source["background"] # "ready"
  /\ p \in AfterTimers => source["timer"] # "ready"
  /\ p \in AfterModules => source["import"] # "ready" /\ dyn \notin {"fulfilled", "rejected"}
  /\ p \in AfterTasks => source["task"] # "ready"
  /\ p \in AfterOps => source["op"] # "ready"
  /\ p \in AfterIO => source["uv"] # "ready"

Served == woken \/ ServedAt(work.source, work.dyn, pc)

LoopIInv ==
  /\ LoopTypes /\ LoopFlags /\ Served
  /\ result = "none" <=> pc # "returned"
  /\ work.source["external"] # "ready"
  /\ "uv" \notin features => work.source["uv"] = "none"
  /\ pc = "decide" => ~work.exception
  /\ OkMeansNothingLeft /\ ParkedIsWaiting

----------------------------------------------------------------------------
(* What a phase can do to the work, apart from taking its own source: only *)
(* a task is ready as soon as it exists.                                   *)
Grows(w, v) ==
  /\ v \in WorkType /\ v.inspector = w.inspector
  /\ \A s \in Sources : \/ v.source[s] = w.source[s]
                        \/ w.source[s] = "none" /\ v.source[s] = "pending"
                        \/ w.source[s] = "none" /\ v.source[s] = "ready" /\ s = "task"
  /\ "uv" \notin features => v.source["uv"] = w.source["uv"]

(* A source changes, and nothing else that the loop looks at. *)
LEMMA SpendType ==
  ASSUME NEW w \in WorkType, w.budget # 0
  PROVE  /\ Spend(w) \in WorkType
         /\ Spend(w).source = w.source /\ Spend(w).inspector = w.inspector
<1>1. w.budget - 1 \in 0 .. Budget
  BY LoopAssumption DEF WorkType
<1> QED BY <1>1 DEF WorkType, Spend

LEMMA StartedGrows ==
  ASSUME NEW w \in WorkType, NEW v \in Started(w) PROVE Grows(w, v)
<1> DEFINE x == Spend(w)
<1>1. w.budget # 0
  BY DEF Started
<1>2. x \in WorkType /\ x.source = w.source /\ x.inspector = w.inspector
  BY <1>1, SpendType
<1> HIDE DEF x
<1>3. CASE \E s \in Startable(w) : v = [x EXCEPT !.source[s] = IF s = "task" THEN "ready" ELSE "pending"]
  <2>1. PICK s \in Startable(w) : v = [x EXCEPT !.source[s] = IF s = "task" THEN "ready" ELSE "pending"]
    BY <1>3
  <2>2. s \in Sources /\ w.source[s] = "none" /\ (s = "uv" => "uv" \in features)
    BY DEF Startable, Busy
  <2> DEFINE new == IF s = "task" THEN "ready" ELSE "pending"
             src == [x.source EXCEPT ![s] = new]
  <2>3. v = [x EXCEPT !.source = src]
    BY <2>1
  <2>4. x.source \in [Sources -> {"none", "pending", "ready"}]
    BY <1>2 DEF WorkType
  <2>5. /\ src \in [Sources -> {"none", "pending", "ready"}] /\ src[s] = new
        /\ \A t \in Sources \ {s} : src[t] = x.source[t]
    <3>1. new \in {"none", "pending", "ready"} /\ s \in Sources
      BY <2>2
    <3> HIDE DEF new
    <3> QED BY <2>4, <3>1
  <2> HIDE DEF src
  <2>6. v \in WorkType /\ v.inspector = x.inspector /\ v.source = src
    BY <1>2, <2>3, <2>5 DEF WorkType
  <2> QED BY <1>2, <2>2, <2>5, <2>6 DEF Grows, Sources
<1>4. CASE v \in {[x EXCEPT !.tick = TRUE], [x EXCEPT !.immediates = 1],
                  [x EXCEPT !.rejections = "rejections" \in features]}
  <2> DEFINE rejects == "rejections" \in features
  <2>1. v \in WorkType /\ v.source = x.source /\ v.inspector = x.inspector
    <3>1. CASE v = [x EXCEPT !.tick = TRUE]
      BY <1>2, <3>1 DEF WorkType
    <3>2. CASE v = [x EXCEPT !.immediates = 1]
      BY <1>2, <3>2 DEF WorkType
    <3>3. CASE v = [x EXCEPT !.rejections = rejects]
      <4>1. rejects \in BOOLEAN
        OBVIOUS
      <4> HIDE DEF rejects
      <4> QED BY <1>2, <3>3, <4>1 DEF WorkType
    <3> QED BY <1>4, <3>1, <3>2, <3>3
  <2> QED BY <1>2, <2>1 DEF Grows
<1> QED BY <1>1, <1>3, <1>4 DEF Started, x

LEMMA SettledGrows ==
  ASSUME NEW w \in WorkType, NEW v \in Settled(w) PROVE Grows(w, v)
<1>1. CASE v = [w EXCEPT !.main = "done"] \/ v = [w EXCEPT !.dyn = "fulfilled"]
  BY <1>1 DEF WorkType, Grows
<1>2. CASE w.reject > 0 /\ v = [[w EXCEPT !.dyn = "rejected"] EXCEPT !.reject = @ - 1]
  <2>1. w.reject - 1 \in 0 .. MaxReject
    BY <1>2, LoopAssumption DEF WorkType
  <2> QED BY <1>2, <2>1 DEF WorkType, Grows
<1> QED BY <1>1, <1>2 DEF Settled

LEMMA ToggledGrows ==
  ASSUME NEW w \in WorkType, NEW v \in Toggled(w) PROVE Grows(w, v)
<1>1. PICK s \in Unrefable : w.budget > 0 /\
        v = [Spend(w) EXCEPT !.unrefed = (w.unrefed \ {s}) \cup ({s} \ w.unrefed)]
  BY DEF Toggled
<1>2. Spend(w) \in WorkType /\ Spend(w).source = w.source /\ Spend(w).inspector = w.inspector
  BY <1>1, SpendType
<1>3. (w.unrefed \ {s}) \cup ({s} \ w.unrefed) \in SUBSET Unrefable
  BY DEF WorkType
<1>4. v \in WorkType /\ v.source = Spend(w).source /\ v.inspector = Spend(w).inspector
  BY <1>1, <1>2, <1>3 DEF WorkType
<1> QED BY <1>2, <1>4 DEF Grows

LEMMA ThrownGrows ==
  ASSUME NEW w \in WorkType, NEW feature, NEW v \in Thrown(w, feature) PROVE Grows(w, v)
BY DEF Thrown, WorkType, Grows

LEMMA SameGrows ==
  ASSUME NEW w \in WorkType PROVE Grows(w, w)
BY DEF Grows

LEMMA ScriptGrows ==
  ASSUME NEW w \in WorkType, NEW v \in Script(w) PROVE Grows(w, v)
BY StartedGrows, SettledGrows, ToggledGrows, ThrownGrows, SameGrows DEF Script

LEMMA TakenType ==
  ASSUME NEW w \in WorkType, NEW s \in Sources
  PROVE  /\ Taken(w, s) \in WorkType /\ Taken(w, s).inspector = w.inspector
         /\ Taken(w, s).source[s] = "none" /\ Taken(w, s).dyn = w.dyn
         /\ \A t \in Sources \ {s} : Taken(w, s).source[t] = w.source[t]
BY DEF Taken, WorkType

LEMMA DrainedType ==
  ASSUME NEW w \in WorkType
  PROVE  Drained(w) \in WorkType /\ Drained(w).inspector = w.inspector /\ Drained(w).source = w.source
BY DEF Drained, WorkType

LEMMA GrowsTwice ==
  ASSUME NEW w \in WorkType, NEW u, NEW v, Grows(w, u), Grows(Drained(u), v) PROVE Grows(w, v)
<1>1. u \in WorkType
  BY DEF Grows
<1> QED BY <1>1, DrainedType DEF Grows

----------------------------------------------------------------------------
(* Scripts that wake nobody leave what was served as it is. *)
LEMMA StillServed ==
  ASSUME NEW base \in WorkType, NEW w \in WorkType, NEW v, Grows(base, v), ~ScriptWakes(w, v),
         Busy(w, "task") => Busy(base, "task"), NEW p, ServedAt(base.source, w.dyn, p)
  PROVE  ServedAt(v.source, v.dyn, p)
<1>1. v.dyn = w.dyn
  BY DEF ScriptWakes, ModuleWakes
<1>2. Busy(v, "task") => Busy(base, "task")
  BY DEF ScriptWakes, ModuleWakes
<1>3. \A s \in Sources : v.source[s] = "ready" => base.source[s] = "ready"
  BY <1>2 DEF Grows, Busy
<1>4. \A s \in {"background", "timer", "import", "task", "op", "uv"} : s \in Sources
  BY DEF Sources
<1> QED BY <1>1, <1>3, <1>4 DEF ServedAt

(* A phase ends, or is repeated, and the tick goes on.  `base` is the work *)
(* with the phase's own source taken, `w` what the wakes are told from.    *)
LEMMA PhaseKeeps ==
  ASSUME LoopIInv, features' = features, pc # "returned", pc' \in AfterPoll, result' = result,
         idle' \in Nat, LoopFlags', NEW base \in WorkType, NEW w \in WorkType, Grows(base, work'),
         \A s \in Sources : base.source[s] \in {work.source[s], "none"},
         ScriptWakes(w, work') => woken', Busy(w, "task") => Busy(base, "task"),
         woken' \/ ServedAt(base.source, w.dyn, pc'),
         pc' = "decide" => ~work'.exception
  PROVE  LoopIInv'
<1>1. LoopTypes'
  BY DEF LoopIInv, LoopTypes, Grows
<1>2. Served'
  BY StillServed DEF Served
<1>3. /\ work'.source["external"] # "ready"
      /\ "uv" \notin features => work'.source["uv"] = "none"
  BY DEF LoopIInv, Grows, Sources
<1>4. result' = "none" /\ pc' \notin {"parked", "returned"}
  BY DEF LoopIInv, AfterPoll, AfterTimers, AfterModules, AfterTasks, AfterOps, AfterIO
<1>5. OkMeansNothingLeft' /\ ParkedIsWaiting'
  BY <1>4 DEF OkMeansNothingLeft, ParkedIsWaiting
<1> QED BY <1>1, <1>2, <1>3, <1>4, <1>5 DEF LoopIInv

(* The same for a phase that finds nothing to do. *)
LEMMA SkipKeeps ==
  ASSUME LoopIInv, features' = features, pc # "returned", pc' \in AfterPoll, result' = result,
         idle' \in Nat, LoopFlags', UNCHANGED work,
         woken' \/ ServedAt(work.source, work.dyn, pc'), pc' = "decide" => ~work'.exception
  PROVE  LoopIInv'
<1>1. work \in WorkType /\ Grows(work, work')
  BY SameGrows DEF LoopIInv, LoopTypes
<1>2. ~ScriptWakes(work, work')
  BY DEF ScriptWakes, ModuleWakes
<1> QED BY <1>1, <1>2, PhaseKeeps

LEMMA FailKeeps ==
  ASSUME LoopIInv, features' = features, Fail PROVE LoopIInv'
<1>1. /\ pc' = "returned" /\ result' = "error"
      /\ work' = [work EXCEPT !.exception = FALSE]
      /\ UNCHANGED <<woken, did_work, dispatched_ops, uv_did_io, idle>>
  BY DEF Fail
<1>2. work' \in WorkType /\ work'.source = work.source
  BY <1>1 DEF LoopIInv, LoopTypes, WorkType
<1>3. LoopTypes' /\ LoopFlags'
  BY <1>1, <1>2 DEF LoopIInv, LoopTypes, LoopFlags
<1>4. Served'
  BY <1>1 DEF Served, ServedAt, AfterPoll, AfterTimers, AfterModules, AfterTasks, AfterOps, AfterIO
<1>5. OkMeansNothingLeft' /\ ParkedIsWaiting'
  BY <1>1 DEF OkMeansNothingLeft, ParkedIsWaiting
<1> QED BY <1>1, <1>2, <1>3, <1>4, <1>5 DEF LoopIInv

(* A source outside the thread changes, and wakes the task. *)
LEMMA OutsideKeeps ==
  ASSUME LoopIInv, features' = features, pc # "returned", work' \in WorkType, woken' = TRUE,
         work'.source["external"] # "ready",
         "uv" \notin features => work'.source["uv"] = "none",
         work'.exception = work.exception,
         UNCHANGED <<pc, did_work, dispatched_ops, uv_did_io, idle, result>>
  PROVE  LoopIInv'
<1>1. LoopTypes' /\ LoopFlags'
  BY DEF LoopIInv, LoopTypes, LoopFlags
<1>2. Served'
  BY DEF Served
<1>3. OkMeansNothingLeft' /\ ParkedIsWaiting'
  BY DEF LoopIInv, OkMeansNothingLeft, ParkedIsWaiting
<1> QED BY <1>1, <1>2, <1>3 DEF LoopIInv

----------------------------------------------------------------------------
(* The phases.                                                             *)
LEMMA PollKeeps ==
  ASSUME LoopIInv, features' = features, Poll PROVE LoopIInv'
<1>1. /\ pc = "parked" /\ pc' = "timers" /\ UNCHANGED <<idle, result>>
      /\ did_work' = FALSE /\ dispatched_ops' = FALSE /\ uv_did_io' = FALSE
  BY DEF Poll
<1>2. work \in WorkType /\ idle \in Nat /\ pc' \in AfterPoll
  BY <1>1 DEF LoopIInv, LoopTypes, AfterPoll
<1>3. ASSUME NEW source, source["background"] # "ready", NEW dyn PROVE ServedAt(source, dyn, pc')
  BY <1>1, <1>3 DEF ServedAt, AfterTimers, AfterModules, AfterTasks, AfterOps, AfterIO
<1>4. CASE work.source["background"] = "ready"
  <2> DEFINE base == Taken(work, "background")
  <2>1. /\ base \in WorkType /\ base.source["background"] = "none"
        /\ \A s \in Sources \ {"background"} : base.source[s] = work.source[s]
    BY <1>2, TakenType DEF Sources
  <2>2. work' \in Script(base) /\ woken' = ScriptWakes(work, work')
    BY <1>4 DEF Poll
  <2> HIDE DEF base
  <2>3. Grows(base, work')
    BY <2>1, <2>2, ScriptGrows
  <2>4. LoopFlags'
    BY <1>1, <2>2 DEF LoopFlags, ScriptWakes, ModuleWakes
  <2>5. Busy(work, "task") => Busy(base, "task")
    BY <2>1 DEF Busy, Sources
  <2>6. ServedAt(base.source, work.dyn, pc')
    BY <1>3, <2>1
  <2> QED BY <1>1, <1>2, <2>1, <2>2, <2>3, <2>4, <2>5, <2>6, PhaseKeeps
<1>5. CASE work.source["background"] # "ready"
  <2>1. work' = work /\ woken' = FALSE
    BY <1>5 DEF Poll
  <2>2. LoopFlags'
    BY <1>1, <2>1 DEF LoopFlags
  <2>3. ServedAt(work.source, work.dyn, pc')
    BY <1>3, <1>5
  <2> QED BY <1>1, <1>2, <2>1, <2>2, <2>3, SkipKeeps
<1> QED BY <1>4, <1>5

LEMMA TimersKeeps ==
  ASSUME LoopIInv, features' = features, Timers PROVE LoopIInv'
<1>1. pc = "timers" /\ pc' = "modules" /\ UNCHANGED <<dispatched_ops, uv_did_io, idle, result>>
  BY DEF Timers
<1>2. work \in WorkType /\ idle \in Nat /\ pc' \in AfterPoll
  BY <1>1 DEF LoopIInv, LoopTypes, AfterPoll, AfterTimers
<1>3. ASSUME NEW source, source["timer"] # "ready", NEW dyn, source["background"] # "ready"
      PROVE  ServedAt(source, dyn, pc')
  BY <1>1, <1>3 DEF ServedAt, AfterModules, AfterTasks, AfterOps, AfterIO
<1>4. woken \/ work.source["background"] # "ready"
  BY <1>1 DEF LoopIInv, Served, ServedAt, AfterPoll
<1>5. CASE work.source["timer"] = "ready"
  <2> DEFINE base == Taken(work, "timer")
  <2>1. /\ base \in WorkType /\ base.source["timer"] = "none"
        /\ \A s \in Sources \ {"timer"} : base.source[s] = work.source[s]
    BY <1>2, TakenType DEF Sources
  <2>2. PICK u \in Script(base) :
          did_work' = TRUE /\ work' \in Script(Drained(u)) /\ woken' = (woken \/ ScriptWakes(work, work'))
    BY <1>5 DEF Timers
  <2> HIDE DEF base
  <2>3. Grows(base, work')
    <3>1. Grows(base, u) /\ u \in WorkType
      BY <2>1, ScriptGrows DEF Grows
    <3>2. Grows(Drained(u), work')
      BY <2>2, <3>1, DrainedType, ScriptGrows
    <3> QED BY <2>1, <3>1, <3>2, GrowsTwice
  <2>4. LoopFlags'
    BY <1>1, <2>2 DEF LoopIInv, LoopFlags, ScriptWakes, ModuleWakes
  <2>5. Busy(work, "task") => Busy(base, "task")
    BY <2>1 DEF Busy, Sources
  <2>6. woken' \/ ServedAt(base.source, work.dyn, pc')
    BY <1>3, <1>4, <2>1, <2>2 DEF Sources
  <2> QED BY <1>1, <1>2, <2>1, <2>2, <2>3, <2>4, <2>5, <2>6, PhaseKeeps
<1>6. CASE work.source["timer"] # "ready"
  <2>1. UNCHANGED <<work, woken, did_work>>
    BY <1>6 DEF Timers, Skip
  <2>2. LoopFlags'
    BY <1>1, <2>1 DEF LoopIInv, LoopFlags
  <2>3. woken' \/ ServedAt(work.source, work.dyn, pc')
    BY <1>3, <1>4, <1>6, <2>1
  <2> QED BY <1>1, <1>2, <2>1, <2>2, <2>3, SkipKeeps
<1> QED BY <1>5, <1>6

(* A phase that runs scripts on the work it has changed to `base`. *)
LEMMA RunKeeps ==
  ASSUME LoopIInv, features' = features, pc # "returned", pc' \in AfterPoll, pc' # "decide",
         result' = result, idle' \in Nat, did_work' \in BOOLEAN, dispatched_ops' \in BOOLEAN,
         uv_did_io' \in BOOLEAN, NEW base \in WorkType, Run(base),
         \A s \in Sources : base.source[s] \in {work.source[s], "none"},
         woken \/ ServedAt(base.source, base.dyn, pc')
  PROVE  LoopIInv'
<1>1. work' \in Script(base) /\ woken' = (woken \/ ScriptWakes(base, work'))
  BY DEF Run, RunAmong
<1>2. Grows(base, work')
  BY <1>1, ScriptGrows
<1>3. LoopFlags'
  BY <1>1 DEF LoopIInv, LoopFlags, ScriptWakes, ModuleWakes
<1>4. ScriptWakes(base, work') => woken'
  BY <1>1
<1>5. woken' \/ ServedAt(base.source, base.dyn, pc')
  BY <1>1
<1> QED BY <1>2, <1>3, <1>4, <1>5, PhaseKeeps

LEMMA ModulesKeeps ==
  ASSUME LoopIInv, features' = features, EvaluateImport \/ ImportFails \/ SettleImport \/ Modules
  PROVE  LoopIInv'
<1>1. pc = "modules" /\ work \in WorkType /\ idle \in Nat
  BY DEF LoopIInv, LoopTypes, EvaluateImport, ImportFails, SettleImport, Modules
<1>2. woken \/ (work.source["background"] # "ready" /\ work.source["timer"] # "ready")
  BY <1>1 DEF LoopIInv, Served, ServedAt, AfterPoll, AfterTimers
<1>3. ASSUME NEW source, NEW dyn, source["background"] # "ready", source["timer"] # "ready"
      PROVE  /\ ServedAt(source, dyn, "modules")
             /\ source["import"] # "ready" /\ dyn \notin {"fulfilled", "rejected"} => ServedAt(source, dyn, "tasks")
  BY <1>3 DEF ServedAt, AfterModules, AfterTasks, AfterOps, AfterIO
<1>4. \A p \in {"modules", "tasks"} : p \in AfterPoll /\ p # "decide" /\ p # "returned"
  BY DEF AfterPoll, AfterTimers, AfterModules
<1>5. did_work \in BOOLEAN /\ dispatched_ops \in BOOLEAN /\ uv_did_io \in BOOLEAN /\ woken \in BOOLEAN
  BY DEF LoopIInv, LoopFlags
<1> DEFINE taken == Taken(work, "import")
<1>6. /\ taken \in WorkType /\ taken.source["import"] = "none"
      /\ \A s \in Sources \ {"import"} : taken.source[s] = work.source[s]
  BY <1>1, TakenType DEF Sources
<1>7. /\ \A s \in Sources : taken.source[s] \in {work.source[s], "none"}
      /\ woken \/ (taken.source["background"] # "ready" /\ taken.source["timer"] # "ready")
  BY <1>2, <1>6 DEF Sources
<1> HIDE DEF taken
<1>8. CASE EvaluateImport
  <2> DEFINE base == [taken EXCEPT !.dyn = "pending"]
  <2>1. base \in WorkType /\ base.source = taken.source
    BY <1>6 DEF WorkType
  <2>2. Run(base) /\ UNCHANGED <<pc, did_work, dispatched_ops, uv_did_io, idle, result>>
    BY <1>8 DEF EvaluateImport, taken
  <2> HIDE DEF base
  <2>3. woken \/ ServedAt(base.source, base.dyn, pc')
    BY <1>1, <1>3, <1>7, <2>1, <2>2
  <2> QED BY <1>1, <1>4, <1>5, <1>7, <2>1, <2>2, <2>3, RunKeeps
<1>9. CASE ImportFails
  <2>1. Run(taken) /\ UNCHANGED <<pc, did_work, dispatched_ops, uv_did_io, idle, result>>
    BY <1>9 DEF ImportFails, taken
  <2>2. woken \/ ServedAt(taken.source, taken.dyn, pc')
    BY <1>1, <1>3, <1>7, <2>1
  <2> QED BY <1>1, <1>4, <1>5, <1>6, <1>7, <2>1, <2>2, RunKeeps
<1> DEFINE none == [work EXCEPT !.dyn = "none"]
<1>10. none \in WorkType /\ none.source = work.source /\ none.dyn = "none" /\ none.inspector = work.inspector
  BY <1>1 DEF WorkType
<1>11. IdleAfterSettling \in Nat
  BY <1>1 DEF IdleAfterSettling
<1>12. CASE SettleImport
  <2>1. Run(none) /\ UNCHANGED <<pc, did_work, dispatched_ops, uv_did_io, result>> /\ idle' \in Nat
    BY <1>11, <1>12 DEF SettleImport
  <2> HIDE DEF none
  <2>2. woken \/ ServedAt(none.source, none.dyn, pc')
    BY <1>1, <1>2, <1>3, <1>10, <2>1
  <2> QED BY <1>1, <1>4, <1>5, <1>10, <2>1, <2>2, RunKeeps
<1>13. CASE Modules
  <2>1. CASE work.source["import"] # "ready" /\ work.dyn \notin {"fulfilled", "rejected"}
             /\ Skip /\ pc' = "tasks" /\ UNCHANGED <<tickVars, idle, result>>
    <3>1. UNCHANGED <<work, woken, did_work, dispatched_ops, uv_did_io, idle, result>> /\ pc' = "tasks"
      BY <2>1 DEF Skip, tickVars
    <3>2. LoopFlags'
      BY <1>5, <3>1 DEF LoopFlags
    <3>3. woken' \/ ServedAt(work.source, work.dyn, pc')
      BY <1>2, <1>3, <2>1, <3>1
    <3> QED BY <1>1, <1>4, <3>1, <3>2, <3>3, SkipKeeps
  <2>2. CASE Fail
    BY <2>2, FailKeeps
  <2>3. CASE /\ work.source["import"] # "ready" /\ idle' = IdleAfterSettling /\ work' = none
             /\ pc' = "tasks" /\ UNCHANGED <<woken, tickVars, result>>
    <3>1. UNCHANGED <<woken, did_work, dispatched_ops, uv_did_io, result>> /\ pc' = "tasks" /\ idle' \in Nat
      BY <1>11, <2>3 DEF tickVars
    <3>2. LoopFlags'
      BY <1>5, <3>1 DEF LoopFlags
    <3>3. Grows(none, work') /\ ~ScriptWakes(none, work')
      BY <1>10, <2>3, SameGrows DEF ScriptWakes, ModuleWakes
    <3> HIDE DEF none
    <3>4. woken' \/ ServedAt(none.source, none.dyn, pc')
      BY <1>2, <1>3, <1>10, <2>3, <3>1
    <3> QED BY <1>1, <1>4, <1>10, <3>1, <3>2, <3>3, <3>4, PhaseKeeps
  <2> QED BY <1>13, <2>1, <2>2, <2>3 DEF Modules
<1> QED BY <1>8, <1>9, <1>12, <1>13

(* What is known to be served when a phase begins, and what its own source *)
(* adds to that.                                                           *)
LEMMA ServedNext ==
  ASSUME NEW source, NEW dyn
  PROVE  /\ ServedAt(source, dyn, "tasks") /\ source["task"] # "ready" => ServedAt(source, dyn, "ops")
         /\ ServedAt(source, dyn, "ops") /\ source["op"] # "ready" => ServedAt(source, dyn, "drain")
         /\ ServedAt(source, dyn, "drain") => ServedAt(source, dyn, "immediates")
         /\ ServedAt(source, dyn, "immediates") => ServedAt(source, dyn, "rejections")
         /\ ServedAt(source, dyn, "rejections") => ServedAt(source, dyn, "io")
         /\ ServedAt(source, dyn, "io") /\ source["uv"] # "ready" => ServedAt(source, dyn, "check")
         /\ ServedAt(source, dyn, "check") => ServedAt(source, dyn, "close")
         /\ ServedAt(source, dyn, "close") => ServedAt(source, dyn, "decide")
BY DEF ServedAt, AfterPoll, AfterTimers, AfterModules, AfterTasks, AfterOps, AfterIO

(* Taking a source off its queue unserves nothing. *)
LEMMA TakenServed ==
  ASSUME NEW w \in WorkType, NEW s \in Sources, NEW p, ServedAt(w.source, w.dyn, p)
  PROVE  ServedAt(Taken(w, s).source, Taken(w, s).dyn, p)
<1>1. \A t \in Sources : Taken(w, s).source[t] \in {w.source[t], "none"}
  BY TakenType
<1>2. Taken(w, s).dyn = w.dyn
  BY TakenType
<1>3. \A t \in {"background", "timer", "import", "task", "op", "uv"} : t \in Sources
  BY DEF Sources
<1> QED BY <1>1, <1>2, <1>3 DEF ServedAt

LEMMA Phases ==
  \A p \in {"tasks", "ops", "drain", "immediates", "rejections", "io", "check", "close", "decide"} :
    p \in AfterPoll /\ p # "returned"
BY DEF AfterPoll, AfterTimers, AfterModules, AfterTasks, AfterOps, AfterIO

LEMMA LoopFacts ==
  ASSUME LoopIInv
  PROVE  /\ work \in WorkType /\ idle \in Nat
         /\ woken \/ ServedAt(work.source, work.dyn, pc)
         /\ did_work \in BOOLEAN /\ dispatched_ops \in BOOLEAN /\ uv_did_io \in BOOLEAN /\ woken \in BOOLEAN
BY DEF LoopIInv, LoopTypes, LoopFlags, Served

LEMMA TasksKeeps ==
  ASSUME LoopIInv, features' = features, Tasks PROVE LoopIInv'
<1>1. pc = "tasks" /\ UNCHANGED <<did_work, uv_did_io, idle, result>>
  BY DEF Tasks
<1>2. CASE work.source["task"] = "ready"
  <2> DEFINE base == Taken(work, "task")
  <2>1. /\ base \in WorkType /\ base.source["task"] = "none" /\ base.dyn = work.dyn
        /\ \A s \in Sources \ {"task"} : base.source[s] = work.source[s]
    BY LoopFacts, TakenType DEF Sources
  <2>2. /\ dispatched_ops' = TRUE /\ pc' \in {"tasks", "ops"} /\ work' \in Script(base)
        /\ woken' = (woken \/ pc' = "ops" \/ ScriptWakes(work, work'))
    BY <1>2 DEF Tasks
  <2>3. Grows(base, work')
    BY <2>1, <2>2, ScriptGrows
  <2>4. LoopFlags'
    <3>1. woken' \in BOOLEAN
      BY <2>2
    <3> QED BY <1>1, <2>2, <3>1, LoopFacts DEF LoopFlags
  <2>5. CASE pc' = "ops"
    <3>1. ScriptWakes(base, work') => woken'
      BY <2>2, <2>5
    <3> QED BY <1>1, <2>1, <2>2, <2>3, <2>4, <2>5, <3>1, Phases, LoopFacts, PhaseKeeps
  <2>6. CASE pc' = "tasks"
    <3>1. woken \/ ServedAt(base.source, base.dyn, "tasks")
      BY <1>1, TakenServed, LoopFacts DEF Sources
    <3>2. ASSUME ~woken' PROVE ServedAt(work'.source, work'.dyn, pc')
      <4>1. ~woken /\ ~ScriptWakes(work, work')
        BY <2>2, <3>2
      <4>2. work'.dyn = base.dyn
        BY <2>1, <4>1 DEF ScriptWakes, ModuleWakes
      <4>3. \A s \in Sources \ {"task"} : work'.source[s] = "ready" => base.source[s] = "ready"
        BY <2>3 DEF Grows
      <4>4. \A s \in {"background", "timer", "import", "op", "uv"} : s \in Sources \ {"task"}
        BY DEF Sources
      <4>5. "tasks" \notin AfterTasks
        BY DEF AfterTasks, AfterOps, AfterIO
      <4> QED BY <2>6, <3>1, <4>1, <4>2, <4>3, <4>4, <4>5 DEF ServedAt
    <3>3. work' \in WorkType
      BY <2>3 DEF Grows
    <3>4. LoopTypes'
      BY <1>1, <2>6, <3>3, Phases DEF LoopIInv, LoopTypes
    <3>5. Served'
      BY <3>2 DEF Served
    <3>6. /\ work'.source["external"] # "ready"
          /\ "uv" \notin features => work'.source["uv"] = "none"
      BY <2>1, <2>3 DEF LoopIInv, Grows, Sources
    <3>7. result' = "none"
      BY <1>1 DEF LoopIInv
    <3>8. OkMeansNothingLeft' /\ ParkedIsWaiting'
      BY <2>6, <3>7 DEF OkMeansNothingLeft, ParkedIsWaiting
    <3> QED BY <2>4, <2>6, <3>4, <3>5, <3>6, <3>7, <3>8 DEF LoopIInv
  <2> QED BY <2>2, <2>5, <2>6
<1>3. CASE work.source["task"] # "ready"
  <2>1. UNCHANGED <<work, woken, dispatched_ops>> /\ pc' = "ops"
    BY <1>3 DEF Tasks, Skip
  <2>2. LoopFlags'
    BY <1>1, <2>1, LoopFacts DEF LoopFlags
  <2>3. woken' \/ ServedAt(work.source, work.dyn, pc')
    BY <1>1, <1>3, <2>1, LoopFacts, ServedNext
  <2> QED BY <1>1, <2>1, <2>2, <2>3, LoopFacts, Phases, SkipKeeps
<1> QED BY <1>2, <1>3

LEMMA OpsKeeps ==
  ASSUME LoopIInv, features' = features, Ops PROVE LoopIInv'
<1>1. pc = "ops" /\ pc' = "drain" /\ UNCHANGED <<did_work, uv_did_io, idle, result>>
  BY DEF Ops
<1>2. CASE work.source["op"] = "ready"
  <2> DEFINE base == Taken(work, "op")
  <2>1. /\ base \in WorkType /\ base.source["op"] = "none"
        /\ \A s \in Sources \ {"op"} : base.source[s] = work.source[s]
    BY LoopFacts, TakenType DEF Sources
  <2>2. Run(base) /\ dispatched_ops' \in BOOLEAN
    BY <1>2, LoopFacts DEF Ops
  <2>3. woken \/ ServedAt(base.source, base.dyn, "ops")
    BY <1>1, TakenServed, LoopFacts DEF Sources
  <2>4. woken \/ ServedAt(base.source, base.dyn, pc')
    BY <1>1, <2>1, <2>3, ServedNext
  <2>5. \A s \in Sources : base.source[s] \in {work.source[s], "none"}
    BY <2>1
  <2> HIDE DEF base
  <2> QED BY <1>1, <2>1, <2>2, <2>4, <2>5, Phases, LoopFacts, RunKeeps
<1>3. CASE work.source["op"] # "ready"
  <2>1. UNCHANGED <<work, woken, dispatched_ops>>
    BY <1>3 DEF Ops, Skip
  <2>2. LoopFlags'
    BY <1>1, <2>1, LoopFacts DEF LoopFlags
  <2>3. woken' \/ ServedAt(work.source, work.dyn, pc')
    BY <1>1, <1>3, <2>1, LoopFacts, ServedNext
  <2> QED BY <1>1, <2>1, <2>2, <2>3, LoopFacts, Phases, SkipKeeps
<1> QED BY <1>2, <1>3

(* The phases from the drain to the rejections: nothing to do, a failure,  *)
(* or scripts on the work with a part of it marked as done.                *)
LEMMA QueueKeeps ==
  ASSUME LoopIInv, features' = features, pc \in {"drain", "immediates", "rejections"},
         pc' = IF pc = "drain" THEN "immediates" ELSE IF pc = "immediates" THEN "rejections" ELSE "io",
         NEW base \in WorkType, base.source = work.source, base.dyn = work.dyn,
         Run(base) \/ RunOrFail(base) \/ UNCHANGED <<work, woken>>, dispatched_ops' \in BOOLEAN,
         UNCHANGED <<did_work, uv_did_io, idle, result>>
  PROVE  LoopIInv'
<1>1. pc # "returned" /\ pc' \in AfterPoll /\ pc' # "decide"
  BY Phases
<1>2. woken \/ ServedAt(work.source, work.dyn, pc')
  BY LoopFacts, ServedNext
<1>3. CASE Run(base) \/ RunOrFail(base)
  <2>1. Run(base)
    BY <1>3 DEF Run, RunOrFail, RunAmong
  <2> QED BY <1>1, <1>2, <2>1, LoopFacts, RunKeeps
<1>4. CASE UNCHANGED <<work, woken>>
  <2>1. LoopFlags'
    BY <1>4, LoopFacts DEF LoopFlags
  <2> QED BY <1>1, <1>2, <1>4, <2>1, LoopFacts, SkipKeeps
<1> QED BY <1>3, <1>4

LEMMA DrainKeeps ==
  ASSUME LoopIInv, features' = features, Drain PROVE LoopIInv'
<1>1. pc = "drain"
  BY DEF Drain
<1>2. Drained(work) \in WorkType /\ Drained(work).source = work.source /\ Drained(work).dyn = work.dyn
  BY LoopFacts DEF Drained, WorkType
<1>3. CASE Fail
  BY <1>3, FailKeeps
<1>4. CASE /\ RunOrFail(Drained(work)) /\ pc' = "immediates" /\ dispatched_ops' = (dispatched_ops \/ work.tick)
           /\ UNCHANGED <<did_work, uv_did_io, idle, result>>
  BY <1>1, <1>2, <1>4, QueueKeeps
<1>5. CASE Skip /\ pc' = "immediates" /\ UNCHANGED <<tickVars, idle, result>>
  BY <1>1, <1>2, <1>5, LoopFacts, QueueKeeps DEF Skip, tickVars
<1> QED BY <1>3, <1>4, <1>5 DEF Drain

LEMMA ImmediatesKeeps ==
  ASSUME LoopIInv, features' = features, Immediates PROVE LoopIInv'
<1> DEFINE base == ImmediatesRun(work)
<1>1. pc = "immediates"
  BY DEF Immediates
<1>2. base \in WorkType /\ base.source = work.source /\ base.dyn = work.dyn
  BY LoopFacts DEF ImmediatesRun, WorkType
<1>3. CASE Fail
  BY <1>3, FailKeeps
<1>4. CASE RunOrFail(base) /\ pc' = "rejections" /\ UNCHANGED <<tickVars, idle, result>>
  BY <1>1, <1>2, <1>4, LoopFacts, QueueKeeps DEF tickVars
<1>5. CASE Skip /\ pc' = "rejections" /\ UNCHANGED <<tickVars, idle, result>>
  BY <1>1, <1>2, <1>5, LoopFacts, QueueKeeps DEF Skip, tickVars
<1> QED BY <1>3, <1>4, <1>5 DEF Immediates

LEMMA RejectionsKeeps ==
  ASSUME LoopIInv, features' = features, DispatchRejections PROVE LoopIInv'
<1> DEFINE base == [work EXCEPT !.rejections = FALSE]
<1>1. pc = "rejections"
  BY DEF DispatchRejections
<1>2. base \in WorkType /\ base.source = work.source /\ base.dyn = work.dyn
  BY LoopFacts DEF WorkType
<1>3. CASE Fail
  BY <1>3, FailKeeps
<1>4. CASE Run(base) /\ pc' = "io" /\ UNCHANGED <<tickVars, idle, result>>
  BY <1>1, <1>2, <1>4, LoopFacts, QueueKeeps DEF tickVars
<1>5. CASE Skip /\ pc' = "io" /\ UNCHANGED <<tickVars, idle, result>>
  BY <1>1, <1>2, <1>5, LoopFacts, QueueKeeps DEF Skip, tickVars
<1>6. CASE Run(work) /\ pc' = "io" /\ UNCHANGED <<tickVars, idle, result>>
  BY <1>1, <1>6, LoopFacts, QueueKeeps DEF tickVars
<1> QED BY <1>3, <1>4, <1>5, <1>6 DEF DispatchRejections

LEMMA IOKeeps ==
  ASSUME LoopIInv, features' = features, IO PROVE LoopIInv'
<1>1. pc = "io"
  BY DEF IO
<1> DEFINE base == Taken(work, "uv")
<1>2. CASE /\ uv_did_io' = TRUE
           /\ \E w \in Script(base) :
                work' \in Script(Drained(w)) /\ woken' = (woken \/ ScriptWakes(work, work'))
           /\ UNCHANGED <<pc, did_work, dispatched_ops, idle, result>>
  <2>1. /\ base \in WorkType /\ base.source["uv"] = "none" /\ base.dyn = work.dyn
        /\ \A s \in Sources \ {"uv"} : base.source[s] = work.source[s]
    BY LoopFacts, TakenType DEF Sources
  <2>2. PICK u \in Script(base) :
          work' \in Script(Drained(u)) /\ woken' = (woken \/ ScriptWakes(work, work'))
    BY <1>2
  <2>3. Grows(base, work')
    <3>1. Grows(base, u) /\ u \in WorkType
      BY <2>1, ScriptGrows DEF Grows
    <3>2. Grows(Drained(u), work')
      BY <2>2, <3>1, DrainedType, ScriptGrows
    <3> QED BY <2>1, <3>1, <3>2, GrowsTwice
  <2>4. LoopFlags'
    BY <1>2, <2>2, LoopFacts DEF LoopFlags, ScriptWakes, ModuleWakes
  <2>5. Busy(work, "task") => Busy(base, "task")
    BY <2>1 DEF Busy, Sources
  <2>6. woken' \/ ServedAt(base.source, work.dyn, pc')
    <3>1. woken \/ ServedAt(base.source, base.dyn, pc)
      BY TakenServed, LoopFacts DEF Sources
    <3> QED BY <1>2, <2>1, <2>2, <3>1
  <2>7. \A s \in Sources : base.source[s] \in {work.source[s], "none"}
    BY <2>1
  <2> HIDE DEF base
  <2> QED BY <1>1, <1>2, <2>1, <2>2, <2>3, <2>4, <2>5, <2>6, <2>7, LoopFacts, Phases, PhaseKeeps
<1>3. CASE Fail
  BY <1>3, FailKeeps
<1>4. CASE work.source["uv"] # "ready" /\ Skip /\ pc' = "check" /\ UNCHANGED <<tickVars, idle, result>>
  <2>1. UNCHANGED <<work, woken, did_work, dispatched_ops, uv_did_io, idle, result>>
    BY <1>4 DEF Skip, tickVars
  <2>2. LoopFlags'
    BY <2>1, LoopFacts DEF LoopFlags
  <2>3. woken' \/ ServedAt(work.source, work.dyn, pc')
    BY <1>1, <1>4, <2>1, LoopFacts, ServedNext
  <2> QED BY <1>1, <1>4, <2>1, <2>2, <2>3, LoopFacts, Phases, SkipKeeps
<1> QED BY <1>2, <1>3, <1>4 DEF IO

(* Phases 4 to 6.  With no close callback that throws, the decision finds  *)
(* no exception.                                                           *)
LEMMA CheckCloseKeeps ==
  ASSUME LoopIInv, features' = features, "close_throw" \notin features, Check \/ Close
  PROVE  LoopIInv'
<1>1. ASSUME NEW outcomes, RunAmong(work, outcomes), \A v \in outcomes : Grows(work, v),
             pc \in {"check", "close"}, pc' = IF pc = "check" THEN "close" ELSE "decide",
             pc = "close" => \A v \in outcomes : ~v.exception,
             UNCHANGED <<tickVars, idle, result>>
      PROVE  LoopIInv'
  <2>1. work' \in outcomes /\ woken' = (woken \/ ScriptWakes(work, work')) /\ Grows(work, work')
    BY <1>1 DEF RunAmong
  <2>2. LoopFlags'
    BY <1>1, <2>1, LoopFacts DEF LoopFlags, ScriptWakes, ModuleWakes, tickVars
  <2>3. woken' \/ ServedAt(work.source, work.dyn, pc')
    BY <1>1, <2>1, LoopFacts, ServedNext
  <2>4. pc' = "decide" => ~work'.exception
    BY <1>1, <2>1
  <2>5. pc # "returned" /\ pc' \in AfterPoll /\ idle' \in Nat /\ result' = result
    BY <1>1, LoopFacts, Phases
  <2> QED BY <2>1, <2>2, <2>3, <2>4, <2>5, LoopFacts, PhaseKeeps
<1>2. \A v \in UvScript(work) : Grows(work, v)
  BY LoopFacts, ScriptGrows, SameGrows DEF UvScript
<1>3. CASE Check
  BY <1>1, <1>2, <1>3 DEF Check
<1>4. CASE Close
  <2>1. CASE Fail
    BY <2>1, FailKeeps
  <2>2. CASE ~Fail
    <3> DEFINE outcomes == {w \in UvScript(work) : w.exception = work.exception} \cup Thrown(work, "close_throw")
    <3>1. /\ pc = "close" /\ ~work.exception /\ RunAmong(work, outcomes)
          /\ pc' = "decide" /\ UNCHANGED <<tickVars, idle, result>>
      BY <1>4, <2>2 DEF Close, check_exception_condition
    <3>2. \A v \in outcomes : Grows(work, v) /\ ~v.exception
      BY <1>2, <3>1 DEF Thrown
    <3> HIDE DEF outcomes
    <3> QED BY <1>1, <3>1, <3>2
  <2> QED BY <2>1, <2>2
<1> QED BY <1>3, <1>4

----------------------------------------------------------------------------
(* The decision.                                                           *)
LEMMA NothingPending ==
  ASSUME NEW w \in WorkType, ~IsPending(w)
  PROVE  /\ ~w.tick /\ w.immediates = 0 /\ ~w.rejections /\ w.dyn = "none" /\ w.main # "pending"
         /\ \A s \in Sources \ Unrefable : w.source[s] = "none"
         /\ \A s \in Unrefable : w.source[s] # "none" => s \in w.unrefed
<1>1. ~w.tick /\ ~w.rejections /\ w.dyn = "none" /\ w.main # "pending" /\ ~(w.immediates > 0)
  BY DEF IsPending, HasPendingDynEval
<1>2. w.immediates = 0
  BY <1>1 DEF WorkType
<1>3. \A s \in {"import", "background", "external", "uv", "task"} : w.source[s] = "none"
  BY DEF IsPending, HasPendingRefedOps, Busy
<1>4. \A s \in Unrefable : w.source[s] # "none" => s \in w.unrefed
  BY DEF IsPending, HasPendingRefedOps, Busy
<1>5. Sources \ Unrefable = {"import", "background", "external", "uv", "task"}
  BY DEF Sources, Unrefable
<1> QED BY <1>1, <1>2, <1>3, <1>4, <1>5

(* At the decision nothing is ready, unless the task is woken. *)
LEMMA DecideServed ==
  ASSUME LoopIInv, pc = "decide", ~woken
  PROVE  /\ \A s \in Sources : work.source[s] # "ready"
         /\ work.dyn \notin {"fulfilled", "rejected"}
<1>1. ServedAt(work.source, work.dyn, "decide")
  BY LoopFacts
<1>2. /\ \A s \in {"background", "timer", "import", "task", "op", "uv"} : work.source[s] # "ready"
      /\ work.dyn \notin {"fulfilled", "rejected"}
  BY <1>1 DEF ServedAt, AfterPoll, AfterTimers, AfterModules, AfterTasks, AfterOps, AfterIO
<1> QED BY <1>2 DEF LoopIInv, Sources

LEMMA NotServedOutside ==
  ASSUME NEW source, NEW dyn, NEW p \in {"parked", "returned"} PROVE ServedAt(source, dyn, p)
BY DEF ServedAt, AfterPoll, AfterTimers, AfterModules, AfterTasks, AfterOps, AfterIO

LEMMA FinishKeeps ==
  ASSUME LoopIInv, features' = features, Finish PROVE LoopIInv'
<1>1. /\ pc = "decide" /\ ~IsPending(work) /\ result = "none" /\ ~work.exception
      /\ UNCHANGED <<woken, work, did_work, dispatched_ops, uv_did_io, idle>>
      /\ IF work.inspector THEN pc' = "parked" /\ UNCHANGED result
                           ELSE pc' = "returned" /\ result' = "ok"
  BY DEF Finish, tickVars, LoopIInv
<1>2. /\ ~work.tick /\ work.immediates = 0 /\ ~work.rejections /\ work.dyn = "none" /\ work.main # "pending"
      /\ \A s \in Sources \ Unrefable : work.source[s] = "none"
      /\ \A s \in Unrefable : work.source[s] # "none" => s \in work.unrefed
  BY <1>1, LoopFacts, NothingPending
<1>3. LoopTypes' /\ LoopFlags'
  BY <1>1 DEF LoopIInv, LoopTypes, LoopFlags
<1>4. Served'
  BY <1>1, NotServedOutside DEF Served
<1>5. OkMeansNothingLeft'
  BY <1>1, <1>2 DEF OkMeansNothingLeft, Busy
<1>6. result' = "none" <=> pc' # "returned"
  BY <1>1
<1>7. ParkedIsWaiting'
  <2> SUFFICES ASSUME pc' = "parked", ~woken' PROVE ParkedIsWaiting'
    BY DEF ParkedIsWaiting
  <2>1. \A s \in Sources : work.source[s] # "ready"
    BY <1>1, DecideServed
  <2> QED BY <1>1, <1>2, <2>1 DEF ParkedIsWaiting
<1> QED BY <1>1, <1>3, <1>4, <1>5, <1>6, <1>7 DEF LoopIInv

(* A loop that goes on although nobody wakes it has something to wait for, *)
(* and nothing else to do.                                                 *)
LEMMA GoesOnWaiting ==
  ASSUME LoopIInv, pc = "decide", IsPending(work), ~woken, ~ReWake(work), ~MainStalled(work), ~DynIdle(work)
  PROVE  /\ ~work.tick /\ work.immediates = 0 /\ ~work.rejections
         /\ \E s \in Sources : work.source[s] = "pending"
<1>1. ~work.tick /\ ~work.rejections /\ ~Busy(work, "background") /\ ~(work.immediates > 0)
  BY DEF ReWake
<1>2. work.immediates = 0
  BY <1>1, LoopFacts DEF WorkType
<1>3. \A s \in Sources : Busy(work, s) => work.source[s] = "pending"
  <2>1. \A s \in Sources : work.source[s] \in {"none", "pending", "ready"}
    BY LoopFacts DEF WorkType
  <2> QED BY <2>1, DecideServed DEF Busy
<1>4. CASE HasPendingRefedOps(work) \/ HasPendingOps(work)
  BY <1>1, <1>2, <1>3, <1>4 DEF HasPendingRefedOps, HasPendingOps, Unrefable, Sources
<1>5. CASE \E s \in {"import", "external", "uv"} : Busy(work, s)
  BY <1>1, <1>2, <1>3, <1>5 DEF Sources
<1>6. CASE HasPendingDynEval(work) \/ work.main = "pending"
  <2>1. MayStillProgress(work)
    BY <1>6 DEF DynIdle, MainStalled
  <2>2. HasPendingOps(work) \/ \E s \in {"import", "external"} : Busy(work, s)
    BY <1>1, <2>1 DEF MayStillProgress
  <2> QED BY <1>4, <1>5, <2>2
<1>7. HasPendingRefedOps(work) \/ (\E s \in {"import", "external", "uv"} : Busy(work, s))
        \/ HasPendingDynEval(work) \/ work.main = "pending"
  BY <1>1 DEF IsPending
<1> QED BY <1>1, <1>2, <1>4, <1>5, <1>6, <1>7

LEMMA ConcludeKeeps ==
  ASSUME LoopIInv, features' = features, Conclude PROVE LoopIInv'
<1> DEFINE late == RunLateImmediates(work)
           stalled == MainStalled(work) \/ (DynIdle(work) /\ modules_idle)
           base == ImmediatesRun(work)
<1>1. /\ pc = "decide" /\ IsPending(work) /\ result = "none" /\ ~work.exception
      /\ work' \in IF late THEN Script(base) ELSE {work}
      /\ woken' = (woken \/ ReWake(work) \/ (DynIdle(work) /\ ~modules_idle) \/ ScriptWakes(work, work'))
      /\ idle' = IF DynIdle(work) /\ ~stalled THEN idle + 1 ELSE idle
      /\ pc' = IF stalled THEN "returned" ELSE "parked"
      /\ result' = IF stalled THEN StallReport(work) ELSE result
      /\ UNCHANGED <<did_work, dispatched_ops, uv_did_io>>
  BY DEF Conclude, tickVars, LoopIInv
<1>2. late => work.immediates > 0
  BY DEF RunLateImmediates
<1>3. /\ work' \in WorkType /\ work'.source["external"] # "ready"
      /\ "uv" \notin features => work'.source["uv"] = "none"
  <2>1. CASE late
    <3>1. base \in WorkType /\ base.source = work.source
      BY LoopFacts DEF ImmediatesRun, WorkType
    <3>2. Grows(base, work')
      BY <1>1, <2>1, <3>1, ScriptGrows
    <3> QED BY <3>1, <3>2 DEF Grows, LoopIInv, Sources
  <2>2. CASE ~late
    BY <1>1, <2>2, LoopFacts DEF LoopIInv
  <2> QED BY <2>1, <2>2
<1> HIDE DEF late, stalled, base
<1>4. LoopFlags'
  <2>1. woken' \in BOOLEAN
    BY <1>1, LoopFacts DEF ReWake, DynIdle, ScriptWakes, ModuleWakes
  <2> QED BY <1>1, <2>1, LoopFacts DEF LoopFlags
<1>5. LoopTypes'
  <2>1. idle' \in Nat /\ StallReport(work) \in {"stalled", "panic"}
    BY <1>1, LoopFacts DEF StallReport
  <2> QED BY <1>1, <1>3, <2>1 DEF LoopIInv, LoopTypes
<1>6. Served'
  BY <1>1, NotServedOutside DEF Served
<1>7. OkMeansNothingLeft' /\ (result' = "none" <=> pc' # "returned")
  BY <1>1 DEF OkMeansNothingLeft, StallReport
<1>8. ParkedIsWaiting'
  <2> SUFFICES ASSUME ~stalled, ~woken' PROVE ParkedIsWaiting'
    BY <1>1 DEF ParkedIsWaiting
  <2>1. ~woken /\ ~ReWake(work) /\ ~MainStalled(work) /\ ~DynIdle(work)
    BY <1>1 DEF stalled
  <2>2. /\ ~work.tick /\ work.immediates = 0 /\ ~work.rejections
        /\ \E s \in Sources : work.source[s] = "pending"
    BY <1>1, <2>1, GoesOnWaiting
  <2>3. work' = work
    BY <1>1, <1>2, <2>2
  <2> QED BY <1>1, <2>1, <2>2, <2>3, DecideServed DEF ParkedIsWaiting
<1> QED BY <1>1, <1>3, <1>4, <1>5, <1>6, <1>7, <1>8 DEF LoopIInv

----------------------------------------------------------------------------
LEMMA ReadyKeeps ==
  ASSUME LoopIInv, features' = features, NEW s \in Sources, BecomesReady(s) PROVE LoopIInv'
<1>1. /\ pc # "returned" /\ work.source[s] = "pending" /\ s # "external" /\ woken' = TRUE
      /\ work' = [work EXCEPT !.source[s] = "ready"]
      /\ UNCHANGED <<pc, did_work, dispatched_ops, uv_did_io, idle, result>>
  BY DEF BecomesReady, tickVars
<1> DEFINE source == [work.source EXCEPT ![s] = "ready"]
<1>2. work.source \in [Sources -> {"none", "pending", "ready"}]
  BY LoopFacts DEF WorkType
<1>3. /\ source \in [Sources -> {"none", "pending", "ready"}]
      /\ \A t \in Sources \ {s} : source[t] = work.source[t]
  BY <1>2
<1>4. work' = [work EXCEPT !.source = source]
  BY <1>1
<1> HIDE DEF source
<1>5. work' \in WorkType /\ work'.source = source /\ work'.exception = work.exception
  BY <1>3, <1>4, LoopFacts DEF WorkType
<1>6. /\ work'.source["external"] # "ready"
      /\ "uv" \notin features => work'.source["uv"] = "none"
  BY <1>1, <1>3, <1>5 DEF LoopIInv, Sources
<1> QED BY <1>1, <1>5, <1>6, OutsideKeeps

LEMMA ExternalKeeps ==
  ASSUME LoopIInv, features' = features, ExternalDone PROVE LoopIInv'
<1>1. /\ pc # "returned" /\ woken' = TRUE /\ work' = Taken(work, "external")
      /\ UNCHANGED <<pc, did_work, dispatched_ops, uv_did_io, idle, result>>
  BY DEF ExternalDone, tickVars
<1>2. /\ work' \in WorkType /\ work'.source["external"] = "none"
      /\ work'.source["uv"] = work.source["uv"]
  BY <1>1, LoopFacts, TakenType DEF Sources
<1>3. work'.exception = work.exception
  BY <1>1, LoopFacts DEF Taken, WorkType
<1> QED BY <1>1, <1>2, <1>3, OutsideKeeps DEF LoopIInv

LEMMA SpawnKeeps ==
  ASSUME LoopIInv, features' = features, CrossThreadSpawn PROVE LoopIInv'
<1> DEFINE x == Spend(work)
           source == [x.source EXCEPT !["task"] = "ready"]
<1>1. /\ pc # "returned" /\ woken' = TRUE /\ work.budget > 0
      /\ work' = [x EXCEPT !.source["task"] = "ready"]
      /\ UNCHANGED <<pc, did_work, dispatched_ops, uv_did_io, idle, result>>
  BY DEF CrossThreadSpawn, tickVars
<1>2. x \in WorkType /\ x.source = work.source
  BY <1>1, LoopFacts, SpendType
<1>3. x.exception = work.exception
  BY LoopFacts DEF Spend, WorkType
<1> HIDE DEF x
<1>4. x.source \in [Sources -> {"none", "pending", "ready"}]
  BY <1>2 DEF WorkType
<1>5. /\ source \in [Sources -> {"none", "pending", "ready"}]
      /\ source["uv"] = work.source["uv"] /\ source["external"] = work.source["external"]
  BY <1>2, <1>4 DEF Sources
<1>6. work' = [x EXCEPT !.source = source]
  BY <1>1
<1> HIDE DEF source
<1>7. work' \in WorkType /\ work'.source = source /\ work'.exception = x.exception
  BY <1>2, <1>5, <1>6 DEF WorkType
<1> QED BY <1>1, <1>3, <1>5, <1>7, OutsideKeeps DEF LoopIInv

LEMMA LoopInitial ==
  ASSUME Init PROVE LoopIInv
<1>1. PICK m \in {"none", "pending"} : work \in Script([EmptyWork EXCEPT !.main = m])
  BY DEF Init
<1> DEFINE base == [EmptyWork EXCEPT !.main = m]
           source == [s \in Sources |-> "none"]
<1>2. EmptyWork \in WorkType /\ EmptyWork.source = source
  <2> DEFINE attached == "inspector" \in features
  <2>1. attached \in BOOLEAN /\ source \in [Sources -> {"none", "pending", "ready"}]
    OBVIOUS
  <2>2. EmptyWork = [source |-> source, unrefed |-> {}, tick |-> FALSE, immediates |-> 0,
                     rejections |-> FALSE, exception |-> FALSE, main |-> "none", dyn |-> "none",
                     inspector |-> attached, budget |-> Budget, reject |-> MaxReject]
    BY DEF EmptyWork
  <2> HIDE DEF attached, source
  <2>3. Budget \in 0 .. Budget /\ MaxReject \in 0 .. MaxReject
    BY LoopAssumption
  <2> QED BY <2>1, <2>2, <2>3 DEF WorkType
<1>3. base \in WorkType /\ base.source = EmptyWork.source
  BY <1>2 DEF WorkType
<1> HIDE DEF base
<1>4. Grows(base, work)
  BY <1>1, <1>3, ScriptGrows DEF base
<1>5. /\ work \in WorkType /\ work.source["external"] # "ready"
      /\ "uv" \notin features => work.source["uv"] = "none"
  BY <1>2, <1>3, <1>4 DEF Grows, Sources
<1>6. LoopTypes /\ LoopFlags
  BY <1>5 DEF Init, LoopTypes, LoopFlags
<1>7. Served /\ OkMeansNothingLeft /\ ParkedIsWaiting
  BY DEF Init, Served, OkMeansNothingLeft, ParkedIsWaiting
<1> QED BY <1>5, <1>6, <1>7 DEF Init, LoopIInv

(* The close callbacks throw in no environment. *)
ClosesQuietly == \A F \in FeatureSets : "close_throw" \notin F

LEMMA LoopInductive ==
  ASSUME ClosesQuietly, LoopIInv, [Next]_vars PROVE LoopIInv'
<1>1. CASE UNCHANGED vars
  <2>1. LoopTypes' /\ LoopFlags' /\ Served'
    BY <1>1 DEF vars, LoopIInv, LoopTypes, LoopFlags, Served
  <2>2. OkMeansNothingLeft' /\ ParkedIsWaiting'
    BY <1>1 DEF vars, LoopIInv, OkMeansNothingLeft, ParkedIsWaiting, Busy
  <2> QED BY <1>1, <2>1, <2>2 DEF vars, LoopIInv
<1>2. CASE Next /\ features' = features
  <2>1. "close_throw" \notin features
    BY DEF ClosesQuietly, LoopIInv, LoopTypes
  <2>2. CASE Tick
    BY <1>2, <2>1, <2>2, PollKeeps, TimersKeeps, ModulesKeeps, TasksKeeps, OpsKeeps, DrainKeeps,
       ImmediatesKeeps, RejectionsKeeps, IOKeeps, CheckCloseKeeps, FinishKeeps, ConcludeKeeps,
       FailKeeps DEF Tick, LateImmediatesFail
  <2>3. CASE \E s \in Sources : BecomesReady(s)
    BY <1>2, <2>3, ReadyKeeps
  <2>4. CASE ExternalDone \/ CrossThreadSpawn
    BY <1>2, <2>4, ExternalKeeps, SpawnKeeps
  <2>5. CASE Done \/ WaitForInspector
    BY <1>1, <2>5 DEF Done, WaitForInspector
  <2> QED BY <1>2, <2>2, <2>3, <2>4, <2>5 DEF Next
<1> QED BY <1>1, <1>2 DEF Next

LEMMA LoopInvariant ==
  ASSUME ClosesQuietly PROVE Spec => []LoopIInv
<1>1. Init => LoopIInv
  BY LoopInitial
<1>2. LoopIInv /\ [Next]_vars => LoopIInv'
  BY LoopInductive
<1> QED BY <1>1, <1>2, PTL DEF Spec

(* For any amount of work, started by scripts, by callbacks of every phase *)
(* and by other threads: run_event_loop resolves with Ok only when nothing *)
(* that keeps it alive is left and no exception was swallowed, and it goes *)
(* to sleep unwoken only if something outside is to wake it.               *)
THEOREM LoopOverlooksNothing ==
  ASSUME ClosesQuietly PROVE Spec => []NothingOverlooked
<1>1. LoopIInv => NothingOverlooked
  <2> SUFFICES ASSUME LoopIInv PROVE TypeOK
    BY DEF LoopIInv, NothingOverlooked
  <2>1. pc \in {"parked", "timers", "modules", "tasks", "ops", "drain", "immediates",
                "rejections", "io", "check", "close", "decide", "returned"}
    BY DEF LoopIInv, LoopTypes, AfterPoll, AfterTimers, AfterModules, AfterTasks, AfterOps, AfterIO
  <2> QED BY <2>1 DEF LoopIInv, LoopTypes, LoopFlags, TypeOK
<1> QED BY <1>1, LoopInvariant, PTL

----------------------------------------------------------------------------
(***************************************************************************)
(* The stall report, where only ops, timers and tasks run scripts and at   *)
(* most one import rejects.  What the invariant needs: the counter is at 1 *)
(* or 2 only while nothing at all is left (Resting), or between a settled  *)
(* evaluation and the phase that looks at it, or, at 1, once the import    *)
(* that may reject has done so.                                            *)
(***************************************************************************)
BeforeLook == {"parked", "timers", "modules"}
IsSettled(d) == d \in {"fulfilled", "rejected"}

Resting ==
  /\ work.dyn = "pending" /\ \A s \in Sources : work.source[s] = "none"
  /\ ~work.tick /\ work.immediates = 0 /\ ~work.exception
  /\ pc = "parked" \/ (~did_work /\ ~dispatched_ops)

(* The parts of the work that matter here. *)
StallWork(w) ==
  /\ ~w.rejections
  /\ w.source["import"] # "none" => w.dyn = "none"
  /\ w.dyn = "rejected" => w.reject = 0

CountedOnce ==
  idle = 1 =>
    \/ Resting
    \/ IsSettled(work.dyn) /\ pc \in BeforeLook
    \/ work.reject = 0 /\ work.dyn # "rejected"
CountedTwice == idle = 2 => Resting \/ (work.dyn = "fulfilled" /\ pc \in BeforeLook)

StallIInv ==
  OpsOnly /\ MaxReject <= 1 =>
    /\ StallWork(work) /\ StallIsTrue
    /\ pc # "returned" => idle \in 0 .. 2 /\ CountedOnce /\ CountedTwice

(* What a script does to that part of the work. *)
Ages(w, v) ==
  /\ v.rejections = w.rejections
  /\ v.source["import"] # "none" => w.source["import"] # "none" \/ v.dyn = "none"
  /\ \/ v.dyn = w.dyn /\ v.reject = w.reject
     \/ w.dyn = "pending" /\ v.dyn = "fulfilled" /\ v.reject = w.reject
     \/ w.dyn = "pending" /\ v.dyn = "rejected" /\ w.reject > 0 /\ v.reject = w.reject - 1

LEMMA ScriptAges ==
  ASSUME OpsOnly, NEW w \in WorkType, ~w.rejections, NEW v \in Script(w) PROVE Ages(w, v)
<1> DEFINE x == Spend(w)
<1>1. CASE v \in Started(w)
  <2>1. w.budget # 0
    BY <1>1 DEF Started
  <2>2. x \in WorkType /\ x.source = w.source
    BY <2>1, SpendType
  <2>3. x.dyn = w.dyn /\ x.reject = w.reject /\ x.rejections = w.rejections
    BY DEF Spend, WorkType
  <2> HIDE DEF x
  <2>4. CASE \E s \in Startable(w) : v = [x EXCEPT !.source[s] = IF s = "task" THEN "ready" ELSE "pending"]
    <3>1. PICK s \in Startable(w) : v = [x EXCEPT !.source[s] = IF s = "task" THEN "ready" ELSE "pending"]
      BY <2>4
    <3>2. s \in Sources /\ (s = "import" => w.dyn = "none")
      BY DEF Startable
    <3>3. v.dyn = x.dyn /\ v.reject = x.reject /\ v.rejections = x.rejections
      BY <2>2, <3>1 DEF WorkType
    <3>4. s # "import" => v.source["import"] = x.source["import"]
      BY <2>2, <3>1, <3>2 DEF WorkType, Sources
    <3> QED BY <2>2, <2>3, <3>2, <3>3, <3>4 DEF Ages
  <2>5. CASE v \in {[x EXCEPT !.tick = TRUE], [x EXCEPT !.immediates = 1],
                    [x EXCEPT !.rejections = "rejections" \in features]}
    <3>1. "rejections" \notin features
      BY DEF OpsOnly
    <3>2. v.source = x.source /\ v.dyn = x.dyn /\ v.reject = x.reject
      BY <2>2, <2>5 DEF WorkType
    <3>3. v.rejections = w.rejections
      <4>1. CASE v = [x EXCEPT !.rejections = "rejections" \in features]
        <5>1. v = [x EXCEPT !.rejections = FALSE]
          <6>1. ("rejections" \in features) = FALSE
            BY <3>1
          <6> QED BY <4>1, <6>1
        <5>2. v.rejections = FALSE
          BY <2>2, <5>1 DEF WorkType
        <5>3. w.rejections = FALSE
          BY DEF WorkType
        <5> QED BY <5>2, <5>3
      <4>2. CASE v = [x EXCEPT !.tick = TRUE] \/ v = [x EXCEPT !.immediates = 1]
        BY <2>2, <2>3, <4>2 DEF WorkType
      <4> QED BY <2>5, <4>1, <4>2
    <3> QED BY <2>2, <2>3, <3>2, <3>3 DEF Ages
  <2> QED BY <1>1, <2>1, <2>4, <2>5 DEF Started, x
<1>2. CASE v \in Settled(w)
  <2>1. CASE v = [w EXCEPT !.main = "done"]
    BY <2>1 DEF WorkType, Ages
  <2>2. CASE w.dyn = "pending" /\ v = [w EXCEPT !.dyn = "fulfilled"]
    BY <2>2 DEF WorkType, Ages
  <2>3. CASE w.dyn = "pending" /\ w.reject > 0 /\ v = [[w EXCEPT !.dyn = "rejected"] EXCEPT !.reject = @ - 1]
    BY <2>3 DEF WorkType, Ages
  <2> QED BY <1>2, <2>1, <2>2, <2>3 DEF Settled
<1>3. CASE v \in Toggled(w)
  <2>1. PICK s \in Unrefable : w.budget > 0 /\
          v = [x EXCEPT !.unrefed = (w.unrefed \ {s}) \cup ({s} \ w.unrefed)]
    BY <1>3 DEF Toggled
  <2>2. /\ x \in WorkType /\ x.source = w.source
        /\ x.dyn = w.dyn /\ x.reject = w.reject /\ x.rejections = w.rejections
    BY <2>1, SpendType DEF Spend, WorkType
  <2> HIDE DEF x
  <2>3. /\ v.source = x.source /\ v.dyn = x.dyn /\ v.reject = x.reject
        /\ v.rejections = x.rejections
    BY <2>1, <2>2 DEF WorkType
  <2> QED BY <2>2, <2>3 DEF Ages
<1>4. CASE v \in Thrown(w, "throw") \/ v = w
  BY <1>4 DEF Thrown, WorkType, Ages
<1> QED BY <1>1, <1>2, <1>3, <1>4 DEF Script

LEMMA AgesKeep ==
  ASSUME MaxReject <= 1, NEW w \in WorkType, StallWork(w), NEW v \in WorkType, Ages(w, v)
  PROVE  StallWork(v)
<1>1. w.reject \in 0 .. 1
  BY LoopAssumption DEF WorkType
<1> QED BY <1>1 DEF StallWork, Ages

(* A step of the tick that runs scripts, on `base`, and leaves the counter *)
(* as it is: possible only where something was left to run.                *)
LEMMA StallStep ==
  ASSUME LoopIInv, StallIInv, OpsOnly, MaxReject <= 1, pc # "returned", ~Resting,
         features' = features, NEW base \in WorkType, base.dyn = work.dyn, base.reject = work.reject,
         ~base.rejections, base.source["import"] # "none" => work.source["import"] # "none",
         NEW mid \in WorkType, Ages(base, mid), work' \in WorkType, Ages(mid, work'),
         idle' = idle, result' = result, pc' # "returned",
         pc \in BeforeLook => pc' \in BeforeLook \/ ~IsSettled(work'.dyn)
  PROVE  StallIInv'
<1>1. StallWork(work) /\ CountedOnce /\ CountedTwice /\ idle \in 0 .. 2 /\ work \in WorkType
  BY LoopFacts DEF StallIInv
<1>2. StallWork(base)
  BY <1>1 DEF StallWork
<1>3. StallWork(mid) /\ StallWork(work)'
  BY <1>2, AgesKeep
<1>4. result' = "none"
  BY DEF LoopIInv
<1>5. StallIsTrue'
  BY <1>4 DEF StallIsTrue
<1>6. work.reject \in 0 .. 1 /\ mid.reject \in 0 .. 1
  BY <1>1, LoopAssumption DEF WorkType
<1>7. CountedOnce'
  <2> SUFFICES ASSUME idle = 1 PROVE CountedOnce'
    BY DEF CountedOnce
  <2>1. CASE IsSettled(work.dyn) /\ pc \in BeforeLook
    <3>1. work'.dyn = work.dyn
      BY <2>1 DEF Ages, IsSettled
    <3> QED BY <2>1, <3>1 DEF CountedOnce
  <2>2. CASE work.reject = 0 /\ work.dyn # "rejected"
    <3>1. work'.reject = 0 /\ work'.dyn # "rejected"
      BY <2>2 DEF Ages
    <3> QED BY <3>1 DEF CountedOnce
  <2> QED BY <1>1, <2>1, <2>2 DEF CountedOnce
<1>8. CountedTwice'
  <2> SUFFICES ASSUME idle = 2 PROVE CountedTwice'
    BY DEF CountedTwice
  <2>1. work.dyn = "fulfilled" /\ pc \in BeforeLook
    BY <1>1 DEF CountedTwice
  <2>2. work'.dyn = "fulfilled"
    BY <2>1 DEF Ages
  <2> QED BY <2>1, <2>2 DEF CountedTwice, IsSettled
<1> QED BY <1>1, <1>3, <1>5, <1>7, <1>8 DEF StallIInv

LEMMA NoAging == ASSUME NEW w PROVE Ages(w, w)
BY DEF Ages

(* A phase that finds nothing to do. *)
LEMMA StallSkip ==
  ASSUME LoopIInv, StallIInv, pc # "returned", features' = features, UNCHANGED work,
         idle' = idle, result' = result, pc' # "returned",
         pc' # "parked" => \/ UNCHANGED <<did_work, dispatched_ops>> /\ pc # "parked"
                           \/ ~did_work' /\ ~dispatched_ops',
         pc \in BeforeLook => pc' \in BeforeLook \/ ~IsSettled(work.dyn)
  PROVE  StallIInv'
<1> SUFFICES ASSUME OpsOnly, MaxReject <= 1 PROVE StallIInv'
  BY DEF StallIInv, OpsOnly
<1>1. CASE Resting
  <2>1. Resting'
    BY <1>1 DEF Resting
  <2>2. result' = "none"
    BY DEF LoopIInv
  <2> QED BY <2>1, <2>2 DEF StallIInv, StallIsTrue, CountedOnce, CountedTwice, StallWork
<1>2. CASE ~Resting
  <2>1. work \in WorkType /\ ~work.rejections
    BY LoopFacts DEF StallIInv, StallWork
  <2> QED BY <1>2, <2>1, NoAging, StallStep
<1> QED BY <1>1, <1>2

(* A phase that runs scripts once or, after a drain, twice. *)
LEMMA StallRun ==
  ASSUME LoopIInv, StallIInv, pc # "returned", ~Resting, features' = features,
         NEW base \in WorkType, base.dyn = work.dyn, base.reject = work.reject,
         base.rejections = work.rejections \/ ~base.rejections,
         base.source["import"] # "none" => work.source["import"] # "none",
         work' \in Script(base) \/ (\E w \in Script(base) : work' \in Script(Drained(w))),
         idle' = idle, result' = result, pc' # "returned",
         pc \in BeforeLook => pc' \in BeforeLook
  PROVE  StallIInv'
<1> SUFFICES ASSUME OpsOnly, MaxReject <= 1 PROVE StallIInv'
  BY DEF StallIInv, OpsOnly
<1>1. ~base.rejections
  BY DEF StallIInv, StallWork
<1>2. CASE work' \in Script(base)
  <2>1. work' \in WorkType /\ Ages(base, work')
    BY <1>1, <1>2, ScriptAges, ScriptGrows DEF Grows
  <2> QED BY <1>1, <2>1, NoAging, StallStep
<1>3. CASE \E w \in Script(base) : work' \in Script(Drained(w))
  <2>1. PICK w \in Script(base) : work' \in Script(Drained(w))
    BY <1>3
  <2>2. w \in WorkType /\ Ages(base, w)
    BY <1>1, ScriptAges, ScriptGrows DEF Grows
  <2> DEFINE mid == Drained(w)
  <2>3. /\ mid \in WorkType /\ mid.source = w.source /\ mid.dyn = w.dyn /\ mid.reject = w.reject
        /\ mid.rejections = w.rejections
    BY <2>2 DEF Drained, WorkType
  <2> HIDE DEF mid
  <2>4. Ages(base, mid) /\ ~mid.rejections
    BY <1>1, <2>2, <2>3 DEF Ages
  <2>5. work' \in WorkType /\ Ages(mid, work')
    BY <2>1, <2>3, <2>4, ScriptAges, ScriptGrows DEF Grows, mid
  <2> QED BY <1>1, <2>3, <2>4, <2>5, StallStep
<1> QED BY <1>2, <1>3

LEMMA StallFails ==
  ASSUME LoopIInv, StallIInv, features' = features, Fail PROVE StallIInv'
<1>1. pc' = "returned" /\ result' = "error" /\ work' = [work EXCEPT !.exception = FALSE]
  BY DEF Fail
<1>2. StallWork(work) => StallWork(work)'
  BY <1>1, LoopFacts DEF StallWork, WorkType
<1> QED BY <1>1, <1>2 DEF StallIInv, StallIsTrue, OpsOnly

LEMMA TakenAges ==
  ASSUME NEW w \in WorkType, NEW s \in Sources
  PROVE  Taken(w, s).reject = w.reject /\ Taken(w, s).rejections = w.rejections
<1> DEFINE u == [w EXCEPT !.source[s] = "none"]
<1>1. u \in WorkType /\ u.reject = w.reject /\ u.rejections = w.rejections
  BY DEF WorkType
<1> HIDE DEF u
<1>2. Taken(w, s) = [u EXCEPT !.unrefed = @ \ {s}]
  BY DEF Taken, u
<1> QED BY <1>1, <1>2 DEF WorkType

(* An evaluation begins or has been looked at: the two steps that change   *)
(* which import is counted.                                                *)
LEMMA StallImport ==
  ASSUME LoopIInv, StallIInv, features' = features,
         EvaluateImport \/ ImportFails \/ SettleImport \/ Modules
  PROVE  StallIInv'
<1> SUFFICES ASSUME OpsOnly, MaxReject <= 1 PROVE StallIInv'
  BY DEF StallIInv, OpsOnly
<1>1. /\ pc = "modules" /\ result = "none" /\ work \in WorkType /\ work.reject \in 0 .. 1
      /\ StallWork(work) /\ idle \in 0 .. 2 /\ CountedOnce /\ CountedTwice
  BY LoopFacts, LoopAssumption DEF EvaluateImport, ImportFails, SettleImport, Modules, LoopIInv, StallIInv, WorkType
<1> DEFINE taken == Taken(work, "import")
<1>2. /\ taken \in WorkType /\ taken.dyn = work.dyn /\ taken.source["import"] = "none"
      /\ taken.reject = work.reject /\ taken.rejections = work.rejections
  BY <1>1, TakenType, TakenAges DEF Sources
<1> HIDE DEF taken
<1>3. CASE EvaluateImport
  <2> DEFINE base == [taken EXCEPT !.dyn = "pending"]
  <2>1. /\ work' \in Script(base) /\ UNCHANGED <<pc, idle, result>> /\ work.source["import"] = "ready"
    BY <1>3 DEF EvaluateImport, Run, RunAmong, taken
  <2>2. /\ base \in WorkType /\ base.dyn = "pending" /\ base.source["import"] = "none"
        /\ base.reject = work.reject /\ base.rejections = work.rejections
    BY <1>2 DEF WorkType
  <2> HIDE DEF base
  <2>3. StallWork(base) /\ ~base.rejections
    BY <1>1, <2>2 DEF StallWork
  <2>4. work' \in WorkType /\ Ages(base, work')
    BY <2>1, <2>2, <2>3, ScriptAges, ScriptGrows DEF Grows
  <2>5. StallWork(work)'
    BY <2>2, <2>3, <2>4, AgesKeep
  <2>6. work.dyn = "none"
    BY <1>1, <2>1 DEF StallWork
  <2>7. idle # 2 /\ (idle = 1 => work.reject = 0)
    BY <1>1, <2>6 DEF CountedOnce, CountedTwice, Resting, IsSettled
  <2>8. idle = 1 => work'.reject = 0 /\ work'.dyn # "rejected"
    BY <2>2, <2>4, <2>7 DEF Ages
  <2> QED BY <1>1, <2>1, <2>5, <2>7, <2>8 DEF StallIInv, StallIsTrue, CountedOnce, CountedTwice
<1>4. CASE ImportFails
  <2>1. /\ work' \in Script(taken) /\ UNCHANGED <<pc, idle, result>> /\ work.source["import"] = "ready"
    BY <1>4 DEF ImportFails, Run, RunAmong, taken
  <2>2. ~Resting
    BY <2>1 DEF Resting, Sources
  <2> QED BY <1>1, <1>2, <2>1, <2>2, StallRun
<1>5. ASSUME NEW base, base = [work EXCEPT !.dyn = "none"], work' \in Script(base) \/ work' = base,
             IsSettled(work.dyn), idle' = IdleAfterSettling, result' = result, pc' \in {"modules", "tasks"}
      PROVE  StallIInv'
  <2>1. /\ base \in WorkType /\ base.dyn = "none" /\ base.source = work.source
        /\ base.reject = work.reject /\ base.rejections = work.rejections
    BY <1>1, <1>5 DEF WorkType
  <2>2. StallWork(base) /\ ~base.rejections
    BY <1>1, <1>5, <2>1 DEF StallWork
  <2>3. work' \in WorkType /\ Ages(base, work')
    BY <1>5, <2>1, <2>2, ScriptAges, ScriptGrows, NoAging DEF Grows
  <2>4. StallWork(work)'
    BY <2>1, <2>2, <2>3, AgesKeep
  <2>5. work'.dyn = "none" /\ work'.reject = work.reject
    BY <2>1, <2>3 DEF Ages
  <2>6. CASE work.dyn = "fulfilled"
    BY <1>1, <1>5, <2>4, <2>6 DEF IdleAfterSettling, StallIInv, StallIsTrue, CountedOnce, CountedTwice
  <2>7. CASE work.dyn = "rejected"
    <3>1. idle' = idle /\ work'.reject = 0 /\ idle # 2
      BY <1>1, <1>5, <2>5, <2>7 DEF IdleAfterSettling, StallWork, CountedTwice, Resting
    <3> QED BY <1>1, <1>5, <2>4, <2>5, <3>1 DEF StallIInv, StallIsTrue, CountedOnce, CountedTwice
  <2> QED BY <1>5, <2>6, <2>7 DEF IsSettled
<1>6. CASE SettleImport
  BY <1>1, <1>5, <1>6 DEF SettleImport, Run, RunAmong, IsSettled
<1>7. CASE Modules
  <2>1. CASE Fail
    BY <2>1, StallFails
  <2>2. CASE /\ work.dyn \notin {"fulfilled", "rejected"} /\ Skip /\ pc' = "tasks"
             /\ UNCHANGED <<tickVars, idle, result>>
    BY <1>1, <2>2, StallSkip DEF Skip, tickVars, IsSettled
  <2>3. CASE /\ work.dyn \in {"fulfilled", "rejected"} /\ idle' = IdleAfterSettling
             /\ work' = [work EXCEPT !.dyn = "none"] /\ pc' = "tasks" /\ result' = result
    BY <1>1, <1>5, <2>3 DEF IsSettled
  <2> QED BY <1>7, <2>1, <2>2, <2>3 DEF Modules
<1> QED BY <1>3, <1>4, <1>6, <1>7

(* The phases that take something from a source. *)
LEMMA StallSources ==
  ASSUME LoopIInv, StallIInv, features' = features, Poll \/ Timers \/ Tasks \/ Ops \/ IO
  PROVE  StallIInv'
<1> SUFFICES ASSUME OpsOnly, MaxReject <= 1 PROVE StallIInv'
  BY DEF StallIInv, OpsOnly
<1>1. pc # "returned" /\ result = "none" /\ work \in WorkType
  BY LoopFacts DEF Poll, Timers, Tasks, Ops, IO, LoopIInv
<1>2. ASSUME NEW s \in Sources \ {"import"}, work.source[s] = "ready",
             \/ work' \in Script(Taken(work, s))
             \/ \E w \in Script(Taken(work, s)) : work' \in Script(Drained(w)),
             idle' = idle, result' = result, pc' # "returned", pc \in BeforeLook => pc' \in BeforeLook
      PROVE  StallIInv'
  <2> DEFINE base == Taken(work, s)
  <2>1. ~Resting
    BY <1>2 DEF Resting
  <2>2. /\ base \in WorkType /\ base.dyn = work.dyn /\ base.source["import"] = work.source["import"]
        /\ base.reject = work.reject /\ base.rejections = work.rejections
    <3>1. "import" \in Sources \ {s} /\ s \in Sources
      BY <1>2 DEF Sources
    <3>2. /\ base \in WorkType /\ base.dyn = work.dyn
          /\ \A t \in Sources \ {s} : base.source[t] = work.source[t]
      BY <1>1, <3>1, TakenType
    <3>3. base.reject = work.reject /\ base.rejections = work.rejections
      BY <1>1, <3>1, TakenAges
    <3> HIDE DEF base
    <3> QED BY <3>1, <3>2, <3>3
  <2> HIDE DEF base
  <2> QED BY <1>1, <1>2, <2>1, <2>2, StallRun DEF base
<1>3. ASSUME UNCHANGED <<work, idle, result>>, pc' # "returned", pc \in BeforeLook => pc' \in BeforeLook,
             \/ UNCHANGED <<did_work, dispatched_ops>> /\ pc # "parked"
             \/ ~did_work' /\ ~dispatched_ops'
      PROVE  StallIInv'
  BY <1>1, <1>3, StallSkip
<1>4. {"background", "timer", "task", "op"} \subseteq Sources \ {"import"}
  BY DEF Sources
<1>5. CASE Poll
  <2>1. /\ pc = "parked" /\ pc' = "timers" /\ ~did_work' /\ ~dispatched_ops' /\ UNCHANGED <<idle, result>>
        /\ IF work.source["background"] = "ready" THEN work' \in Script(Taken(work, "background"))
                                                 ELSE work' = work
    BY <1>5 DEF Poll
  <2>2. CASE work.source["background"] = "ready"
    BY <1>2, <1>4, <2>1, <2>2 DEF BeforeLook
  <2>3. CASE work.source["background"] # "ready"
    BY <1>3, <2>1, <2>3 DEF BeforeLook
  <2> QED BY <2>2, <2>3
<1>6. CASE Timers
  <2>1. pc = "timers" /\ pc' = "modules" /\ UNCHANGED <<dispatched_ops, idle, result>>
    BY <1>6 DEF Timers
  <2>2. CASE work.source["timer"] = "ready"
    <3>1. \E w \in Script(Taken(work, "timer")) : work' \in Script(Drained(w))
      BY <1>6, <2>2 DEF Timers
    <3> QED BY <1>2, <1>4, <2>1, <2>2, <3>1 DEF BeforeLook
  <2>3. CASE work.source["timer"] # "ready"
    <3>1. UNCHANGED <<work, did_work>>
      BY <1>6, <2>3 DEF Timers, Skip
    <3> QED BY <1>3, <2>1, <3>1 DEF BeforeLook
  <2> QED BY <2>2, <2>3
<1>7. CASE Tasks
  <2>1. pc = "tasks" /\ pc' \in {"tasks", "ops"} /\ UNCHANGED <<did_work, idle, result>>
    BY <1>7 DEF Tasks
  <2>2. CASE work.source["task"] = "ready"
    BY <1>2, <1>4, <1>7, <2>1, <2>2 DEF Tasks, BeforeLook
  <2>3. CASE work.source["task"] # "ready"
    BY <1>3, <1>7, <2>1, <2>3 DEF Tasks, Skip, BeforeLook
  <2> QED BY <2>2, <2>3
<1>8. CASE Ops
  <2>1. pc = "ops" /\ pc' = "drain" /\ UNCHANGED <<did_work, idle, result>>
    BY <1>8 DEF Ops
  <2>2. CASE work.source["op"] = "ready"
    BY <1>2, <1>4, <1>8, <2>1, <2>2 DEF Ops, Run, RunAmong, BeforeLook
  <2>3. CASE work.source["op"] # "ready"
    BY <1>3, <1>8, <2>1, <2>3 DEF Ops, Skip, BeforeLook
  <2> QED BY <2>2, <2>3
<1>9. CASE IO
  <2>1. work.source["uv"] = "none"
    BY DEF LoopIInv, OpsOnly
  <2>2. pc = "io" /\ Skip /\ pc' = "check" /\ UNCHANGED <<tickVars, idle, result>>
    BY <1>9, <2>1 DEF IO
  <2> QED BY <1>3, <2>2 DEF Skip, tickVars, BeforeLook
<1> QED BY <1>5, <1>6, <1>7, <1>8, <1>9

(* The phases that call JavaScript when there is reason to. *)
LEMMA StallCalls ==
  ASSUME LoopIInv, StallIInv, features' = features, "close_throw" \notin features,
         Drain \/ Immediates \/ DispatchRejections \/ Check \/ Close
  PROVE  StallIInv'
<1> SUFFICES ASSUME OpsOnly, MaxReject <= 1 PROVE StallIInv'
  BY DEF StallIInv, OpsOnly
<1>1. /\ pc \notin BeforeLook /\ pc # "returned" /\ result = "none" /\ work \in WorkType /\ ~work.rejections
  BY LoopFacts DEF Drain, Immediates, DispatchRejections, Check, Close, LoopIInv, BeforeLook, StallIInv, StallWork
<1>2. ASSUME UNCHANGED <<work, did_work, dispatched_ops, idle, result>>, pc' # "returned"
      PROVE  StallIInv'
  BY <1>1, <1>2, StallSkip DEF BeforeLook
<1>3. ASSUME NEW base, base \in {Drained(work), ImmediatesRun(work), work}, ~Resting,
             work' \in Script(base), UNCHANGED <<idle, result>>, pc' # "returned"
      PROVE  StallIInv'
  <2>1. /\ base \in WorkType /\ base.dyn = work.dyn /\ base.source = work.source
        /\ base.reject = work.reject /\ base.rejections = work.rejections
    <3>1. CASE base = work
      BY <1>1, <3>1
    <3>2. CASE base = Drained(work)
      BY <1>1, <3>2 DEF Drained, WorkType
    <3>3. CASE base = ImmediatesRun(work)
      BY <1>1, <3>3 DEF ImmediatesRun, WorkType
    <3> QED BY <1>3, <3>1, <3>2, <3>3
  <2> QED BY <1>1, <1>3, <2>1, StallRun
<1>4. CASE Fail
  BY <1>4, StallFails
<1>5. CASE Drain /\ ~Fail
  <2>1. pc = "drain" /\ pc' = "immediates" /\ UNCHANGED <<idle, result>>
    BY <1>5 DEF Drain
  <2>2. CASE dispatched_ops \/ did_work \/ work.tick
    BY <1>3, <1>5, <2>1, <2>2 DEF Drain, RunOrFail, RunAmong, Resting
  <2>3. CASE ~(dispatched_ops \/ did_work \/ work.tick)
    BY <1>2, <1>5, <2>1, <2>3 DEF Drain, Skip, tickVars
  <2> QED BY <2>2, <2>3
<1>6. CASE Immediates /\ ~Fail
  <2>1. pc = "immediates" /\ pc' = "rejections" /\ UNCHANGED <<did_work, dispatched_ops, idle, result>>
    BY <1>6 DEF Immediates, tickVars
  <2>2. CASE RunOrFail(ImmediatesRun(work)) /\ (did_work \/ dispatched_ops)
    BY <1>3, <2>1, <2>2 DEF RunOrFail, RunAmong, Resting
  <2>3. CASE Skip
    BY <1>2, <2>1, <2>3 DEF Skip
  <2> QED BY <1>6, <2>2, <2>3 DEF Immediates
<1>7. CASE DispatchRejections /\ ~Fail
  <2>1. pc = "rejections" /\ pc' = "io" /\ UNCHANGED <<did_work, dispatched_ops, idle, result>>
    BY <1>7 DEF DispatchRejections, tickVars
  <2>2. CASE Run(work) /\ (did_work \/ dispatched_ops)
    BY <1>3, <2>1, <2>2 DEF Run, RunAmong, Resting
  <2>3. CASE Skip
    BY <1>2, <2>1, <2>3 DEF Skip
  <2> QED BY <1>1, <1>7, <2>2, <2>3 DEF DispatchRejections
<1>8. UvScript(work) = {work} /\ Thrown(work, "close_throw") = {}
  BY DEF UvScript, OpsOnly, Thrown
<1>9. CASE Check
  BY <1>2, <1>8, <1>9 DEF Check, RunAmong, tickVars
<1>10. CASE Close /\ ~Fail
  BY <1>2, <1>8, <1>10 DEF Close, RunAmong, tickVars
<1> QED BY <1>4, <1>5, <1>6, <1>7, <1>9, <1>10

LEMMA StallDecision ==
  ASSUME LoopIInv, StallIInv, features' = features, Finish \/ Conclude \/ LateImmediatesFail
  PROVE  StallIInv'
<1> SUFFICES ASSUME OpsOnly, MaxReject <= 1 PROVE StallIInv'
  BY DEF StallIInv, OpsOnly
<1>1. /\ pc = "decide" /\ result = "none" /\ ~work.exception /\ work \in WorkType
      /\ work.source["uv"] = "none" /\ StallWork(work)
      /\ idle \in 0 .. 2 /\ CountedOnce /\ CountedTwice /\ pc \notin BeforeLook
  BY LoopFacts DEF Finish, Conclude, LateImmediatesFail, LoopIInv, StallIInv, OpsOnly, BeforeLook
<1>2. CASE LateImmediatesFail
  BY <1>2, StallFails DEF LateImmediatesFail
<1>3. CASE Finish
  <2>1. UNCHANGED <<work, idle>>
    BY <1>3 DEF Finish
  <2>2. CASE pc' = "parked" /\ UNCHANGED result
    BY <1>1, <2>1, <2>2, StallSkip
  <2>3. CASE pc' = "returned" /\ result' = "ok"
    BY <1>1, <2>1, <2>3 DEF StallIInv, StallIsTrue
  <2> QED BY <1>3, <2>2, <2>3 DEF Finish
<1>4. CASE Conclude
  <2> DEFINE late == RunLateImmediates(work)
             stalled == MainStalled(work) \/ (DynIdle(work) /\ modules_idle)
  <2>1. /\ work' \in IF late THEN Script(ImmediatesRun(work)) ELSE {work}
        /\ idle' = IF DynIdle(work) /\ ~stalled THEN idle + 1 ELSE idle
        /\ pc' = IF stalled THEN "returned" ELSE "parked"
        /\ result' = IF stalled THEN StallReport(work) ELSE result
    BY <1>4 DEF Conclude
  <2>2. late => work.immediates > 0 /\ ~DynIdle(work) /\ ~stalled
    BY DEF RunLateImmediates, MainStalled, DynIdle, MayStillProgress
  <2>3. DynIdle(work) \/ MainStalled(work) =>
          ~work.tick /\ work.immediates = 0 /\ \A s \in Sources : work.source[s] = "none"
    <3> SUFFICES ASSUME ~MayStillProgress(work)
                 PROVE  ~work.tick /\ work.immediates = 0 /\ \A s \in Sources : work.source[s] = "none"
      BY DEF DynIdle, MainStalled
    <3>1. ~work.tick /\ work.immediates = 0
      BY <1>1 DEF MayStillProgress, WorkType
    <3>2. \A s \in {"task", "timer", "op", "import", "background", "external"} : work.source[s] = "none"
      BY DEF MayStillProgress, HasPendingOps, Unrefable, Busy
    <3> QED BY <1>1, <3>1, <3>2 DEF Sources
  <2> HIDE DEF late, stalled
  <2>4. CASE late
    <3> DEFINE base == ImmediatesRun(work)
    <3>1. /\ base \in WorkType /\ base.dyn = work.dyn /\ base.source = work.source
          /\ base.reject = work.reject /\ base.rejections = work.rejections
      BY <1>1 DEF ImmediatesRun, WorkType
    <3>2. ~Resting
      BY <2>2, <2>4 DEF Resting
    <3> HIDE DEF base
    <3> QED BY <1>1, <2>1, <2>2, <2>4, <3>1, <3>2, StallRun DEF base
  <2>5. CASE ~late /\ stalled
    <3>1. UNCHANGED <<work, idle>> /\ pc' = "returned"
      BY <2>1, <2>5
    <3>2. (work.main = "pending" /\ work.dyn = "none") \/ work.dyn = "pending"
      <4>1. CASE MainStalled(work)
        BY <4>1 DEF MainStalled, HasPendingDynEval
      <4>2. CASE modules_idle
        BY <1>1, <4>2 DEF modules_idle, CountedTwice, Resting
      <4> QED BY <2>5, <4>1, <4>2 DEF stalled
    <3>3. ~work.tick /\ work.immediates = 0 /\ \A s \in Sources : work.source[s] = "none"
      BY <2>3, <2>5 DEF stalled
    <3>4. StallIsTrue'
      BY <3>1, <3>2, <3>3 DEF StallIsTrue, Busy
    <3> QED BY <1>1, <3>1, <3>4 DEF StallIInv
  <2>6. CASE ~late /\ ~stalled /\ ~DynIdle(work)
    BY <1>1, <2>1, <2>6, StallSkip
  <2>7. CASE ~late /\ ~stalled /\ DynIdle(work)
    <3>1. UNCHANGED <<work, result>> /\ pc' = "parked" /\ idle' = idle + 1
      BY <2>1, <2>7
    <3>2. idle \in {0, 1}
      BY <1>1, <2>7 DEF stalled, modules_idle
    <3>3. work.dyn \in {"pending", "fulfilled", "rejected"}
      BY <1>1, <2>7 DEF DynIdle, HasPendingDynEval, WorkType
    <3>4. work.dyn = "pending" => Resting'
      BY <1>1, <2>3, <2>7, <3>1 DEF Resting
    <3>5. CountedOnce'
      BY <3>1, <3>3, <3>4 DEF CountedOnce, IsSettled, BeforeLook
    <3>6. CountedTwice'
      <4> SUFFICES ASSUME idle = 1 PROVE CountedTwice'
        BY <3>1, <3>2 DEF CountedTwice
      <4>1. work.dyn # "rejected"
        BY <1>1 DEF CountedOnce, Resting
      <4> QED BY <3>1, <3>3, <3>4, <4>1 DEF CountedTwice, BeforeLook
    <3> QED BY <1>1, <3>1, <3>2, <3>5, <3>6 DEF StallIInv, StallIsTrue
  <2> QED BY <2>4, <2>5, <2>6, <2>7
<1> QED BY <1>2, <1>3, <1>4

LEMMA StallOutside ==
  ASSUME LoopIInv, StallIInv, features' = features,
         (\E s \in Sources : BecomesReady(s)) \/ ExternalDone \/ CrossThreadSpawn
  PROVE  StallIInv'
<1> SUFFICES ASSUME OpsOnly, MaxReject <= 1 PROVE StallIInv'
  BY DEF StallIInv, OpsOnly
<1>1. /\ pc # "returned" /\ UNCHANGED <<pc, idle, result>> /\ work \in WorkType /\ ~work.rejections
  BY LoopFacts DEF BecomesReady, ExternalDone, CrossThreadSpawn, StallIInv, StallWork
<1>2. /\ ~Resting /\ work' \in WorkType /\ work'.dyn = work.dyn /\ work'.reject = work.reject
      /\ work'.rejections = work.rejections
      /\ work'.source["import"] # "none" => work.source["import"] # "none"
  <2>1. CASE \E s \in Sources : BecomesReady(s)
    <3>1. PICK s \in Sources : work.source[s] = "pending" /\ work' = [work EXCEPT !.source[s] = "ready"]
      BY <2>1 DEF BecomesReady
    <3>2. ~Resting
      BY <3>1 DEF Resting
    <3>3. /\ work' \in WorkType /\ work'.dyn = work.dyn /\ work'.reject = work.reject
          /\ work'.rejections = work.rejections
      BY <1>1, <3>1 DEF WorkType
    <3>4. work'.source["import"] # "none" => work.source["import"] # "none"
      BY <1>1, <3>1 DEF WorkType, Sources
    <3> QED BY <3>2, <3>3, <3>4
  <2>2. CASE ExternalDone
    <3>1. work' = Taken(work, "external") /\ work.source["external"] # "none"
      BY <2>2 DEF ExternalDone, Busy
    <3>2. ~Resting
      BY <3>1 DEF Resting, Sources
    <3>3. "external" \in Sources /\ "import" \in Sources \ {"external"}
      BY DEF Sources
    <3>4. /\ work' \in WorkType /\ work'.dyn = work.dyn
          /\ \A t \in Sources \ {"external"} : work'.source[t] = work.source[t]
      BY <1>1, <3>1, <3>3, TakenType
    <3>5. work'.reject = work.reject /\ work'.rejections = work.rejections
      BY <1>1, <3>1, <3>3, TakenAges
    <3> QED BY <3>2, <3>3, <3>4, <3>5
  <2> QED BY <2>1, <2>2 DEF CrossThreadSpawn, OpsOnly
<1>3. Ages(work, work')
  BY <1>2 DEF Ages
<1> QED BY <1>1, <1>2, <1>3, NoAging, StallStep

LEMMA StallInitial == Init => StallIInv
<1> SUFFICES ASSUME Init, OpsOnly, MaxReject <= 1 PROVE StallIInv
  BY DEF StallIInv
<1>1. PICK m \in {"none", "pending"} : work \in Script([EmptyWork EXCEPT !.main = m])
  BY DEF Init
<1> DEFINE base == [EmptyWork EXCEPT !.main = m]
           source == [s \in Sources |-> "none"]
           attached == "inspector" \in features
<1>2. EmptyWork = [source |-> source, unrefed |-> {}, tick |-> FALSE, immediates |-> 0,
                   rejections |-> FALSE, exception |-> FALSE, main |-> "none", dyn |-> "none",
                   inspector |-> attached, budget |-> Budget, reject |-> MaxReject]
  BY DEF EmptyWork
<1>3. attached \in BOOLEAN /\ source \in [Sources -> {"none", "pending", "ready"}]
  OBVIOUS
<1>4. Budget \in 0 .. Budget /\ MaxReject \in 0 .. MaxReject
  BY LoopAssumption
<1> HIDE DEF source, attached
<1>5. base \in WorkType /\ base.rejections = FALSE /\ base.dyn = "none"
  <2>1. EmptyWork \in WorkType /\ EmptyWork.rejections = FALSE /\ EmptyWork.dyn = "none"
    BY <1>2, <1>3, <1>4 DEF WorkType
  <2> QED BY <2>1 DEF WorkType
<1> HIDE DEF base
<1>6. StallWork(base)
  <2>1. base.dyn # "rejected" /\ ~base.rejections
    BY <1>5
  <2> QED BY <1>5, <2>1 DEF StallWork
<1>7. Ages(base, work) /\ work \in WorkType
  BY <1>1, <1>5, ScriptAges, ScriptGrows DEF Grows, base
<1>8. StallWork(work)
  BY <1>5, <1>6, <1>7, AgesKeep
<1> QED BY <1>8 DEF Init, StallIInv, StallIsTrue, CountedOnce, CountedTwice

LEMMA StallInductive ==
  ASSUME ClosesQuietly, LoopIInv, StallIInv, [Next]_vars PROVE StallIInv'
<1>1. CASE UNCHANGED vars
  BY <1>1 DEF vars, StallIInv, StallIsTrue, StallWork, CountedOnce, CountedTwice, Resting, OpsOnly, Busy
<1>2. CASE Next /\ features' = features
  <2>1. "close_throw" \notin features
    BY DEF ClosesQuietly, LoopIInv, LoopTypes
  <2>2. CASE Tick
    BY <1>2, <2>1, <2>2, StallSources, StallImport, StallCalls, StallDecision DEF Tick
  <2>3. CASE (\E s \in Sources : BecomesReady(s)) \/ ExternalDone \/ CrossThreadSpawn
    BY <1>2, <2>3, StallOutside
  <2>4. CASE Done \/ WaitForInspector
    BY <1>1, <2>4 DEF Done, WaitForInspector
  <2> QED BY <1>2, <2>2, <2>3, <2>4 DEF Next
<1> QED BY <1>1, <1>2 DEF Next

(* For any amount of work by scripts, ops, timers and tasks: where at most *)
(* one import rejects, a top-level await is reported as stalled only when  *)
(* it is; never in the tick in which an op settles an evaluation, however  *)
(* often the loop was idle before.                                         *)
THEOREM StallsAreTrue ==
  ASSUME ClosesQuietly PROVE Spec => []StallIsTrue
<1>1. ClosesQuietly => (LoopIInv /\ StallIInv /\ [Next]_vars => StallIInv')
  BY StallInductive
<1>2. StallIInv => StallIsTrue
  BY DEF StallIInv, StallIsTrue
<1> QED BY <1>1, <1>2, StallInitial, LoopInvariant, PTL DEF Spec

----------------------------------------------------------------------------
(***************************************************************************)
(* Rejections, for any promises and any number of polls.  What the         *)
(* invariant needs beyond the property: who is listed, and where, in each  *)
(* phase of a dispatch.                                                    *)
(***************************************************************************)

(* No entry occurs twice. *)
Once(s) == \A i, j \in DOMAIN s : s[i] = s[j] => i = j

LEMMA LeastNumber ==
  ASSUME NEW T, T \subseteq Nat, T # {}
  PROVE  \E x \in T : \A y \in T : x <= y
<1> DEFINE R == {ab \in Nat \X Nat : ab[1] < ab[2]}
<1>1. IsWellFoundedOn(R, Nat)
  BY NatLessThanWellFounded DEF OpToRel
<1> HIDE DEF R
<1>2. PICK x \in T : \A y \in T : ~(<<y, x>> \in R)
  BY <1>1, WFMin
<1>3. \A y \in T : ~(y < x)
  BY <1>2 DEF R
<1> QED BY <1>3

LEMMA ListAppend ==
  ASSUME NEW S, NEW s \in Seq(S), NEW x \in S
  PROVE  /\ Append(s, x) \in Seq(S) /\ ToSet(Append(s, x)) = ToSet(s) \cup {x}
         /\ Once(s) /\ x \notin ToSet(s) => Once(Append(s, x))
<1>1. /\ Append(s, x) \in Seq(S) /\ Len(Append(s, x)) = Len(s) + 1
      /\ \A i \in 1 .. Len(s) : Append(s, x)[i] = s[i]
      /\ Append(s, x)[Len(s) + 1] = x
      /\ Len(s) \in Nat /\ DOMAIN s = 1 .. Len(s)
      /\ DOMAIN Append(s, x) = 1 .. Len(s) + 1
  OBVIOUS
<1>2. ToSet(Append(s, x)) = ToSet(s) \cup {x}
  BY <1>1 DEF ToSet
<1>3. ASSUME Once(s), x \notin ToSet(s) PROVE Once(Append(s, x))
  BY <1>1, <1>3 DEF ToSet, Once
<1> QED BY <1>1, <1>2, <1>3

LEMMA ListTail ==
  ASSUME NEW S, NEW s \in Seq(S), s # <<>>
  PROVE  /\ Tail(s) \in Seq(S) /\ Head(s) \in S /\ ToSet(s) = {Head(s)} \cup ToSet(Tail(s))
         /\ Once(s) => Once(Tail(s)) /\ Head(s) \notin ToSet(Tail(s))
<1>1. /\ Len(s) \in Nat \ {0} /\ DOMAIN s = 1 .. Len(s)
      /\ Tail(s) \in Seq(S) /\ Head(s) = s[1] /\ Head(s) \in S
      /\ DOMAIN Tail(s) = 1 .. Len(s) - 1
      /\ \A i \in 1 .. Len(s) - 1 : Tail(s)[i] = s[i + 1]
  OBVIOUS
<1>2. ToSet(s) = {Head(s)} \cup ToSet(Tail(s))
  <2>1. ASSUME NEW i \in DOMAIN s PROVE s[i] \in {Head(s)} \cup ToSet(Tail(s))
    <3>1. CASE i = 1
      BY <3>1, <1>1
    <3>2. CASE i # 1
      <4>1. i - 1 \in DOMAIN Tail(s) /\ Tail(s)[i - 1] = s[i]
        BY <3>2, <1>1
      <4> QED BY <4>1 DEF ToSet
    <3> QED BY <3>1, <3>2
  <2>2. ASSUME NEW i \in DOMAIN Tail(s) PROVE Tail(s)[i] \in ToSet(s)
    BY <1>1 DEF ToSet
  <2>3. Head(s) \in ToSet(s)
    BY <1>1 DEF ToSet
  <2> QED BY <2>1, <2>2, <2>3 DEF ToSet
<1>3. ASSUME Once(s) PROVE Once(Tail(s)) /\ Head(s) \notin ToSet(Tail(s))
  BY <1>1, <1>3 DEF ToSet, Once
<1> QED BY <1>1, <1>2, <1>3

(* RemoveFirst, which is a retain of the others if the entry is unique. *)
LEMMA ListRemove ==
  ASSUME NEW S, NEW s \in Seq(S), NEW e
  PROVE  /\ RemoveFirst(s, e) \in Seq(S)
         /\ ToSet(RemoveFirst(s, e)) \subseteq ToSet(s)
         /\ ToSet(s) \ {e} \subseteq ToSet(RemoveFirst(s, e))
         /\ Once(s) => Once(RemoveFirst(s, e)) /\ e \notin ToSet(RemoveFirst(s, e))
<1> DEFINE I == {i \in 1 .. Len(s) : s[i] = e}
           k == Min(I)
           r == RemoveFirst(s, e)
<1>0. Len(s) \in Nat /\ DOMAIN s = 1 .. Len(s)
  OBVIOUS
<1>1. CASE I = {}
  <2>1. r = s /\ e \notin ToSet(s)
    BY <1>1, <1>0 DEF RemoveFirst, ToSet
  <2> QED BY <2>1
<1>2. CASE I # {}
  <2>1. k \in I
    <3>1. I \subseteq Nat
      BY <1>0
    <3>2. \E x \in I : \A y \in I : x <= y
      BY <3>1, <1>2, LeastNumber
    <3> HIDE DEF I
    <3> QED BY <3>2 DEF Min
  <2>2. r = SubSeq(s, 1, k - 1) \o SubSeq(s, k + 1, Len(s))
    BY <1>2 DEF RemoveFirst, RemoveAt, SelectInSeq
  <2> HIDE DEF k, r
  <2>3. k \in 1 .. Len(s) /\ s[k] = e
    BY <2>1
  <2>4. /\ r \in Seq(S) /\ Len(r) = Len(s) - 1
        /\ \A i \in 1 .. k - 1 : r[i] = s[i]
        /\ \A i \in k .. Len(s) - 1 : r[i] = s[i + 1]
    <3>1. /\ SubSeq(s, 1, k - 1) \in Seq(S) /\ Len(SubSeq(s, 1, k - 1)) = k - 1
          /\ \A i \in 1 .. k - 1 : SubSeq(s, 1, k - 1)[i] = s[i]
      BY <2>3
    <3>2. /\ SubSeq(s, k + 1, Len(s)) \in Seq(S)
          /\ Len(SubSeq(s, k + 1, Len(s))) = Len(s) - k
          /\ \A i \in 1 .. Len(s) - k : SubSeq(s, k + 1, Len(s))[i] = s[i + k]
      BY <2>3
    <3> DEFINE a == SubSeq(s, 1, k - 1)
               b == SubSeq(s, k + 1, Len(s))
    <3> HIDE DEF a, b
    <3>3. /\ r \in Seq(S) /\ Len(r) = Len(a) + Len(b)
          /\ \A i \in 1 .. Len(a) : r[i] = a[i]
          /\ \A i \in Len(a) + 1 .. Len(a) + Len(b) : r[i] = b[i - Len(a)]
      <4>1. r = a \o b /\ a \in Seq(S) /\ b \in Seq(S)
        BY <2>2, <3>1, <3>2 DEF a, b
      <4> QED BY <4>1
    <3>4. Len(a) = k - 1 /\ Len(b) = Len(s) - k
      BY <3>1, <3>2 DEF a, b
    <3>5. ASSUME NEW i \in k .. Len(s) - 1 PROVE r[i] = s[i + 1]
      <4>1. r[i] = b[i - (k - 1)]
        BY <3>3, <3>4, <2>3, <1>0
      <4>2. i - (k - 1) \in 1 .. Len(s) - k /\ i - (k - 1) + k = i + 1
        BY <2>3, <1>0
      <4>3. b[i - (k - 1)] = s[i - (k - 1) + k]
        BY <3>2, <4>2 DEF b
      <4> QED BY <4>1, <4>2, <4>3
    <3> QED BY <3>1, <3>3, <3>4, <3>5, <2>3, <1>0 DEF a
  <2>5. DOMAIN r = 1 .. Len(s) - 1
    BY <2>4
  <2>6. ToSet(r) \subseteq ToSet(s)
    <3> SUFFICES ASSUME NEW i \in 1 .. Len(s) - 1 PROVE \E j \in 1 .. Len(s) : r[i] = s[j]
      BY <2>5, <1>0 DEF ToSet
    <3> QED BY <2>3, <2>4, <1>0
  <2>7. ToSet(s) \ {e} \subseteq ToSet(r)
    <3> SUFFICES ASSUME NEW j \in 1 .. Len(s), s[j] # e PROVE \E i \in 1 .. Len(s) - 1 : r[i] = s[j]
      BY <2>5, <1>0 DEF ToSet
    <3>1. CASE j < k
      BY <3>1, <2>3, <2>4, <1>0
    <3>2. CASE j > k
      <4>1. j - 1 \in k .. Len(s) - 1 /\ j - 1 + 1 = j /\ j - 1 \in 1 .. Len(s) - 1
        BY <3>2, <2>3, <1>0
      <4> QED BY <4>1, <2>4
    <3> QED BY <3>1, <3>2, <2>3
  <2>8. ASSUME Once(s) PROVE Once(r) /\ e \notin ToSet(r)
    <3>1. \A i \in 1 .. Len(s) - 1 : \/ i < k /\ r[i] = s[i]
                                     \/ i >= k /\ r[i] = s[i + 1]
      BY <2>3, <2>4, <1>0
    <3>2. Once(r)
      BY <3>1, <2>8, <2>5, <2>3, <1>0 DEF Once
    <3>3. \A i \in 1 .. Len(s) - 1 : r[i] # e
      BY <3>1, <2>8, <2>3, <1>0 DEF Once
    <3> QED BY <3>2, <3>3, <2>5 DEF ToSet
  <2> QED BY <2>4, <2>6, <2>7, <2>8 DEF r
<1> QED BY <1>1, <1>2

(* The promises of both lists are rejected and differ; those listed are    *)
(* not yet delivered, except the head of the batch while its handler runs. *)
RjListed ==
  /\ Once(rjPending) /\ Once(rjBatch) /\ ToSet(rjPending) \cap ToSet(rjBatch) = {}
  /\ ToSet(rjPending) \cap rjReported = {}
  /\ \A p \in RjPromises : rjPromise[p] = "pending" =>
       p \notin ToSet(rjPending) \cup ToSet(rjBatch) \cup rjReported

RjBatchAt ==
  /\ rjPhase \notin {"unhandled", "in_handler"} => rjBatch = <<>>
  /\ rjPhase = "unhandled" => ToSet(rjBatch) \cap rjReported = {}
  /\ rjPhase = "in_handler" => /\ rjBatch # <<>> /\ Head(rjBatch) \in rjReported
                               /\ ToSet(Tail(rjBatch)) \cap rjReported = {}

RjIInv == RjTypeOK /\ RjListed /\ RjBatchAt

LEMMA NoList == ToSet(<<>>) = {} /\ Once(<<>>)
BY DEF ToSet, Once

LEMMA RjInitial == RjInit => RjIInv
<1> SUFFICES ASSUME RjInit PROVE RjIInv
  OBVIOUS
<1>1. RjTypeOK
  <2>1. rjPolls \in 0 .. RjMaxPolls
    BY RejectionsAssumption DEF RjInit
  <2>2. rjListener \in BOOLEAN /\ rjPhase \in RjPhases
    BY DEF RjInit, RjPhases
  <2>3. rjPending \in Seq(RjPromises) /\ rjHandled \in Seq(RjPromises) /\ rjBatch \in Seq(RjPromises)
    BY DEF RjInit
  <2>4. rjPromise \in [RjPromises -> {"pending", "rejected", "caught"}]
    BY DEF RjInit
  <2> QED BY <2>1, <2>2, <2>3, <2>4 DEF RjInit, RjTypeOK
<1> QED BY <1>1, NoList DEF RjInit, RjIInv, RjListed, RjBatchAt

LEMMA RejectKeeps ==
  ASSUME RjIInv, NEW p \in RjPromises, Reject(p)
  PROVE  RjIInv'
<1>1. /\ rjPending' \in Seq(RjPromises) /\ ToSet(rjPending') = ToSet(rjPending) \cup {p}
      /\ Once(rjPending')
  BY ListAppend DEF RjIInv, RjTypeOK, RjListed, Reject
<1>2. RjTypeOK'
  BY <1>1 DEF RjIInv, RjTypeOK, Reject
<1>3. RjListed'
  BY <1>1 DEF RjIInv, RjTypeOK, RjListed, Reject
<1> QED BY <1>2, <1>3 DEF RjIInv, RjBatchAt, Reject

LEMMA AddHandlerKeeps ==
  ASSUME RjIInv, NEW p \in RjPromises, AddHandler(p)
  PROVE  RjIInv'
<1>1. /\ rjPending' \in Seq(RjPromises) /\ ToSet(rjPending') \subseteq ToSet(rjPending)
      /\ Once(rjPending')
  BY ListRemove DEF RjIInv, RjTypeOK, RjListed, AddHandler, Withdrawn
<1>2. RjTypeOK'
  <2>1. rjHandled' \in Seq(RjPromises)
    BY DEF RjIInv, RjTypeOK, AddHandler
  <2> QED BY <1>1, <2>1 DEF RjIInv, RjTypeOK, AddHandler
<1>3. RjListed'
  BY <1>1 DEF RjIInv, RjTypeOK, RjListed, AddHandler
<1> QED BY <1>2, <1>3 DEF RjIInv, RjBatchAt, AddHandler

LEMMA FailsKeeps ==
  ASSUME RjIInv, PollFails(Thrown0),
         UNCHANGED <<rjPromise, rjPending, rjHandled, rjListener, rjReported, rjPolls>>
  PROVE  RjIInv' /\ rjResult' \in Values
<1>1. rjResult' \in Values /\ rjDispatched' = NoException /\ rjPhase' = "out" /\ rjBatch' = <<>>
  BY DEF RjIInv, RjTypeOK, PollFails, ErrorValue, Values
<1>2. RjTypeOK'
  BY <1>1 DEF RjIInv, RjTypeOK, RjPhases
<1> QED BY <1>1, <1>2, NoList DEF RjIInv, RjListed, RjBatchAt

LEMMA PollStepsKeep ==
  ASSUME RjIInv,
         \/ SetListener \/ ReportException \/ RjPoll \/ PopHandled \/ ListenerReturns
         \/ TerminatedUnnoticed
         \/ CheckException /\ rjDispatched = NoException
  PROVE  RjIInv'
<1>1. UNCHANGED <<rjPromise, rjPending, rjReported, rjBatch>>
  BY DEF SetListener, ReportException, RjPoll, PopHandled, ListenerReturns, TerminatedUnnoticed,
         CheckException
<1>2. RjBatchAt'
  BY <1>1 DEF RjIInv, RjBatchAt, SetListener, ReportException, RjPoll, PopHandled, ListenerReturns,
         TerminatedUnnoticed, CheckException
<1>3. rjHandled' \in Seq(RjPromises)
  <2>1. CASE PopHandled
    BY <2>1, ListTail DEF RjIInv, RjTypeOK, PopHandled
  <2>2. CASE ~PopHandled
    BY <2>2 DEF RjIInv, RjTypeOK, SetListener, ReportException, RjPoll,
       ListenerReturns, TerminatedUnnoticed, CheckException
  <2> QED BY <2>1, <2>2
<1>4. RjTypeOK'
  <2>1. rjPolls' \in 0 .. RjMaxPolls
    BY RejectionsAssumption DEF RjIInv, RjTypeOK, SetListener,
       ReportException, RjPoll, PopHandled, ListenerReturns, TerminatedUnnoticed, CheckException
  <2>2. rjListener' \in BOOLEAN /\ rjPhase' \in RjPhases
    BY DEF RjIInv, RjTypeOK, RjPhases, SetListener,
       ReportException, RjPoll, PopHandled, ListenerReturns, TerminatedUnnoticed, CheckException
  <2>3. rjDispatched' \in Values \cup {NoException} /\ rjResult' \in Values \cup {"ok", "panic"}
    BY DEF RjIInv, RjTypeOK, Values, SetListener,
       ReportException, RjPoll, PopHandled, ListenerReturns, TerminatedUnnoticed, CheckException
  <2> QED BY <1>1, <1>3, <2>1, <2>2, <2>3 DEF RjIInv, RjTypeOK
<1> QED BY <1>1, <1>2, <1>4 DEF RjIInv, RjListed

LEMMA TakeKeeps ==
  ASSUME RjIInv, TakePending
  PROVE  RjIInv'
<1>1. rjPending' = <<>> /\ rjBatch' = rjPending /\ rjBatch = <<>>
  BY DEF TakePending, PendingAfterSwap, RjIInv, RjBatchAt
<1>2. RjTypeOK'
  BY <1>1 DEF RjIInv, RjTypeOK, RjPhases, TakePending
<1> QED BY <1>1, <1>2, NoList DEF RjIInv, RjListed, RjBatchAt, TakePending

LEMMA NextUnhandledKeeps ==
  ASSUME RjIInv, NextUnhandled
  PROVE  RjIInv'
<1>1. CASE rjBatch = <<>>
  <2>1. RjTypeOK'
    BY <1>1 DEF RjIInv, RjTypeOK, RjPhases, NextUnhandled
  <2> QED BY <1>1, <2>1 DEF RjIInv, RjListed, RjBatchAt, NextUnhandled
<1>2. CASE rjBatch # <<>>
  <2>1. /\ Head(rjBatch) \in RjPromises
        /\ ToSet(rjBatch) = {Head(rjBatch)} \cup ToSet(Tail(rjBatch))
        /\ Head(rjBatch) \notin ToSet(Tail(rjBatch))
    BY <1>2, ListTail DEF RjIInv, RjTypeOK, RjListed
  <2>2. RjTypeOK'
    BY <1>2, <2>1 DEF RjIInv, RjTypeOK, RjPhases, NextUnhandled
  <2> QED BY <1>2, <2>1, <2>2 DEF RjIInv, RjListed, RjBatchAt, NextUnhandled
<1> QED BY <1>1, <1>2

LEMMA HandlerReturnsKeeps ==
  ASSUME RjIInv, NEW handled \in BOOLEAN, HandlerReturns(handled)
  PROVE  RjIInv'
<1>1. /\ Tail(rjBatch) \in Seq(RjPromises) /\ Once(Tail(rjBatch))
      /\ Head(rjBatch) \in RjPromises
      /\ ToSet(rjBatch) = {Head(rjBatch)} \cup ToSet(Tail(rjBatch))
  BY ListTail DEF RjIInv, RjTypeOK, RjListed, RjBatchAt, HandlerReturns
<1>2. RjTypeOK'
  BY <1>1 DEF RjIInv, RjTypeOK, RjPhases, HandlerReturns, Values
<1> QED BY <1>1, <1>2 DEF RjIInv, RjListed, RjBatchAt, HandlerReturns

LEMMA RjInductive == RjIInv /\ [RjNext]_rjVars => RjIInv'
<1> SUFFICES ASSUME RjIInv, [RjNext]_rjVars PROVE RjIInv'
  OBVIOUS
<1>1. CASE UNCHANGED rjVars
  BY <1>1 DEF rjVars, RjIInv, RjTypeOK, RjListed, RjBatchAt
<1>2. CASE \E p \in RjPromises : Reject(p) \/ AddHandler(p)
  BY <1>2, RejectKeeps, AddHandlerKeeps
<1>3. CASE \E handled \in BOOLEAN : HandlerReturns(handled)
  BY <1>3, HandlerReturnsKeeps
<1>4. CASE HandlerThrows \/ Terminated \/ (CheckException /\ rjDispatched # NoException)
  BY <1>4, FailsKeeps DEF HandlerThrows, Terminated, CheckException
<1>5. CASE TakePending \/ NextUnhandled
  BY <1>5, TakeKeeps, NextUnhandledKeeps
<1>6. CASE SetListener \/ ReportException \/ RjPoll \/ PopHandled \/ ListenerReturns
           \/ TerminatedUnnoticed \/ (CheckException /\ rjDispatched = NoException)
  BY <1>6, PollStepsKeep
<1> QED BY <1>1, <1>2, <1>3, <1>4, <1>5, <1>6 DEF RjNext

(* The step that takes a promise out of the lists undelivered. *)
LEMMA DeliveredOrFatal ==
  ASSUME RjIInv, [RjNext]_rjVars, NEW p \in RjPromises, Undelivered(p), ~Undelivered(p)'
  PROVE  p \in rjReported' \/ rjPromise'[p] = "caught" \/ rjResult' \in Values
<1>1. CASE UNCHANGED <<rjPending, rjBatch>>
  BY <1>1 DEF Undelivered
<1>2. CASE \E q \in RjPromises : Reject(q)
  <2>1. PICK q \in RjPromises : Reject(q)
    BY <1>2
  <2>2. ToSet(rjPending') = ToSet(rjPending) \cup {q}
    BY <2>1, ListAppend DEF RjIInv, RjTypeOK, Reject
  <2> QED BY <2>1, <2>2 DEF Undelivered, Reject
<1>3. CASE \E q \in RjPromises : AddHandler(q)
  <2>1. PICK q \in RjPromises : AddHandler(q)
    BY <1>3
  <2>2. ToSet(rjPending) \ {q} \subseteq ToSet(rjPending')
    BY <2>1, ListRemove DEF RjIInv, RjTypeOK, AddHandler, Withdrawn
  <2>3. CASE p = q
    BY <2>1, <2>3 DEF RjIInv, RjTypeOK, AddHandler
  <2>4. CASE p # q
    BY <2>1, <2>2, <2>4 DEF Undelivered, AddHandler
  <2> QED BY <2>3, <2>4
<1>4. CASE TakePending
  BY <1>4 DEF Undelivered, TakePending, PendingAfterSwap, RjIInv, RjBatchAt, ToSet
<1>5. CASE \E handled \in BOOLEAN : HandlerReturns(handled)
  <2>1. ToSet(rjBatch) = {Head(rjBatch)} \cup ToSet(Tail(rjBatch))
    BY <1>5, ListTail DEF RjIInv, RjTypeOK, RjBatchAt, HandlerReturns
  <2> QED BY <1>5, <2>1 DEF Undelivered, HandlerReturns, RjIInv, RjBatchAt
<1>6. CASE HandlerThrows \/ Terminated \/ (CheckException /\ rjDispatched # NoException)
  BY <1>6, FailsKeeps DEF HandlerThrows, Terminated, CheckException
<1> QED BY <1>1, <1>2, <1>3, <1>4, <1>5, <1>6 DEF RjNext, rjVars, SetListener, ReportException,
      RjPoll, PopHandled, ListenerReturns, NextUnhandled, TerminatedUnnoticed, CheckException

(* For any number of promises and polls, whatever scripts reject and       *)
(* handle between the phases and inside the handlers: a rejection leaves   *)
(* the lists only delivered, handled, or with a poll that fails, and is    *)
(* delivered once.                                                         *)
THEOREM RejectionsAreAccountedFor == RjSpec => RejectionsAccountedFor
<1> DEFINE Step == /\ \A p \in RjPromises :
                        Undelivered(p) /\ ~Undelivered(p)' =>
                          p \in rjReported' \/ rjPromise'[p] = "caught" \/ rjResult' \in Values
                   /\ NextUnhandled /\ rjBatch # <<>> => Head(rjBatch) \notin rjReported
<1>1. RjInit => RjIInv
  BY RjInitial
<1>2. RjIInv /\ [RjNext]_rjVars => RjIInv'
  BY RjInductive
<1>3. RjIInv => RjTypeOK
  BY DEF RjIInv
<1>4. RjIInv /\ [RjNext]_rjVars => Step
  <2> SUFFICES ASSUME RjIInv, [RjNext]_rjVars PROVE Step
    OBVIOUS
  <2>1. ASSUME NextUnhandled, rjBatch # <<>> PROVE Head(rjBatch) \notin rjReported
    <3>1. Head(rjBatch) \in ToSet(rjBatch)
      BY <2>1, ListTail DEF RjIInv, RjTypeOK
    <3> QED BY <3>1, <2>1 DEF RjIInv, RjBatchAt, NextUnhandled
  <2> QED BY <2>1, DeliveredOrFatal
<1>5. RjIInv /\ [RjNext]_rjVars => [Step]_rjVars
  BY <1>4
<1> HIDE DEF Step
<1>6. RjSpec => []RjTypeOK /\ [][Step]_rjVars
  BY <1>1, <1>2, <1>3, <1>5, PTL DEF RjSpec
<1> QED BY <1>6 DEF RejectionsAccountedFor, Step

----------------------------------------------------------------------------
(***************************************************************************)
(* UvTcp, for any sockets, buffers and numbers of calls.  What the         *)
(* invariant needs beyond the property: how the queue of a handle goes on  *)
(* where its wire ends.                                                    *)
(***************************************************************************)

Item == [w : Writes, left : Nat]
TcpRecord ==
  [active : BOOLEAN, closed : BOOLEAN, stream : BOOLEAN, reading : BOOLEAN,
   connecting : BOOLEAN, listening : BOOLEAN, backlog : Nat, queue : Seq(Item)]
KernelRecord ==
  [room : Nat, input : Nat, eof : BOOLEAN, broken : BOOLEAN,
   connected : {"no", "yes", "refused"}, arrived : Nat]
Working == {"connect", "listen", "notified", "read", "reading", "eof", "write", "writing"}
Elsewhere == {"parked", "before", "after"}
IoRecord ==
  [at : Elsewhere \cup {"pick"} \cup Working, i : Nat, pass : Nat, spin : Nat,
   any_work : BOOLEAN, in_cb : BOOLEAN, h : Tcps \cup {NoTcp}]
WriteStatus == {"unused", "queued", "ok", "failed", "dropped"}

HandleTypes ==
  /\ tcp \in [Tcps -> TcpRecord] /\ kernel \in [Tcps -> KernelRecord]
  /\ tcp_handles \in Seq(Tcps) /\ Once(tcp_handles)
  /\ io \in IoRecord /\ (io.at \in Working => io.h \in Tcps)
  /\ peer_acts \in 0 .. MaxPeer

(* Every connection of a backlog is one that a peer has made. *)
WithinLimits ==
  \A h \in Tcps : /\ tcp[h].backlog + kernel[h].arrived <= peer_acts
                  /\ kernel[h].room <= Capacity

WriteTypes ==
  /\ size \in [Writes -> Nat] /\ status \in [Writes -> WriteStatus]
  /\ wire \in [Tcps -> Seq(Writes)]
  /\ \E n \in 0 .. MaxWrites : \A w \in Writes : status[w] # "unused" <=> w <= n

(* Where the units of a write are on the wire r. *)
Sent(r, w) == {i \in DOMAIN r : r[i] = w}

(* The queue q and the wire r of one handle: the writes are queued in the  *)
(* order of the calls and behind what is on the wire; what a queued write  *)
(* lacks of its size is on the wire; only the first has begun.             *)
FlowOf(q, r, st, sz) ==
  /\ \A k \in DOMAIN q : /\ st[q[k].w] = "queued"
                         /\ Cardinality(Sent(r, q[k].w)) + q[k].left = sz[q[k].w]
  /\ \A j, k \in DOMAIN q : j < k => q[j].w < q[k].w
  /\ \A i \in DOMAIN r : /\ st[r[i]] # "unused"
                         /\ st[r[i]] = "queued" => q # <<>> /\ r[i] = q[1].w
  /\ \A i \in DOMAIN r : \A k \in DOMAIN q : r[i] <= q[k].w
  /\ \A i, j \in DOMAIN r : i < j => r[i] <= r[j]

QueuesApart ==
  \A g, h \in Tcps : g # h =>
    \A j \in DOMAIN tcp[g].queue, k \in DOMAIN tcp[h].queue :
      tcp[g].queue[j].w # tcp[h].queue[k].w

OkIsSent ==
  \A w \in Writes : status[w] = "ok" =>
    \E h \in Tcps : Cardinality(Sent(wire[h], w)) = size[w]

Flows == \A h \in Tcps : FlowOf(tcp[h].queue, wire[h], status, size)

TcpIInv ==
  /\ HandleTypes /\ WithinLimits
  /\ WriteTypes /\ Flows /\ QueuesApart /\ OkIsSent

----------------------------------------------------------------------------
LEMMA WritesAreNumbers == Writes \subseteq Nat
BY TcpAssumption DEF Writes

(* The wire r2 is r with k more units of the write w. *)
Extends(r, r2, w, k) ==
  /\ r2 \in Seq(Writes)
  /\ Len(r) \in Nat /\ DOMAIN r = 1 .. Len(r) /\ DOMAIN r2 = 1 .. Len(r) + k
  /\ \A i \in DOMAIN r : r2[i] = r[i]
  /\ \A i \in DOMAIN r2 \ DOMAIN r : r2[i] = w
  /\ \A x \in Writes \ {w} : Sent(r2, x) = Sent(r, x)
  /\ Cardinality(Sent(r, w)) \in Nat
  /\ Cardinality(Sent(r2, w)) = Cardinality(Sent(r, w)) + k

LEMMA WithUnits ==
  ASSUME NEW r \in Seq(Writes), NEW w \in Writes, NEW k \in Nat
  PROVE  Extends(r, r \o Units(w, k), w, k)
<1> DEFINE u == Units(w, k)
           r2 == r \o u
           L == Len(r)
<1>1. u \in Seq(Writes) /\ Len(u) = k /\ \A i \in 1 .. k : u[i] = w
  BY DEF Units
<1> HIDE DEF u
<1>2. L \in Nat /\ DOMAIN r = 1 .. L
  OBVIOUS
<1>3. /\ r2 \in Seq(Writes) /\ DOMAIN r2 = 1 .. L + k
      /\ \A i \in 1 .. L : r2[i] = r[i]
      /\ \A i \in L + 1 .. L + k : r2[i] = u[i - L]
  BY <1>1
<1> HIDE DEF r2, L
<1>4. \A i \in L + 1 .. L + k : r2[i] = w
  <2> SUFFICES ASSUME NEW i \in L + 1 .. L + k PROVE r2[i] = w
    OBVIOUS
  <2>1. i - L \in 1 .. k
    BY <1>2
  <2> QED BY <2>1, <1>1, <1>3
<1>5. DOMAIN r2 \ DOMAIN r = L + 1 .. L + k
  BY <1>2, <1>3
<1>6. \A x \in Writes \ {w} : Sent(r2, x) = Sent(r, x)
  <2> SUFFICES ASSUME NEW x \in Writes \ {w} PROVE Sent(r2, x) = Sent(r, x)
    OBVIOUS
  <2>1. \A i \in 1 .. L + k : i \in 1 .. L \/ i \in L + 1 .. L + k
    BY <1>2
  <2>2. 1 .. L \subseteq 1 .. L + k
    BY <1>2
  <2> QED BY <1>2, <1>3, <1>4, <2>1, <2>2 DEF Sent
<1>7. Sent(r2, w) = Sent(r, w) \cup (L + 1 .. L + k) /\ Sent(r, w) \cap (L + 1 .. L + k) = {}
  <2>1. \A i \in 1 .. L + k : i \in 1 .. L \/ i \in L + 1 .. L + k
    BY <1>2
  <2>2. 1 .. L \subseteq 1 .. L + k /\ (L + 1 .. L + k) \subseteq 1 .. L + k
    BY <1>2
  <2>3. (1 .. L) \cap (L + 1 .. L + k) = {}
    BY <1>2
  <2> QED BY <1>2, <1>3, <1>4, <2>1, <2>2, <2>3 DEF Sent
<1>8. IsFiniteSet(Sent(r, w)) /\ Cardinality(Sent(r, w)) \in Nat
  <2>1. IsFiniteSet(1 .. L)
    BY <1>2, FS_Interval
  <2>2. Sent(r, w) \subseteq 1 .. L
    BY <1>2 DEF Sent
  <2> QED BY <2>1, <2>2, FS_Subset, FS_CardinalityType
<1>9. IsFiniteSet(L + 1 .. L + k) /\ Cardinality(L + 1 .. L + k) = k
  <2> DEFINE a == L + 1
             b == L + k
  <2>1. a \in Int /\ b \in Int /\ (a > b <=> k = 0) /\ b - a + 1 = k
    BY <1>2
  <2> HIDE DEF a, b
  <2>2. IsFiniteSet(a .. b) /\ Cardinality(a .. b) = IF a > b THEN 0 ELSE b - a + 1
    BY <2>1, FS_Interval
  <2>3. IsFiniteSet(a .. b) /\ Cardinality(a .. b) = k
    BY <2>1, <2>2
  <2> QED BY <2>3 DEF a, b
<1>10. Cardinality(Sent(r2, w)) = Cardinality(Sent(r, w)) + k
  <2>1. Cardinality(Sent(r, w) \cup (L + 1 .. L + k))
          = Cardinality(Sent(r, w)) + Cardinality(L + 1 .. L + k)
            - Cardinality(Sent(r, w) \cap (L + 1 .. L + k))
    BY <1>8, <1>9, FS_Union
  <2>2. Cardinality(Sent(r, w) \cap (L + 1 .. L + k)) = 0
    BY <1>7, FS_EmptySet
  <2> QED BY <2>1, <2>2, <1>7, <1>8, <1>9
<1> QED BY <1>2, <1>3, <1>4, <1>5, <1>6, <1>8, <1>10 DEF u, r2, L, Extends

(* The first write of the queue is continued and not finished. *)
LEMMA FlowContinues ==
  ASSUME NEW q \in Seq(Item), NEW r \in Seq(Writes), NEW st, NEW sz,
         FlowOf(q, r, st, sz), q # <<>>,
         NEW k \in 0 .. Head(q).left
  PROVE  LET q2 == <<Left(Head(q).w, Head(q).left, k)>> \o Tail(q) IN
         /\ q2 \in Seq(Item) /\ FlowOf(q2, r \o Units(Head(q).w, k), st, sz)
         /\ {q2[j].w : j \in DOMAIN q2} = {q[j].w : j \in DOMAIN q}
<1> DEFINE w == Head(q).w
           n == Head(q).left
           q2 == <<Left(w, n, k)>> \o Tail(q)
           r2 == r \o Units(w, k)
<1>1. /\ Len(q) \in Nat \ {0} /\ DOMAIN q = 1 .. Len(q) /\ Head(q) = q[1] /\ q[1] \in Item
      /\ \A j \in DOMAIN q : q[j] \in Item
  OBVIOUS
<1>2. w \in Writes /\ n \in Nat /\ q[1].w = w /\ q[1].left = n
  BY <1>1 DEF Item
<1>3. Left(w, n, k) \in Item /\ Left(w, n, k).w = w /\ Left(w, n, k).left = n - k
  BY <1>2 DEF Left, Item
<1>4. /\ q2 \in Seq(Item) /\ DOMAIN q2 = DOMAIN q /\ q2[1] = Left(w, n, k) /\ q2 # <<>>
      /\ \A j \in 2 .. Len(q) : q2[j] = q[j]
  <2> DEFINE a == Left(w, n, k)
  <2>1. a \in Item
    BY <1>3
  <2> HIDE DEF a
  <2>2. /\ <<a>> \o Tail(q) \in Seq(Item) /\ Len(<<a>> \o Tail(q)) = Len(q)
        /\ (<<a>> \o Tail(q))[1] = a
        /\ \A j \in 2 .. Len(q) : (<<a>> \o Tail(q))[j] = q[j]
    BY <2>1, <1>1
  <2> QED BY <2>2, <1>1 DEF a
<1>5. /\ r2 \in Seq(Writes) /\ DOMAIN r \subseteq DOMAIN r2
      /\ Len(r) \in Nat /\ DOMAIN r = 1 .. Len(r) /\ DOMAIN r2 = 1 .. Len(r) + k
      /\ \A i \in DOMAIN r : r2[i] = r[i]
      /\ \A i \in DOMAIN r2 \ DOMAIN r : r2[i] = w
      /\ \A x \in Writes \ {w} : Sent(r2, x) = Sent(r, x)
      /\ Cardinality(Sent(r, w)) \in Nat
      /\ Cardinality(Sent(r2, w)) = Cardinality(Sent(r, w)) + k
  <2> HIDE DEF w, n
  <2>1. k \in Nat
    BY <1>2 DEF n
  <2>2. Extends(r, r2, w, k)
    BY <1>2, <2>1, WithUnits
  <2> HIDE DEF r2
  <2>3. DOMAIN r \subseteq DOMAIN r2
    BY <2>1, <2>2 DEF Extends
  <2> QED BY <2>2, <2>3 DEF Extends
<1> HIDE DEF w, n, q2, r2
<1>6. \A j \in DOMAIN q : q2[j].w = q[j].w
  BY <1>1, <1>2, <1>3, <1>4
<1>7. \A j \in DOMAIN q : q[j].w \in Writes /\ q[j].left \in Nat
  BY <1>1 DEF Item
<1>8. \A j \in DOMAIN q2 : Cardinality(Sent(r2, q2[j].w)) + q2[j].left = sz[q2[j].w]
  <2> SUFFICES ASSUME NEW j \in DOMAIN q
               PROVE  Cardinality(Sent(r2, q2[j].w)) + q2[j].left = sz[q2[j].w]
    BY <1>4
  <2>1. CASE j = 1
    <3>1. Cardinality(Sent(r, w)) + n = sz[w]
      BY <1>1, <1>2 DEF FlowOf
    <3>2. q2[j].w = w /\ q2[j].left = n - k
      BY <2>1, <1>3, <1>4
    <3> QED BY <3>1, <3>2, <1>2, <1>5
  <2>2. CASE j # 1
    <3>1. q2[j] = q[j]
      BY <2>2, <1>1, <1>4
    <3>2. q[1].w < q[j].w
      BY <2>2, <1>1 DEF FlowOf
    <3>3. q[j].w \in Writes \ {w}
      BY <3>2, <1>2, <1>7, WritesAreNumbers
    <3> QED BY <3>1, <3>3, <1>5 DEF FlowOf
  <2> QED BY <2>1, <2>2
<1>9. \A i \in DOMAIN r2 : i \in DOMAIN r \/ r2[i] = w
  BY <1>5
<1>10. \A i \in DOMAIN r2 : r2[i] \in Writes
  BY <1>5
<1>11. \A j \in DOMAIN q : w <= q[j].w
  <2> SUFFICES ASSUME NEW j \in DOMAIN q PROVE w <= q[j].w
    OBVIOUS
  <2>1. CASE j = 1
    BY <2>1, <1>2, WritesAreNumbers
  <2>2. CASE j # 1
    <3>1. 1 \in DOMAIN q /\ 1 < j
      BY <2>2, <1>1
    <3>2. q[1].w < q[j].w
      BY <3>1 DEF FlowOf
    <3>3. w \in Nat /\ q[j].w \in Nat /\ w < q[j].w
      BY <3>2, <1>2, <1>7, WritesAreNumbers
    <3> QED BY <3>3
  <2> QED BY <2>1, <2>2
<1>12. FlowOf(q2, r2, st, sz)
  <2>1. \A j \in DOMAIN q2 : st[q2[j].w] = "queued"
    BY <1>4, <1>6 DEF FlowOf
  <2>2. \A i, j \in DOMAIN q2 : i < j => q2[i].w < q2[j].w
    BY <1>4, <1>6 DEF FlowOf
  <2>3. \A i \in DOMAIN r2 : st[r2[i]] # "unused" /\ (st[r2[i]] = "queued" => r2[i] = q2[1].w)
    <3> SUFFICES ASSUME NEW i \in DOMAIN r2
                 PROVE  st[r2[i]] # "unused" /\ (st[r2[i]] = "queued" => r2[i] = q2[1].w)
      OBVIOUS
    <3>1. CASE i \in DOMAIN r
      BY <3>1, <1>1, <1>5, <1>6 DEF FlowOf
    <3>2. CASE r2[i] = w
      BY <3>2, <1>1, <1>2, <1>6 DEF FlowOf
    <3> QED BY <3>1, <3>2, <1>9
  <2>4. \A i \in DOMAIN r2 : \A j \in DOMAIN q2 : r2[i] <= q2[j].w
    BY <1>4, <1>5, <1>6, <1>9, <1>11 DEF FlowOf
  <2>5. \A i, j \in DOMAIN r2 : i < j => r2[i] <= r2[j]
    <3> SUFFICES ASSUME NEW i \in DOMAIN r2, NEW j \in DOMAIN r2, i < j PROVE r2[i] <= r2[j]
      OBVIOUS
    <3>1. CASE j \in DOMAIN r
      <4>1. i \in DOMAIN r
        BY <3>1, <1>5
      <4> QED BY <3>1, <4>1, <1>5 DEF FlowOf
    <3>2. CASE r2[j] = w
      <4>1. r2[i] <= w
        <5>1. 1 \in DOMAIN q2 /\ q2[1].w = w
          BY <1>1, <1>2, <1>4, <1>6
        <5> QED BY <2>4, <5>1
      <4> QED BY <3>2, <4>1
    <3> QED BY <3>1, <3>2, <1>9
  <2> QED BY <1>4, <1>8, <2>1, <2>2, <2>3, <2>4, <2>5 DEF FlowOf
<1>13. {q2[j].w : j \in DOMAIN q2} = {q[j].w : j \in DOMAIN q}
  BY <1>4, <1>6
<1> QED BY <1>4, <1>12, <1>13 DEF q2, r2, w, n

(* The first write of the queue ends, with k more units on the wire. *)
LEMMA FlowPops ==
  ASSUME NEW q \in Seq(Item), NEW r \in Seq(Writes), NEW st \in [Writes -> WriteStatus], NEW sz,
         FlowOf(q, r, st, sz), q # <<>>, NEW k \in Nat, NEW r2, Extends(r, r2, Head(q).w, k),
         NEW s \in {"ok", "failed"}
  PROVE  /\ Tail(q) \in Seq(Item)
         /\ FlowOf(Tail(q), r2, [st EXCEPT ![Head(q).w] = s], sz)
         /\ {Tail(q)[j].w : j \in DOMAIN Tail(q)} \subseteq {q[j].w : j \in DOMAIN q}
<1> DEFINE w == Head(q).w
           t == Tail(q)
           st2 == [st EXCEPT ![w] = s]
<1>1. /\ Len(q) \in Nat \ {0} /\ DOMAIN q = 1 .. Len(q) /\ Head(q) = q[1]
      /\ \A j \in DOMAIN q : q[j] \in Item
      /\ t \in Seq(Item) /\ DOMAIN t = 1 .. Len(q) - 1 /\ Len(t) = Len(q) - 1
      /\ \A j \in 1 .. Len(q) - 1 : t[j] = q[j + 1]
  OBVIOUS
<1>2. w \in Writes /\ w = q[1].w /\ 1 \in DOMAIN q
  BY <1>1 DEF Item
<1>3. st2 \in [Writes -> WriteStatus] /\ st2[w] = s /\ \A x \in Writes \ {w} : st2[x] = st[x]
  BY <1>2 DEF WriteStatus
<1>4. Extends(r, r2, w, k)
  OBVIOUS
<1> HIDE DEF w, t, st2
<1>5. \A j \in DOMAIN t : j + 1 \in DOMAIN q /\ t[j] = q[j + 1] /\ 1 < j + 1
  BY <1>1
<1>6. \A j \in DOMAIN t : t[j].w \in Writes \ {w} /\ w < t[j].w
  <2> SUFFICES ASSUME NEW j \in DOMAIN t PROVE t[j].w \in Writes \ {w} /\ w < t[j].w
    OBVIOUS
  <2>1. t[j].w \in Writes /\ w < t[j].w
    BY <1>1, <1>2, <1>5 DEF FlowOf, Item
  <2>2. w \in Nat /\ t[j].w \in Nat
    BY <2>1, <1>2, WritesAreNumbers
  <2> QED BY <2>1, <2>2
<1>7. \A i \in DOMAIN r2 : r2[i] \in Writes /\ ((i \in DOMAIN r /\ r2[i] = r[i]) \/ r2[i] = w)
  BY <1>4 DEF Extends
<1>8. \A i \in DOMAIN r : r[i] <= w
  BY <1>2 DEF FlowOf
<1>9. \A i \in DOMAIN r2 : r2[i] <= w /\ r2[i] \in Nat
  <2> SUFFICES ASSUME NEW i \in DOMAIN r2 PROVE r2[i] <= w /\ r2[i] \in Nat
    OBVIOUS
  <2>1. w \in Nat /\ r2[i] \in Nat
    BY <1>2, <1>7, WritesAreNumbers
  <2> QED BY <2>1, <1>7, <1>8
<1>10. FlowOf(t, r2, st2, sz)
  <2>1. \A j \in DOMAIN t : /\ st2[t[j].w] = "queued"
                            /\ Cardinality(Sent(r2, t[j].w)) + t[j].left = sz[t[j].w]
    <3> SUFFICES ASSUME NEW j \in DOMAIN t
                 PROVE  /\ st2[t[j].w] = "queued"
                        /\ Cardinality(Sent(r2, t[j].w)) + t[j].left = sz[t[j].w]
      OBVIOUS
    <3>1. st[t[j].w] = "queued" /\ Cardinality(Sent(r, t[j].w)) + t[j].left = sz[t[j].w]
      BY <1>5 DEF FlowOf
    <3>2. Sent(r2, t[j].w) = Sent(r, t[j].w)
      BY <1>4, <1>6 DEF Extends
    <3> QED BY <3>1, <3>2, <1>3, <1>6
  <2>2. \A i, j \in DOMAIN t : i < j => t[i].w < t[j].w
    <3> SUFFICES ASSUME NEW i \in DOMAIN t, NEW j \in DOMAIN t, i < j PROVE t[i].w < t[j].w
      OBVIOUS
    <3>1. i + 1 < j + 1
      BY <1>1
    <3> QED BY <3>1, <1>5 DEF FlowOf
  <2>3. \A i \in DOMAIN r2 : st2[r2[i]] # "unused" /\ st2[r2[i]] # "queued"
    <3> SUFFICES ASSUME NEW i \in DOMAIN r2
                 PROVE  st2[r2[i]] # "unused" /\ st2[r2[i]] # "queued"
      OBVIOUS
    <3>1. CASE r2[i] = w
      BY <3>1, <1>3
    <3>2. CASE i \in DOMAIN r /\ r2[i] = r[i] /\ r2[i] # w
      BY <3>2, <1>2, <1>3, <1>7 DEF FlowOf
    <3> QED BY <3>1, <3>2, <1>7
  <2>4. \A i \in DOMAIN r2 : \A j \in DOMAIN t : r2[i] <= t[j].w
    <3> SUFFICES ASSUME NEW i \in DOMAIN r2, NEW j \in DOMAIN t PROVE r2[i] <= t[j].w
      OBVIOUS
    <3>1. r2[i] \in Nat /\ w \in Nat /\ t[j].w \in Nat /\ r2[i] <= w /\ w < t[j].w
      BY <1>2, <1>6, <1>9, WritesAreNumbers
    <3> QED BY <3>1
  <2>5. \A i, j \in DOMAIN r2 : i < j => r2[i] <= r2[j]
    <3> SUFFICES ASSUME NEW i \in DOMAIN r2, NEW j \in DOMAIN r2, i < j PROVE r2[i] <= r2[j]
      OBVIOUS
    <3>1. CASE j \in DOMAIN r
      <4>1. i \in DOMAIN r /\ r2[i] = r[i] /\ r2[j] = r[j]
        BY <3>1, <1>4 DEF Extends
      <4> QED BY <3>1, <4>1 DEF FlowOf
    <3>2. CASE r2[j] = w
      BY <3>2, <1>9
    <3> QED BY <3>1, <3>2, <1>7
  <2> QED BY <2>1, <2>2, <2>3, <2>4, <2>5 DEF FlowOf
<1>11. {t[j].w : j \in DOMAIN t} \subseteq {q[j].w : j \in DOMAIN q}
  BY <1>5
<1> QED BY <1>1, <1>10, <1>11 DEF t, st2, w

(* The write w of n units has put k of them on the wire r2, and ends in    *)
(* the state s or is queued with the rest.                                 *)
Begins(r2, st, sz, w, n, k, s) ==
  /\ FlowOf(<<>>, r2, [st EXCEPT ![w] = s], [sz EXCEPT ![w] = n])
  /\ FlowOf(<<Left(w, n, k)>>, r2, [st EXCEPT ![w] = "queued"], [sz EXCEPT ![w] = n])
  /\ Cardinality(Sent(r2, w)) = k

Fresh(st, w) == st[w] = "unused" /\ \A x \in Writes : st[x] # "unused" <=> x < w

(* A write later than all others goes out at once, wholly or in part. *)
LEMMA FlowBegins ==
  ASSUME NEW r \in Seq(Writes), NEW st \in [Writes -> WriteStatus], NEW sz \in [Writes -> Nat],
         FlowOf(<<>>, r, st, sz), NEW w \in Writes, Fresh(st, w),
         NEW n \in Nat, NEW k \in 0 .. n, NEW r2, Extends(r, r2, w, k),
         NEW s \in WriteStatus \ {"unused", "queued"}
  PROVE  Begins(r2, st, sz, w, n, k, s)
<1> USE DEF Fresh
<1> DEFINE q == <<Left(w, n, k)>>
           sz2 == [sz EXCEPT ![w] = n]
<1>1. DOMAIN q = {1} /\ q[1].w = w /\ q[1].left = n - k /\ q # <<>>
  BY DEF Left
<1>2. sz2[w] = n
  OBVIOUS
<1>3. Cardinality(Sent(r2, w)) = k
  <2>1. Sent(r, w) = {}
    BY DEF FlowOf, Sent
  <2>2. Cardinality(Sent(r, w)) = 0
    BY <2>1, FS_EmptySet
  <2> QED BY <2>2 DEF Extends
<1> HIDE DEF q, sz2
<1>4. \A i \in DOMAIN r : r[i] \in Writes /\ r[i] < w /\ st[r[i]] \notin {"unused", "queued"}
  BY DEF FlowOf
<1>5. \A i \in DOMAIN r2 : \/ i \in DOMAIN r /\ r2[i] = r[i] /\ r2[i] \in Writes \ {w}
                           \/ r2[i] = w
  <2>1. w \in Nat /\ \A i \in DOMAIN r : r[i] \in Nat
    BY <1>4, WritesAreNumbers
  <2> QED BY <1>4, <2>1 DEF Extends
<1>6. \A i \in DOMAIN r2 : r2[i] \in Nat /\ r2[i] <= w
  <2>1. w \in Nat /\ \A i \in DOMAIN r : r[i] \in Nat
    BY <1>4, WritesAreNumbers
  <2> QED BY <1>4, <1>5, <2>1
<1>7. \A i, j \in DOMAIN r2 : i < j => r2[i] <= r2[j]
  <2> SUFFICES ASSUME NEW i \in DOMAIN r2, NEW j \in DOMAIN r2, i < j PROVE r2[i] <= r2[j]
    OBVIOUS
  <2>1. CASE j \in DOMAIN r
    <3>1. i \in DOMAIN r /\ r2[i] = r[i] /\ r2[j] = r[j]
      BY <2>1 DEF Extends
    <3> QED BY <2>1, <3>1 DEF FlowOf
  <2>2. CASE r2[j] = w
    BY <2>2, <1>6
  <2> QED BY <2>1, <2>2, <1>5
<1>8. FlowOf(<<>>, r2, [st EXCEPT ![w] = s], sz2)
  <2>1. \A i \in DOMAIN r2 : [st EXCEPT ![w] = s][r2[i]] \notin {"unused", "queued"}
    BY <1>4, <1>5
  <2> QED BY <2>1, <1>7 DEF FlowOf
<1>9. FlowOf(q, r2, [st EXCEPT ![w] = "queued"], sz2)
  <2> DEFINE st2 == [st EXCEPT ![w] = "queued"]
  <2>1. st2[w] = "queued" /\ \A i \in DOMAIN r2 : st2[r2[i]] # "unused" /\
          (st2[r2[i]] = "queued" => r2[i] = w)
    BY <1>4, <1>5
  <2> HIDE DEF st2
  <2>2. Cardinality(Sent(r2, w)) + (n - k) = n
    BY <1>3
  <2>3. FlowOf(q, r2, st2, sz2)
    BY <1>1, <1>2, <1>6, <1>7, <2>1, <2>2 DEF FlowOf
  <2> QED BY <2>3 DEF st2
<1> QED BY <1>3, <1>8, <1>9 DEF q, sz2, Begins

(* A write later than all others is put behind those that wait. *)
LEMMA FlowQueues ==
  ASSUME NEW q \in Seq(Item), NEW r \in Seq(Writes), NEW st \in [Writes -> WriteStatus],
         NEW sz \in [Writes -> Nat], FlowOf(q, r, st, sz), q # <<>>,
         NEW w \in Writes, st[w] = "unused", \A x \in Writes : st[x] # "unused" <=> x < w,
         NEW n \in Nat
  PROVE  FlowOf(Append(q, Left(w, n, 0)), r, [st EXCEPT ![w] = "queued"], [sz EXCEPT ![w] = n])
<1> DEFINE a == Left(w, n, 0)
           q2 == Append(q, a)
           st2 == [st EXCEPT ![w] = "queued"]
           sz2 == [sz EXCEPT ![w] = n]
<1>1. a \in Item /\ a.w = w /\ a.left = n
  BY DEF Left, Item
<1>2. /\ st2[w] = "queued" /\ sz2[w] = n
      /\ \A x \in Writes \ {w} : st2[x] = st[x] /\ sz2[x] = sz[x]
  OBVIOUS
<1> HIDE DEF a
<1>3. /\ Len(q) \in Nat \ {0} /\ DOMAIN q = 1 .. Len(q) /\ DOMAIN q2 = 1 .. Len(q) + 1
      /\ \A j \in 1 .. Len(q) : q2[j] = q[j] /\ q[j] \in Item
      /\ q2[Len(q) + 1] = a
  BY <1>1
<1> HIDE DEF q2, st2, sz2
<1>4. \A j \in DOMAIN q2 : \/ j \in DOMAIN q /\ q2[j] = q[j]
                           \/ j = Len(q) + 1 /\ q2[j] = a
  <2>1. \A j \in 1 .. Len(q) + 1 : j \in 1 .. Len(q) \/ j = Len(q) + 1
    BY <1>3
  <2> QED BY <2>1, <1>3
<1>5. \A j \in DOMAIN q : q[j].w \in Writes \ {w} /\ q[j].w < w
  <2> SUFFICES ASSUME NEW j \in DOMAIN q PROVE q[j].w \in Writes \ {w} /\ q[j].w < w
    OBVIOUS
  <2>1. q[j].w \in Writes /\ st[q[j].w] = "queued"
    BY <1>3 DEF Item, FlowOf
  <2> QED BY <2>1
<1>6. \A i \in DOMAIN r : r[i] \in Writes \ {w} /\ r[i] < w
  BY DEF FlowOf
<1>7. Cardinality(Sent(r, w)) = 0
  <2>1. Sent(r, w) = {}
    BY <1>6 DEF Sent
  <2> QED BY <2>1, FS_EmptySet
<1>8. \A j \in DOMAIN q2 : /\ st2[q2[j].w] = "queued"
                           /\ Cardinality(Sent(r, q2[j].w)) + q2[j].left = sz2[q2[j].w]
  <2> SUFFICES ASSUME NEW j \in DOMAIN q2
               PROVE  /\ st2[q2[j].w] = "queued"
                      /\ Cardinality(Sent(r, q2[j].w)) + q2[j].left = sz2[q2[j].w]
    OBVIOUS
  <2>1. CASE j \in DOMAIN q /\ q2[j] = q[j]
    BY <2>1, <1>2, <1>5 DEF FlowOf
  <2>2. CASE q2[j] = a
    BY <2>2, <1>1, <1>2, <1>7
  <2> QED BY <2>1, <2>2, <1>4
<1>9. \A i, j \in DOMAIN q2 : i < j => q2[i].w < q2[j].w
  <2> SUFFICES ASSUME NEW i \in DOMAIN q2, NEW j \in DOMAIN q2, i < j PROVE q2[i].w < q2[j].w
    OBVIOUS
  <2>1. i \in DOMAIN q /\ q2[i] = q[i]
    BY <1>3
  <2>2. CASE j \in DOMAIN q /\ q2[j] = q[j]
    BY <2>1, <2>2 DEF FlowOf
  <2>3. CASE q2[j] = a
    BY <2>1, <2>3, <1>1, <1>5
  <2> QED BY <2>2, <2>3, <1>4
<1>10. 1 \in DOMAIN q /\ q2[1] = q[1] /\ q2 # <<>>
  BY <1>3
<1>11. \A i \in DOMAIN r : st2[r[i]] # "unused" /\ (st2[r[i]] = "queued" => r[i] = q2[1].w)
  BY <1>2, <1>6, <1>10 DEF FlowOf
<1>12. \A i \in DOMAIN r : \A j \in DOMAIN q2 : r[i] <= q2[j].w
  <2> SUFFICES ASSUME NEW i \in DOMAIN r, NEW j \in DOMAIN q2 PROVE r[i] <= q2[j].w
    OBVIOUS
  <2>1. CASE j \in DOMAIN q /\ q2[j] = q[j]
    BY <2>1 DEF FlowOf
  <2>2. CASE q2[j] = a
    <3>1. r[i] \in Nat /\ w \in Nat /\ r[i] < w
      BY <1>6, WritesAreNumbers
    <3> QED BY <3>1, <2>2, <1>1
  <2> QED BY <2>1, <2>2, <1>4
<1>13. FlowOf(q2, r, st2, sz2)
  BY <1>8, <1>9, <1>10, <1>11, <1>12 DEF FlowOf
<1> QED BY <1>13 DEF q2, st2, sz2, a

----------------------------------------------------------------------------
WSet(q) == {q[j].w : j \in DOMAIN q}

(* The next write is later than all others. *)
LEMMA NextIsFresh ==
  ASSUME WriteTypes, NextWrite \in Writes
  PROVE  /\ status[NextWrite] = "unused"
         /\ \A x \in Writes : status[x] # "unused" <=> x < NextWrite
<1>1. PICK n \in 0 .. MaxWrites : \A w \in Writes : status[w] # "unused" <=> w <= n
  BY DEF WriteTypes
<1>2. MaxWrites \in Nat
  BY TcpAssumption
<1>3. {w \in Writes : status[w] # "unused"} = 1 .. n
  BY <1>1, <1>2 DEF Writes
<1>4. Cardinality(1 .. n) = n
  <2>1. Cardinality(1 .. n) = IF 1 > n THEN 0 ELSE n - 1 + 1
    BY <1>2, FS_Interval
  <2> QED BY <2>1, <1>2
<1>5. NextWrite = n + 1
  BY <1>3, <1>4 DEF NextWrite
<1> QED BY <1>1, <1>2, <1>5 DEF Writes

(* The write w makes progress on the handle h, whose wire and queue become *)
(* r2 and q2; the other handles are left alone.                            *)
Advances(h, w, k, r2, q2, s) ==
  /\ status[w] \in {"unused", "queued"} /\ (status[w] = "queued" => w \in WSet(tcp[h].queue))
  /\ s \in WriteStatus \ {"unused"} /\ status' = [status EXCEPT ![w] = s]
  /\ size' \in [Writes -> Nat] /\ \A x \in Writes \ {w} : size'[x] = size[x]
  /\ wire' = [wire EXCEPT ![h] = r2] /\ Extends(wire[h], r2, w, k)
  /\ \A g \in Tcps : tcp'[g].queue = IF g = h THEN q2 ELSE tcp[g].queue
  /\ FlowOf(q2, r2, status', size') /\ WSet(q2) \subseteq WSet(tcp[h].queue) \cup {w}
  /\ s = "ok" => Cardinality(Sent(r2, w)) = size'[w]
  /\ \E n \in 0 .. MaxWrites : \A x \in Writes : status'[x] # "unused" <=> x <= n

WritesKept == WriteTypes' /\ Flows' /\ QueuesApart' /\ OkIsSent'

LEMMA WriteKeeps ==
  ASSUME HandleTypes, WriteTypes, Flows, QueuesApart, OkIsSent,
         NEW h \in Tcps, NEW w \in Writes, NEW k, NEW r2, NEW q2, NEW s,
         Advances(h, w, k, r2, q2, s)
  PROVE  WritesKept
<1> USE DEF Advances
<1>1. /\ \A x \in Writes \ {w} : status'[x] = status[x]
      /\ status'[w] = s /\ status' \in [Writes -> WriteStatus]
  BY DEF WriteTypes
<1>2. /\ wire' \in [Tcps -> Seq(Writes)] /\ wire'[h] = r2
      /\ \A g \in Tcps \ {h} : wire'[g] = wire[g]
  BY DEF WriteTypes, Extends
<1>3. WriteTypes'
  BY <1>1, <1>2 DEF WriteTypes
<1>4. \A g \in Tcps : /\ tcp[g].queue \in Seq(Item) /\ wire[g] \in Seq(Writes)
                      /\ FlowOf(tcp[g].queue, wire[g], status, size)
  BY DEF HandleTypes, TcpRecord, WriteTypes, Flows
<1>5. ASSUME NEW g \in Tcps \ {h}
      PROVE  /\ \A j \in DOMAIN tcp[g].queue : tcp[g].queue[j].w \in Writes \ {w}
             /\ \A i \in DOMAIN wire[g] : wire[g][i] \in Writes \ {w}
  <2> DEFINE q == tcp[g].queue
             r == wire[g]
  <2>1. q \in Seq(Item) /\ r \in Seq(Writes) /\ FlowOf(q, r, status, size)
    BY <1>4
  <2>2. \A j \in DOMAIN q : status[q[j].w] = "queued" /\ q[j].w \in Writes
    <3> HIDE DEF q, r
    <3>1. \A j \in DOMAIN q : q[j] \in Item
      BY <2>1
    <3> QED BY <2>1, <3>1 DEF FlowOf, Item
  <2>3. \A j \in DOMAIN q : q[j].w # w
    <3> SUFFICES ASSUME NEW j \in DOMAIN q, q[j].w = w PROVE FALSE
      OBVIOUS
    <3>1. w \in WSet(tcp[h].queue)
      BY <2>2
    <3>2. PICK i \in DOMAIN tcp[h].queue : tcp[h].queue[i].w = w
      BY <3>1 DEF WSet
    <3> QED BY <3>2 DEF QueuesApart
  <2>4. ASSUME NEW i \in DOMAIN r PROVE r[i] \in Writes \ {w}
    <3> HIDE DEF q, r
    <3>1. /\ status[r[i]] # "unused" /\ r[i] \in Writes
          /\ status[r[i]] = "queued" => q # <<>> /\ r[i] = q[1].w
      BY <2>1 DEF FlowOf
    <3>2. q # <<>> => 1 \in DOMAIN q
      BY <2>1
    <3> QED BY <3>1, <3>2, <2>3
  <2> QED BY <2>2, <2>3, <2>4
<1>6. Flows'
  <2> SUFFICES ASSUME NEW g \in Tcps PROVE FlowOf(tcp'[g].queue, wire'[g], status', size')
    BY DEF Flows
  <2>1. CASE g = h
    BY <2>1, <1>2
  <2>2. CASE g # h
    <3> DEFINE q == tcp[g].queue
               r == wire[g]
    <3>1. q \in Seq(Item) /\ r \in Seq(Writes) /\ FlowOf(q, r, status, size)
      BY <1>4
    <3>2. /\ \A j \in DOMAIN q : q[j].w \in Writes \ {w}
          /\ \A i \in DOMAIN r : r[i] \in Writes \ {w}
      BY <1>5, <2>2
    <3>3. tcp'[g].queue = q /\ wire'[g] = r
      BY <1>2, <2>2
    <3> HIDE DEF q, r
    <3>4. \A j \in DOMAIN q : status'[q[j].w] = status[q[j].w] /\ size'[q[j].w] = size[q[j].w]
      BY <1>1, <3>2
    <3>5. \A i \in DOMAIN r : status'[r[i]] = status[r[i]]
      BY <1>1, <3>2
    <3>6. FlowOf(q, r, status', size')
      BY <3>1, <3>4, <3>5 DEF FlowOf
    <3> QED BY <3>3, <3>6
  <2> QED BY <2>1, <2>2
<1>7. QueuesApart'
  <2>1. ASSUME NEW g \in Tcps \ {h}, NEW i \in DOMAIN q2, NEW j \in DOMAIN tcp[g].queue
        PROVE  q2[i].w # tcp[g].queue[j].w
    <3>1. q2[i].w \in WSet(tcp[h].queue) \cup {w}
      BY DEF WSet
    <3>2. CASE q2[i].w = w
      BY <3>2, <1>5
    <3>3. CASE q2[i].w \in WSet(tcp[h].queue)
      <4>1. PICK l \in DOMAIN tcp[h].queue : tcp[h].queue[l].w = q2[i].w
        BY <3>3 DEF WSet
      <4> QED BY <4>1 DEF QueuesApart
    <3> QED BY <3>1, <3>2, <3>3
  <2>2. ASSUME NEW f \in Tcps, NEW g \in Tcps, f # g,
               NEW i \in DOMAIN tcp'[f].queue, NEW j \in DOMAIN tcp'[g].queue
        PROVE  tcp'[f].queue[i].w # tcp'[g].queue[j].w
    <3>1. CASE f = h
      <4>1. tcp'[f].queue = q2 /\ tcp'[g].queue = tcp[g].queue /\ g \in Tcps \ {h}
        BY <3>1, <2>2
      <4> QED BY <4>1, <2>1
    <3>2. CASE g = h
      <4>1. tcp'[g].queue = q2 /\ tcp'[f].queue = tcp[f].queue /\ f \in Tcps \ {h}
        BY <3>2, <2>2
      <4> QED BY <4>1, <2>1
    <3>3. CASE f # h /\ g # h
      <4>1. tcp'[g].queue = tcp[g].queue /\ tcp'[f].queue = tcp[f].queue
        BY <3>3
      <4> QED BY <4>1, <2>2 DEF QueuesApart
    <3> QED BY <3>1, <3>2, <3>3
  <2> QED BY <2>2 DEF QueuesApart
<1>8. OkIsSent'
  <2> SUFFICES ASSUME NEW x \in Writes, status'[x] = "ok"
               PROVE  \E g \in Tcps : Cardinality(Sent(wire'[g], x)) = size'[x]
    BY DEF OkIsSent
  <2>1. CASE x = w
    BY <2>1, <1>1, <1>2
  <2>2. CASE x # w
    <3>1. PICK g \in Tcps : Cardinality(Sent(wire[g], x)) = size[x]
      BY <2>2, <1>1 DEF OkIsSent
    <3>2. Sent(wire'[g], x) = Sent(wire[g], x)
      BY <2>2, <1>2 DEF Extends
    <3> QED BY <2>2, <3>1, <3>2
  <2> QED BY <2>1, <2>2
<1> QED BY <1>3, <1>6, <1>7, <1>8 DEF WritesKept

(* Steps that leave the queues and the writes alone. *)
LEMMA QuietKeeps ==
  ASSUME WriteTypes, Flows, QueuesApart, OkIsSent,
         UNCHANGED <<size, status, wire>>, \A h \in Tcps : tcp'[h].queue = tcp[h].queue
  PROVE  WritesKept
<1>1. WriteTypes' /\ OkIsSent'
  BY DEF WriteTypes, OkIsSent
<1>2. Flows'
  BY DEF Flows
<1>3. QueuesApart'
  BY DEF QueuesApart
<1> QED BY <1>1, <1>2, <1>3 DEF WritesKept

(* What a handle and its socket are before a step. *)
LEMMA HandleIs ==
  ASSUME HandleTypes, WithinLimits, NEW h \in Tcps
  PROVE  /\ tcp[h] \in TcpRecord /\ kernel[h] \in KernelRecord
         /\ tcp[h].queue \in Seq(Item) /\ tcp[h].backlog \in Nat /\ kernel[h].arrived \in Nat
         /\ kernel[h].room \in Nat
         /\ tcp[h].backlog + kernel[h].arrived <= peer_acts /\ kernel[h].room <= Capacity
         /\ peer_acts \in 0 .. MaxPeer /\ peer_acts \in Nat /\ Capacity \in Nat /\ peer_acts <= peer_acts
         /\ tcp = [tcp EXCEPT ![h] = tcp[h]] /\ kernel = [kernel EXCEPT ![h] = kernel[h]]
<1>1. tcp[h] \in TcpRecord /\ kernel[h] \in KernelRecord
  BY DEF HandleTypes
<1>2. /\ tcp[h].queue \in Seq(Item) /\ tcp[h].backlog \in Nat /\ kernel[h].arrived \in Nat
      /\ kernel[h].room \in Nat
  BY <1>1 DEF TcpRecord, KernelRecord
<1>3. peer_acts \in 0 .. MaxPeer /\ MaxPeer \in Nat /\ Capacity \in Nat
  BY TcpAssumption DEF HandleTypes
<1>4. tcp = [tcp EXCEPT ![h] = tcp[h]] /\ kernel = [kernel EXCEPT ![h] = kernel[h]]
  BY DEF HandleTypes
<1> QED BY <1>1, <1>2, <1>3, <1>4 DEF WithinLimits

(* Steps on one handle h. *)
LEMMA HandleKeeps ==
  ASSUME HandleTypes, WithinLimits, NEW h \in Tcps, NEW t \in TcpRecord, NEW k \in KernelRecord,
         tcp' = [tcp EXCEPT ![h] = t], kernel' = [kernel EXCEPT ![h] = k],
         peer_acts' \in 0 .. MaxPeer, peer_acts <= peer_acts',
         t.backlog + k.arrived <= peer_acts', k.room <= Capacity,
         tcp_handles' \in {tcp_handles, Listed(h), RemoveFirst(tcp_handles, h)},
         io' \in IoRecord, io'.at \in Working => io'.h \in Tcps
  PROVE  /\ HandleTypes' /\ WithinLimits'
         /\ \A g \in Tcps : tcp'[g].queue = IF g = h THEN t.queue ELSE tcp[g].queue
<1>1. /\ tcp' \in [Tcps -> TcpRecord] /\ tcp'[h] = t /\ \A g \in Tcps \ {h} : tcp'[g] = tcp[g]
      /\ kernel' \in [Tcps -> KernelRecord] /\ kernel'[h] = k
      /\ \A g \in Tcps \ {h} : kernel'[g] = kernel[g]
  BY DEF HandleTypes
<1>2. tcp_handles' \in Seq(Tcps) /\ Once(tcp_handles')
  <2>1. CASE tcp_handles' = tcp_handles
    BY <2>1 DEF HandleTypes
  <2>2. CASE tcp_handles' = Listed(h)
    BY <2>2, ListAppend DEF HandleTypes, Listed
  <2>3. CASE tcp_handles' = RemoveFirst(tcp_handles, h)
    BY <2>3, ListRemove DEF HandleTypes
  <2> QED BY <2>1, <2>2, <2>3
<1>3. HandleTypes'
  BY <1>1, <1>2 DEF HandleTypes
<1>4. WithinLimits'
  <2> SUFFICES ASSUME NEW g \in Tcps
               PROVE  tcp'[g].backlog + kernel'[g].arrived <= peer_acts' /\ kernel'[g].room <= Capacity
    BY DEF WithinLimits
  <2>1. CASE g = h
    BY <2>1, <1>1
  <2>2. CASE g # h
    <3>1. tcp[g].backlog \in Nat /\ kernel[g].arrived \in Nat /\ peer_acts \in Nat /\ peer_acts' \in Nat
      BY HandleIs, TcpAssumption
    <3>2. tcp[g].backlog + kernel[g].arrived <= peer_acts /\ kernel[g].room <= Capacity
      BY DEF WithinLimits
    <3> QED BY <2>2, <1>1, <3>1, <3>2
  <2> QED BY <2>1, <2>2
<1> QED BY <1>1, <1>3, <1>4

Quiet ==
  /\ HandleTypes' /\ WithinLimits'
  /\ \A g \in Tcps : tcp'[g].queue = tcp[g].queue

(* The calls other than those that write and close. *)
LEMMA CallsAreQuiet ==
  ASSUME HandleTypes, WithinLimits, NEW h \in Tcps,
         UvTcpConnect(h) \/ UvTcpOpen(h) \/ UvListen(h) \/ UvReadStart(h) \/ UvReadStop(h)
  PROVE  Quiet
<1> DEFINE t == tcp[h]
           stays == StaysActive(t)
<1>1. t \in TcpRecord
  BY HandleIs
<1>2. stays \in BOOLEAN
  BY DEF StaysActive
<1>3. \E x \in TcpRecord : /\ tcp' = [tcp EXCEPT ![h] = x] /\ x.queue = t.queue
                           /\ x.backlog = t.backlog
  <2> HIDE DEF stays
  <2>1. CASE UvTcpConnect(h)
    <3> DEFINE x == [[t EXCEPT !.active = TRUE] EXCEPT !.connecting = TRUE]
    <3>1. tcp' = [tcp EXCEPT ![h] = x]
      BY <2>1 DEF UvTcpConnect
    <3> HIDE DEF t
    <3>2. x \in TcpRecord /\ x.queue = t.queue /\ x.backlog = t.backlog
      BY <1>1 DEF TcpRecord
    <3> HIDE DEF x
    <3> QED BY <3>1, <3>2 DEF t
  <2>2. CASE UvTcpOpen(h)
    <3> DEFINE x == [t EXCEPT !.stream = TRUE]
    <3>1. tcp' = [tcp EXCEPT ![h] = x]
      BY <2>2 DEF UvTcpOpen
    <3> HIDE DEF t
    <3>2. x \in TcpRecord /\ x.queue = t.queue /\ x.backlog = t.backlog
      BY <1>1 DEF TcpRecord
    <3> HIDE DEF x
    <3> QED BY <3>1, <3>2 DEF t
  <2>3. CASE UvListen(h)
    <3> DEFINE x == [[t EXCEPT !.active = TRUE] EXCEPT !.listening = TRUE]
    <3>1. tcp' = [tcp EXCEPT ![h] = x]
      BY <2>3 DEF UvListen
    <3> HIDE DEF t
    <3>2. x \in TcpRecord /\ x.queue = t.queue /\ x.backlog = t.backlog
      BY <1>1 DEF TcpRecord
    <3> HIDE DEF x
    <3> QED BY <3>1, <3>2 DEF t
  <2>4. CASE UvReadStart(h)
    <3> DEFINE x == [[t EXCEPT !.reading = TRUE] EXCEPT !.active = TRUE]
    <3>1. tcp' = [tcp EXCEPT ![h] = x]
      BY <2>4 DEF UvReadStart
    <3> HIDE DEF t
    <3>2. x \in TcpRecord /\ x.queue = t.queue /\ x.backlog = t.backlog
      BY <1>1 DEF TcpRecord
    <3> HIDE DEF x
    <3> QED BY <3>1, <3>2 DEF t
  <2>5. CASE UvReadStop(h)
    <3> DEFINE x == [[t EXCEPT !.active = stays] EXCEPT !.reading = FALSE]
    <3>1. tcp' = [tcp EXCEPT ![h] = x]
      BY <2>5 DEF UvReadStop, stays
    <3> HIDE DEF t
    <3>2. x \in TcpRecord /\ x.queue = t.queue /\ x.backlog = t.backlog
      BY <1>1, <1>2 DEF TcpRecord
    <3> HIDE DEF x
    <3> QED BY <3>1, <3>2 DEF t
  <2> QED BY <2>1, <2>2, <2>3, <2>4, <2>5
<1>4. /\ UNCHANGED <<kernel, peer_acts, io>>
      /\ tcp_handles' \in {tcp_handles, Listed(h), RemoveFirst(tcp_handles, h)}
  BY DEF UvTcpConnect, UvTcpOpen, UvListen, UvReadStart, UvReadStop
<1>5. PICK x \in TcpRecord : /\ tcp' = [tcp EXCEPT ![h] = x] /\ x.queue = t.queue
                             /\ x.backlog = t.backlog
  BY <1>3
<1>6. io' \in IoRecord /\ (io'.at \in Working => io'.h \in Tcps)
  BY <1>4 DEF HandleTypes
<1>7. /\ kernel[h] \in KernelRecord /\ kernel' = [kernel EXCEPT ![h] = kernel[h]]
      /\ peer_acts' \in 0 .. MaxPeer /\ peer_acts <= peer_acts'
      /\ x.backlog + kernel[h].arrived <= peer_acts' /\ kernel[h].room <= Capacity
  BY <1>4, <1>5, HandleIs
<1> HIDE DEF t
<1>8. /\ HandleTypes' /\ WithinLimits'
      /\ \A g \in Tcps : tcp'[g].queue = IF g = h THEN x.queue ELSE tcp[g].queue
  BY <1>4, <1>5, <1>6, <1>7, HandleKeeps
<1> QED BY <1>5, <1>8 DEF Quiet, t

(* Steps that change the socket of h, or run_io's own state, only. *)
LEMMA SocketKeeps ==
  ASSUME HandleTypes, WithinLimits, NEW h \in Tcps, NEW k \in KernelRecord,
         kernel' = [kernel EXCEPT ![h] = k], UNCHANGED <<tcp, tcp_handles>>,
         peer_acts' \in 0 .. MaxPeer, peer_acts <= peer_acts',
         tcp[h].backlog + k.arrived <= peer_acts', k.room <= Capacity,
         io' \in IoRecord, io'.at \in Working => io'.h \in Tcps
  PROVE  Quiet
<1>1. /\ tcp[h] \in TcpRecord /\ tcp' = [tcp EXCEPT ![h] = tcp[h]]
      /\ tcp_handles' \in {tcp_handles, Listed(h), RemoveFirst(tcp_handles, h)}
  BY HandleIs
<1>2. HandleTypes' /\ WithinLimits'
  BY <1>1, HandleKeeps
<1> QED BY <1>2 DEF Quiet

LEMMA IoKeeps ==
  ASSUME HandleTypes, WithinLimits, UNCHANGED <<tcp, tcp_handles, kernel, peer_acts>>,
         io' \in IoRecord, io'.at \in Working => io'.h \in Tcps
  PROVE  Quiet
BY DEF HandleTypes, WithinLimits, Quiet

LEMMA PlacesOfIo ==
  ASSUME io \in IoRecord, NEW x \in Working \cup {"pick"}
  PROVE  /\ Goto(x) \in IoRecord /\ Goto(x).at = x /\ Goto(x).h = io.h /\ Goto(x).any_work = io.any_work
         /\ Callback(x) \in IoRecord /\ Callback(x).at = x /\ Callback(x).h = io.h
BY DEF IoRecord, Goto, Callback

LEMMA ShutdownAndPeerAreQuiet ==
  ASSUME HandleTypes, WithinLimits, NEW h \in Tcps, UvShutdown(h) \/ PeerReads(h) \/ PeerActs(h)
  PROVE  Quiet
<1> DEFINE k == kernel[h]
<1>1. k \in KernelRecord /\ k.arrived \in Nat /\ k.room \in Nat
  BY HandleIs
<1>2. \E x \in KernelRecord :
        /\ kernel' = [kernel EXCEPT ![h] = x] /\ x.room <= Capacity
        /\ x.arrived = k.arrived \/ (x.arrived = k.arrived + 1 /\ peer_acts' = peer_acts + 1)
  <2>0. Capacity \in Nat /\ k.room <= Capacity
    BY HandleIs
  <2> HIDE DEF k
  <2>1. ASSUME NEW x, x \in {[k EXCEPT !.broken = TRUE], [k EXCEPT !.room = Capacity],
                             [k EXCEPT !.input = 1], [k EXCEPT !.eof = TRUE]}
        PROVE  x \in KernelRecord /\ x.room <= Capacity /\ x.arrived = k.arrived
    <3>1. CASE x = [k EXCEPT !.broken = TRUE]
      BY <3>1, <2>0, <1>1 DEF KernelRecord
    <3>2. CASE x = [k EXCEPT !.room = Capacity]
      BY <3>2, <2>0, <1>1 DEF KernelRecord
    <3>3. CASE x = [k EXCEPT !.input = 1]
      BY <3>3, <2>0, <1>1 DEF KernelRecord
    <3>4. CASE x = [k EXCEPT !.eof = TRUE]
      BY <3>4, <2>0, <1>1 DEF KernelRecord
    <3> QED BY <2>1, <3>1, <3>2, <3>3, <3>4
  <2>2. ASSUME NEW c \in {"yes", "refused"}
        PROVE  /\ [k EXCEPT !.connected = c] \in KernelRecord
               /\ [k EXCEPT !.connected = c].room <= Capacity
               /\ [k EXCEPT !.connected = c].arrived = k.arrived
    BY <2>0, <2>2, <1>1 DEF KernelRecord
  <2>3. /\ [k EXCEPT !.arrived = k.arrived + 1] \in KernelRecord
        /\ [k EXCEPT !.arrived = k.arrived + 1].room <= Capacity
        /\ [k EXCEPT !.arrived = k.arrived + 1].arrived = k.arrived + 1
    BY <2>0, <1>1 DEF KernelRecord
  <2>4. CASE UvShutdown(h)
    <3>1. kernel' = [kernel EXCEPT ![h] = [k EXCEPT !.broken = TRUE]]
      BY <2>4 DEF UvShutdown, k
    <3> QED BY <3>1, <2>1
  <2>5. CASE PeerReads(h)
    <3>1. kernel' = [kernel EXCEPT ![h] = [k EXCEPT !.room = Capacity]]
      BY <2>5 DEF PeerReads, k
    <3> QED BY <3>1, <2>1
  <2>6. CASE PeerActs(h)
    <3>1. \/ kernel' = [kernel EXCEPT ![h] = [k EXCEPT !.input = 1]]
          \/ kernel' = [kernel EXCEPT ![h] = [k EXCEPT !.eof = TRUE]]
          \/ kernel' = [kernel EXCEPT ![h] = [k EXCEPT !.broken = TRUE]]
          \/ \E c \in {"yes", "refused"} : kernel' = [kernel EXCEPT ![h] = [k EXCEPT !.connected = c]]
          \/ kernel' = [kernel EXCEPT ![h] = [k EXCEPT !.arrived = k.arrived + 1]]
      BY <2>6 DEF PeerActs, k
    <3>2. peer_acts' = peer_acts + 1
      BY <2>6 DEF PeerActs
    <3> QED BY <3>1, <3>2, <2>1, <2>2, <2>3
  <2> QED BY <2>4, <2>5, <2>6
<1>3. /\ UNCHANGED <<tcp, tcp_handles, io>>
      /\ peer_acts' = peer_acts \/ (peer_acts < MaxPeer /\ peer_acts' = peer_acts + 1)
  BY DEF UvShutdown, PeerReads, PeerActs
<1>4. PICK x \in KernelRecord :
        /\ kernel' = [kernel EXCEPT ![h] = x] /\ x.room <= Capacity
        /\ x.arrived = k.arrived \/ (x.arrived = k.arrived + 1 /\ peer_acts' = peer_acts + 1)
  BY <1>2
<1>5. /\ peer_acts' \in 0 .. MaxPeer /\ peer_acts <= peer_acts'
      /\ tcp[h].backlog + x.arrived <= peer_acts'
  <2>1. /\ peer_acts \in 0 .. MaxPeer /\ MaxPeer \in Nat /\ tcp[h].backlog \in Nat
        /\ k.arrived \in Nat /\ tcp[h].backlog + k.arrived <= peer_acts
    BY HandleIs, TcpAssumption
  <2> HIDE DEF k
  <2> QED BY <1>3, <1>4, <2>1
<1>6. io' \in IoRecord /\ (io'.at \in Working => io'.h \in Tcps)
  BY <1>3 DEF HandleTypes
<1> QED BY <1>3, <1>4, <1>5, <1>6, SocketKeeps

(* The connection leaves the backlog of the server. *)
LEMMA AcceptIsQuiet ==
  ASSUME HandleTypes, WithinLimits, NEW h \in Tcps, NEW c \in Tcps \ {h}, UvAccept(h, c)
  PROVE  Quiet
<1> DEFINE s == [tcp[h] EXCEPT !.backlog = tcp[h].backlog - 1]
           t == [tcp[c] EXCEPT !.stream = TRUE]
<1>1. /\ tcp[h] \in TcpRecord /\ tcp[c] \in TcpRecord /\ tcp[h].backlog \in Nat /\ tcp[h].backlog > 0
      /\ UNCHANGED <<kernel, tcp_handles, peer_acts, io>>
  BY HandleIs DEF UvAccept
<1>2. s \in TcpRecord /\ s.queue = tcp[h].queue /\ s.backlog = tcp[h].backlog - 1
  BY <1>1 DEF TcpRecord
<1>3. t \in TcpRecord /\ t.queue = tcp[c].queue /\ t.backlog = tcp[c].backlog
  BY <1>1 DEF TcpRecord
<1>4. tcp' = [[tcp EXCEPT ![h] = s] EXCEPT ![c] = t]
  <2> DEFINE f == [tcp EXCEPT ![h] = s]
  <2>1. f[c] = tcp[c]
    BY DEF HandleTypes
  <2>2. tcp' = [f EXCEPT ![c] = [f[c] EXCEPT !.stream = TRUE]]
    BY DEF UvAccept
  <2> HIDE DEF f
  <2>3. tcp' = [f EXCEPT ![c] = t]
    BY <2>1, <2>2
  <2> QED BY <2>3 DEF f
<1> HIDE DEF s, t
<1>5. /\ tcp' \in [Tcps -> TcpRecord] /\ tcp'[h] = s /\ tcp'[c] = t
      /\ \A g \in Tcps \ {h, c} : tcp'[g] = tcp[g]
  BY <1>2, <1>3, <1>4 DEF HandleTypes
<1>6. HandleTypes'
  BY <1>1, <1>5 DEF HandleTypes
<1>7. ASSUME NEW g \in Tcps
      PROVE  /\ tcp'[g].queue = tcp[g].queue
             /\ tcp'[g].backlog + kernel'[g].arrived <= peer_acts' /\ kernel'[g].room <= Capacity
  <2>1. /\ tcp[g].backlog \in Nat /\ kernel[g].arrived \in Nat /\ peer_acts \in Nat
        /\ tcp[g].backlog + kernel[g].arrived <= peer_acts /\ kernel[g].room <= Capacity
    BY HandleIs
  <2>2. CASE g = h
    BY <2>1, <2>2, <1>1, <1>2, <1>5
  <2>3. CASE g = c
    BY <2>1, <2>3, <1>1, <1>3, <1>5
  <2>4. CASE g \notin {h, c}
    BY <2>1, <2>4, <1>1, <1>5
  <2> QED BY <2>2, <2>3, <2>4
<1> QED BY <1>6, <1>7 DEF Quiet, WithinLimits

(* The steps of run_io that write nothing. *)
LEMMA IoIsQuiet ==
  ASSUME HandleTypes, WithinLimits,
         \/ StartTick \/ RunIo \/ Pick \/ PollConnect \/ PollAccept \/ Notified
         \/ PollReadReady \/ TryRead \/ AfterEof \/ PollWriteReady \/ TcpCallbackEnds \/ EndTick
  PROVE  Quiet
<1>0. io \in IoRecord /\ (io.at \in Working => h0 \in Tcps)
  BY DEF HandleTypes, h0
<1>1. CASE RunIo
  <2>0. io.spin \in Nat
    BY <1>0 DEF IoRecord
  <2>1. StartPass(io.spin + 1, 1) \in IoRecord /\ StartPass(io.spin + 1, 1).at = "pick"
    BY <2>0 DEF StartPass, IoRecord
  <2>2. io' \in IoRecord /\ io'.at = "pick"
    BY <1>1, <2>1 DEF RunIo
  <2> QED BY <1>1, <2>2, IoKeeps DEF RunIo, Working
<1>2. CASE Pick
  <2>0. io.pass \in Nat /\ io.spin \in Nat /\ io.i \in Nat /\ io.any_work \in BOOLEAN
    BY <1>0 DEF IoRecord
  <2>1. CASE io.i >= Len(tcp_handles)
    <3>1. /\ Outside("before", io.spin) \in IoRecord /\ Outside("before", io.spin).at = "before"
          /\ Outside("after", 0) \in IoRecord /\ Outside("after", 0).at = "after"
      BY <2>0 DEF Outside, IoRecord, Elsewhere
    <3>2. /\ StartPass(io.spin, io.pass + 1) \in IoRecord
          /\ StartPass(io.spin, io.pass + 1).at = "pick"
      BY <2>0 DEF StartPass, IoRecord
    <3>3. io' \in IoRecord /\ io'.at \in {"pick", "before", "after"}
      BY <1>2, <2>1, <3>1, <3>2 DEF Pick
    <3> QED BY <1>2, <3>3, IoKeeps DEF Pick, Working
  <2>2. CASE ~(io.i >= Len(tcp_handles))
    <3> DEFINE h == tcp_handles[io.i + 1]
               p == IF Polls(tcp[h]) THEN "connect" ELSE "pick"
    <3>1. h \in Tcps
      BY <2>0, <2>2 DEF HandleTypes
    <3>2. io' = [at |-> p, i |-> io.i + 1, pass |-> io.pass, spin |-> io.spin,
                 any_work |-> io.any_work, in_cb |-> FALSE, h |-> h]
      BY <1>2, <2>2 DEF Pick
    <3>3. p \in {"connect", "pick"}
      OBVIOUS
    <3> HIDE DEF h, p
    <3>4. io' \in IoRecord /\ io'.h \in Tcps
      BY <2>0, <3>1, <3>2, <3>3 DEF IoRecord, Working
    <3> QED BY <1>2, <3>4, IoKeeps DEF Pick
  <2> QED BY <2>1, <2>2
<1>3. CASE PollConnect
  <2>0. h0 \in Tcps /\ io.h = h0
    BY <1>3, <1>0 DEF PollConnect, At, Working, h0
  <2>1. /\ Goto("listen") \in IoRecord /\ Goto("listen").h \in Tcps
        /\ Callback("listen") \in IoRecord /\ Callback("listen").h \in Tcps
    BY <1>0, <2>0, PlacesOfIo DEF Working
  <2>2. CASE tcp[h0].connecting /\ Writable(h0)
    <3> DEFINE yes == (kernel[h0].connected = "yes")
               x == [[tcp[h0] EXCEPT !.connecting = FALSE] EXCEPT !.stream = yes]
               k == [kernel[h0] EXCEPT !.connected = "no"]
    <3>1. /\ tcp' = [tcp EXCEPT ![h0] = x] /\ kernel' = [kernel EXCEPT ![h0] = k]
          /\ io' = Callback("listen")
      BY <1>3, <2>2 DEF PollConnect
    <3>2. yes \in BOOLEAN
      OBVIOUS
    <3> HIDE DEF yes
    <3>3. tcp[h0] \in TcpRecord /\ kernel[h0] \in KernelRecord
      BY <2>0, HandleIs
    <3>4. x \in TcpRecord /\ x.queue = tcp[h0].queue /\ x.backlog = tcp[h0].backlog
      BY <3>2, <3>3 DEF TcpRecord
    <3>5. k \in KernelRecord /\ k.arrived = kernel[h0].arrived /\ k.room = kernel[h0].room
      BY <3>3 DEF KernelRecord
    <3> HIDE DEF x, k
    <3>6. UNCHANGED <<tcp_handles, peer_acts>>
      BY <1>3 DEF PollConnect
    <3>7. /\ peer_acts' \in 0 .. MaxPeer /\ peer_acts <= peer_acts'
          /\ x.backlog + k.arrived <= peer_acts' /\ k.room <= Capacity
      BY <2>0, <3>4, <3>5, <3>6, HandleIs
    <3>8. tcp_handles' \in {tcp_handles, Listed(h0), RemoveFirst(tcp_handles, h0)}
      BY <3>6
    <3>9. io' \in IoRecord /\ io'.h \in Tcps
      BY <2>1, <3>1
    <3>10. /\ HandleTypes' /\ WithinLimits'
           /\ \A g \in Tcps : tcp'[g].queue = IF g = h0 THEN x.queue ELSE tcp[g].queue
      BY <2>0, <3>1, <3>4, <3>5, <3>7, <3>8, <3>9, HandleKeeps
    <3> QED BY <3>4, <3>10 DEF Quiet
  <2>3. CASE ~(tcp[h0].connecting /\ Writable(h0))
    <3>1. io' = Goto("listen") /\ UNCHANGED <<tcp, tcp_handles, kernel, peer_acts>>
      BY <1>3, <2>3 DEF PollConnect
    <3>2. io' \in IoRecord /\ io'.h \in Tcps
      BY <2>1, <3>1
    <3> QED BY <3>1, <3>2, IoKeeps
  <2> QED BY <2>2, <2>3
<1>4. CASE PollAccept
  <2>0. h0 \in Tcps /\ io.h = h0
    BY <1>4, <1>0 DEF PollAccept, At, Working, h0
  <2>1. Goto("read") \in IoRecord /\ Goto("read").h \in Tcps
    BY <1>0, <2>0, PlacesOfIo DEF Working
  <2>2. CASE tcp[h0].listening
    <3> DEFINE taken == IF "read" \in readiness[h0] THEN kernel[h0].arrived ELSE 0
               x == [tcp[h0] EXCEPT !.backlog = tcp[h0].backlog + taken]
               k == [kernel[h0] EXCEPT !.arrived = kernel[h0].arrived - taken]
               some == io.any_work \/ taken > 0
               worked == [io EXCEPT !.any_work = some]
               cb == [[worked EXCEPT !.at = "notified"] EXCEPT !.in_cb = TRUE]
               rd == [worked EXCEPT !.at = "read"]
    <3>1. tcp' = [tcp EXCEPT ![h0] = x] /\ kernel' = [kernel EXCEPT ![h0] = k]
      BY <1>4, <2>2 DEF PollAccept
    <3>2. io' \in {cb, rd}
      BY <1>4, <2>2 DEF PollAccept
    <3>3. some \in BOOLEAN
      OBVIOUS
    <3> HIDE DEF some
    <3>4. worked \in IoRecord /\ worked.h = io.h
      BY <1>0, <3>3 DEF IoRecord
    <3> HIDE DEF worked
    <3>5. cb \in IoRecord /\ cb.h = io.h /\ rd \in IoRecord /\ rd.h = io.h
      BY <3>4 DEF IoRecord, Working
    <3> HIDE DEF cb, rd
    <3>6. io' \in IoRecord /\ io'.h \in Tcps
      BY <2>0, <3>2, <3>5
    <3>7. /\ tcp[h0] \in TcpRecord /\ kernel[h0] \in KernelRecord
          /\ tcp[h0].backlog \in Nat /\ kernel[h0].arrived \in Nat
          /\ tcp[h0].backlog + kernel[h0].arrived <= peer_acts /\ kernel[h0].room <= Capacity
          /\ peer_acts \in 0 .. MaxPeer /\ peer_acts <= peer_acts
      BY <2>0, HandleIs
    <3>71. taken \in Nat /\ kernel[h0].arrived - taken \in Nat
      BY <3>7
    <3> HIDE DEF taken
    <3>72. tcp[h0].backlog + taken \in Nat
      BY <3>7, <3>71
    <3>8. /\ x \in TcpRecord /\ x.queue = tcp[h0].queue
          /\ x.backlog = tcp[h0].backlog + taken
      BY <3>7, <3>72 DEF TcpRecord
    <3>9. k \in KernelRecord /\ k.arrived = kernel[h0].arrived - taken /\ k.room = kernel[h0].room
      BY <3>7, <3>71 DEF KernelRecord
    <3> HIDE DEF x, k
    <3>10. UNCHANGED <<tcp_handles, peer_acts>>
      BY <1>4 DEF PollAccept
    <3>11. /\ peer_acts' \in 0 .. MaxPeer /\ peer_acts <= peer_acts'
           /\ x.backlog + k.arrived <= peer_acts' /\ k.room <= Capacity
      BY <3>7, <3>71, <3>8, <3>9, <3>10
    <3>12. tcp_handles' \in {tcp_handles, Listed(h0), RemoveFirst(tcp_handles, h0)}
      BY <3>10
    <3>13. /\ HandleTypes' /\ WithinLimits'
           /\ \A g \in Tcps : tcp'[g].queue = IF g = h0 THEN x.queue ELSE tcp[g].queue
      BY <2>0, <3>1, <3>6, <3>8, <3>9, <3>11, <3>12, HandleKeeps
    <3> QED BY <3>8, <3>13 DEF Quiet
  <2>3. CASE ~tcp[h0].listening
    <3>1. io' = Goto("read") /\ UNCHANGED <<tcp, tcp_handles, kernel, peer_acts>>
      BY <1>4, <2>3 DEF PollAccept
    <3>2. io' \in IoRecord /\ io'.h \in Tcps
      BY <2>1, <3>1
    <3> QED BY <3>1, <3>2, IoKeeps
  <2> QED BY <2>2, <2>3
<1>5. CASE Notified
  <2>0. h0 \in Tcps /\ io.h = h0
    BY <1>5, <1>0 DEF Notified, At, Working, h0
  <2>1. io' \in IoRecord /\ io'.h \in Tcps
    BY <1>0, <1>5, <2>0, PlacesOfIo DEF Working, Notified
  <2> QED BY <1>5, <2>1, IoKeeps DEF Notified
<1>6. CASE TryRead
  <2>0. h0 \in Tcps /\ io.h = h0
    BY <1>6, <1>0 DEF TryRead, At, Working, h0
  <2>1. ASSUME NEW p \in {"reading", "eof", "write"}
        PROVE  /\ Goto(p) \in IoRecord /\ Goto(p).h \in Tcps
               /\ Callback(p) \in IoRecord /\ Callback(p).h \in Tcps
    BY <1>0, <2>0, PlacesOfIo DEF Working
  <2>2. [Callback("reading") EXCEPT !.any_work = TRUE] \in IoRecord
        /\ [Callback("reading") EXCEPT !.any_work = TRUE].h \in Tcps
    BY <2>1 DEF IoRecord
  <2>3. /\ io' \in {[Callback("reading") EXCEPT !.any_work = TRUE], Callback("eof"), Goto("write")}
        /\ UNCHANGED <<tcp, tcp_handles, peer_acts>>
        /\ kernel' \in {kernel, [kernel EXCEPT ![h0] = [kernel[h0] EXCEPT !.input = 0]]}
    BY <1>6 DEF TryRead
  <2>4. io' \in IoRecord /\ io'.h \in Tcps
    BY <2>1, <2>2, <2>3
  <2>5. CASE kernel' = kernel
    BY <2>3, <2>4, <2>5, IoKeeps
  <2>6. CASE kernel' = [kernel EXCEPT ![h0] = [kernel[h0] EXCEPT !.input = 0]]
    <3> DEFINE k == [kernel[h0] EXCEPT !.input = 0]
    <3>1. kernel[h0] \in KernelRecord
      BY <2>0, HandleIs
    <3>2. k \in KernelRecord /\ k.arrived = kernel[h0].arrived /\ k.room = kernel[h0].room
      BY <3>1 DEF KernelRecord
    <3>3. kernel' = [kernel EXCEPT ![h0] = k]
      BY <2>6
    <3> HIDE DEF k
    <3>4. /\ peer_acts' \in 0 .. MaxPeer /\ peer_acts <= peer_acts'
          /\ tcp[h0].backlog + k.arrived <= peer_acts' /\ k.room <= Capacity
      BY <2>0, <2>3, <3>2, HandleIs
    <3> QED BY <2>0, <2>3, <2>4, <3>2, <3>3, <3>4, SocketKeeps
  <2> QED BY <2>3, <2>5, <2>6
<1>7. CASE AfterEof
  <2>0. h0 \in Tcps /\ io.h = h0
    BY <1>7, <1>0 DEF AfterEof, At, Working, h0
  <2> DEFINE x == [tcp[h0] EXCEPT !.reading = FALSE]
  <2>1. io' \in IoRecord /\ io'.h \in Tcps
    BY <1>0, <1>7, <2>0, PlacesOfIo DEF Working, AfterEof
  <2>2. tcp' = [tcp EXCEPT ![h0] = x] /\ UNCHANGED <<kernel, tcp_handles, peer_acts>>
    BY <1>7 DEF AfterEof
  <2>3. tcp[h0] \in TcpRecord
    BY <2>0, HandleIs
  <2>4. x \in TcpRecord /\ x.queue = tcp[h0].queue /\ x.backlog = tcp[h0].backlog
    BY <2>3 DEF TcpRecord
  <2> HIDE DEF x
  <2>5. /\ kernel[h0] \in KernelRecord /\ kernel' = [kernel EXCEPT ![h0] = kernel[h0]]
        /\ peer_acts' \in 0 .. MaxPeer /\ peer_acts <= peer_acts'
        /\ x.backlog + kernel[h0].arrived <= peer_acts' /\ kernel[h0].room <= Capacity
    BY <2>0, <2>2, <2>4, HandleIs
  <2>6. tcp_handles' \in {tcp_handles, Listed(h0), RemoveFirst(tcp_handles, h0)}
    BY <2>2
  <2>7. /\ HandleTypes' /\ WithinLimits'
        /\ \A g \in Tcps : tcp'[g].queue = IF g = h0 THEN x.queue ELSE tcp[g].queue
    BY <2>0, <2>1, <2>2, <2>4, <2>5, <2>6, HandleKeeps
  <2> QED BY <2>4, <2>7 DEF Quiet
<1>8. CASE TcpCallbackEnds
  <2>1. io' = [io EXCEPT !.in_cb = FALSE]
    BY <1>8 DEF TcpCallbackEnds
  <2>2. io' \in IoRecord /\ io'.at = io.at /\ io'.h = io.h
    BY <1>0, <2>1 DEF IoRecord
  <2> QED BY <1>0, <1>8, <2>2, IoKeeps DEF TcpCallbackEnds, h0
<1>9. CASE StartTick \/ EndTick
  <2>1. /\ Outside("before", 0) \in IoRecord /\ Outside("before", 0).at = "before"
        /\ Outside("parked", 0) \in IoRecord /\ Outside("parked", 0).at = "parked"
    BY DEF Outside, IoRecord, Elsewhere
  <2>2. io' \in IoRecord /\ io'.at \in {"before", "parked"}
    BY <1>9, <2>1 DEF StartTick, EndTick
  <2> QED BY <1>9, <2>2, IoKeeps DEF StartTick, EndTick, Working
<1>10. CASE PollReadReady \/ PollWriteReady
  <2>0. h0 \in Tcps /\ io.h = h0
    BY <1>10, <1>0 DEF PollReadReady, PollWriteReady, At, Working, h0
  <2>1. ASSUME NEW p \in {"reading", "write", "writing", "pick"}
        PROVE  Goto(p) \in IoRecord /\ Goto(p).h \in Tcps
    BY <1>0, <2>0, PlacesOfIo DEF Working
  <2>2. \E p \in {"reading", "write", "writing", "pick"} : io' = Goto(p)
    BY <1>10 DEF PollReadReady, PollWriteReady
  <2> QED BY <1>10, <2>1, <2>2, IoKeeps DEF PollReadReady, PollWriteReady
<1> QED BY <1>1, <1>2, <1>3, <1>4, <1>5, <1>6, <1>7, <1>8, <1>9, <1>10

(* What goes out of n units of the write w. *)
LEMMA PutExtends ==
  ASSUME HandleTypes, WithinLimits, WriteTypes,
         NEW h \in Tcps, NEW w \in Writes, NEW n \in Nat, Put(h, w, n)
  PROVE  /\ Takes(h, n) \in 0 .. n /\ Takes(h, n) \in Nat
         /\ \E r2 : /\ wire' = [wire EXCEPT ![h] = r2] /\ r2 = wire[h] \o Units(w, Takes(h, n))
                    /\ Extends(wire[h], r2, w, Takes(h, n))
         /\ \E k \in KernelRecord : /\ kernel' = [kernel EXCEPT ![h] = k] /\ k.room <= Capacity
                                    /\ k.arrived = kernel[h].arrived
<1>1. /\ kernel[h].room \in Nat /\ kernel[h] \in KernelRecord /\ kernel[h].room <= Capacity
      /\ Capacity \in Nat
  BY HandleIs
<1>2. Takes(h, n) \in 0 .. n /\ Takes(h, n) \in Nat /\ Takes(h, n) <= kernel[h].room
  BY <1>1 DEF Takes
<1> DEFINE k == [kernel[h] EXCEPT !.room = kernel[h].room - Takes(h, n)]
           r2 == wire[h] \o Units(w, Takes(h, n))
<1>3. kernel' = [kernel EXCEPT ![h] = k] /\ wire' = [wire EXCEPT ![h] = r2]
  BY DEF Put
<1>4. kernel[h].room - Takes(h, n) \in Nat /\ kernel[h].room - Takes(h, n) <= Capacity
  BY <1>1, <1>2
<1>5. k \in KernelRecord /\ k.room <= Capacity /\ k.arrived = kernel[h].arrived
  BY <1>1, <1>4 DEF KernelRecord
<1>6. wire[h] \in Seq(Writes)
  BY DEF WriteTypes
<1>7. Extends(wire[h], r2, w, Takes(h, n))
  BY <1>2, <1>6, WithUnits
<1> HIDE DEF k
<1> QED BY <1>2, <1>3, <1>5, <1>7

LEMMA ExtendsNothing ==
  ASSUME NEW r \in Seq(Writes), NEW w \in Writes
  PROVE  Extends(r, r, w, 0)
<1>1. Extends(r, r \o Units(w, 0), w, 0)
  BY WithUnits
<1>2. r \o Units(w, 0) = r
  <2>1. Units(w, 0) = <<>>
    BY DEF Units
  <2> QED BY <2>1
<1> QED BY <1>1, <1>2

(* A new write, of n units. *)
LEMMA NewWriteKeeps ==
  ASSUME HandleTypes, WriteTypes, Flows, QueuesApart, OkIsSent, NextWrite \in Writes,
         NEW h \in Tcps, NEW n \in Nat, NEW k \in Nat, NEW r2, NEW q2,
         NEW s \in {"queued", "ok", "failed"},
         size' = [size EXCEPT ![NextWrite] = n], status' = [status EXCEPT ![NextWrite] = s],
         wire' = [wire EXCEPT ![h] = r2], Extends(wire[h], r2, NextWrite, k),
         \A g \in Tcps : tcp'[g].queue = IF g = h THEN q2 ELSE tcp[g].queue,
         FlowOf(q2, r2, status', size'), WSet(q2) \subseteq WSet(tcp[h].queue) \cup {NextWrite},
         s = "ok" => Cardinality(Sent(r2, NextWrite)) = n
  PROVE  WritesKept
<1> DEFINE w == NextWrite
<1>1. status[w] = "unused" /\ \A x \in Writes : status[x] # "unused" <=> x < w
  BY NextIsFresh
<1>2. w \in Writes /\ w \in 0 .. MaxWrites /\ w \in Nat /\ MaxWrites \in Nat
  BY TcpAssumption DEF Writes
<1> HIDE DEF w
<1>3. size' \in [Writes -> Nat] /\ size'[w] = n /\ \A x \in Writes \ {w} : size'[x] = size[x]
  BY <1>2 DEF WriteTypes, w
<1>4. \A x \in Writes : status'[x] # "unused" <=> x <= w
  <2> SUFFICES ASSUME NEW x \in Writes PROVE status'[x] # "unused" <=> x <= w
    OBVIOUS
  <2>1. x \in Nat
    BY WritesAreNumbers
  <2>2. CASE x = w
    BY <2>1, <2>2, <1>2 DEF WriteTypes, w
  <2>3. CASE x # w
    <3>1. status'[x] = status[x]
      BY <2>3 DEF WriteTypes, w
    <3> QED BY <2>1, <2>3, <3>1, <1>1, <1>2
  <2> QED BY <2>2, <2>3
<1>5. \E m \in 0 .. MaxWrites : \A x \in Writes : status'[x] # "unused" <=> x <= m
  BY <1>2, <1>4
<1>6. /\ s \in WriteStatus /\ s # "unused" /\ status[w] \in {"unused", "queued"}
      /\ status[w] = "queued" => w \in WSet(tcp[h].queue)
      /\ status' = [status EXCEPT ![w] = s]
  BY <1>1 DEF WriteStatus, w
<1>7. /\ Extends(wire[h], r2, w, k) /\ WSet(q2) \subseteq WSet(tcp[h].queue) \cup {w}
      /\ s = "ok" => Cardinality(Sent(r2, w)) = size'[w]
  BY <1>3 DEF w
<1>8. Advances(h, w, k, r2, q2, s)
  BY <1>3, <1>5, <1>6, <1>7 DEF Advances
<1> QED BY <1>2, <1>8, WriteKeeps

(* A write that fails at once leaves its handle alone. *)
LEMMA FlowIgnores ==
  ASSUME NEW q \in Seq(Item), NEW r \in Seq(Writes), NEW st \in [Writes -> WriteStatus],
         NEW sz \in [Writes -> Nat], FlowOf(q, r, st, sz), NEW w \in Writes, st[w] = "unused",
         NEW n, NEW s
  PROVE  FlowOf(q, r, [st EXCEPT ![w] = s], [sz EXCEPT ![w] = n])
<1> DEFINE st2 == [st EXCEPT ![w] = s]
           sz2 == [sz EXCEPT ![w] = n]
<1>1. \A x \in Writes \ {w} : st2[x] = st[x] /\ sz2[x] = sz[x]
  OBVIOUS
<1> HIDE DEF st2, sz2
<1>2. \A j \in DOMAIN q : q[j].w \in Writes \ {w}
  <2>1. \A j \in DOMAIN q : q[j] \in Item
    OBVIOUS
  <2> QED BY <2>1 DEF FlowOf, Item
<1>3. \A i \in DOMAIN r : r[i] \in Writes \ {w}
  BY DEF FlowOf
<1>4. FlowOf(q, r, st2, sz2)
  BY <1>1, <1>2, <1>3 DEF FlowOf
<1> QED BY <1>4 DEF st2, sz2

(* Steps that leave all of the handle h but its queue alone. *)
OnlyQueue(h, q2) ==
  /\ HandleTypes' /\ WithinLimits'
  /\ \A g \in Tcps : tcp'[g].queue = IF g = h THEN q2 ELSE tcp[g].queue

LEMMA WriteQueueKeeps ==
  ASSUME HandleTypes, WithinLimits, NEW h \in Tcps, NEW q2 \in Seq(Item),
         tcp' = [tcp EXCEPT ![h] = [tcp[h] EXCEPT !.queue = q2]],
         NEW k \in KernelRecord, kernel' = [kernel EXCEPT ![h] = k],
         k.room <= Capacity, k.arrived = kernel[h].arrived,
         UNCHANGED <<tcp_handles, peer_acts>>,
         io' \in IoRecord, io'.at \in Working => io'.h \in Tcps
  PROVE  OnlyQueue(h, q2)
<1> DEFINE t == [tcp[h] EXCEPT !.queue = q2]
<1>1. tcp[h] \in TcpRecord
  BY HandleIs
<1>2. t \in TcpRecord /\ t.queue = q2 /\ t.backlog = tcp[h].backlog
  BY <1>1 DEF TcpRecord
<1>3. tcp' = [tcp EXCEPT ![h] = t]
  OBVIOUS
<1> HIDE DEF t
<1>4. /\ peer_acts' \in 0 .. MaxPeer /\ peer_acts <= peer_acts'
      /\ t.backlog + k.arrived <= peer_acts'
  BY <1>2, HandleIs
<1>5. tcp_handles' \in {tcp_handles, Listed(h), RemoveFirst(tcp_handles, h)}
  OBVIOUS
<1>6. /\ HandleTypes' /\ WithinLimits'
      /\ \A g \in Tcps : tcp'[g].queue = IF g = h THEN t.queue ELSE tcp[g].queue
  BY <1>2, <1>3, <1>4, <1>5, HandleKeeps
<1> QED BY <1>2, <1>6 DEF OnlyQueue

LEMMA SameQueue ==
  ASSUME HandleTypes, NEW h \in Tcps, UNCHANGED tcp
  PROVE  tcp' = [tcp EXCEPT ![h] = [tcp[h] EXCEPT !.queue = tcp[h].queue]]
<1> DEFINE t == tcp[h]
<1>1. t \in TcpRecord
  BY DEF HandleTypes
<1>2. [t EXCEPT !.queue = t.queue] = t
  <2> HIDE DEF t
  <2> QED BY <1>1 DEF TcpRecord
<1>3. tcp' = [tcp EXCEPT ![h] = t]
  BY DEF HandleTypes
<1> QED BY <1>2, <1>3

LEMMA TryWriteKeeps ==
  ASSUME HandleTypes, WithinLimits, WriteTypes, Flows, QueuesApart, OkIsSent,
         NEW h \in Tcps, UvTryWrite(h), Takes(h, 1) = 1
  PROVE  HandleTypes' /\ WithinLimits' /\ WritesKept
<1> DEFINE w == NextWrite
           q == tcp[h].queue
<1>1. /\ w \in Writes /\ q = <<>> /\ Put(h, w, 1)
      /\ size' = [size EXCEPT ![w] = 1] /\ status' = [status EXCEPT ![w] = "ok"]
      /\ UNCHANGED <<tcp, tcp_handles, peer_acts, io>>
  BY DEF UvTryWrite, MayWriteNow
<1>2. /\ q \in Seq(Item) /\ wire[h] \in Seq(Writes) /\ FlowOf(q, wire[h], status, size)
  BY HandleIs DEF WriteTypes, Flows
<1>4. PICK r2 : wire' = [wire EXCEPT ![h] = r2] /\ Extends(wire[h], r2, w, 1)
  BY <1>1, PutExtends
<1>5. PICK k \in KernelRecord : /\ kernel' = [kernel EXCEPT ![h] = k] /\ k.room <= Capacity
                                /\ k.arrived = kernel[h].arrived
  BY <1>1, PutExtends
<1>6. OnlyQueue(h, q)
  <2>1. tcp' = [tcp EXCEPT ![h] = [tcp[h] EXCEPT !.queue = q]]
    BY <1>1, SameQueue
  <2>2. io' \in IoRecord /\ (io'.at \in Working => io'.h \in Tcps)
    BY <1>1 DEF HandleTypes
  <2> QED BY <1>1, <1>2, <1>5, <2>1, <2>2, WriteQueueKeeps
<1> HIDE DEF w, q
<1>7. status[w] = "unused" /\ \A x \in Writes : status[x] # "unused" <=> x < w
  BY <1>1, NextIsFresh DEF w
<1>8. FlowOf(q, r2, status', size') /\ Cardinality(Sent(r2, w)) = 1
  <2>1. /\ status \in [Writes -> WriteStatus] /\ size \in [Writes -> Nat]
        /\ "ok" \in WriteStatus \ {"unused", "queued"} /\ 1 \in 0 .. 1 /\ 1 \in Nat
    BY DEF WriteTypes, WriteStatus
  <2>2. FlowOf(<<>>, wire[h], status, size)
    BY <1>1, <1>2
  <2>3. Begins(r2, status, size, w, 1, 1, "ok")
    BY <1>1, <1>2, <1>4, <1>7, <2>1, <2>2, FlowBegins DEF Fresh
  <2> QED BY <1>1, <2>3 DEF Begins
<1>9. WritesKept
  <2>1. WSet(q) \subseteq WSet(tcp[h].queue) \cup {NextWrite}
    BY DEF q
  <2>2. \A g \in Tcps : tcp'[g].queue = IF g = h THEN q ELSE tcp[g].queue
    BY <1>6 DEF OnlyQueue
  <2> QED BY <1>1, <1>4, <1>8, <2>1, <2>2, NewWriteKeeps DEF w
<1> QED BY <1>6, <1>9 DEF OnlyQueue

LEMMA UvWriteKeeps ==
  ASSUME HandleTypes, WithinLimits, WriteTypes, Flows, QueuesApart, OkIsSent,
         NEW h \in Tcps, NEW n \in WriteSizes, UvWrite(h, n)
  PROVE  HandleTypes' /\ WithinLimits' /\ WritesKept
<1> DEFINE w == NextWrite
           q == tcp[h].queue
           Queue(item) == tcp' = [tcp EXCEPT ![h] = [tcp[h] EXCEPT !.queue = Append(tcp[h].queue, item)]]
           Says(s) == status' = [status EXCEPT ![w] = s]
<1>1. /\ w \in Writes /\ size' = [size EXCEPT ![w] = n] /\ n \in Nat
      /\ UNCHANGED <<tcp_handles, peer_acts, io>>
  BY DEF UvWrite, WriteSizes
<1>2. /\ q \in Seq(Item) /\ wire[h] \in Seq(Writes) /\ FlowOf(q, wire[h], status, size)
      /\ status \in [Writes -> WriteStatus] /\ size \in [Writes -> Nat]
      /\ wire \in [Tcps -> Seq(Writes)]
  BY HandleIs DEF WriteTypes, Flows
<1>3. io' \in IoRecord /\ (io'.at \in Working => io'.h \in Tcps)
  BY <1>1 DEF HandleTypes
<1>4. Fresh(status, w)
  BY <1>1, NextIsFresh DEF Fresh
<1>5. \/ Says("failed") /\ UNCHANGED <<tcp, kernel, wire>>
      \/ q # <<>> /\ Queue(Left(w, n, 0)) /\ Says("queued") /\ UNCHANGED <<kernel, wire>>
      \/ /\ q = <<>> /\ Put(h, w, n)
         /\ \/ Takes(h, n) = n /\ Says("ok") /\ UNCHANGED tcp
            \/ Queue(Left(w, n, Takes(h, n))) /\ Says("queued")
  BY DEF UvWrite, MayWriteNow
<1>6. ASSUME NEW r2, NEW q2, NEW k \in Nat, NEW s \in {"queued", "ok", "failed"}, Says(s),
             wire' = [wire EXCEPT ![h] = r2], Extends(wire[h], r2, w, k), OnlyQueue(h, q2),
             FlowOf(q2, r2, status', size'), WSet(q2) \subseteq WSet(q) \cup {w},
             s = "ok" => Cardinality(Sent(r2, w)) = n
      PROVE  HandleTypes' /\ WithinLimits' /\ WritesKept
  <2>1. \A g \in Tcps : tcp'[g].queue = IF g = h THEN q2 ELSE tcp[g].queue
    BY <1>6 DEF OnlyQueue
  <2>2. WritesKept
    BY <1>1, <1>6, <2>1, NewWriteKeeps
  <2> QED BY <1>6, <2>2 DEF OnlyQueue
<1>7. ASSUME NEW item \in Item, item.w = w
      PROVE  Append(q, item) \in Seq(Item) /\ WSet(Append(q, item)) \subseteq WSet(q) \cup {w}
  <2> HIDE DEF w, q
  <2>1. /\ Append(q, item) \in Seq(Item)
        /\ \A j \in DOMAIN Append(q, item) :
             \/ j \in DOMAIN q /\ Append(q, item)[j] = q[j]
             \/ Append(q, item)[j] = item
    BY <1>2
  <2> QED BY <2>1, <1>7 DEF WSet
<1>8. Extends(wire[h], wire[h], w, 0) /\ wire = [wire EXCEPT ![h] = wire[h]]
  BY <1>1, <1>2, ExtendsNothing
<1> HIDE DEF w, q
<1>9. CASE Says("failed") /\ UNCHANGED <<tcp, kernel, wire>>
  <2>1. OnlyQueue(h, q)
    <3>1. tcp' = [tcp EXCEPT ![h] = [tcp[h] EXCEPT !.queue = q]]
      BY <1>9, SameQueue DEF q
    <3>2. /\ kernel[h] \in KernelRecord /\ kernel' = [kernel EXCEPT ![h] = kernel[h]]
          /\ kernel[h].room <= Capacity
      BY <1>9, HandleIs
    <3> QED BY <1>1, <1>2, <1>3, <3>1, <3>2, WriteQueueKeeps
  <2>2. FlowOf(q, wire[h], status', size')
    BY <1>1, <1>2, <1>4, <1>9, FlowIgnores DEF Fresh
  <2>3. wire' = [wire EXCEPT ![h] = wire[h]]
    BY <1>8, <1>9
  <2> QED BY <1>6, <1>8, <1>9, <2>1, <2>2, <2>3
<1>10. CASE q # <<>> /\ Queue(Left(w, n, 0)) /\ Says("queued") /\ UNCHANGED <<kernel, wire>>
  <2> DEFINE q2 == Append(q, Left(w, n, 0))
  <2>1. Left(w, n, 0) \in Item /\ Left(w, n, 0).w = w
    BY <1>1 DEF Left, Item
  <2>2. q2 \in Seq(Item) /\ WSet(q2) \subseteq WSet(q) \cup {w}
    BY <1>7, <2>1
  <2>3. tcp' = [tcp EXCEPT ![h] = [tcp[h] EXCEPT !.queue = q2]]
    BY <1>10 DEF q
  <2>4. FlowOf(q2, wire[h], status', size')
    BY <1>1, <1>2, <1>4, <1>10, FlowQueues DEF Fresh
  <2> HIDE DEF q2
  <2>5. OnlyQueue(h, q2)
    <3>1. /\ kernel[h] \in KernelRecord /\ kernel' = [kernel EXCEPT ![h] = kernel[h]]
          /\ kernel[h].room <= Capacity
      BY <1>10, HandleIs
    <3> QED BY <1>1, <1>3, <2>2, <2>3, <3>1, WriteQueueKeeps
  <2>6. wire' = [wire EXCEPT ![h] = wire[h]]
    BY <1>8, <1>10
  <2> QED BY <1>6, <1>8, <1>10, <2>2, <2>4, <2>5, <2>6
<1>11. CASE /\ q = <<>> /\ Put(h, w, n)
            /\ \/ Takes(h, n) = n /\ Says("ok") /\ UNCHANGED tcp
               \/ Queue(Left(w, n, Takes(h, n))) /\ Says("queued")
  <2> DEFINE t == Takes(h, n)
             item == Left(w, n, t)
  <2>1. t \in 0 .. n /\ t \in Nat
    BY <1>1, <1>11, PutExtends
  <2>2. PICK r2 : wire' = [wire EXCEPT ![h] = r2] /\ Extends(wire[h], r2, w, t)
    BY <1>1, <1>11, PutExtends
  <2>3. PICK k \in KernelRecord : /\ kernel' = [kernel EXCEPT ![h] = k] /\ k.room <= Capacity
                                  /\ k.arrived = kernel[h].arrived
    BY <1>1, <1>11, PutExtends
  <2> HIDE DEF t
  <2>4. Begins(r2, status, size, w, n, t, "ok")
    <3>1. "ok" \in WriteStatus \ {"unused", "queued"} /\ FlowOf(<<>>, wire[h], status, size)
      BY <1>2, <1>11 DEF WriteStatus
    <3> QED BY <1>1, <1>2, <1>4, <2>1, <2>2, <3>1, FlowBegins
  <2>5. CASE t = n /\ Says("ok") /\ UNCHANGED tcp
    <3>1. OnlyQueue(h, q)
      <4>1. tcp' = [tcp EXCEPT ![h] = [tcp[h] EXCEPT !.queue = q]]
        BY <2>5, SameQueue DEF q
      <4> QED BY <1>1, <1>2, <1>3, <2>3, <4>1, WriteQueueKeeps
    <3>2. FlowOf(q, r2, status', size') /\ Cardinality(Sent(r2, w)) = n
      BY <1>1, <1>11, <2>4, <2>5 DEF Begins
    <3> QED BY <1>6, <2>1, <2>2, <2>5, <3>1, <3>2
  <2>6. CASE Queue(item) /\ Says("queued")
    <3>1. item \in Item /\ item.w = w
      BY <1>1, <2>1 DEF Left, Item
    <3>2. Append(q, item) \in Seq(Item) /\ WSet(Append(q, item)) \subseteq WSet(q) \cup {w}
      BY <1>7, <3>1
    <3>3. Append(q, item) = <<item>>
      BY <1>11
    <3>4. FlowOf(Append(q, item), r2, status', size')
      BY <1>1, <2>4, <2>6, <3>3 DEF Begins
    <3> DEFINE q2 == Append(q, item)
    <3>5. tcp' = [tcp EXCEPT ![h] = [tcp[h] EXCEPT !.queue = q2]]
      BY <2>6 DEF q
    <3>6. q2 \in Seq(Item) /\ WSet(q2) \subseteq WSet(q) \cup {w} /\ FlowOf(q2, r2, status', size')
      BY <3>2, <3>4
    <3> HIDE DEF q2, item
    <3>7. OnlyQueue(h, q2)
      BY <1>1, <1>3, <2>3, <3>5, <3>6, WriteQueueKeeps
    <3> QED BY <1>6, <2>1, <2>2, <2>6, <3>6, <3>7
  <2> QED BY <1>11, <2>5, <2>6 DEF t
<1> QED BY <1>5, <1>9, <1>10, <1>11 DEF q, w

LEMMA DrainWritesKeeps ==
  ASSUME HandleTypes, WithinLimits, WriteTypes, Flows, QueuesApart, OkIsSent, DrainWrites
  PROVE  HandleTypes' /\ WithinLimits' /\ WritesKept
<1> DEFINE h == h0
           q == tcp[h].queue
           r == wire[h]
           w == Head(q).w
           n == Head(q).left
<1>1. io \in IoRecord /\ h \in Tcps /\ io.h = h /\ UNCHANGED <<tcp_handles, size, peer_acts>>
  BY DEF DrainWrites, At, HandleTypes, Working, h0
<1>2. /\ q \in Seq(Item) /\ r \in Seq(Writes) /\ FlowOf(q, r, status, size)
      /\ status \in [Writes -> WriteStatus] /\ size \in [Writes -> Nat]
      /\ wire \in [Tcps -> Seq(Writes)]
  BY <1>1, HandleIs DEF WriteTypes, Flows
<1>3. \/ io' = Goto("pick") /\ UNCHANGED <<tcp, kernel, status, wire>>
      \/ /\ q # <<>>
         /\ tcp' = [tcp EXCEPT ![h] = [tcp[h] EXCEPT !.queue = Tail(q)]]
         /\ status' = [status EXCEPT ![w] = "failed"]
         /\ io' = Callback("writing") /\ UNCHANGED <<kernel, wire>>
      \/ /\ q # <<>> /\ Put(h, w, n) /\ Takes(h, n) = n
         /\ tcp' = [tcp EXCEPT ![h] = [tcp[h] EXCEPT !.queue = Tail(q)]]
         /\ status' = [status EXCEPT ![w] = "ok"] /\ io' = Callback("writing")
      \/ /\ q # <<>> /\ Put(h, w, n)
         /\ tcp' = [tcp EXCEPT ![h] =
                     [tcp[h] EXCEPT !.queue = <<Left(w, n, Takes(h, n))>> \o Tail(q)]]
         /\ io' = Goto("pick") /\ UNCHANGED status
  BY DEF DrainWrites
<1>4. /\ Goto("pick") \in IoRecord /\ Goto("pick").h \in Tcps
      /\ Callback("writing") \in IoRecord /\ Callback("writing").h \in Tcps
  BY <1>1, PlacesOfIo DEF Working
<1>5. io' \in IoRecord /\ (io'.at \in Working => io'.h \in Tcps)
  BY <1>3, <1>4
<1> HIDE DEF h, q, r, w, n
<1>6. ASSUME q # <<>>
      PROVE  /\ w \in Writes /\ n \in Nat /\ w \in WSet(q) /\ status[w] = "queued"
             /\ Cardinality(Sent(r, w)) + n = size[w]
  <2>1. 1 \in DOMAIN q /\ Head(q) = q[1] /\ q[1] \in Item
    BY <1>2, <1>6
  <2> QED BY <1>2, <2>1 DEF w, n, Item, FlowOf, WSet
<1>7. ASSUME q # <<>>, NEW k \in Nat, NEW r2, NEW q2, NEW s \in {"queued", "ok", "failed"},
             status' = [status EXCEPT ![w] = s],
             wire' = [wire EXCEPT ![h] = r2], Extends(r, r2, w, k), OnlyQueue(h, q2),
             FlowOf(q2, r2, status', size), WSet(q2) \subseteq WSet(q), s = "ok" => k = n
      PROVE  HandleTypes' /\ WithinLimits' /\ WritesKept
  <2>1. \A g \in Tcps : tcp'[g].queue = IF g = h THEN q2 ELSE tcp[g].queue
    BY <1>7 DEF OnlyQueue
  <2>2. \E m \in 0 .. MaxWrites : \A x \in Writes : status'[x] # "unused" <=> x <= m
    <3>1. \A x \in Writes : status'[x] = "unused" <=> status[x] = "unused"
      BY <1>2, <1>6, <1>7
    <3> QED BY <3>1 DEF WriteTypes
  <2>3. s = "ok" => Cardinality(Sent(r2, w)) = size'[w]
    BY <1>1, <1>6, <1>7 DEF Extends
  <2>4. s \in WriteStatus \ {"unused"}
    BY DEF WriteStatus
  <2>5. Advances(h, w, k, r2, q2, s)
    BY <1>1, <1>2, <1>6, <1>7, <2>1, <2>2, <2>3, <2>4 DEF Advances, q, r
  <2>6. WritesKept
    BY <1>1, <1>6, <1>7, <2>5, WriteKeeps
  <2> QED BY <1>7, <2>6 DEF OnlyQueue
<1>8. CASE io' = Goto("pick") /\ UNCHANGED <<tcp, kernel, status, wire>>
  <2>1. Quiet
    BY <1>1, <1>5, <1>8, IoKeeps
  <2>2. WritesKept
    BY <1>1, <1>8, QuietKeeps
  <2> QED BY <2>1, <2>2 DEF Quiet
<1>9. CASE /\ q # <<>>
           /\ tcp' = [tcp EXCEPT ![h] = [tcp[h] EXCEPT !.queue = Tail(q)]]
           /\ status' = [status EXCEPT ![w] = "failed"]
           /\ io' = Callback("writing") /\ UNCHANGED <<kernel, wire>>
  <2>1. Extends(r, r, w, 0) /\ wire' = [wire EXCEPT ![h] = r]
    BY <1>2, <1>6, <1>9, ExtendsNothing DEF r
  <2>2. /\ Tail(q) \in Seq(Item) /\ FlowOf(Tail(q), r, status', size) /\ WSet(Tail(q)) \subseteq WSet(q)
    BY <1>2, <1>9, <2>1, FlowPops DEF w, WSet
  <2>3. OnlyQueue(h, Tail(q))
    <3>1. /\ kernel[h] \in KernelRecord /\ kernel' = [kernel EXCEPT ![h] = kernel[h]]
          /\ kernel[h].room <= Capacity
      BY <1>1, <1>9, HandleIs
    <3> QED BY <1>1, <1>5, <1>9, <2>2, <3>1, WriteQueueKeeps
  <2> QED BY <1>7, <1>9, <2>1, <2>2, <2>3
<1>10. ASSUME q # <<>>, Put(h, w, n)
       PROVE  /\ Takes(h, n) \in 0 .. n /\ Takes(h, n) \in Nat
              /\ \E r2 : /\ wire' = [wire EXCEPT ![h] = r2] /\ r2 = r \o Units(w, Takes(h, n))
                         /\ Extends(r, r2, w, Takes(h, n))
              /\ \E k \in KernelRecord : /\ kernel' = [kernel EXCEPT ![h] = k] /\ k.room <= Capacity
                                         /\ k.arrived = kernel[h].arrived
  BY <1>1, <1>6, <1>10, PutExtends DEF r
<1>11. CASE /\ q # <<>> /\ Put(h, w, n) /\ Takes(h, n) = n
            /\ tcp' = [tcp EXCEPT ![h] = [tcp[h] EXCEPT !.queue = Tail(q)]]
            /\ status' = [status EXCEPT ![w] = "ok"] /\ io' = Callback("writing")
  <2>1. PICK r2 : wire' = [wire EXCEPT ![h] = r2] /\ Extends(r, r2, w, n)
    BY <1>10, <1>11
  <2>2. /\ Tail(q) \in Seq(Item) /\ FlowOf(Tail(q), r2, status', size) /\ WSet(Tail(q)) \subseteq WSet(q)
    BY <1>2, <1>6, <1>11, <2>1, FlowPops DEF w, WSet
  <2>3. OnlyQueue(h, Tail(q))
    BY <1>1, <1>5, <1>10, <1>11, <2>2, WriteQueueKeeps
  <2> QED BY <1>6, <1>7, <1>11, <2>1, <2>2, <2>3
<1>12. CASE /\ q # <<>> /\ Put(h, w, n)
            /\ tcp' = [tcp EXCEPT ![h] =
                        [tcp[h] EXCEPT !.queue = <<Left(w, n, Takes(h, n))>> \o Tail(q)]]
            /\ io' = Goto("pick") /\ UNCHANGED status
  <2> DEFINE t == Takes(h, n)
             q2 == <<Left(w, n, t)>> \o Tail(q)
  <2>1. t \in 0 .. n /\ t \in Nat
    BY <1>10, <1>12
  <2>2. PICK r2 : /\ wire' = [wire EXCEPT ![h] = r2] /\ r2 = r \o Units(w, t)
                  /\ Extends(r, r2, w, t)
    BY <1>10, <1>12
  <2>3. tcp' = [tcp EXCEPT ![h] = [tcp[h] EXCEPT !.queue = q2]]
    BY <1>12
  <2> HIDE DEF t
  <2>4. q2 \in Seq(Item) /\ FlowOf(q2, r2, status, size) /\ WSet(q2) = WSet(q)
    BY <1>2, <1>12, <2>1, <2>2, FlowContinues DEF w, n, WSet
  <2>5. status' = [status EXCEPT ![w] = "queued"]
    BY <1>2, <1>6, <1>12
  <2> HIDE DEF q2
  <2>6. OnlyQueue(h, q2)
    BY <1>1, <1>5, <1>10, <1>12, <2>3, <2>4, WriteQueueKeeps
  <2>7. FlowOf(q2, r2, status', size)
    BY <1>12, <2>4
  <2> QED BY <1>7, <1>12, <2>1, <2>2, <2>4, <2>5, <2>6, <2>7
<1> QED BY <1>3, <1>8, <1>9, <1>11, <1>12 DEF h, q, w, n

(* What a closed handle had queued is dropped. *)
LEMMA CloseKeeps ==
  ASSUME HandleTypes, WithinLimits, WriteTypes, Flows, QueuesApart, OkIsSent,
         NEW h \in Tcps, UvTcpClose(h)
  PROVE  HandleTypes' /\ WithinLimits' /\ WritesKept
<1> DEFINE t == [FreshTcp EXCEPT !.closed = TRUE]
           gone == WSet(tcp[h].queue)
<1>1. /\ tcp' = [tcp EXCEPT ![h] = t] /\ tcp_handles' = RemoveFirst(tcp_handles, h)
      /\ status' = [w \in Writes |-> IF w \in gone THEN "dropped" ELSE status[w]]
      /\ UNCHANGED <<kernel, size, wire, peer_acts, io>>
  BY DEF UvTcpClose, WSet
<1>2. t \in TcpRecord /\ t.queue = <<>> /\ t.backlog = 0
  <2>1. FreshTcp \in TcpRecord /\ FreshTcp.queue = <<>> /\ FreshTcp.backlog = 0
    BY DEF FreshTcp, TcpRecord
  <2> QED BY <2>1 DEF TcpRecord
<1> HIDE DEF t, gone
<1>3. /\ HandleTypes' /\ WithinLimits'
      /\ \A g \in Tcps : tcp'[g].queue = IF g = h THEN t.queue ELSE tcp[g].queue
  <2>1. io' \in IoRecord /\ (io'.at \in Working => io'.h \in Tcps)
    BY <1>1 DEF HandleTypes
  <2>2. /\ kernel[h] \in KernelRecord /\ kernel' = [kernel EXCEPT ![h] = kernel[h]]
        /\ peer_acts' \in 0 .. MaxPeer /\ peer_acts <= peer_acts'
        /\ t.backlog + kernel[h].arrived <= peer_acts' /\ kernel[h].room <= Capacity
    <3>1. /\ tcp[h].backlog \in Nat /\ kernel[h].arrived \in Nat /\ peer_acts \in Nat
          /\ tcp[h].backlog + kernel[h].arrived <= peer_acts
      BY HandleIs
    <3>2. t.backlog + kernel[h].arrived <= peer_acts
      BY <1>2, <3>1
    <3> QED BY <1>1, <3>2, HandleIs
  <2>3. tcp_handles' \in {tcp_handles, Listed(h), RemoveFirst(tcp_handles, h)}
    BY <1>1
  <2> QED BY <1>1, <1>2, <2>1, <2>2, <2>3, HandleKeeps
<1>4. \A g \in Tcps : /\ tcp[g].queue \in Seq(Item) /\ wire[g] \in Seq(Writes)
                      /\ FlowOf(tcp[g].queue, wire[g], status, size)
  BY DEF HandleTypes, TcpRecord, WriteTypes, Flows
<1>5. \A w \in gone : status[w] = "queued"
  BY <1>4 DEF gone, WSet, FlowOf
<1>6. /\ status' \in [Writes -> WriteStatus]
      /\ \A w \in Writes : /\ w \in gone => status'[w] = "dropped"
                           /\ w \notin gone => status'[w] = status[w]
  BY <1>1 DEF WriteTypes, WriteStatus
<1>7. WriteTypes'
  <2>1. \A w \in Writes : status'[w] = "unused" <=> status[w] = "unused"
    BY <1>5, <1>6
  <2> QED BY <1>1, <1>6, <2>1 DEF WriteTypes
<1>8. Flows'
  <2> SUFFICES ASSUME NEW g \in Tcps PROVE FlowOf(tcp'[g].queue, wire'[g], status', size')
    BY DEF Flows
  <2> DEFINE q == tcp[g].queue
             r == wire[g]
  <2>1. q \in Seq(Item) /\ r \in Seq(Writes) /\ FlowOf(q, r, status, size)
    BY <1>4
  <2>2. q # <<>> => 1 \in DOMAIN q
    BY <2>1
  <2>3. wire'[g] = r /\ size' = size
    BY <1>1
  <2>4. CASE g = h
    <3>1. tcp'[g].queue = <<>>
      BY <1>2, <1>3, <2>4
    <3> DEFINE e == <<>>
    <3>2. DOMAIN e = {} /\ e = tcp'[g].queue
      BY <3>1
    <3>3. \A j \in DOMAIN q : q[j].w \in gone
      BY <2>4 DEF gone, WSet
    <3> HIDE DEF q, r, e
    <3>4. \A i \in DOMAIN r : status'[r[i]] # "unused" /\ status'[r[i]] # "queued"
      <4> SUFFICES ASSUME NEW i \in DOMAIN r
                   PROVE  status'[r[i]] # "unused" /\ status'[r[i]] # "queued"
        OBVIOUS
      <4>1. /\ r[i] \in Writes /\ status[r[i]] # "unused"
            /\ status[r[i]] = "queued" => q # <<>> /\ r[i] = q[1].w
        BY <2>1 DEF FlowOf
      <4>2. CASE r[i] \in gone
        BY <4>1, <4>2, <1>6
      <4>3. CASE r[i] \notin gone
        BY <4>1, <4>3, <1>6, <2>2, <3>3
      <4> QED BY <4>2, <4>3
    <3>5. FlowOf(e, r, status', size)
      BY <2>1, <3>2, <3>4 DEF FlowOf
    <3> QED BY <2>3, <3>2, <3>5
  <2>5. CASE g # h
    <3>1. tcp'[g].queue = q
      BY <1>3, <2>5
    <3>2. \A j \in DOMAIN q : q[j].w \notin gone
      BY <2>5 DEF gone, WSet, QueuesApart
    <3> HIDE DEF q, r
    <3>3. \A j \in DOMAIN q : q[j].w \in Writes
      <4>1. \A j \in DOMAIN q : q[j] \in Item
        BY <2>1
      <4> QED BY <4>1 DEF Item
    <3>4. \A j \in DOMAIN q : status'[q[j].w] = status[q[j].w]
      BY <3>2, <3>3, <1>6
    <3>5. \A i \in DOMAIN r : status'[r[i]] = status[r[i]]
      <4> SUFFICES ASSUME NEW i \in DOMAIN r PROVE status'[r[i]] = status[r[i]]
        OBVIOUS
      <4>1. /\ r[i] \in Writes
            /\ status[r[i]] = "queued" => q # <<>> /\ r[i] = q[1].w
        BY <2>1 DEF FlowOf
      <4>2. r[i] \notin gone
        BY <4>1, <1>5, <2>2, <3>2
      <4> QED BY <4>1, <4>2, <1>6
    <3>6. FlowOf(q, r, status', size)
      BY <2>1, <3>4, <3>5 DEF FlowOf
    <3> QED BY <2>3, <3>1, <3>6
  <2> QED BY <2>4, <2>5
<1>9. QueuesApart'
  <2>1. ASSUME NEW f \in Tcps, NEW g \in Tcps, f # g,
               NEW i \in DOMAIN tcp'[f].queue, NEW j \in DOMAIN tcp'[g].queue
        PROVE  tcp'[f].queue[i].w # tcp'[g].queue[j].w
    <3>1. f # h /\ g # h
      BY <1>2, <1>3, <2>1
    <3>2. tcp'[g].queue = tcp[g].queue /\ tcp'[f].queue = tcp[f].queue
      BY <1>3, <3>1
    <3> QED BY <3>2, <2>1 DEF QueuesApart
  <2> QED BY <2>1 DEF QueuesApart
<1>10. OkIsSent'
  BY <1>1, <1>6 DEF OkIsSent
<1> QED BY <1>3, <1>7, <1>8, <1>9, <1>10 DEF WritesKept

----------------------------------------------------------------------------
LEMMA TcpInitial == TcpInit => TcpIInv
<1> SUFFICES ASSUME TcpInit PROVE TcpIInv
  OBVIOUS
<1>1. FreshTcp \in TcpRecord /\ FreshTcp.queue = <<>> /\ FreshTcp.backlog = 0
  BY DEF FreshTcp, TcpRecord
<1> DEFINE k == [room |-> Capacity, input |-> 0, eof |-> FALSE, broken |-> FALSE,
                 connected |-> "no", arrived |-> 0]
<1>2. k \in KernelRecord /\ k.room = Capacity /\ k.arrived = 0 /\ Capacity \in Nat
  BY TcpAssumption DEF KernelRecord
<1> DEFINE o == Outside("parked", 0)
<1>3. o \in IoRecord /\ o.at = "parked"
  BY DEF Outside, IoRecord, Elsewhere
<1>4. /\ tcp = [h \in Tcps |-> FreshTcp] /\ kernel = [h \in Tcps |-> k] /\ io = o
      /\ tcp_handles = <<>> /\ peer_acts = 0
      /\ size = [w \in Writes |-> 0] /\ status = [w \in Writes |-> "unused"]
      /\ wire = [h \in Tcps |-> <<>>]
  BY DEF TcpInit
<1> HIDE DEF k, o
<1>5. HandleTypes
  <2>1. tcp_handles \in Seq(Tcps) /\ Once(tcp_handles)
    BY <1>4 DEF Once
  <2>2. peer_acts \in 0 .. MaxPeer
    BY <1>4, TcpAssumption
  <2> QED BY <1>1, <1>2, <1>3, <1>4, <2>1, <2>2 DEF HandleTypes, Working
<1>6. WithinLimits
  BY <1>1, <1>2, <1>4 DEF WithinLimits
<1>7. WriteTypes
  <2>1. \A w \in Writes : (status[w] # "unused" <=> w <= 0)
    BY <1>4, TcpAssumption DEF Writes
  <2>2. 0 \in 0 .. MaxWrites
    BY TcpAssumption
  <2>3. wire \in [Tcps -> Seq(Writes)]
    BY <1>4
  <2> QED BY <1>4, <2>1, <2>2, <2>3 DEF WriteTypes, WriteStatus
<1>8. \A h \in Tcps : tcp[h].queue = <<>> /\ wire[h] = <<>>
  BY <1>1, <1>4
<1>9. Flows
  <2> DEFINE e == <<>>
  <2>1. DOMAIN e = {}
    OBVIOUS
  <2> HIDE DEF e
  <2>2. FlowOf(e, e, status, size)
    BY <2>1 DEF FlowOf
  <2> QED BY <1>8, <2>2 DEF Flows, e
<1>10. QueuesApart
  BY <1>8 DEF QueuesApart
<1>11. OkIsSent
  BY <1>4 DEF OkIsSent
<1> QED BY <1>5, <1>6, <1>7, <1>9, <1>10, <1>11 DEF TcpIInv

LEMMA TcpInductive == TcpIInv /\ [TcpNext]_tcpVars => TcpIInv'
<1> SUFFICES ASSUME TcpIInv, [TcpNext]_tcpVars PROVE TcpIInv'
  OBVIOUS
<1>0. HandleTypes /\ WithinLimits /\ WriteTypes /\ Flows /\ QueuesApart /\ OkIsSent
  BY DEF TcpIInv
<1>1. ASSUME HandleTypes' /\ WithinLimits' /\ WritesKept PROVE TcpIInv'
  BY <1>1 DEF TcpIInv, WritesKept
<1>2. ASSUME Quiet, UNCHANGED <<size, status, wire>> PROVE TcpIInv'
  <2>1. WritesKept
    BY <1>0, <1>2, QuietKeeps DEF Quiet
  <2> QED BY <1>1, <1>2, <2>1 DEF Quiet
<1>3. ASSUME NEW h \in Tcps,
             UvTcpConnect(h) \/ UvTcpOpen(h) \/ UvListen(h) \/ UvReadStart(h) \/ UvReadStop(h)
      PROVE  TcpIInv'
  <2>1. UNCHANGED <<size, status, wire>>
    BY <1>3 DEF UvTcpConnect, UvTcpOpen, UvListen, UvReadStart, UvReadStop
  <2> QED BY <1>0, <1>2, <1>3, <2>1, CallsAreQuiet
<1>4. ASSUME NEW h \in Tcps, NEW n \in WriteSizes, UvWrite(h, n) PROVE TcpIInv'
  BY <1>0, <1>1, <1>4, UvWriteKeeps
<1>5. ASSUME NEW h \in Tcps, UvTryWrite(h) PROVE TcpIInv'
  <2>1. CASE Takes(h, 1) = 1
    BY <1>0, <1>1, <1>5, <2>1, TryWriteKeeps
  <2>2. CASE Takes(h, 1) # 1
    <3>1. UNCHANGED <<tcp, tcp_handles, kernel, size, status, wire, peer_acts, io>>
      BY <1>5, <2>2 DEF UvTryWrite
    <3>2. Quiet
      BY <1>0, <3>1, IoKeeps DEF HandleTypes
    <3> QED BY <1>2, <3>1, <3>2
  <2> QED BY <2>1, <2>2
<1>6. ASSUME NEW h \in Tcps, UvShutdown(h) \/ PeerReads(h) \/ PeerActs(h) PROVE TcpIInv'
  <2>1. UNCHANGED <<size, status, wire>>
    BY <1>6 DEF UvShutdown, PeerReads, PeerActs
  <2> QED BY <1>0, <1>2, <1>6, <2>1, ShutdownAndPeerAreQuiet
<1>7. ASSUME NEW h \in Tcps, UvTcpClose(h) PROVE TcpIInv'
  BY <1>0, <1>1, <1>7, CloseKeeps
<1>8. ASSUME NEW h \in Tcps, NEW c \in Tcps \ {h}, UvAccept(h, c) PROVE TcpIInv'
  <2>1. UNCHANGED <<size, status, wire>>
    BY <1>8 DEF UvAccept
  <2> QED BY <1>0, <1>2, <1>8, <2>1, AcceptIsQuiet
<1>9. CASE \/ StartTick \/ RunIo \/ Pick \/ PollConnect \/ PollAccept \/ Notified
           \/ PollReadReady \/ TryRead \/ AfterEof \/ PollWriteReady \/ TcpCallbackEnds \/ EndTick
  <2>1. UNCHANGED <<size, status, wire>>
    BY <1>9 DEF StartTick, RunIo, Pick, PollConnect, PollAccept, Notified, PollReadReady, TryRead,
                AfterEof, PollWriteReady, TcpCallbackEnds, EndTick
  <2> QED BY <1>0, <1>2, <1>9, <2>1, IoIsQuiet
<1>10. CASE DrainWrites
  BY <1>0, <1>1, <1>10, DrainWritesKeeps
<1>11. CASE UNCHANGED tcpVars
  BY <1>0, <1>11 DEF tcpVars, TcpIInv, HandleTypes, WithinLimits, WriteTypes, Flows, QueuesApart,
                     OkIsSent
<1>12. CASE TcpCalls
  BY <1>3, <1>4, <1>5, <1>6, <1>7, <1>8, <1>12 DEF TcpCalls
<1>13. CASE IoStep
  BY <1>9, <1>10, <1>13 DEF IoStep
<1>14. CASE OtherWake \/ \E h \in Tcps, d \in Directions : Reactor(h, d)
  <2>1. UNCHANGED <<tcp, tcp_handles, kernel, size, status, wire, peer_acts, io>>
    BY <1>14 DEF OtherWake, Reactor
  <2>2. Quiet
    BY <1>0, <2>1, IoKeeps DEF HandleTypes
  <2> QED BY <1>2, <2>1, <2>2
<1>15. CASE Environment
  BY <1>6, <1>14, <1>15 DEF Environment
<1> QED BY <1>11, <1>12, <1>13, <1>15 DEF TcpNext

LEMMA TcpImplied == TcpIInv => WritesInOrder
<1> SUFFICES ASSUME TcpIInv PROVE WritesInOrder
  OBVIOUS
<1>0. HandleTypes /\ WithinLimits /\ WriteTypes /\ Flows /\ OkIsSent
  BY DEF TcpIInv
<1>1. TcpTypeOK
  <2>1. IsInjective(tcp_handles) /\ ToSet(tcp_handles) \subseteq Tcps
    BY <1>0 DEF HandleTypes, Once, IsInjective, ToSet
  <2>2. ASSUME NEW h \in Tcps
        PROVE  tcp[h].backlog \in 0 .. MaxPeer /\ kernel[h].room \in 0 .. Capacity
    <3>1. MaxPeer \in Nat
      BY TcpAssumption
    <3>2. /\ tcp[h].backlog \in Nat /\ kernel[h].arrived \in Nat /\ kernel[h].room \in Nat
          /\ tcp[h].backlog + kernel[h].arrived <= peer_acts /\ kernel[h].room <= Capacity
          /\ peer_acts \in 0 .. MaxPeer /\ Capacity \in Nat
      BY <1>0, HandleIs
    <3> QED BY <3>1, <3>2
  <2>3. io.at \in {"parked", "before", "after", "pick", "connect", "listen", "notified",
                    "read", "reading", "eof", "write", "writing"}
    BY <1>0 DEF HandleTypes, IoRecord, Working, Elsewhere
  <2> QED BY <2>1, <2>2, <2>3 DEF TcpTypeOK
<1>2. ASSUME NEW h \in Tcps
      PROVE  /\ \A i, j \in DOMAIN wire[h] : i < j => wire[h][i] <= wire[h][j]
             /\ \A i \in 2 .. Len(wire[h]) :
                  wire[h][i] # wire[h][i - 1] => status[wire[h][i - 1]] # "queued"
  <2> DEFINE q == tcp[h].queue
             r == wire[h]
  <2>1. q \in Seq(Item) /\ r \in Seq(Writes) /\ FlowOf(q, r, status, size)
    BY <1>0, HandleIs DEF WriteTypes, Flows
  <2> HIDE DEF q, r
  <2>2. \A i, j \in DOMAIN r : i < j => r[i] <= r[j]
    BY <2>1 DEF FlowOf
  <2>3. ASSUME NEW i \in 2 .. Len(r), status[r[i - 1]] = "queued" PROVE r[i] = r[i - 1]
    <3>1. i \in DOMAIN r /\ i - 1 \in DOMAIN r /\ i - 1 < i /\ r[i] \in Writes /\ r[i - 1] \in Writes
      BY <2>1
    <3>2. q # <<>> /\ r[i - 1] = q[1].w
      BY <2>1, <2>3, <3>1 DEF FlowOf
    <3>3. 1 \in DOMAIN q
      BY <2>1, <3>2
    <3>4. r[i] <= q[1].w /\ r[i - 1] <= r[i]
      BY <2>1, <3>1, <3>3 DEF FlowOf
    <3>5. r[i] \in Nat /\ r[i - 1] \in Nat
      BY <3>1, WritesAreNumbers
    <3> QED BY <3>2, <3>4, <3>5
  <2> QED BY <2>2, <2>3 DEF r
<1>3. \A w \in Writes : status[w] = "ok" =>
        \E h \in Tcps : Cardinality({i \in DOMAIN wire[h] : wire[h][i] = w}) = size[w]
  BY <1>0 DEF OkIsSent, Sent
<1> QED BY <1>1, <1>2, <1>3 DEF WritesInOrder

(* For any sockets, sizes of the kernel's buffer and numbers of calls: the *)
(* data of the writes of a handle go out in the order of the calls, each   *)
(* whole before the next, and a write reported successful is all with the  *)
(* kernel, whatever uv_write, uv_try_write, uv_shutdown, uv_close and      *)
(* run_io do in between.                                                   *)
THEOREM WritesArriveInOrder == TcpSpec => []WritesInOrder
<1>1. TcpInit => TcpIInv
  BY TcpInitial
<1>2. TcpIInv /\ [TcpNext]_tcpVars => TcpIInv'
  BY TcpInductive
<1>3. TcpIInv => WritesInOrder
  BY TcpImplied
<1> QED BY <1>1, <1>2, <1>3, PTL DEF TcpSpec

(***************************************************************************)
(* UvLoop, for any timers, watchers and number of calls, as long as C code *)
(* starts no handle that is closing.  What the invariant needs beyond the  *)
(* property: ids are not reused, the keys run_timers has taken still name  *)
(* the deadline of the timer their id is filed under, if there is one, and *)
(* the two lists of closing handles share none.                            *)
(***************************************************************************)
UvTypes ==
  /\ uv_now \in Nat /\ uv_calls \in 0 .. UvMaxCalls
  /\ handle \in [Handles -> HandleType]
  /\ uv_timers \subseteq Nat \X TimerIds /\ uv_expired \subseteq Nat \X TimerIds
  /\ timer_handles \in [TimerIds -> UvTimers \cup {UvNone}]
  /\ watchers \in [Kinds -> Seq(Watchers)]
  /\ closing_handles \in Seq(Handles) /\ closing_now \in Seq(Handles)
  /\ uv_pc \in {"outside", "timers", "idle", "prepare", "check", "close"}
  /\ cursor \in Nat /\ callback \in Handles \cup {UvNone}

(* The two tables hold the active timers, each under its own id. *)
ArmedAgree ==
  /\ \A h \in UvTimers : handle[h].id <= uv_calls
  /\ \A g, h \in UvTimers : handle[g].id = handle[h].id /\ handle[g].id # 0 => g = h
  /\ \A h \in UvTimers : handle[h].active =>
       /\ handle[h].id # 0 /\ timer_handles[handle[h].id] = h
       /\ <<handle[h].deadline, handle[h].id>> \in uv_timers
  /\ \A i \in TimerIds : timer_handles[i] # UvNone =>
       handle[timer_handles[i]].active /\ handle[timer_handles[i]].id = i
  /\ \A key \in uv_timers :
       /\ timer_handles[key[2]] # UvNone
       /\ handle[timer_handles[key[2]]].deadline = key[1]

(* A key that was taken is that of its timer, unless the timer was stopped. *)
ExpiredAgree ==
  /\ uv_expired # {} => uv_pc = "timers"
  /\ \A key \in uv_expired :
       /\ key[1] <= uv_now /\ key[2] <= uv_calls
       /\ timer_handles[key[2]] # UvNone => handle[timer_handles[key[2]]].deadline = key[1]
  /\ \A j, k \in uv_expired : j[2] = k[2] => j = k

WatchersAgree ==
  \A k \in Kinds :
    /\ Once(watchers[k])
    /\ \A w \in Watchers : w \in ToSet(watchers[k]) <=> WatcherKind[w] = k /\ handle[w].active

(* The handles that wait for their close callbacks. *)
ClosingAgree ==
  /\ Once(closing_handles) /\ Once(closing_now)
  /\ ToSet(closing_handles) \cap ToSet(closing_now) = {}
  /\ \A h \in Handles :
       /\ h \in ToSet(closing_handles) \cup ToSet(closing_now)
            <=> handle[h].closing /\ ~handle[h].freed
       /\ handle[h].closing => ~handle[h].active
       /\ handle[h].freed => handle[h].closing
  /\ closing_now # <<>> => uv_pc = "close"

UvIInv == UvTypes /\ ArmedAgree /\ ExpiredAgree /\ WatchersAgree /\ ClosingAgree

----------------------------------------------------------------------------
LEMMA UvSets ==
  /\ UvTimers \subseteq Handles /\ Watchers \subseteq Handles
  /\ \A h \in UvTimers : h \notin Watchers /\ h # UvNone
  /\ UvNone \notin Handles /\ UvMaxCalls \in Nat /\ TimerIds = 1 .. UvMaxCalls
  /\ \A w \in Watchers : WatcherKind[w] \in Kinds
BY UvAssumption DEF Handles, TimerIds

LEMMA HandleUpdate ==
  ASSUME UvTypes, NEW h \in Handles, NEW x \in HandleType, handle' = [handle EXCEPT ![h] = x]
  PROVE  /\ handle' \in [Handles -> HandleType] /\ handle'[h] = x
         /\ \A g \in Handles \ {h} : handle'[g] = handle[g]
BY DEF UvTypes

(* Steps that leave the timers, the watchers or the closing handles alone. *)
TimersSame ==
  /\ UNCHANGED <<uv_timers, timer_handles>>
  /\ \A h \in UvTimers : /\ handle'[h].active = handle[h].active /\ handle'[h].id = handle[h].id
                         /\ handle'[h].deadline = handle[h].deadline
WatchersSame ==
  /\ watchers' = watchers
  /\ \A w \in Watchers : handle'[w].active = handle[w].active
ClosingSame ==
  /\ UNCHANGED <<closing_handles, closing_now>>
  /\ \A h \in Handles : /\ handle'[h].closing = handle[h].closing
                        /\ handle'[h].freed = handle[h].freed
                        /\ handle'[h].active => handle[h].active \/ ~handle[h].closing
  /\ closing_now # <<>> => uv_pc' = "close"
CallsCount == uv_calls' \in 0 .. UvMaxCalls /\ uv_calls <= uv_calls'
ExpiredSame ==
  /\ uv_now' = uv_now /\ uv_expired' \subseteq uv_expired
  /\ uv_expired' # {} => uv_pc' = "timers"

LEMMA ArmedKept ==
  ASSUME UvTypes, ArmedAgree, TimersSame, CallsCount
  PROVE  ArmedAgree'
<1>1. /\ \A h \in UvTimers : h \in Handles
      /\ \A i \in TimerIds : timer_handles[i] # UvNone => timer_handles[i] \in UvTimers
      /\ \A key \in uv_timers : key[2] \in TimerIds
  BY UvSets DEF UvTypes
<1>2. \A h \in UvTimers : handle'[h].id <= uv_calls'
  <2> TAKE h \in UvTimers
  <2>1. handle[h].id \in 0 .. UvMaxCalls /\ handle[h].id <= uv_calls /\ uv_calls \in 0 .. UvMaxCalls
    BY <1>1 DEF UvTypes, HandleType, ArmedAgree
  <2>2. handle'[h].id = handle[h].id /\ uv_calls' \in 0 .. UvMaxCalls /\ uv_calls <= uv_calls'
    BY DEF TimersSame, CallsCount
  <2> QED BY <2>1, <2>2, UvSets
<1> QED BY <1>1, <1>2 DEF ArmedAgree, TimersSame

LEMMA ExpiredKept ==
  ASSUME UvTypes, ExpiredAgree, TimersSame, CallsCount, ExpiredSame
  PROVE  ExpiredAgree'
<1>1. /\ \A i \in TimerIds : timer_handles[i] # UvNone => timer_handles[i] \in UvTimers
      /\ \A key \in uv_expired : key[2] \in TimerIds
  BY DEF UvTypes
<1>2. \A key \in uv_expired : key[2] <= uv_calls'
  <2> TAKE key \in uv_expired
  <2>1. key[2] \in TimerIds /\ key[2] <= uv_calls /\ uv_calls \in 0 .. UvMaxCalls
    BY <1>1 DEF UvTypes, ExpiredAgree
  <2>2. uv_calls' \in 0 .. UvMaxCalls /\ uv_calls <= uv_calls'
    BY DEF CallsCount
  <2> QED BY <2>1, <2>2, UvSets
<1> QED BY <1>1, <1>2 DEF ExpiredAgree, TimersSame, ExpiredSame

LEMMA WatchersKept ==
  ASSUME WatchersAgree, WatchersSame
  PROVE  WatchersAgree'
BY DEF WatchersAgree, WatchersSame

LEMMA ClosingKept ==
  ASSUME ClosingAgree, ClosingSame
  PROVE  ClosingAgree'
BY DEF ClosingAgree, ClosingSame

(* stop_timer leaves what belongs to the other timers. *)
LEMMA StopFacts ==
  ASSUME UvTypes, ArmedAgree, NEW h \in UvTimers
  PROVE  /\ WithoutHandle(h) \in [TimerIds -> UvTimers \cup {UvNone}]
         /\ \A i \in TimerIds :
              WithoutHandle(h)[i] = IF timer_handles[i] = h THEN UvNone ELSE timer_handles[i]
         /\ WithoutKey(h) = {key \in uv_timers : timer_handles[key[2]] # h}
         /\ ~handle[h].active => \A i \in TimerIds : timer_handles[i] # h
<1>0. /\ h \in Handles /\ handle[h] \in HandleType /\ handle[h].id \in 0 .. UvMaxCalls
      /\ timer_handles \in [TimerIds -> UvTimers \cup {UvNone}] /\ h # UvNone
  BY UvSets DEF UvTypes, HandleType
<1>1. \A i \in TimerIds : timer_handles[i] = h => handle[h].active /\ handle[h].id = i
  BY <1>0 DEF ArmedAgree
<1>2. ASSUME handle[h].id # 0
      PROVE  /\ handle[h].id \in TimerIds
             /\ timer_handles[handle[h].id] \in {h, UvNone}
  <2>1. handle[h].id \in TimerIds
    BY <1>0, <1>2, UvSets
  <2>2. CASE timer_handles[handle[h].id] # UvNone
    <3>1. /\ timer_handles[handle[h].id] \in UvTimers
          /\ handle[timer_handles[handle[h].id]].id = handle[h].id
      BY <1>0, <2>1, <2>2 DEF ArmedAgree
    <3> QED BY <1>2, <2>1, <3>1 DEF ArmedAgree
  <2> QED BY <2>1, <2>2
<1>3. /\ WithoutHandle(h) \in [TimerIds -> UvTimers \cup {UvNone}]
      /\ \A i \in TimerIds :
           WithoutHandle(h)[i] = IF timer_handles[i] = h THEN UvNone ELSE timer_handles[i]
  <2>1. CASE handle[h].id = 0
    <3>1. WithoutHandle(h) = timer_handles /\ 0 \notin TimerIds
      BY <2>1, UvSets DEF WithoutHandle
    <3> QED BY <1>0, <1>1, <2>1, <3>1
  <2>2. CASE handle[h].id # 0
    <3>1. WithoutHandle(h) = [timer_handles EXCEPT ![handle[h].id] = UvNone]
      BY <2>2 DEF WithoutHandle
    <3> QED BY <1>0, <1>1, <1>2, <2>2, <3>1
  <2> QED BY <2>1, <2>2
<1>4. ASSUME NEW key \in uv_timers
      PROVE  timer_handles[key[2]] = h <=> key = <<handle[h].deadline, handle[h].id>>
  <2>1. /\ key[2] \in TimerIds /\ key = <<key[1], key[2]>>
        /\ timer_handles[key[2]] \in UvTimers /\ handle[timer_handles[key[2]]].deadline = key[1]
        /\ handle[timer_handles[key[2]]].id = key[2]
    BY <1>4 DEF UvTypes, ArmedAgree
  <2>2. ASSUME key = <<handle[h].deadline, handle[h].id>> PROVE timer_handles[key[2]] = h
    <3>1. handle[h].id = key[2] /\ key[2] # 0
      BY <2>1, <2>2, UvSets
    <3> QED BY <2>1, <3>1 DEF ArmedAgree
  <2> QED BY <2>1, <2>2
<1>5. WithoutKey(h) = {key \in uv_timers : timer_handles[key[2]] # h}
  BY <1>4 DEF WithoutKey
<1> QED BY <1>1, <1>3, <1>5

(* A timer that is disarmed, by C code or as its callback runs. *)
LEMMA StopKeeps ==
  ASSUME UvTypes, ArmedAgree, ExpiredAgree, NEW h \in UvTimers, CallsCount, ExpiredSame,
         timer_handles' = WithoutHandle(h), uv_timers' = WithoutKey(h),
         handle'[h].active = FALSE, handle'[h].id = handle[h].id,
         \A g \in Handles \ {h} : handle'[g] = handle[g]
  PROVE  ArmedAgree' /\ ExpiredAgree'
<1>0. /\ \A g \in UvTimers : g \in Handles /\ g # UvNone
      /\ timer_handles \in [TimerIds -> UvTimers \cup {UvNone}]
      /\ \A key \in uv_timers \cup uv_expired : key[2] \in TimerIds
  BY UvSets DEF UvTypes
<1>1. /\ timer_handles' \in [TimerIds -> UvTimers \cup {UvNone}]
      /\ \A i \in TimerIds :
           timer_handles'[i] = IF timer_handles[i] = h THEN UvNone ELSE timer_handles[i]
      /\ uv_timers' = {key \in uv_timers : timer_handles[key[2]] # h}
  BY StopFacts
<1>2. \A g \in UvTimers : handle'[g].id = handle[g].id /\ handle'[g].id <= uv_calls'
  <2> TAKE g \in UvTimers
  <2>1. handle[g].id \in 0 .. UvMaxCalls /\ handle[g].id <= uv_calls /\ uv_calls \in 0 .. UvMaxCalls
    BY <1>0 DEF UvTypes, HandleType, ArmedAgree
  <2>2. handle'[g].id = handle[g].id /\ uv_calls' \in 0 .. UvMaxCalls /\ uv_calls <= uv_calls'
    BY <1>0 DEF CallsCount
  <2> QED BY <2>1, <2>2, UvSets
<1>3. \A g \in UvTimers : handle'[g].active => g # h
  OBVIOUS
<1>4. \A g \in UvTimers : handle'[g].active =>
        /\ handle'[g].id # 0 /\ timer_handles'[handle'[g].id] = g
        /\ <<handle'[g].deadline, handle'[g].id>> \in uv_timers'
  <2> TAKE g \in UvTimers
  <2> HAVE handle'[g].active
  <2>1. g # h /\ handle'[g] = handle[g]
    BY <1>0, <1>3
  <2>2. /\ handle[g].id # 0 /\ timer_handles[handle[g].id] = g
        /\ <<handle[g].deadline, handle[g].id>> \in uv_timers
    BY <2>1 DEF ArmedAgree
  <2>3. handle[g].id \in TimerIds
    BY <1>0, <2>2
  <2> QED BY <1>1, <2>1, <2>2, <2>3
<1>5. \A i \in TimerIds : timer_handles'[i] # UvNone =>
        /\ timer_handles'[i] = timer_handles[i] /\ timer_handles[i] \in UvTimers
        /\ handle'[timer_handles[i]] = handle[timer_handles[i]]
  BY <1>0, <1>1
<1>6. ArmedAgree'
  BY <1>0, <1>1, <1>2, <1>4, <1>5 DEF ArmedAgree
<1>7. \A key \in uv_expired : key[2] <= uv_calls'
  <2> TAKE key \in uv_expired
  <2>1. key[2] \in TimerIds /\ key[2] <= uv_calls /\ uv_calls \in 0 .. UvMaxCalls
    BY <1>0 DEF UvTypes, ExpiredAgree
  <2>2. uv_calls' \in 0 .. UvMaxCalls /\ uv_calls <= uv_calls'
    BY DEF CallsCount
  <2> QED BY <2>1, <2>2, UvSets
<1>8. ExpiredAgree'
  BY <1>0, <1>5, <1>7 DEF ExpiredAgree, ExpiredSame
<1> QED BY <1>6, <1>8

(* What a call of a uv function does beside its own effects. *)
LEMMA CallFacts ==
  ASSUME UvIInv, NEW h \in Handles, UvCall(h)
  PROVE  /\ CallsCount /\ ExpiredSame /\ uv_calls' = uv_calls + 1 /\ ~handle[h].freed
         /\ uv_calls + 1 \in TimerIds
         /\ UNCHANGED <<uv_now, uv_pc, cursor, uv_expired, closing_now, callback>>
         /\ handle[h] \in HandleType
         /\ closing_now # <<>> => uv_pc' = "close"
<1>1. /\ uv_calls \in 0 .. UvMaxCalls /\ uv_calls < UvMaxCalls /\ uv_calls' = uv_calls + 1
      /\ UNCHANGED <<uv_now, uv_pc, cursor, uv_expired, closing_now, callback>> /\ ~handle[h].freed
  BY DEF UvIInv, UvTypes, UvCall, phaseVars
<1>2. CallsCount /\ uv_calls + 1 \in TimerIds
  BY <1>1, UvSets DEF CallsCount
<1>3. ExpiredSame /\ (closing_now # <<>> => uv_pc' = "close")
  BY <1>1 DEF UvIInv, ExpiredAgree, ClosingAgree, ExpiredSame
<1> QED BY <1>1, <1>2, <1>3 DEF UvIInv, UvTypes

LEMMA ArmKeeps ==
  ASSUME UvIInv, ~StartsClosing, NEW h \in UvTimers, NEW delay \in {0, 1}, NEW repeat \in {0, 1},
         UvCall(h), MayStart(h), Arm(h, delay, repeat)
  PROVE  UvIInv'
<1> DEFINE due == uv_now + delay
           id == uv_calls + 1
           th == IF handle[h].active THEN WithoutHandle(h) ELSE timer_handles
           tm == IF handle[h].active THEN WithoutKey(h) ELSE uv_timers
           x == [[[[handle[h] EXCEPT !.active = TRUE] EXCEPT !.id = id]
                    EXCEPT !.deadline = due] EXCEPT !.repeat = repeat]
<1>0. /\ UvTypes /\ ArmedAgree /\ ExpiredAgree /\ WatchersAgree /\ ClosingAgree
      /\ h \in Handles /\ h \notin Watchers /\ h # UvNone
  BY UvSets DEF UvIInv
<1>1. /\ CallsCount /\ ExpiredSame /\ uv_calls' = id /\ id \in TimerIds
      /\ UNCHANGED <<uv_now, uv_pc, cursor, uv_expired, closing_now, callback>>
      /\ handle[h] \in HandleType /\ (closing_now # <<>> => uv_pc' = "close")
  BY <1>0, CallFacts
<1>2. /\ uv_timers' = tm \cup {<<due, id>>} /\ timer_handles' = [th EXCEPT ![id] = h]
      /\ handle' = [handle EXCEPT ![h] = x] /\ UNCHANGED <<watchers, closing_handles>>
      /\ ~handle[h].closing
  BY DEF Arm, MayStart
<1>3. /\ th \in [TimerIds -> UvTimers \cup {UvNone}]
      /\ \A i \in TimerIds : th[i] = IF timer_handles[i] = h THEN UvNone ELSE timer_handles[i]
      /\ tm = {key \in uv_timers : timer_handles[key[2]] # h}
  <2>1. CASE handle[h].active
    BY <1>0, <2>1, StopFacts
  <2>2. CASE ~handle[h].active
    <3>1. th = timer_handles /\ tm = uv_timers /\ \A i \in TimerIds : timer_handles[i] # h
      BY <1>0, <2>2, StopFacts
    <3>2. /\ timer_handles \in [TimerIds -> UvTimers \cup {UvNone}]
          /\ \A key \in uv_timers : key[2] \in TimerIds
      BY <1>0 DEF UvTypes
    <3> QED BY <3>1, <3>2
  <2> QED BY <2>1, <2>2
<1>4. due \in Nat /\ id \in 0 .. UvMaxCalls /\ repeat \in 0 .. 1
  <2>1. uv_now \in Nat /\ delay \in Nat
    BY <1>0 DEF UvTypes
  <2> QED BY <2>1, <1>1, UvSets
<1> HIDE DEF due, th, tm
<1>4a. \A i \in 0 .. UvMaxCalls : i <= uv_calls => i # id /\ i <= id
  BY <1>0, UvSets DEF UvTypes
<1> HIDE DEF id
<1>5. /\ x \in HandleType /\ x.active = TRUE /\ x.id = id /\ x.deadline = due
      /\ x.closing = handle[h].closing /\ x.freed = handle[h].freed
  BY <1>1, <1>4 DEF HandleType
<1> HIDE DEF x
<1>6. /\ handle' \in [Handles -> HandleType] /\ handle'[h] = x
      /\ \A g \in Handles \ {h} : handle'[g] = handle[g]
  BY <1>0, <1>2, <1>5, HandleUpdate
<1>7. /\ timer_handles' \in [TimerIds -> UvTimers \cup {UvNone}] /\ timer_handles'[id] = h
      /\ \A i \in TimerIds \ {id} :
           timer_handles'[i] = IF timer_handles[i] = h THEN UvNone ELSE timer_handles[i]
  BY <1>1, <1>2, <1>3
<1>8. uv_timers' \subseteq Nat \X TimerIds
  BY <1>0, <1>1, <1>2, <1>3, <1>4 DEF UvTypes
<1>9. UvTypes'
  BY <1>0, <1>1, <1>2, <1>6, <1>7, <1>8 DEF UvTypes, CallsCount
<1>10. \A g \in UvTimers \ {h} : /\ g \in Handles /\ handle'[g] = handle[g] /\ handle[g].id # id
                                 /\ handle[g].id <= id
  <2> TAKE g \in UvTimers \ {h}
  <2>1. g \in Handles /\ handle[g].id \in 0 .. UvMaxCalls /\ handle[g].id <= uv_calls
    BY <1>0, UvSets DEF UvTypes, HandleType, ArmedAgree
  <2> QED BY <2>1, <1>4a, <1>6
<1>11. ArmedAgree'
  <2>1. \A g \in UvTimers : handle'[g].id <= uv_calls'
    BY <1>1, <1>4, <1>5, <1>6, <1>10, UvSets
  <2>2. \A f, g \in UvTimers : handle'[f].id = handle'[g].id /\ handle'[f].id # 0 => f = g
    BY <1>0, <1>5, <1>6, <1>10 DEF ArmedAgree
  <2>3. ASSUME NEW g \in UvTimers, handle'[g].active
        PROVE  /\ handle'[g].id # 0 /\ timer_handles'[handle'[g].id] = g
               /\ <<handle'[g].deadline, handle'[g].id>> \in uv_timers'
    <3>1. CASE g = h
      <4>1. id # 0
        BY <1>1, UvSets
      <4> QED BY <1>2, <1>5, <1>6, <1>7, <3>1, <4>1
    <3>2. CASE g # h
      <4>1. handle'[g] = handle[g] /\ handle[g].id # id /\ g \in Handles
        BY <1>10, <3>2
      <4>2. /\ handle[g].id # 0 /\ timer_handles[handle[g].id] = g
            /\ <<handle[g].deadline, handle[g].id>> \in uv_timers
        BY <1>0, <2>3, <4>1 DEF ArmedAgree
      <4>3. handle[g].id \in TimerIds
        BY <1>0, <4>2 DEF UvTypes
      <4> QED BY <1>2, <1>3, <1>7, <3>2, <4>1, <4>2, <4>3
    <3> QED BY <3>1, <3>2
  <2>4. ASSUME NEW i \in TimerIds, timer_handles'[i] # UvNone
        PROVE  handle'[timer_handles'[i]].active /\ handle'[timer_handles'[i]].id = i
    <3>1. CASE i = id
      BY <1>5, <1>6, <1>7, <3>1
    <3>2. CASE i # id
      <4>1. timer_handles'[i] = timer_handles[i] /\ timer_handles[i] \in UvTimers \ {h}
        BY <1>0, <1>7, <2>4, <3>2 DEF UvTypes
      <4> QED BY <1>0, <1>10, <2>4, <4>1 DEF ArmedAgree, UvTypes
    <3> QED BY <3>1, <3>2
  <2>5. ASSUME NEW key \in uv_timers'
        PROVE  /\ timer_handles'[key[2]] # UvNone
               /\ handle'[timer_handles'[key[2]]].deadline = key[1]
    <3>1. CASE key = <<due, id>>
      BY <1>0, <1>5, <1>6, <1>7, <3>1
    <3>2. CASE key # <<due, id>>
      <4>1. key \in uv_timers /\ timer_handles[key[2]] # h /\ key[2] \in TimerIds
        BY <1>0, <1>2, <1>3, <2>5, <3>2 DEF UvTypes
      <4>2. /\ timer_handles[key[2]] \in UvTimers \ {h} /\ handle[timer_handles[key[2]]].id = key[2]
            /\ handle[timer_handles[key[2]]].deadline = key[1]
        BY <1>0, <4>1 DEF ArmedAgree, UvTypes
      <4>3. key[2] # id /\ handle'[timer_handles[key[2]]] = handle[timer_handles[key[2]]]
        BY <1>10, <4>2
      <4>4. timer_handles'[key[2]] = timer_handles[key[2]]
        BY <1>7, <4>1, <4>3
      <4> QED BY <1>0, <4>2, <4>3, <4>4, UvSets
    <3> QED BY <3>1, <3>2
  <2> QED BY <2>1, <2>2, <2>3, <2>4, <2>5 DEF ArmedAgree
<1>12. ExpiredAgree'
  <2>1. ASSUME NEW key \in uv_expired
        PROVE  /\ key[1] <= uv_now /\ key[2] <= uv_calls'
               /\ timer_handles'[key[2]] # UvNone =>
                    handle'[timer_handles'[key[2]]].deadline = key[1]
    <3>1. /\ key[2] \in TimerIds /\ key[2] <= uv_calls /\ key[1] <= uv_now
          /\ timer_handles[key[2]] # UvNone => handle[timer_handles[key[2]]].deadline = key[1]
      BY <1>0, <2>1 DEF ExpiredAgree, UvTypes
    <3>2. key[2] # id /\ key[2] <= id
      BY <1>4a, <3>1, UvSets
    <3>3. timer_handles'[key[2]] # UvNone =>
            /\ timer_handles'[key[2]] = timer_handles[key[2]]
            /\ timer_handles[key[2]] \in UvTimers \ {h}
      BY <1>0, <1>7, <3>1, <3>2 DEF UvTypes
    <3> QED BY <1>1, <1>10, <3>1, <3>2, <3>3
  <2> QED BY <1>0, <1>1, <2>1 DEF ExpiredAgree
<1>13. WatchersAgree'
  <2>1. WatchersSame
    BY <1>0, <1>2, <1>6, UvSets DEF WatchersSame
  <2> QED BY <1>0, <2>1, WatchersKept
<1>14. ClosingAgree'
  <2>1. ClosingSame
    BY <1>1, <1>2, <1>5, <1>6 DEF ClosingSame
  <2> QED BY <1>0, <2>1, ClosingKept
<1> QED BY <1>9, <1>11, <1>12, <1>13, <1>14 DEF UvIInv

LEMMA StartKeeps ==
  ASSUME UvIInv, ~StartsClosing, NEW h \in UvTimers,
         \/ \E timeout \in 0 .. 1, repeat \in 0 .. 1 : TimerStart(h, timeout, repeat)
         \/ TimerAgain(h)
  PROVE  UvIInv'
<1>1. CASE \E timeout \in 0 .. 1, repeat \in 0 .. 1 : TimerStart(h, timeout, repeat)
  <2>1. PICK timeout \in {0, 1}, repeat \in {0, 1} : TimerStart(h, timeout, repeat)
    <3>1. 0 .. 1 = {0, 1}
      OBVIOUS
    <3> QED BY <1>1, <3>1
  <2> QED BY <2>1, ArmKeeps DEF TimerStart
<1>2. CASE TimerAgain(h)
  <2>1. handle[h].repeat \in {0, 1}
    <3>1. handle[h].repeat \in 0 .. 1
      BY UvSets DEF UvIInv, UvTypes, HandleType
    <3> QED BY <3>1
  <2> QED BY <1>2, <2>1, ArmKeeps DEF TimerAgain
<1> QED BY <1>1, <1>2

LEMMA TimerStopKeeps ==
  ASSUME UvIInv, NEW h \in UvTimers, TimerStop(h)
  PROVE  UvIInv'
<1> DEFINE x == [handle[h] EXCEPT !.active = FALSE]
<1>0. /\ UvTypes /\ ArmedAgree /\ ExpiredAgree /\ WatchersAgree /\ ClosingAgree
      /\ h \in Handles /\ h \notin Watchers
  BY UvSets DEF UvIInv
<1>1. /\ CallsCount /\ ExpiredSame
      /\ UNCHANGED <<uv_now, uv_pc, cursor, uv_expired, closing_now, callback>>
      /\ handle[h] \in HandleType /\ (closing_now # <<>> => uv_pc' = "close")
  BY <1>0, CallFacts DEF TimerStop
<1>2. /\ uv_timers' = WithoutKey(h) /\ timer_handles' = WithoutHandle(h)
      /\ handle' = [handle EXCEPT ![h] = x] /\ UNCHANGED <<watchers, closing_handles>>
  BY DEF TimerStop
<1>3. /\ x \in HandleType /\ x.active = FALSE /\ x.id = handle[h].id
      /\ x.closing = handle[h].closing /\ x.freed = handle[h].freed
  BY <1>1 DEF HandleType
<1> HIDE DEF x
<1>4. /\ handle' \in [Handles -> HandleType] /\ handle'[h] = x
      /\ \A g \in Handles \ {h} : handle'[g] = handle[g]
  BY <1>0, <1>2, <1>3, HandleUpdate
<1>5. ArmedAgree' /\ ExpiredAgree'
  BY <1>0, <1>1, <1>2, <1>3, <1>4, StopKeeps
<1>6. UvTypes'
  <2>1. timer_handles' \in [TimerIds -> UvTimers \cup {UvNone}] /\ uv_timers' \subseteq uv_timers
    BY <1>0, <1>2, StopFacts
  <2> QED BY <1>0, <1>1, <1>2, <1>4, <2>1 DEF UvTypes, CallsCount
<1>7. WatchersSame /\ ClosingSame
  BY <1>0, <1>1, <1>2, <1>3, <1>4, UvSets DEF WatchersSame, ClosingSame
<1> QED BY <1>0, <1>5, <1>6, <1>7, WatchersKept, ClosingKept DEF UvIInv

(* uv_timer_set_repeat, uv_ref, uv_unref. *)
LEMMA SetKeeps ==
  ASSUME UvIInv, NEW h \in Handles, NEW repeat \in 0 .. 1, NEW r \in BOOLEAN,
         TimerSetRepeat(h, repeat) \/ UvSetRef(h, r)
  PROVE  UvIInv'
<1>0. UvTypes /\ ArmedAgree /\ ExpiredAgree /\ WatchersAgree /\ ClosingAgree
  BY DEF UvIInv
<1>1. /\ CallsCount /\ ExpiredSame
      /\ UNCHANGED <<uv_now, uv_pc, cursor, uv_expired, closing_now, callback>>
      /\ handle[h] \in HandleType /\ (closing_now # <<>> => uv_pc' = "close")
  BY <1>0, CallFacts DEF TimerSetRepeat, UvSetRef
<1>2. UNCHANGED <<uv_timers, timer_handles, watchers, closing_handles>>
  BY DEF TimerSetRepeat, UvSetRef, tableVars
<1>3. PICK x \in HandleType :
        /\ handle' = [handle EXCEPT ![h] = x]
        /\ x.active = handle[h].active /\ x.id = handle[h].id /\ x.deadline = handle[h].deadline
        /\ x.closing = handle[h].closing /\ x.freed = handle[h].freed
  <2>1. CASE TimerSetRepeat(h, repeat)
    <3> DEFINE y == [handle[h] EXCEPT !.repeat = repeat]
    <3>1. handle' = [handle EXCEPT ![h] = y]
      BY <2>1 DEF TimerSetRepeat
    <3>2. /\ y \in HandleType
          /\ y.active = handle[h].active /\ y.id = handle[h].id /\ y.deadline = handle[h].deadline
          /\ y.closing = handle[h].closing /\ y.freed = handle[h].freed
      BY <1>1 DEF HandleType
    <3> HIDE DEF y
    <3> QED BY <3>1, <3>2
  <2>2. CASE UvSetRef(h, r)
    <3> DEFINE y == [handle[h] EXCEPT !.referenced = r]
    <3>1. handle' = [handle EXCEPT ![h] = y]
      BY <2>2 DEF UvSetRef
    <3>2. /\ y \in HandleType
          /\ y.active = handle[h].active /\ y.id = handle[h].id /\ y.deadline = handle[h].deadline
          /\ y.closing = handle[h].closing /\ y.freed = handle[h].freed
      BY <1>1 DEF HandleType
    <3> HIDE DEF y
    <3> QED BY <3>1, <3>2
  <2> QED BY <2>1, <2>2
<1>4. /\ handle' \in [Handles -> HandleType] /\ handle'[h] = x
      /\ \A g \in Handles \ {h} : handle'[g] = handle[g]
  BY <1>0, <1>3, HandleUpdate
<1>5. TimersSame /\ WatchersSame /\ ClosingSame
  BY <1>1, <1>2, <1>3, <1>4, UvSets DEF TimersSame, WatchersSame, ClosingSame
<1>6. UvTypes'
  BY <1>0, <1>1, <1>2, <1>4 DEF UvTypes, CallsCount
<1> QED BY <1>0, <1>1, <1>5, <1>6, ArmedKept, ExpiredKept, WatchersKept, ClosingKept DEF UvIInv

(* A watcher enters its list or leaves it. *)
LEMMA WatcherListed ==
  ASSUME UvTypes, WatchersAgree, NEW w \in Watchers,
         \A v \in Watchers \ {w} : handle'[v].active = handle[v].active,
         \/ watchers' = [watchers EXCEPT ![WatcherKind[w]] = Append(@, w)]
            /\ ~handle[w].active /\ handle'[w].active = TRUE
         \/ watchers' = WithoutWatcher(w) /\ handle'[w].active = FALSE
  PROVE  watchers' \in [Kinds -> Seq(Watchers)] /\ WatchersAgree'
<1> DEFINE k == WatcherKind[w]
           s == watchers[k]
<1>0. k \in Kinds /\ s \in Seq(Watchers) /\ watchers \in [Kinds -> Seq(Watchers)]
  BY UvSets DEF UvTypes
<1>1. Once(s) /\ \A v \in Watchers : v \in ToSet(s) <=> WatcherKind[v] = k /\ handle[v].active
  BY <1>0 DEF WatchersAgree
<1>2. PICK t \in Seq(Watchers) :
        /\ watchers' = [watchers EXCEPT ![k] = t] /\ Once(t)
        /\ \A v \in Watchers : v \in ToSet(t) <=> WatcherKind[v] = k /\ handle'[v].active
  <2>1. CASE /\ watchers' = [watchers EXCEPT ![WatcherKind[w]] = Append(@, w)]
             /\ ~handle[w].active /\ handle'[w].active = TRUE
    <3>1. watchers' = [watchers EXCEPT ![k] = Append(s, w)] /\ w \notin ToSet(s)
      BY <1>0, <1>1, <2>1
    <3> HIDE DEF k, s
    <3>2. /\ Append(s, w) \in Seq(Watchers) /\ Once(Append(s, w))
          /\ ToSet(Append(s, w)) = ToSet(s) \cup {w}
      BY <1>0, <1>1, <3>1, ListAppend
    <3>3. \A v \in Watchers : v \in ToSet(Append(s, w)) <=> WatcherKind[v] = k /\ handle'[v].active
      BY <1>1, <2>1, <3>2 DEF k
    <3> QED BY <3>1, <3>2, <3>3
  <2>2. CASE watchers' = WithoutWatcher(w) /\ handle'[w].active = FALSE
    <3>1. watchers' = [watchers EXCEPT ![k] = RemoveFirst(s, w)]
      BY <1>0, <2>2 DEF WithoutWatcher
    <3> HIDE DEF k, s
    <3>2. /\ RemoveFirst(s, w) \in Seq(Watchers) /\ Once(RemoveFirst(s, w))
          /\ w \notin ToSet(RemoveFirst(s, w))
          /\ ToSet(RemoveFirst(s, w)) \subseteq ToSet(s)
          /\ ToSet(s) \ {w} \subseteq ToSet(RemoveFirst(s, w))
      BY <1>0, <1>1, ListRemove
    <3>3. \A v \in Watchers :
            v \in ToSet(RemoveFirst(s, w)) <=> WatcherKind[v] = k /\ handle'[v].active
      BY <1>1, <2>2, <3>2
    <3> QED BY <3>1, <3>2, <3>3
  <2> QED BY <2>1, <2>2
<1> HIDE DEF s
<1>3. /\ watchers' \in [Kinds -> Seq(Watchers)] /\ watchers'[k] = t
      /\ \A j \in Kinds \ {k} : watchers'[j] = watchers[j]
  BY <1>0, <1>2
<1>4. ASSUME NEW j \in Kinds
      PROVE  /\ Once(watchers'[j])
             /\ \A v \in Watchers :
                  v \in ToSet(watchers'[j]) <=> WatcherKind[v] = j /\ handle'[v].active
  <2>1. CASE j = k
    BY <1>2, <1>3, <2>1
  <2>2. CASE j # k
    <3>1. /\ watchers'[j] = watchers[j] /\ Once(watchers[j])
          /\ \A v \in Watchers : v \in ToSet(watchers[j]) <=> WatcherKind[v] = j /\ handle[v].active
      BY <1>3, <2>2 DEF WatchersAgree
    <3>2. \A v \in Watchers : WatcherKind[v] = j => handle'[v].active = handle[v].active
      BY <2>2 DEF k
    <3> QED BY <3>1, <3>2
  <2> QED BY <2>1, <2>2
<1> QED BY <1>3, <1>4 DEF WatchersAgree

LEMMA WatcherKeeps ==
  ASSUME UvIInv, ~StartsClosing, NEW w \in Watchers, WatcherStart(w) \/ WatcherStop(w)
  PROVE  UvIInv'
<1>0. /\ UvTypes /\ ArmedAgree /\ ExpiredAgree /\ WatchersAgree /\ ClosingAgree
      /\ w \in Handles /\ w \notin UvTimers
  BY UvSets DEF UvIInv
<1>1. /\ CallsCount /\ ExpiredSame
      /\ UNCHANGED <<uv_now, uv_pc, cursor, uv_expired, closing_now, callback>>
      /\ handle[w] \in HandleType /\ (closing_now # <<>> => uv_pc' = "close")
  BY <1>0, CallFacts DEF WatcherStart, WatcherStop
<1>2. UNCHANGED <<uv_timers, timer_handles, closing_handles>>
  BY DEF WatcherStart, WatcherStop
<1>3. PICK x \in HandleType :
        /\ handle' = [handle EXCEPT ![w] = x]
        /\ x.closing = handle[w].closing /\ x.freed = handle[w].freed
        /\ \/ /\ watchers' = [watchers EXCEPT ![WatcherKind[w]] = Append(@, w)]
              /\ ~handle[w].active /\ x.active = TRUE /\ ~handle[w].closing
           \/ watchers' = WithoutWatcher(w) /\ x.active = FALSE
  <2>1. CASE WatcherStart(w)
    <3> DEFINE y == [handle[w] EXCEPT !.active = TRUE]
    <3>1. /\ handle' = [handle EXCEPT ![w] = y] /\ ~handle[w].active /\ ~handle[w].closing
          /\ watchers' = [watchers EXCEPT ![WatcherKind[w]] = Append(@, w)]
      BY <2>1 DEF WatcherStart, MayStart
    <3>2. /\ y \in HandleType /\ y.active = TRUE
          /\ y.closing = handle[w].closing /\ y.freed = handle[w].freed
      BY <1>1 DEF HandleType
    <3> HIDE DEF y
    <3> QED BY <3>1, <3>2
  <2>2. CASE WatcherStop(w)
    <3> DEFINE y == [handle[w] EXCEPT !.active = FALSE]
    <3>1. handle' = [handle EXCEPT ![w] = y] /\ watchers' = WithoutWatcher(w)
      BY <2>2 DEF WatcherStop
    <3>2. /\ y \in HandleType /\ y.active = FALSE
          /\ y.closing = handle[w].closing /\ y.freed = handle[w].freed
      BY <1>1 DEF HandleType
    <3> HIDE DEF y
    <3> QED BY <3>1, <3>2
  <2> QED BY <2>1, <2>2
<1>4. /\ handle' \in [Handles -> HandleType] /\ handle'[w] = x
      /\ \A g \in Handles \ {w} : handle'[g] = handle[g]
  BY <1>0, <1>3, HandleUpdate
<1>5. watchers' \in [Kinds -> Seq(Watchers)] /\ WatchersAgree'
  <2>1. \A v \in Watchers \ {w} : handle'[v].active = handle[v].active
    BY <1>4, UvSets
  <2> QED BY <1>0, <1>3, <1>4, <2>1, WatcherListed
<1>6. TimersSame /\ ClosingSame
  BY <1>0, <1>1, <1>2, <1>3, <1>4, UvSets DEF TimersSame, ClosingSame
<1>7. UvTypes'
  BY <1>0, <1>1, <1>2, <1>4, <1>5 DEF UvTypes, CallsCount
<1> QED BY <1>0, <1>1, <1>5, <1>6, <1>7, ArmedKept, ExpiredKept, ClosingKept DEF UvIInv

LEMMA UvCloseKeeps ==
  ASSUME UvIInv, NEW h \in Handles, UvClose(h)
  PROVE  UvIInv'
<1> DEFINE x == [[handle[h] EXCEPT !.closing = TRUE] EXCEPT !.active = FALSE]
           c == Append(closing_handles, h)
<1>0. UvTypes /\ ArmedAgree /\ ExpiredAgree /\ WatchersAgree /\ ClosingAgree
  BY DEF UvIInv
<1>1. /\ CallsCount /\ ExpiredSame /\ ~handle[h].freed
      /\ UNCHANGED <<uv_now, uv_pc, cursor, uv_expired, closing_now, callback>>
      /\ handle[h] \in HandleType /\ (closing_now # <<>> => uv_pc' = "close")
  BY <1>0, CallFacts DEF UvClose
<1>2. /\ handle' = [handle EXCEPT ![h] = x] /\ ~handle[h].closing /\ closing_handles' = c
      /\ \/ /\ h \in UvTimers /\ uv_timers' = WithoutKey(h) /\ timer_handles' = WithoutHandle(h)
            /\ UNCHANGED watchers
         \/ /\ h \in Watchers /\ watchers' = WithoutWatcher(h)
            /\ UNCHANGED <<uv_timers, timer_handles>>
  BY DEF UvClose, Handles
<1>3. /\ x \in HandleType /\ x.active = FALSE /\ x.closing = TRUE /\ x.id = handle[h].id
      /\ x.freed = handle[h].freed
  BY <1>1 DEF HandleType
<1> HIDE DEF x
<1>4. /\ handle' \in [Handles -> HandleType] /\ handle'[h] = x
      /\ \A g \in Handles \ {h} : handle'[g] = handle[g]
  BY <1>0, <1>2, <1>3, HandleUpdate
<1>5. closing_handles \in Seq(Handles) /\ h \notin ToSet(closing_handles) \cup ToSet(closing_now)
  BY <1>0, <1>2 DEF UvTypes, ClosingAgree
<1>6. /\ c \in Seq(Handles) /\ ToSet(c) = ToSet(closing_handles) \cup {h}
      /\ Once(closing_handles) => Once(c)
  BY <1>5, ListAppend
<1> HIDE DEF c
<1>7. ClosingAgree'
  <2>1. Once(closing_handles)' /\ Once(closing_now)'
    BY <1>0, <1>1, <1>2, <1>6 DEF ClosingAgree
  <2>2. ToSet(closing_handles') \cap ToSet(closing_now') = {}
    BY <1>0, <1>1, <1>2, <1>5, <1>6 DEF ClosingAgree
  <2>3. ASSUME NEW g \in Handles
        PROVE  /\ g \in ToSet(closing_handles') \cup ToSet(closing_now')
                    <=> handle'[g].closing /\ ~handle'[g].freed
               /\ handle'[g].closing => ~handle'[g].active
               /\ handle'[g].freed => handle'[g].closing
    <3>1. CASE g = h
      BY <1>1, <1>2, <1>3, <1>4, <1>6, <3>1
    <3>2. CASE g # h
      BY <1>0, <1>1, <1>2, <1>4, <1>6, <3>2 DEF ClosingAgree
    <3> QED BY <3>1, <3>2
  <2> QED BY <1>1, <2>1, <2>2, <2>3 DEF ClosingAgree
<1>8. CASE h \in UvTimers /\ uv_timers' = WithoutKey(h) /\ timer_handles' = WithoutHandle(h)
           /\ UNCHANGED watchers
  <2>1. ArmedAgree' /\ ExpiredAgree'
    BY <1>0, <1>1, <1>3, <1>4, <1>8, StopKeeps
  <2>2. WatchersSame
    BY <1>4, <1>8, UvSets DEF WatchersSame
  <2>3. timer_handles' \in [TimerIds -> UvTimers \cup {UvNone}] /\ uv_timers' \subseteq uv_timers
    BY <1>0, <1>8, StopFacts
  <2>4. UvTypes'
    BY <1>0, <1>1, <1>2, <1>4, <1>6, <1>8, <2>3 DEF UvTypes, CallsCount
  <2> QED BY <1>0, <1>7, <2>1, <2>2, <2>4, WatchersKept DEF UvIInv
<1>9. CASE h \in Watchers /\ watchers' = WithoutWatcher(h) /\ UNCHANGED <<uv_timers, timer_handles>>
  <2>1. \A v \in Watchers \ {h} : handle'[v].active = handle[v].active
    BY <1>4, UvSets
  <2>2. watchers' \in [Kinds -> Seq(Watchers)] /\ WatchersAgree'
    BY <1>0, <1>3, <1>4, <1>9, <2>1, WatcherListed
  <2>3. TimersSame
    BY <1>4, <1>9, UvSets DEF TimersSame
  <2>4. UvTypes'
    BY <1>0, <1>1, <1>2, <1>4, <1>6, <1>9, <2>2 DEF UvTypes, CallsCount
  <2> QED BY <1>0, <1>1, <1>7, <2>2, <2>3, <2>4, ArmedKept, ExpiredKept DEF UvIInv
<1> QED BY <1>2, <1>8, <1>9

(* run_timers takes the keys of distinct timers. *)
LEMMA PollTimersKeeps ==
  ASSUME UvIInv, PollTimers
  PROVE  UvIInv'
<1>0. UvTypes /\ ArmedAgree /\ WatchersAgree /\ ClosingAgree
  BY DEF UvIInv
<1>1. /\ uv_pc' = "timers" /\ uv_expired' = {key \in uv_timers : key[1] <= uv_now}
      /\ UNCHANGED <<uv_now, uv_calls, handle, uv_timers, timer_handles, watchers, closing_handles,
                     cursor, closing_now, callback>>
      /\ closing_now = <<>>
  BY <1>0 DEF PollTimers, tableVars, ClosingAgree
<1>2. UvTypes' /\ ArmedAgree' /\ WatchersAgree' /\ ClosingAgree'
  BY <1>0, <1>1 DEF UvTypes, ArmedAgree, WatchersAgree, ClosingAgree
<1>3. ASSUME NEW key \in uv_timers
      PROVE  /\ key[2] \in TimerIds /\ key = <<key[1], key[2]>>
             /\ timer_handles[key[2]] \in UvTimers /\ key[2] <= uv_calls
             /\ handle[timer_handles[key[2]]].deadline = key[1]
  BY <1>0, <1>3 DEF UvTypes, ArmedAgree
<1>4. ExpiredAgree'
  BY <1>1, <1>3 DEF ExpiredAgree
<1> QED BY <1>2, <1>4 DEF UvIInv

LEMMA SkipTimerKeeps ==
  ASSUME UvIInv, NEW key \in uv_expired, SkipTimer(key)
  PROVE  UvIInv'
<1>0. UvTypes /\ ArmedAgree /\ ExpiredAgree /\ WatchersAgree /\ ClosingAgree
  BY DEF UvIInv
<1>1. /\ uv_pc = "timers" /\ uv_expired' = uv_expired \ {key}
      /\ uv_timers' = uv_timers \ {key} /\ timer_handles' = [timer_handles EXCEPT ![key[2]] = UvNone]
      /\ UNCHANGED <<uv_now, uv_calls, handle, watchers, closing_handles, uv_pc, cursor,
                     closing_now, callback>>
      /\ timer_handles[key[2]] = UvNone \/ ~handle[timer_handles[key[2]]].active
      /\ key[2] \in TimerIds
  BY <1>0 DEF SkipTimer, NextExpired, StillArmed, UvTypes
<1>2. uv_timers' = uv_timers /\ timer_handles' = timer_handles
  <2>1. timer_handles[key[2]] = UvNone
    BY <1>0, <1>1 DEF ArmedAgree
  <2> QED BY <1>0, <1>1, <2>1 DEF ArmedAgree, UvTypes
<1>3. TimersSame /\ CallsCount /\ ExpiredSame
  BY <1>0, <1>1, <1>2, UvSets DEF TimersSame, CallsCount, ExpiredSame, UvTypes
<1>4. UvTypes' /\ WatchersAgree' /\ ClosingAgree'
  BY <1>0, <1>1, <1>2 DEF UvTypes, WatchersAgree, ClosingAgree
<1> QED BY <1>0, <1>3, <1>4, ArmedKept, ExpiredKept DEF UvIInv

(* The key whose timer is still armed is its timer's. *)
LEMMA RunTimerFacts ==
  ASSUME UvIInv, NEW key \in uv_expired, timer_handles[key[2]] # UvNone
  PROVE  LET h == timer_handles[key[2]]
         IN /\ h \in UvTimers /\ h \in Handles /\ key[2] \in TimerIds /\ handle[h].active
            /\ handle[h].id = key[2] /\ handle[h].deadline = key[1] /\ key[1] <= uv_now
            /\ key = <<handle[h].deadline, handle[h].id>> /\ ~handle[h].closing
            /\ key \in uv_timers
<1> DEFINE h == timer_handles[key[2]]
<1>1. key[2] \in TimerIds /\ key = <<key[1], key[2]>> /\ h \in UvTimers /\ h \in Handles
  BY UvSets DEF UvIInv, UvTypes
<1>2. handle[h].active /\ handle[h].id = key[2] /\ handle[h].deadline = key[1] /\ key[1] <= uv_now
  BY <1>1 DEF UvIInv, ArmedAgree, ExpiredAgree
<1>3. ~handle[h].closing /\ <<handle[h].deadline, handle[h].id>> \in uv_timers
  BY <1>1, <1>2 DEF UvIInv, ArmedAgree, ClosingAgree
<1> QED BY <1>1, <1>2, <1>3

(* A repeating timer keeps its id under a new key, any other is disarmed. *)
LEMMA RunTimerKeeps ==
  ASSUME UvIInv, NEW key \in uv_expired, RunTimer(key)
  PROVE  UvIInv'
<1> DEFINE h == timer_handles[key[2]]
           due == uv_now + handle[h].repeat
<1>0. UvTypes /\ ArmedAgree /\ ExpiredAgree /\ WatchersAgree /\ ClosingAgree
  BY DEF UvIInv
<1>1. /\ uv_pc = "timers" /\ uv_expired' = uv_expired \ {key} /\ callback' = h
      /\ timer_handles[key[2]] # UvNone
      /\ UNCHANGED <<uv_now, uv_calls, watchers, closing_handles, uv_pc, cursor, closing_now>>
  BY DEF RunTimer, NextExpired, StillArmed
<1>2. /\ h \in UvTimers /\ h \in Handles /\ key[2] \in TimerIds /\ handle[h].active
      /\ handle[h].id = key[2] /\ handle[h].deadline = key[1]
      /\ key = <<handle[h].deadline, handle[h].id>> /\ ~handle[h].closing /\ key \in uv_timers
      /\ handle[h] \in HandleType /\ h # UvNone /\ h \notin Watchers
  BY <1>0, <1>1, RunTimerFacts, UvSets DEF UvTypes
<1>3. CallsCount /\ ExpiredSame
  BY <1>0, <1>1, UvSets DEF CallsCount, ExpiredSame, UvTypes
<1>4. CASE handle[h].repeat > 0
  <2> DEFINE x == [handle[h] EXCEPT !.deadline = due]
  <2>1. /\ uv_timers' = (uv_timers \ {key}) \cup {<<due, key[2]>>}
        /\ handle' = [handle EXCEPT ![h] = x] /\ UNCHANGED timer_handles
    BY <1>4 DEF RunTimer
  <2>2. due \in Nat
    <3>1. uv_now \in Nat /\ handle[h].repeat \in 0 .. 1
      BY <1>0, <1>2 DEF UvTypes, HandleType
    <3> QED BY <3>1
  <2> HIDE DEF due
  <2>3. /\ x \in HandleType /\ x.active = handle[h].active /\ x.id = handle[h].id
        /\ x.deadline = due /\ x.closing = handle[h].closing /\ x.freed = handle[h].freed
    BY <1>2, <2>2 DEF HandleType
  <2> HIDE DEF x
  <2> HIDE DEF h
  <2>4. /\ handle' \in [Handles -> HandleType] /\ handle'[h] = x
        /\ \A g \in Handles \ {h} : handle'[g] = handle[g]
    BY <1>0, <1>2, <2>1, <2>3, HandleUpdate
  <2>5. \A g \in UvTimers : /\ g \in Handles /\ handle'[g].id = handle[g].id
                            /\ handle'[g].active = handle[g].active
    BY <2>3, <2>4, UvSets
  <2>6. \A k \in uv_timers \ {key} :
          /\ k[2] # key[2] /\ k[2] \in TimerIds /\ timer_handles[k[2]] \in UvTimers \ {h}
          /\ handle'[timer_handles[k[2]]] = handle[timer_handles[k[2]]]
    <3> TAKE k \in uv_timers \ {key}
    <3>1. /\ k = <<k[1], k[2]>> /\ k[2] \in TimerIds /\ timer_handles[k[2]] \in UvTimers
          /\ handle[timer_handles[k[2]]].deadline = k[1] /\ handle[timer_handles[k[2]]].id = k[2]
      BY <1>0 DEF UvTypes, ArmedAgree
    <3>2. timer_handles[k[2]] # h
      BY <1>2, <3>1
    <3>3. k[2] # key[2]
      BY <3>1, <3>2 DEF h
    <3> QED BY <2>4, <3>1, <3>2, <3>3, UvSets
  <2>7. UvTypes'
    <3>1. uv_timers' \subseteq Nat \X TimerIds
      BY <1>0, <1>2, <2>1, <2>2 DEF UvTypes
    <3> QED BY <1>0, <1>1, <1>2, <2>1, <2>4, <3>1 DEF UvTypes, h
  <2>8. ArmedAgree'
    <3>1. ASSUME NEW g \in UvTimers, handle'[g].active
          PROVE  /\ handle'[g].id # 0 /\ timer_handles'[handle'[g].id] = g
                 /\ <<handle'[g].deadline, handle'[g].id>> \in uv_timers'
      <4>1. /\ handle[g].id # 0 /\ timer_handles[handle[g].id] = g
            /\ <<handle[g].deadline, handle[g].id>> \in uv_timers
        BY <1>0, <2>5, <3>1 DEF ArmedAgree
      <4>2. CASE g = h
        BY <1>2, <2>1, <2>3, <2>4, <4>1, <4>2
      <4>3. CASE g # h
        <5>1. handle'[g] = handle[g] /\ handle[g].id # handle[h].id
          BY <1>0, <1>2, <2>4, <2>5, <4>1, <4>3 DEF ArmedAgree
        <5>2. <<handle[g].deadline, handle[g].id>> # key
          BY <1>2, <5>1
        <5> QED BY <2>1, <4>1, <5>1, <5>2
      <4> QED BY <4>2, <4>3
    <3>2. ASSUME NEW k \in uv_timers'
          PROVE  /\ timer_handles'[k[2]] # UvNone
                 /\ handle'[timer_handles'[k[2]]].deadline = k[1]
      <4>1. CASE k = <<due, key[2]>>
        BY <1>1, <2>1, <2>3, <2>4, <4>1 DEF h
      <4>2. CASE k \in uv_timers \ {key}
        BY <1>0, <2>1, <2>6, <4>2 DEF ArmedAgree
      <4> QED BY <2>1, <3>2, <4>1, <4>2
    <3>3. \A g \in UvTimers : handle'[g].id <= uv_calls'
      BY <1>0, <1>1, <2>5 DEF ArmedAgree
    <3>4. \A f, g \in UvTimers : handle'[f].id = handle'[g].id /\ handle'[f].id # 0 => f = g
      BY <1>0, <2>5 DEF ArmedAgree
    <3>5. \A i \in TimerIds : timer_handles'[i] # UvNone =>
            handle'[timer_handles'[i]].active /\ handle'[timer_handles'[i]].id = i
      BY <1>0, <2>1, <2>5 DEF ArmedAgree, UvTypes
    <3> QED BY <3>1, <3>2, <3>3, <3>4, <3>5 DEF ArmedAgree
  <2>9. ExpiredAgree'
    <3>1. ASSUME NEW k \in uv_expired \ {key}
          PROVE  /\ k[1] <= uv_now /\ k[2] <= uv_calls
                 /\ timer_handles[k[2]] # UvNone =>
                      handle'[timer_handles[k[2]]].deadline = k[1]
      <4>1. /\ k[1] <= uv_now /\ k[2] <= uv_calls /\ k[2] # key[2] /\ k[2] \in TimerIds
            /\ timer_handles[k[2]] # UvNone => handle[timer_handles[k[2]]].deadline = k[1]
        BY <1>0, <3>1 DEF ExpiredAgree, UvTypes
      <4>2. timer_handles[k[2]] # UvNone =>
              timer_handles[k[2]] \in UvTimers \ {h} /\ timer_handles[k[2]] \in Handles
        BY <1>0, <1>2, <4>1, UvSets DEF ArmedAgree, UvTypes
      <4> QED BY <2>4, <4>1, <4>2
    <3> QED BY <1>0, <1>1, <2>1, <3>1 DEF ExpiredAgree
  <2>10. WatchersSame /\ ClosingSame
    BY <1>0, <1>1, <1>2, <2>3, <2>4, UvSets DEF WatchersSame, ClosingSame, ClosingAgree
  <2> QED BY <1>0, <2>7, <2>8, <2>9, <2>10, WatchersKept, ClosingKept DEF UvIInv
<1>5. CASE ~(handle[h].repeat > 0)
  <2> DEFINE x == [handle[h] EXCEPT !.active = FALSE]
  <2>1. /\ uv_timers' = uv_timers \ {key}
        /\ handle' = [handle EXCEPT ![h] = x]
        /\ timer_handles' = [timer_handles EXCEPT ![key[2]] = UvNone]
    BY <1>5 DEF RunTimer
  <2> HIDE DEF due
  <2>2. /\ x \in HandleType /\ x.active = FALSE /\ x.id = handle[h].id
        /\ x.closing = handle[h].closing /\ x.freed = handle[h].freed
    BY <1>2 DEF HandleType
  <2> HIDE DEF x
  <2>3. /\ handle' \in [Handles -> HandleType] /\ handle'[h] = x
        /\ \A g \in Handles \ {h} : handle'[g] = handle[g]
    BY <1>0, <1>2, <2>1, <2>2, HandleUpdate
  <2>4. uv_timers' = WithoutKey(h) /\ timer_handles' = WithoutHandle(h)
    <3>1. handle[h].id # 0
      BY <1>2, UvSets
    <3> QED BY <1>2, <2>1, <3>1 DEF WithoutKey, WithoutHandle
  <2>5. ArmedAgree' /\ ExpiredAgree'
    BY <1>0, <1>2, <1>3, <2>2, <2>3, <2>4, StopKeeps
  <2>6. UvTypes'
    <3>1. timer_handles' \in [TimerIds -> UvTimers \cup {UvNone}] /\ uv_timers' \subseteq uv_timers
      BY <1>0, <1>2, <2>4, StopFacts
    <3> QED BY <1>0, <1>1, <1>2, <2>3, <3>1 DEF UvTypes
  <2>7. WatchersSame /\ ClosingSame
    BY <1>0, <1>1, <1>2, <2>2, <2>3, UvSets DEF WatchersSame, ClosingSame, ClosingAgree
  <2> QED BY <1>0, <2>5, <2>6, <2>7, WatchersKept, ClosingKept DEF UvIInv
<1> QED BY <1>4, <1>5

LEMMA PhasesKeep ==
  ASSUME UvIInv, CallbackEnds \/ PhaseEnds \/ RunWatcher \/ CloseEnds \/ UvTick
  PROVE  UvIInv'
<1>0. UvTypes /\ ArmedAgree /\ ExpiredAgree /\ WatchersAgree /\ ClosingAgree
  BY DEF UvIInv
<1>1. UNCHANGED <<uv_calls, handle, uv_timers, timer_handles, watchers>>
  BY DEF CallbackEnds, PhaseEnds, RunWatcher, CloseEnds, UvTick, tableVars
<1>2. ArmedAgree' /\ WatchersAgree'
  BY <1>0, <1>1 DEF ArmedAgree, WatchersAgree
<1>3. CASE CallbackEnds
  <2>1. /\ callback' = UvNone
        /\ UNCHANGED <<uv_now, closing_handles, uv_pc, cursor, uv_expired, closing_now>>
    BY <1>3 DEF CallbackEnds, tableVars, phaseVars
  <2> QED BY <1>0, <1>1, <1>2, <2>1 DEF UvIInv, UvTypes, ExpiredAgree, ClosingAgree
<1>4. CASE PhaseEnds
  <2>1. /\ uv_pc \in {"timers", "idle", "prepare", "check"} /\ cursor' = 0
        /\ uv_pc' \in {"idle", "prepare", "check", "close"}
        /\ uv_pc = "check" => uv_pc' = "close"
        /\ uv_pc = "timers" => uv_expired = {}
        /\ UNCHANGED <<uv_now, uv_expired, callback>>
    BY <1>4 DEF PhaseEnds, NextPhase, Exhausted
  <2>2. uv_expired = {} /\ closing_now = <<>>
    BY <1>0, <2>1 DEF ExpiredAgree, ClosingAgree
  <2>3. \/ closing_now' = closing_handles /\ closing_handles' = <<>> /\ uv_pc' = "close"
        \/ UNCHANGED <<closing_now, closing_handles>>
    BY <1>4, <2>1 DEF PhaseEnds
  <2>4. <<>> \in Seq(Handles) /\ ToSet(<<>>) = {} /\ Once(<<>>)
    BY DEF ToSet, Once
  <2>5. ClosingAgree'
    <3>1. CASE closing_now' = closing_handles /\ closing_handles' = <<>> /\ uv_pc' = "close"
      BY <1>0, <1>1, <2>2, <2>4, <3>1 DEF ClosingAgree
    <3>2. CASE UNCHANGED <<closing_now, closing_handles>>
      BY <1>0, <1>1, <2>2, <3>2 DEF ClosingAgree
    <3> QED BY <2>3, <3>1, <3>2
  <2>6. ExpiredAgree'
    BY <2>1, <2>2 DEF ExpiredAgree
  <2>7. UvTypes'
    BY <1>0, <1>1, <2>1, <2>3, <2>4 DEF UvTypes
  <2> QED BY <1>2, <2>5, <2>6, <2>7 DEF UvIInv
<1>5. CASE RunWatcher
  <2>1. /\ cursor' = cursor + 1 /\ uv_pc \in Kinds /\ cursor \in Nat
        /\ cursor < Len(watchers[uv_pc])
        /\ callback' = LET w == watchers[uv_pc][cursor + 1] IN IF handle[w].active THEN w ELSE UvNone
        /\ UNCHANGED <<uv_now, closing_handles, uv_pc, uv_expired, closing_now>>
    <3>1. uv_pc \in Kinds /\ cursor \in Nat /\ ~Exhausted /\ watchers[uv_pc] \in Seq(Watchers)
      BY <1>0, <1>5 DEF RunWatcher, UvTypes
    <3>2. cursor < Len(watchers[uv_pc])
      BY <3>1 DEF Exhausted, Kinds
    <3> QED BY <1>5, <3>1, <3>2 DEF RunWatcher, tableVars
  <2>2. watchers[uv_pc][cursor + 1] \in Handles
    <3>1. watchers[uv_pc] \in Seq(Watchers)
      BY <1>0, <2>1 DEF UvTypes
    <3> QED BY <2>1, <3>1, UvSets
  <2> QED BY <1>0, <1>1, <1>2, <2>1, <2>2 DEF UvIInv, UvTypes, ExpiredAgree, ClosingAgree
<1>6. CASE CloseEnds
  <2>1. /\ uv_pc = "close" /\ uv_pc' = "outside" /\ closing_now = <<>>
        /\ UNCHANGED <<uv_now, closing_handles, cursor, uv_expired, closing_now, callback>>
    BY <1>6 DEF CloseEnds, tableVars
  <2> QED BY <1>0, <1>1, <1>2, <2>1 DEF UvIInv, UvTypes, ExpiredAgree, ClosingAgree
<1>7. CASE UvTick
  <2>1. /\ uv_pc = "outside" /\ uv_now' = uv_now + 1
        /\ UNCHANGED <<closing_handles, uv_pc, cursor, uv_expired, closing_now, callback>>
    BY <1>7 DEF UvTick, tableVars, phaseVars
  <2>2. uv_now' \in Nat /\ uv_expired = {}
    BY <1>0, <2>1 DEF UvTypes, ExpiredAgree
  <2> QED BY <1>0, <1>1, <1>2, <2>1, <2>2 DEF UvIInv, UvTypes, ExpiredAgree, ClosingAgree
<1> QED BY <1>3, <1>4, <1>5, <1>6, <1>7

(* The close callback frees a handle that none of the tables holds. *)
LEMMA RunCloseKeeps ==
  ASSUME UvIInv, RunClose
  PROVE  UvIInv'
<1> DEFINE h == Head(closing_now)
           x == [handle[h] EXCEPT !.freed = TRUE]
<1>0. UvTypes /\ ArmedAgree /\ ExpiredAgree /\ WatchersAgree /\ ClosingAgree
  BY DEF UvIInv
<1>1. /\ uv_pc = "close" /\ closing_now # <<>> /\ handle' = [handle EXCEPT ![h] = x]
      /\ callback' = h /\ closing_now' = Tail(closing_now)
      /\ UNCHANGED <<uv_now, uv_calls, uv_timers, timer_handles, watchers, closing_handles, uv_pc,
                     cursor, uv_expired>>
  BY DEF RunClose, tableVars
<1>2. /\ Tail(closing_now) \in Seq(Handles) /\ h \in Handles
      /\ ToSet(closing_now) = {h} \cup ToSet(Tail(closing_now))
      /\ Once(Tail(closing_now)) /\ h \notin ToSet(Tail(closing_now))
  BY <1>0, <1>1, ListTail DEF UvTypes, ClosingAgree
<1>3. handle[h] \in HandleType /\ handle[h].closing /\ ~handle[h].active
  BY <1>0, <1>2 DEF UvTypes, ClosingAgree
<1> HIDE DEF h
<1>4. /\ x \in HandleType /\ x.freed = TRUE /\ x.active = handle[h].active /\ x.id = handle[h].id
      /\ x.deadline = handle[h].deadline /\ x.closing = handle[h].closing
  BY <1>3 DEF HandleType
<1> HIDE DEF x
<1>5. /\ handle' \in [Handles -> HandleType] /\ handle'[h] = x
      /\ \A g \in Handles \ {h} : handle'[g] = handle[g]
  BY <1>0, <1>1, <1>2, <1>4, HandleUpdate
<1>6. TimersSame /\ WatchersSame /\ CallsCount /\ ExpiredSame
  BY <1>0, <1>1, <1>4, <1>5, UvSets
  DEF TimersSame, WatchersSame, CallsCount, ExpiredSame, UvTypes, ExpiredAgree
<1>7. ASSUME NEW g \in Handles
      PROVE  /\ g \in ToSet(closing_handles) \cup ToSet(Tail(closing_now))
                  <=> handle'[g].closing /\ ~handle'[g].freed
             /\ handle'[g].closing => ~handle'[g].active
             /\ handle'[g].freed => handle'[g].closing
  <2>1. CASE g = h
    BY <1>0, <1>2, <1>3, <1>4, <1>5, <2>1 DEF ClosingAgree
  <2>2. CASE g # h
    BY <1>0, <1>2, <1>5, <2>2 DEF ClosingAgree
  <2> QED BY <2>1, <2>2
<1>8. ClosingAgree'
  BY <1>0, <1>1, <1>2, <1>7 DEF ClosingAgree
<1>9. UvTypes'
  BY <1>0, <1>1, <1>2, <1>5 DEF UvTypes
<1> QED BY <1>0, <1>6, <1>8, <1>9, ArmedKept, ExpiredKept, WatchersKept DEF UvIInv

----------------------------------------------------------------------------
LEMMA ListConcat ==
  ASSUME NEW S, NEW s \in Seq(S), NEW t \in Seq(S)
  PROVE  /\ ToSet(s \o t) = ToSet(s) \cup ToSet(t)
         /\ Once(s) /\ Once(t) /\ ToSet(s) \cap ToSet(t) = {} => Once(s \o t)
<1> DEFINE m == Len(s)
           n == Len(t)
           c == s \o t
<1>a. /\ m \in Nat /\ n \in Nat /\ DOMAIN s = 1 .. m /\ DOMAIN t = 1 .. n
      /\ c \in Seq(S) /\ Len(c) = m + n /\ DOMAIN c = 1 .. m + n
  OBVIOUS
<1>b. \A i \in 1 .. m + n : c[i] = IF i <= m THEN s[i] ELSE t[i - m]
  OBVIOUS
<1> HIDE DEF c, m, n
<1>1. /\ m \in Nat /\ n \in Nat /\ DOMAIN s = 1 .. m /\ DOMAIN t = 1 .. n
      /\ c \in Seq(S) /\ Len(c) = m + n /\ DOMAIN c = 1 .. m + n
      /\ \A i \in 1 .. m : c[i] = s[i] /\ i \in 1 .. m + n
      /\ \A i \in 1 .. n : c[m + i] = t[i] /\ m + i \in 1 .. m + n
      /\ \A i \in m + 1 .. m + n : c[i] = t[i - m] /\ i - m \in 1 .. n
      /\ 1 .. m + n = (1 .. m) \cup (m + 1 .. m + n)
  <2>1. ASSUME NEW i \in 1 .. n PROVE c[m + i] = t[i] /\ m + i \in 1 .. m + n
    <3>1. m + i \in 1 .. m + n /\ ~(m + i <= m) /\ (m + i) - m = i
      BY <1>a
    <3> QED BY <3>1, <1>b
  <2>2. \A i \in 1 .. m : c[i] = s[i] /\ i \in 1 .. m + n
    BY <1>a, <1>b
  <2>3. \A i \in m + 1 .. m + n : c[i] = t[i - m] /\ i - m \in 1 .. n
    BY <1>a, <1>b
  <2>4. 1 .. m + n = (1 .. m) \cup (m + 1 .. m + n)
    BY <1>a
  <2> QED BY <1>a, <2>1, <2>2, <2>3, <2>4
<1>2. ToSet(c) = ToSet(s) \cup ToSet(t)
  <2>1. /\ \A x : x \in ToSet(s) <=> \E i \in 1 .. m : s[i] = x
        /\ \A x : x \in ToSet(t) <=> \E i \in 1 .. n : t[i] = x
        /\ \A x : x \in ToSet(c) <=> \E i \in 1 .. m + n : c[i] = x
    <3>1. ASSUME NEW u, NEW x PROVE x \in ToSet(u) <=> \E i \in DOMAIN u : u[i] = x
      BY DEF ToSet
    <3>2. DOMAIN s = 1 .. m /\ DOMAIN t = 1 .. n /\ DOMAIN c = 1 .. m + n
      BY <1>1
    <3> QED BY <3>1, <3>2
  <2>2. ASSUME NEW x, x \in ToSet(s) \cup ToSet(t) PROVE x \in ToSet(c)
    BY <1>1, <2>1, <2>2
  <2>3. ASSUME NEW x, x \in ToSet(c) PROVE x \in ToSet(s) \cup ToSet(t)
    <3>1. PICK i \in 1 .. m + n : c[i] = x
      BY <2>1, <2>3
    <3>2. i \in 1 .. m \/ i \in m + 1 .. m + n
      BY <1>1
    <3> QED BY <1>1, <2>1, <3>1, <3>2
  <2> QED BY <2>2, <2>3
<1>3. ASSUME Once(s), Once(t), ToSet(s) \cap ToSet(t) = {}
      PROVE  Once(c)
  <2>1. ASSUME NEW i \in 1 .. m + n, NEW j \in 1 .. m + n, c[i] = c[j]
        PROVE  i = j
    <3>1. CASE i \in 1 .. m /\ j \in 1 .. m
      BY <3>1, <2>1, <1>1, <1>3 DEF Once
    <3>2. CASE i \in m + 1 .. m + n /\ j \in m + 1 .. m + n
      <4>1. i - m \in 1 .. n /\ j - m \in 1 .. n /\ t[i - m] = t[j - m]
        BY <3>2, <2>1, <1>1
      <4>2. i - m = j - m
        BY <4>1, <1>1, <1>3 DEF Once
      <4> QED BY <4>2, <1>1
    <3>3. ASSUME NEW a \in 1 .. m, NEW b \in m + 1 .. m + n, c[a] = c[b]
          PROVE  FALSE
      <4>1. s[a] = t[b - m] /\ b - m \in 1 .. n
        BY <3>3, <1>1
      <4>2. s[a] \in ToSet(s) /\ t[b - m] \in ToSet(t)
        BY <4>1, <1>1 DEF ToSet
      <4> QED BY <4>1, <4>2, <1>3
    <3> QED BY <3>1, <3>2, <3>3, <2>1, <1>1
  <2> QED BY <2>1, <1>1 DEF Once
<1> QED BY <1>2, <1>3 DEF c

LEMMA UvInitIInv ==
  ASSUME UvInit PROVE UvIInv
<1>1. /\ \A h \in Handles : /\ handle[h] \in HandleType /\ ~handle[h].active /\ ~handle[h].closing
                            /\ ~handle[h].freed /\ handle[h].id = 0
      /\ handle \in [Handles -> HandleType]
  <2>1. 0 \in 0 .. UvMaxCalls /\ 0 \in 0 .. 1 /\ 0 \in Nat
    BY UvAssumption
  <2> QED BY <2>1 DEF UvInit, HandleType
<1>2. /\ uv_calls = 0 /\ 0 \in 0 .. UvMaxCalls /\ uv_timers = {} /\ uv_expired = {}
      /\ \A i \in TimerIds : timer_handles[i] = UvNone
      /\ watchers = [k \in Kinds |-> <<>>] /\ closing_handles = <<>> /\ closing_now = <<>>
  BY UvAssumption DEF UvInit
<1>3. UvTypes
  BY <1>1, <1>2, UvSets DEF UvInit, UvTypes
<1>4. ArmedAgree /\ ExpiredAgree
  BY <1>1, <1>2, UvSets DEF ArmedAgree, ExpiredAgree
<1>5. WatchersAgree /\ ClosingAgree
  BY <1>1, <1>2, UvSets, NoList DEF WatchersAgree, ClosingAgree
<1> QED BY <1>3, <1>4, <1>5 DEF UvIInv

LEMMA UvStepIInv ==
  ASSUME ~StartsClosing, UvIInv, [UvNext]_uvVars
  PROVE  UvIInv'
<1>1. CASE UNCHANGED uvVars
  BY <1>1 DEF UvIInv, UvTypes, ArmedAgree, ExpiredAgree, WatchersAgree, ClosingAgree, uvVars,
              tableVars, phaseVars
<1>2. CASE UvCode
  <2>1. ASSUME NEW h \in UvTimers,
               \/ \E timeout \in 0 .. 1, repeat \in 0 .. 1 : TimerStart(h, timeout, repeat)
               \/ TimerAgain(h) \/ TimerStop(h) \/ \E r \in 0 .. 1 : TimerSetRepeat(h, r)
        PROVE  UvIInv'
    <3>1. CASE \E r \in 0 .. 1 : TimerSetRepeat(h, r)
      <4>1. PICK r \in 0 .. 1 : TimerSetRepeat(h, r)
        BY <3>1
      <4>2. h \in Handles
        BY UvSets
      <4> QED BY <4>1, <4>2, SetKeeps
    <3>2. CASE TimerStop(h)
      BY <3>2, TimerStopKeeps
    <3> QED BY <2>1, <3>1, <3>2, StartKeeps
  <2>2. ASSUME NEW w \in Watchers, WatcherStart(w) \/ WatcherStop(w)
        PROVE  UvIInv'
    BY <2>2, WatcherKeeps
  <2>3. ASSUME NEW h \in Handles, UvClose(h) \/ \E r \in BOOLEAN : UvSetRef(h, r)
        PROVE  UvIInv'
    <3>1. CASE UvClose(h)
      BY <3>1, UvCloseKeeps
    <3>2. CASE \E r \in BOOLEAN : UvSetRef(h, r)
      <4>1. PICK r \in BOOLEAN : UvSetRef(h, r)
        BY <3>2
      <4>2. 0 \in 0 .. 1
        OBVIOUS
      <4> QED BY <4>1, <4>2, SetKeeps
    <3> QED BY <2>3, <3>1, <3>2
  <2> QED BY <1>2, <2>1, <2>2, <2>3 DEF UvCode
<1>3. CASE UvPhases
  <2>1. ASSUME NEW key \in uv_expired, SkipTimer(key) \/ RunTimer(key)
        PROVE  UvIInv'
    BY <2>1, SkipTimerKeeps, RunTimerKeeps
  <2> QED BY <1>3, <2>1, PollTimersKeeps, PhasesKeep, RunCloseKeeps DEF UvPhases
<1>4. CASE UvTick
  BY <1>4, PhasesKeep
<1> QED BY <1>1, <1>2, <1>3, <1>4 DEF UvNext

LEMMA UvAlwaysIInv ==
  ASSUME ~StartsClosing PROVE UvSpec => []UvIInv
BY UvInitIInv, UvStepIInv, PTL DEF UvSpec

LEMMA UvConsistent ==
  ASSUME UvIInv PROVE UvHandlesConsistent
<1>0. UvTypes /\ ArmedAgree /\ ExpiredAgree /\ WatchersAgree /\ ClosingAgree
  BY DEF UvIInv
<1>1. \A k \in Kinds : /\ watchers[k] \in Seq(Watchers) /\ ToSet(watchers[k]) \subseteq Watchers
                       /\ \A w \in ToSet(watchers[k]) : WatcherKind[w] = k /\ handle[w].active
  <2> TAKE k \in Kinds
  <2>1. watchers[k] \in Seq(Watchers)
    BY <1>0 DEF UvTypes
  <2>2. ToSet(watchers[k]) \subseteq Watchers
    BY <2>1 DEF ToSet
  <2> QED BY <1>0, <2>1, <2>2 DEF WatchersAgree
<1>2. /\ closing_handles \in Seq(Handles) /\ closing_now \in Seq(Handles)
      /\ ToSet(closing_handles) \subseteq Handles /\ ToSet(closing_now) \subseteq Handles
  BY <1>0 DEF UvTypes, ToSet
<1>3. /\ ToSet(closing_handles \o closing_now) = ToSet(closing_handles) \cup ToSet(closing_now)
      /\ Once(closing_handles \o closing_now)
  BY <1>0, <1>2, ListConcat DEF ClosingAgree
<1>4. \A h \in Handles : handle[h].active => ~handle[h].closing /\ ~handle[h].freed
  BY <1>0 DEF ClosingAgree
<1>5. \A i \in TimerIds : timer_handles[i] # UvNone =>
        /\ timer_handles[i] \in UvTimers /\ timer_handles[i] \in Handles
        /\ handle[timer_handles[i]].active /\ handle[timer_handles[i]].id = i
  BY <1>0, UvSets DEF UvTypes, ArmedAgree
<1>6. UvTypeOK
  BY <1>0, <1>1 DEF UvTypeOK, UvTypes
<1>7. NoDanglingHandles
  <2>1. \A i \in TimerIds : timer_handles[i] # UvNone => ~handle[timer_handles[i]].freed
    BY <1>4, <1>5
  <2>2. \A k \in Kinds : \A w \in ToSet(watchers[k]) : ~handle[w].freed
    BY <1>1, <1>4, UvSets
  <2>3. \A h \in ToSet(closing_handles \o closing_now) : ~handle[h].freed
    BY <1>0, <1>2, <1>3 DEF ClosingAgree
  <2>4. IsInjective(closing_handles \o closing_now)
    BY <1>3 DEF Once, IsInjective
  <2> DEFINE timed == {timer_handles[i] : i \in TimerIds}
             watched == UNION {ToSet(watchers[k]) : k \in Kinds}
             held == timed \cup ToSet(closing_handles \o closing_now) \cup watched
  <2>5. ASSUME NEW h \in held, h # UvNone PROVE ~handle[h].freed
    <3>1. \/ \E i \in TimerIds : h = timer_handles[i]
          \/ \E k \in Kinds : h \in ToSet(watchers[k])
          \/ h \in ToSet(closing_handles \o closing_now)
      <4>1. /\ h \in timed => \E i \in TimerIds : h = timer_handles[i]
            /\ h \in watched => \E k \in Kinds : h \in ToSet(watchers[k])
        OBVIOUS
      <4> HIDE DEF timed, watched
      <4> QED BY <4>1, <2>5 DEF held
    <3> QED BY <3>1, <2>1, <2>2, <2>3, <2>5
  <2> HIDE DEF held
  <2>6. \A h \in held \ {UvNone} : ~handle[h].freed
    BY <2>5
  <2>7. NoDanglingHandles <=> /\ \A h \in held \ {UvNone} : ~handle[h].freed
                              /\ IsInjective(closing_handles \o closing_now)
    BY Zenon DEF NoDanglingHandles, held
  <2> QED BY <2>4, <2>6, <2>7
<1>8. \A h \in UvTimers : handle[h].active =>
        /\ <<handle[h].deadline, handle[h].id>> \in uv_timers
        /\ handle[h].id \in TimerIds /\ timer_handles[handle[h].id] = h
        /\ {i \in TimerIds : timer_handles[i] = h} = {handle[h].id}
  <2> SUFFICES ASSUME NEW h \in UvTimers, handle[h].active
               PROVE  /\ <<handle[h].deadline, handle[h].id>> \in uv_timers
                      /\ handle[h].id \in TimerIds /\ timer_handles[handle[h].id] = h
                      /\ {i \in TimerIds : timer_handles[i] = h} = {handle[h].id}
    OBVIOUS
  <2>1. /\ handle[h].id # 0 /\ timer_handles[handle[h].id] = h
        /\ <<handle[h].deadline, handle[h].id>> \in uv_timers
    BY <1>0 DEF ArmedAgree
  <2>2. handle[h].id \in 0 .. UvMaxCalls
    BY <1>0, UvSets DEF UvTypes, HandleType
  <2>3. handle[h].id \in TimerIds
    BY <2>1, <2>2, UvSets
  <2>4. \A i \in TimerIds : timer_handles[i] = h => i = handle[h].id
    BY <1>5, UvSets
  <2> QED BY <2>1, <2>3, <2>4
<1>9. ASSUME uv_pc = "outside"
      PROVE  HasAliveHandles <=> \E h \in Handles :
               (handle[h].active /\ handle[h].referenced) \/ (handle[h].closing /\ ~handle[h].freed)
  <2>1. closing_now = <<>> /\ ToSet(closing_now) = {}
    BY <1>0, <1>9, NoList DEF ClosingAgree
  <2>2. closing_handles # <<>> <=> \E h \in Handles : handle[h].closing /\ ~handle[h].freed
    <3>1. \A h \in Handles : h \in ToSet(closing_handles) <=> handle[h].closing /\ ~handle[h].freed
      BY <1>0, <2>1 DEF ClosingAgree
    <3>2. closing_handles # <<>> <=> \E h \in Handles : h \in ToSet(closing_handles)
      <4>1. ASSUME closing_handles # <<>> PROVE Head(closing_handles) \in ToSet(closing_handles)
        BY <1>2, <4>1, ListTail
      <4> QED BY <4>1, <1>2, NoList
    <3> QED BY <3>1, <3>2
  <2>3. ASSUME NEW h \in Handles, handle[h].active, handle[h].referenced
        PROVE  HasAliveHandles
    <3>1. CASE h \in UvTimers
      BY <3>1, <2>3, <1>8, UvSets DEF HasAliveHandles
    <3>2. CASE h \in Watchers
      <4>1. WatcherKind[h] \in Kinds /\ h \in ToSet(watchers[WatcherKind[h]])
        BY <3>2, <2>3, <1>0, UvSets DEF WatchersAgree
      <4> QED BY <4>1, <2>3 DEF HasAliveHandles
    <3> QED BY <3>1, <3>2 DEF Handles
  <2>4. ASSUME HasAliveHandles, closing_handles = <<>>
        PROVE  \E h \in Handles : handle[h].active /\ handle[h].referenced
    <3>1. CASE \E i \in TimerIds : /\ timer_handles[i] # UvNone /\ handle[timer_handles[i]].active
                                   /\ handle[timer_handles[i]].referenced
      BY <3>1, <1>5
    <3>2. CASE \E k \in Kinds : \E w \in ToSet(watchers[k]) : handle[w].active /\ handle[w].referenced
      BY <3>2, <1>1, UvSets
    <3> QED BY <2>4, <3>1, <3>2 DEF HasAliveHandles
  <2>5. closing_handles # <<>> => HasAliveHandles
    BY DEF HasAliveHandles
  <2> QED BY <2>2, <2>3, <2>4, <2>5
<1>10. TimerTablesAgree
  BY <1>5, <1>8, <1>9 DEF TimerTablesAgree
<1> QED BY <1>6, <1>7, <1>10 DEF UvHandlesConsistent

(* The tables of the uv loop and the flags of the handles agree and no     *)
(* table holds a freed handle (UvHandlesConsistent), whatever callbacks    *)
(* start, stop and close while run_timers, run_idle, run_prepare,          *)
(* run_check and run_close walk those tables, for any timers, watchers and *)
(* number of calls, as long as C code starts no handle that is closing.    *)
THEOREM UvHandlesStayConsistent ==
  ASSUME ~StartsClosing
  PROVE  UvSpec => []UvHandlesConsistent
BY UvAlwaysIInv, UvConsistent, PTL

(* run_timers calls only the callbacks of timers that are active, not      *)
(* closing and due when it reaches them, whatever the callbacks before     *)
(* them in the same pass did.                                              *)
THEOREM UvTimersFireWhenDue ==
  ASSUME ~StartsClosing
  PROVE  UvSpec => UvFiresDue
<1>1. ASSUME UvIInv, [UvNext]_uvVars
      PROVE  [\A h \in UvTimers :
                callback = UvNone /\ callback' = h /\ uv_pc = "timers"
                  => handle[h].active /\ ~handle[h].closing /\ handle[h].deadline <= uv_now]_uvVars
  <2> SUFFICES ASSUME UvNext, NEW h \in UvTimers, callback = UvNone, callback' = h,
                      uv_pc = "timers"
               PROVE  handle[h].active /\ ~handle[h].closing /\ handle[h].deadline <= uv_now
    BY <1>1
  <2>1. h # UvNone
    BY UvSets
  <2>2. ~UvCode /\ ~UvTick
    <3>1. ~UvTick /\ \A g : ~UvCall(g)
      BY <2>1 DEF UvTick, UvCall
    <3>2. ASSUME NEW g
          PROVE  /\ ~TimerAgain(g) /\ ~TimerStop(g) /\ ~WatcherStart(g) /\ ~WatcherStop(g)
                 /\ ~UvClose(g) /\ \A a : ~TimerSetRepeat(g, a) /\ ~UvSetRef(g, a)
                 /\ \A a, b : ~TimerStart(g, a, b)
      BY <3>1, Zenon DEF TimerStart, TimerAgain, TimerStop, TimerSetRepeat, WatcherStart,
                         WatcherStop, UvClose, UvSetRef
    <3> QED BY <3>1, <3>2, Zenon DEF UvCode
  <2>3. ~PollTimers /\ ~CallbackEnds /\ ~PhaseEnds /\ ~RunWatcher /\ ~RunClose /\ ~CloseEnds
    BY <2>1 DEF PollTimers, CallbackEnds, PhaseEnds, RunWatcher, RunClose, CloseEnds, Kinds
  <2>4. PICK key \in uv_expired : SkipTimer(key) \/ RunTimer(key)
    BY <2>2, <2>3 DEF UvNext, UvPhases
  <2>5. RunTimer(key)
    BY <2>4, <2>1 DEF SkipTimer
  <2>6. timer_handles[key[2]] # UvNone /\ h = timer_handles[key[2]]
    BY <2>5 DEF RunTimer, StillArmed
  <2> QED BY <1>1, <2>6, RunTimerFacts
<1> QED BY <1>1, UvAlwaysIInv, PTL DEF UvSpec, UvFiresDue
=============================================================================
