------------------------------ MODULE Startup ------------------------------
(***************************************************************************)
(* The life of a JsRuntime: V8's process-wide initialisation, the          *)
(* extensions' ops, sources and entry points (new_inner and what it        *)
(* calls), the snapshot of a runtime and the runtimes started from it.     *)
(*                                                                         *)
(* V8 stores a native pointer of the heap (an op's context, an external    *)
(* source string) as its index in the table of external references, and    *)
(* the next process reads the pointer at that index of its own table.  So  *)
(* the heap is a set of <<entity, index>> and the tables must line up.     *)
(***************************************************************************)
EXTENDS Naturals, Sequences, FiniteSets, SequencesExt, Functions

CONSTANTS
  SuDecl,      \* the extensions: name -> what extension! declares
  SuImports,   \* ES module -> the modules it imports, in order
  SuOpImports, \* ES module -> the ops it imports from ext:core/ops
  SuThrowing,  \* files that throw when they run
  SuPlans      \* the sequences of runtimes that are started

SuNone == "none"
SuCoreOps == <<"op_core">>        \* BUILTIN_OPS
SuOpsModule == "ext:core/ops"
SuBuiltinModules == <<"ext:core/mod.js">>

SuNames == STRING
SuClasses == [type : SuNames, inherits : SuNames, constructor : BOOLEAN, methods : Seq(SuNames)]
SuRuntimes == [exts : Seq(DOMAIN SuDecl), will_snapshot : BOOLEAN, skip : BOOLEAN, warmup : BOOLEAN]

ASSUME StartupAssumption ==
  /\ \A e \in DOMAIN SuDecl :
       /\ SuDecl[e]["objects"] \in Seq(SuClasses)
       /\ \A field \in {"ops", "refs", "js", "esm", "lazy"} : SuDecl[e][field] \in Seq(SuNames)
  /\ SuCoreOps \in Seq(SuNames) /\ SuPlans \subseteq Seq(SuRuntimes)

VARIABLES
  suPlan,   \* the runtimes to start: [exts, will_snapshot, skip, warmup]
  suDebug,  \* is this a debug build?
  suModes,  \* the modes V8 has been asked to work in by this process
  suBlob,   \* the snapshot the next runtime starts from
  suPc,     \* the step new_inner is at, or "ready", "failed", "panic"
  suRt      \* the runtime

suVars == <<suPlan, suDebug, suModes, suBlob, suPc, suRt>>

SuOptions == suPlan[1]
NoBlob == [taken |-> FALSE]
FromSnapshot == suBlob.taken
Collect(exts, field) == FlattenSeq([i \in DOMAIN exts |-> SuDecl[exts[i]][field]])
Entries(exts) == SelectSeq([i \in DOMAIN exts |-> SuDecl[exts[i]].entry], LAMBDA e : e # SuNone)
-----------------------------------------------------------------------------
(* extension_set *)

(* An extension that is in the snapshot has run there already, except for  *)
(* its lazily loaded modules.  The lists are compared as far as both go.   *)
SnapshotMismatch(exts) ==
  FromSnapshot /\ \E i \in DOMAIN exts \cap DOMAIN suBlob.exts : exts[i] # suBlob.exts[i]

NewExtensions(exts) ==
  IF FromSnapshot THEN SubSeq(exts, Len(suBlob.exts) + 1, Len(exts)) ELSE exts

(* Faulty variant: the scripts of the snapshot run once more. *)
ScriptsAgain(exts, warmup) ==
  LET files == IF warmup THEN <<>> ELSE exts
      new == NewExtensions(files)
  IN [js |-> Collect(files, "js"), esm |-> Collect(new, "esm"), lazy_esm |-> Collect(files, "lazy"),
      esm_entry_points |-> Entries(new)]

(* Extension::for_warmup has the ops and no files. *)
LoadedSources(exts, warmup) ==
  LET files == IF warmup THEN <<>> ELSE exts
      new == NewExtensions(files)
  IN [js |-> Collect(new, "js"), esm |-> Collect(new, "esm"), lazy_esm |-> Collect(files, "lazy"),
      esm_entry_points |-> Entries(new)]

AllSources(s) == s.js \o s.esm \o s.lazy_esm

(* check_extensions_dependencies and check_no_duplicate_op_names panic in  *)
(* debug builds.                                                           *)
DeclarationsPanic(exts) ==
  LET ops == SuCoreOps \o Collect(exts, "ops") IN
  suDebug /\ ( \/ \E i \in DOMAIN exts :
                    ~(SuDecl[exts[i]].deps \subseteq {exts[k] : k \in 1 .. i - 1})
               \/ ~IsInjective(ops))

(* A class has its constructor's context, if any, and one per method. *)
ObjectCtxs(o) == (IF o.constructor THEN <<o.type>> ELSE <<>>) \o o.methods

(* The contexts of all methods come before those of the ops. *)
create_op_ctxs(exts) ==
  LET objects == Collect(exts, "objects") IN
  FlattenSeq([i \in DOMAIN objects |-> ObjectCtxs(objects[i])])
    \o SuCoreOps \o Collect(exts, "ops")
-----------------------------------------------------------------------------
(* bindings *)

(* Faulty variant: what this process loaded comes first. *)
NewSourcesFirst(snapshot_sources, new) == new \o snapshot_sources

externalize_sources(snapshot_sources, new) == snapshot_sources \o new

SuFn(n) == <<"fn", n>>
SuOp(n) == <<"op", n>>
SuSource(n) == <<"source", n>>
As(kind(_), names) == [i \in DOMAIN names |-> kind(names[i])]

(* One entry for the functions before and one for those after the ones     *)
(* that vary; one per op for its four references.                          *)
create_external_references(ctxs, refs, sources, ops_in_snapshot, sources_in_snapshot) ==
  <<SuFn("bindings")>> \o As(SuFn, refs)
    \o As(SuOp, SubSeq(ctxs, 1, ops_in_snapshot))
    \o As(SuSource, SubSeq(sources, 1, sources_in_snapshot))
    \o As(SuOp, SubSeq(ctxs, ops_in_snapshot + 1, Len(ctxs)))
    \o As(SuSource, SubSeq(sources, sources_in_snapshot + 1, Len(sources)))
    \o <<SuFn("callsite_fns")>>

(* The last of an entity's places: the one this process itself added. *)
IndexOf(table, entity) ==
  CHOOSE i \in DOMAIN table :
    table[i] = entity /\ \A k \in i + 1 .. Len(table) : table[k] # entity
-----------------------------------------------------------------------------
Restored(field, otherwise) == IF FromSnapshot THEN suBlob[field] ELSE otherwise

SuFail(pc) == suPc' = pc /\ UNCHANGED <<suPlan, suDebug, suBlob, suRt>>

(* try_new up to the isolate: init_v8, the sources and the ops. *)
CreateIsolate ==
  /\ suPc = "start" /\ suPlan # <<>>
  /\ suModes' = suModes \cup {IF SuOptions.will_snapshot THEN "snapshot" ELSE "plain"}
  /\ LET exts == SuOptions.exts
         sources == LoadedSources(exts, SuOptions.warmup)
         ctxs == create_op_ctxs(exts)
         strings == externalize_sources(Restored("external_strings", <<>>), AllSources(sources))
         ops_in_snapshot == Restored("op_count", 0)
     IN CASE SnapshotMismatch(exts) -> SuFail("failed")
          [] ~SnapshotMismatch(exts) /\ (DeclarationsPanic(exts) \/ ops_in_snapshot > Len(ctxs)) ->
               SuFail("panic")
          [] OTHER ->
               /\ suPc' = "context"
               /\ suRt' = [exts |-> exts, ctxs |-> ctxs, sources |-> sources,
                           original_sources |-> AllSources(sources),
                           table |-> create_external_references(ctxs, Collect(exts, "refs"),
                                       strings, ops_in_snapshot, Restored("source_count", 0)),
                           heap |-> Restored("heap", {}), ran |-> Restored("ran", <<>>),
                           core_ops |-> Restored("core_ops", {}),
                           ops_module |-> Restored("ops_module", {}),
                           templates |-> {}, modules |-> <<>>, lazy_esm_sources |-> {},
                           loader |-> {}, initialised |-> {}]
               /\ UNCHANGED <<suPlan, suDebug, suBlob>>

(* Compiling a file makes its source string part of the heap, binding an   *)
(* op its context.                                                         *)
InHeap(r, entities) == {<<e, IndexOf(r.table, e)>> : e \in entities}

(* The classes in order: a parent's template must be there already. *)
OrphanClass(exts) ==
  LET objects == Collect(exts, "objects") IN
  \E i \in DOMAIN objects :
    /\ objects[i].inherits # SuNone
    /\ ~\E k \in 1 .. i - 1 : objects[k].type = objects[i].inherits

TypesOf(exts) == {Collect(exts, "objects")[i].type : i \in DOMAIN Collect(exts, "objects")}

(* initialize_deno_core_ops_bindings, unless a snapshot has them all. *)
BindOps ==
  /\ suPc = "context"
  /\ IF FromSnapshot /\ SuOptions.skip
     THEN suPc' = "restore" /\ UNCHANGED suRt
     ELSE /\ suPc' = IF OrphanClass(suRt.exts) THEN "panic" ELSE "restore"
          /\ suRt' = [suRt EXCEPT
               !.heap = @ \cup InHeap(suRt, {SuOp(n) : n \in ToSet(suRt.ctxs)}),
               !.core_ops = @ \cup TypesOf(suRt.exts) \cup ToSet(SuCoreOps)
                              \cup ToSet(Collect(suRt.exts, "ops")),
               !.templates = @ \cup TypesOf(suRt.exts)]
  /\ UNCHANGED <<suPlan, suDebug, suModes, suBlob>>

(* SnapshotLoadDataStore: an id is read once, as what it was stored as. *)
ReadsMatch(ids, kind) ==
  /\ IsInjective(ids)
  /\ \A i \in DOMAIN ids : ids[i] \in DOMAIN suBlob.data /\ suBlob.data[ids[i]][1] = kind

DataMatches == ReadsMatch(suBlob.module_handles, "module") /\ ReadsMatch(suBlob.templates, "template")

DataAt(ids) == [i \in DOMAIN ids |-> suBlob.data[ids[i]][2]]

(* The module map and the templates are those of the snapshot from here    *)
(* on: what BindOps put in the template store is replaced.                 *)
RestoreSnapshot ==
  /\ suPc = "restore"
  /\ IF ~FromSnapshot THEN suPc' = "builtins" /\ UNCHANGED suRt
     ELSE IF ~DataMatches THEN suPc' = "panic" /\ UNCHANGED suRt
     ELSE /\ suPc' = "builtins"
          /\ suRt' = [suRt EXCEPT !.modules = DataAt(suBlob.module_handles),
                                  !.templates = ToSet(DataAt(suBlob.templates))]
  /\ UNCHANGED <<suPlan, suDebug, suModes, suBlob>>
-----------------------------------------------------------------------------
(* The module map, as far as extensions use it.                            *)

StatusOf(r, m) == LET at == {i \in DOMAIN r.modules : r.modules[i].name = m} IN
  IF at = {} THEN "absent" ELSE r.modules[CHOOSE i \in at : TRUE].status

SetStatus(r, ms, status) == [r EXCEPT !.modules =
  [i \in DOMAIN @ |-> IF @[i].name \in ms THEN [@[i] EXCEPT !.status = status] ELSE @[i]]]

(* New modules are compiled and registered under their names. *)
Registered(r, ms) == [r EXCEPT
  !.modules = @ \o [i \in DOMAIN ms |-> [name |-> ms[i], status |-> "uninstantiated"]],
  !.heap = @ \cup InHeap(r, {SuSource(m) : m \in ToSet(ms)})]

(* The modules reached from m, breadth first. *)
Reached(m) ==
  LET Add(seq, x) == IF Contains(seq, x) THEN seq ELSE Append(seq, x)
      Widen(seq) == FoldLeft(Add, seq, FlattenSeq(As(LAMBDA x : SuImports[x], seq)))
      wave[k \in 0 .. Cardinality(DOMAIN SuImports)] == IF k = 0 THEN <<m>> ELSE Widen(wave[k - 1])
  IN wave[Cardinality(DOMAIN SuImports)]

Unregistered(r, m) == SelectSeq(Reached(m), LAMBDA x : StatusOf(r, x) = "absent")

CanLink(r, m) == \A x \in ToSet(Reached(m)) : StatusOf(r, x) # "absent" /\ SuOpImports[x] \subseteq r.ops_module

(* Evaluation runs what the graph has not run yet (how often a file runs   *)
(* matters here, not the order within a graph); those that depend on a     *)
(* file that throws are errored.                                           *)
ToEvaluate(r, m) == SelectSeq(Reverse(Reached(m)), LAMBDA x : StatusOf(r, x) # "evaluated")

Evaluated(r, m) == [SetStatus(r, ToSet(ToEvaluate(r, m)), "evaluated") EXCEPT
  !.ran = @ \o ToEvaluate(r, m)]

Errored(r, m) == {x \in ToSet(ToEvaluate(r, m)) : ToSet(Reached(x)) \cap SuThrowing # {}}
-----------------------------------------------------------------------------
(* execute_virtual_ops_module, execute_builtin_sources and                 *)
(* store_js_callbacks; a snapshot has done the first two.                  *)
ExecuteBuiltins ==
  /\ suPc = "builtins" /\ suPc' = "lazy"
  /\ suRt' = IF FromSnapshot THEN suRt
             ELSE [suRt EXCEPT
               !.ops_module = suRt.core_ops,
               !.modules = [i \in 1 .. 1 + Len(SuBuiltinModules) |->
                 [name |-> (<<SuOpsModule>> \o SuBuiltinModules)[i], status |-> "evaluated"]]]
  /\ UNCHANGED <<suPlan, suDebug, suModes, suBlob>>

(* add_lazy_loaded_esm_source asserts that no other extension has it; then *)
(* the extension loader takes the map's loader's place.                    *)
AddLazySources ==
  /\ suPc = "lazy"
  /\ suPc' = IF IsInjective(suRt.sources.lazy_esm) THEN "extensions" ELSE "panic"
  /\ suRt' = [suRt EXCEPT !.lazy_esm_sources = ToSet(suRt.sources.lazy_esm),
                          !.loader = ToSet(suRt.sources.esm)]
  /\ UNCHANGED <<suPlan, suDebug, suModes, suBlob>>

(* ExtModuleLoader gives out each source once and fails for any other;     *)
(* finalize fails unless it gave out all of them.                          *)
Served(r, ms) == ToSet(ms) \subseteq r.loader
Emptied(r) == r.loader = {}

(* Next of the extension's ES modules: it and what it imports are loaded   *)
(* and linked, not run.                                                    *)
LoadSideModule ==
  /\ suPc = "extensions" /\ suRt.sources.esm # <<>>
  /\ LET m == Head(suRt.sources.esm)
         new == Unregistered(suRt, m)
         loaded == Registered(suRt, new)
         ok == Served(suRt, new) /\ CanLink(loaded, m)
     IN /\ suPc' = IF ok THEN suPc ELSE "failed"
        /\ suRt' = IF ~ok THEN suRt
                   ELSE [SetStatus(loaded, {x \in ToSet(Reached(m)) : StatusOf(loaded, x) = "uninstantiated"},
                                   "instantiated")
                         EXCEPT !.loader = @ \ ToSet(new), !.sources.esm = Tail(@)]
  /\ UNCHANGED <<suPlan, suDebug, suModes, suBlob>>

(* Then its scripts, in order. *)
ExecuteScript ==
  /\ suPc = "extensions" /\ suRt.sources.esm = <<>> /\ suRt.sources.js # <<>>
  /\ LET f == Head(suRt.sources.js) IN
     /\ suPc' = IF f \in SuThrowing THEN "failed" ELSE suPc
     /\ suRt' = [suRt EXCEPT !.ran = Append(@, f), !.sources.js = Tail(@),
                             !.heap = @ \cup InHeap(suRt, {SuSource(f)})]
  /\ UNCHANGED <<suPlan, suDebug, suModes, suBlob>>

(* Then the entry points: mod_evaluate_sync does nothing for a module that *)
(* has been evaluated.                                                     *)
EvaluateEntryPoint ==
  /\ suPc = "extensions" /\ suRt.sources.esm = <<>> /\ suRt.sources.js = <<>>
  /\ suRt.sources.esm_entry_points # <<>>
  /\ LET m == Head(suRt.sources.esm_entry_points)
         s == StatusOf(suRt, m)
         next == IF s = "evaluated" THEN suRt ELSE Evaluated(suRt, m)
         ok == s # "absent" /\ (s = "evaluated" \/ Errored(suRt, m) = {})
     IN /\ suPc' = IF ok THEN suPc ELSE "failed"
        /\ suRt' = IF ok THEN [next EXCEPT !.sources.esm_entry_points = Tail(@)] ELSE suRt
  /\ UNCHANGED <<suPlan, suDebug, suModes, suBlob>>

(* check_all_modules_evaluated, in debug builds. *)
AllModulesEvaluated(r) == \A i \in DOMAIN r.modules : r.modules[i].status = "evaluated"

(* The loader is put back and must have been emptied. *)
FinishExtensions ==
  /\ suPc = "extensions" /\ AllSources(suRt.sources) = suRt.sources.lazy_esm
  /\ suRt.sources.esm_entry_points = <<>>
  /\ suPc' = IF (suDebug => AllModulesEvaluated(suRt)) /\ Emptied(suRt) THEN "ready" ELSE "failed"
  /\ UNCHANGED <<suPlan, suDebug, suModes, suBlob, suRt>>
-----------------------------------------------------------------------------
(* The runtime in use. *)

(* lazy_load_esm_module: a module of the map is handed out as it is, else  *)
(* its source is taken, registered, linked and run.                        *)
LazyLoadEsm(m) ==
  /\ suPc = "ready"
  /\ LET s == StatusOf(suRt, m)
         registered == Registered([suRt EXCEPT !.lazy_esm_sources = @ \ {m}], <<m>>)
         linked == CanLink(registered, m)
     IN IF s # "absent"
        THEN suPc' = (IF s = "uninstantiated" THEN "panic" ELSE suPc) /\ UNCHANGED suRt
        ELSE /\ m \in suRt.lazy_esm_sources
             /\ suPc' = suPc
             /\ suRt' = CASE ~linked -> registered
                          [] linked /\ Errored(registered, m) # {} ->
                               SetStatus(registered, Errored(registered, m), "errored")
                          [] OTHER -> Evaluated(registered, m)
  /\ UNCHANGED <<suPlan, suDebug, suModes, suBlob>>

LazyExtensions == SelectSeq(suRt.exts, LAMBDA e : SuDecl[e].lazy_init)

(* lazy_init_extensions: the arguments must name the lazy extensions in    *)
(* order; those before the first wrong one have been applied.              *)
LazyInitExtensions(args) ==
  /\ suPc = "ready" /\ Len(args) = Len(LazyExtensions)
  /\ LET wrong == {i \in DOMAIN args : args[i] # LazyExtensions[i]} IN
     suRt' = [suRt EXCEPT !.initialised =
       @ \cup {args[i] : i \in {i \in DOMAIN args : \A k \in wrong : i < k}}]
  /\ UNCHANGED <<suPlan, suDebug, suModes, suBlob, suPc>>

(* SnapshotStoreDataStore::register: ids count up. *)
RegisteredId(before, i) == before + i

(* JsRuntimeForSnapshot::snapshot: the module map, the templates and the   *)
(* sources this runtime loaded itself are stored, in that order; the       *)
(* runtime is gone.                                                        *)
TakeSnapshot ==
  /\ suPc = "ready" /\ SuOptions.will_snapshot
  /\ LET n == Len(suRt.modules)
         templates == SetToSeq(suRt.templates)
     IN suBlob' = [taken |-> TRUE, exts |-> suRt.exts, op_count |-> Len(suRt.ctxs),
                   source_count |-> Len(suRt.original_sources),
                   external_strings |-> suRt.original_sources,
                   data |-> [i \in 1 .. n |-> <<"module", suRt.modules[i]>>]
                              \o [i \in DOMAIN templates |-> <<"template", templates[i]>>],
                   module_handles |-> [i \in 1 .. n |-> RegisteredId(0, i)],
                   templates |-> [i \in DOMAIN templates |-> RegisteredId(n, i)],
                   heap |-> suRt.heap, ran |-> suRt.ran, core_ops |-> suRt.core_ops,
                   ops_module |-> suRt.ops_module]
  /\ suPc' = "start" /\ suPlan' = Tail(suPlan)
  /\ UNCHANGED <<suDebug, suModes, suRt>>

(* InnerIsolateState::drop: the ops, the inspector, the realm and the      *)
(* state go, then the isolate (that of a snapshot creator is leaked, and   *)
(* there is no snapshot to go on with).                                    *)
DropRuntime ==
  /\ suPc \in {"ready", "failed"} /\ suPc' = "start"
  /\ suPlan' = IF SuOptions.will_snapshot THEN <<>> ELSE Tail(suPlan)
  /\ UNCHANGED <<suDebug, suModes, suBlob, suRt>>

(* The process ends with its last runtime, or in a panic. *)
ProcessEnds == (suPlan = <<>> \/ suPc = "panic") /\ UNCHANGED suVars
-----------------------------------------------------------------------------
LazyModules == UNION {ToSet(SuDecl[e].lazy) : e \in DOMAIN SuDecl}

(* Lists of arguments: the right one, or two of them swapped. *)
SuArguments == LET l == LazyExtensions IN {l, Reverse(l)}

StartupInit ==
  /\ suPlan \in SuPlans /\ suDebug \in BOOLEAN /\ suModes = {} /\ suBlob = NoBlob
  /\ suPc = "start" /\ suRt = SuNone

StartupNext ==
  \/ CreateIsolate \/ BindOps \/ RestoreSnapshot \/ ExecuteBuiltins \/ AddLazySources
  \/ LoadSideModule \/ ExecuteScript \/ EvaluateEntryPoint \/ FinishExtensions
  \/ \E m \in LazyModules : LazyLoadEsm(m)
  \/ suPc = "ready" /\ \E args \in SuArguments : LazyInitExtensions(args)
  \/ TakeSnapshot \/ DropRuntime \/ ProcessEnds

StartupSpec == StartupInit /\ [][StartupNext]_suVars
-----------------------------------------------------------------------------
(* A runtime that has no source strings of its own. *)
NoFiles(o) == o.warmup \/ Collect(o.exts, "js") \o Collect(o.exts, "esm") \o Collect(o.exts, "lazy") = <<>>

(* A runtime that can start from a snapshot of these extensions: it has    *)
(* more of them at most at the end, without classes or references.         *)
Extends(o, exts) ==
  LET new == SubSeq(o.exts, Len(exts) + 1, Len(o.exts))
  IN Len(exts) <= Len(o.exts) /\ Collect(new, "objects") = <<>> /\ Collect(new, "refs") = <<>>

(* What is started from a snapshot extends it, and a snapshot that others  *)
(* are built atop has no files.                                            *)
PlanExtends(p) ==
  \A i, k \in DOMAIN p : i < k /\ p[i].will_snapshot =>
    Extends(p[k], p[i].exts) /\ (p[k].will_snapshot => NoFiles(p[i]))

(* Every native pointer of the heap means in this process what it meant    *)
(* when it was stored: the comment in externalize_sources wants the        *)
(* sources of the snapshot before the others "so that they line up         *)
(* correct".  (With a snapshot taken atop another one it does not hold.)   *)
ReferencesLineUp ==
  suPc \notin {"start", "failed", "panic"} =>
    \A ref \in suRt.heap : ref[2] \in DOMAIN suRt.table /\ suRt.table[ref[2]] = ref[1]

(* A runtime that is ready has run every script and entry point of all its *)
(* extensions, here or in the snapshot, none of them twice, and has loaded *)
(* all their modules; all its ops are bound unless that was to be skipped. *)
ReadyIsComplete ==
  suPc = "ready" =>
    /\ IsInjective(suRt.ran)
    /\ ToSet(Collect(suRt.exts, "js")) \subseteq ToSet(suRt.ran)
    /\ \A i \in DOMAIN suRt.exts : LET e == SuDecl[suRt.exts[i]] IN
         /\ e.entry # SuNone => StatusOf(suRt, e.entry) = "evaluated"
         /\ \A m \in ToSet(e.esm) : StatusOf(suRt, m) \in {"instantiated", "evaluated"}
         /\ ~SuOptions.skip => ToSet(e.ops) \subseteq suRt.core_ops

(* Whether a runtime starts afresh or from a snapshot that extensions were *)
(* added to since, nothing panics and every file of every extension has    *)
(* had its effect exactly once.                                            *)
StartupSound == suPc # "panic" /\ ReadyIsComplete

(* "Create a synthetic module - `ext:core/ops` - that exports all ops      *)
(* registered with the runtime."  (It does not hold for the ops that were  *)
(* added to a snapshot.)                                                   *)
OpsModuleComplete ==
  suPc = "ready" /\ ~SuOptions.skip => ToSet(Collect(suRt.exts, "ops")) \subseteq suRt.ops_module

(* "Either snapshotting or non-snapshotting mode may be used in a single   *)
(* process, not both."  (It does not hold: DENO_SNAPSHOT_SET is only set   *)
(* where it has been found to be set, so the assertion is never reached.)  *)
OneModePerProcess == Cardinality(suModes) <= 1

(* The template of every class that is bound can be found.  (It does not   *)
(* hold for a class that was added to a snapshot.)                         *)
TemplatesKnown == suPc = "ready" /\ ~SuOptions.skip => TypesOf(suRt.exts) \subseteq suRt.templates
=============================================================================
