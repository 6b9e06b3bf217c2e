----------------------------- MODULE MCModules -----------------------------
(***************************************************************************)
(* Small instances of the module map: dynamic imports, the loads of module *)
(* graphs, and the extensions' modules when a runtime starts.  DynImport   *)
(* treats a load as one step, ModuleLoad looks inside it; `part` says      *)
(* which of the three a behaviour is about, and the others rest in their   *)
(* initial state.                                                          *)
(***************************************************************************)
EXTENDS DynImport, ModuleLoad, Startup

CONSTANTS a, b, c
MCNames == {a, b, c}
E(n) == [name |-> n, type |-> "none", phase |-> "evaluation"]
S(n) == [name |-> n, type |-> "none", phase |-> "source"]
D(n) == [name |-> n, type |-> "data", phase |-> "evaluation"]
Id == [n \in MCNames |-> n]
JS == [n \in MCNames |-> "js"]
Redirect == [Id EXCEPT ![b] = c]
Wasm == [JS EXCEPT ![c] = "wasm"]
Imports(x, y, z) == [n \in MCNames |-> IF n = a THEN x ELSE IF n = b THEN y ELSE z]

(* Chains, cycles and diamonds, with and without a redirect from b to c. *)
JsSites ==
  [found : {Id, Redirect}, kind : {JS},
   imports : {Imports(x, y, z) : x \in {<<E(b)>>, <<E(b), E(c)>>},
                                 y \in {<<>>, <<E(c)>>},
                                 z \in {<<>>, <<E(a)>>, <<E(b)>>}},
   entries : {{E(a), E(b)}, {E(a), E(c)}}]
(* Wasm sources and data modules, each asked for in one way or in two. *)
OtherSites ==
  [found : {Id}, kind : {Wasm},
   imports : {Imports(x, y, <<>>) : x \in {<<S(c)>>, <<E(c), D(b)>>, <<S(b)>>},
                                    y \in {<<>>, <<D(c)>>}},
   entries : {{E(a), S(c)}, {E(a), D(b)}, {E(a), S(b)}}]
MCSites == JsSites \cup OtherSites

(* These satisfy what the theorems about ModuleLoad suppose of the loader. *)
ASSUME MCSitesAssumption == RedirectsSettle /\ PlainSites

(* A redirect to a Wasm module; one module asked for in two phases; a      *)
(* redirect, and its target asked for with another type.  With these sites,*)
(* which are not plain, DoneMeansWholeGraph does not hold.                 *)
MixedSites ==
  [found : {Redirect}, kind : {Wasm}, imports : {Imports(<<E(b)>>, <<>>, <<>>)},
   entries : {{E(a)}}]
    \cup
  [found : {Redirect}, kind : {JS}, imports : {Imports(<<E(b), D(c)>>, <<>>, <<>>)},
   entries : {{E(a)}}]
    \cup
  [found : {Id}, kind : {Wasm}, imports : {Imports(<<S(c), E(c)>>, <<>>, <<>>)},
   entries : {{E(a)}}]

(* Extensions: `base` has everything an extension may declare, `more` adds *)
(* ops and files to it, `ops`, `files` and `classes` have nothing else,    *)
(* `stray` has a module that nothing imports, `orphan` one whose import is *)
(* in no extension, `broken` a script that throws.                         *)
Plain == [deps |-> {}, ops |-> <<>>, objects |-> <<>>, refs |-> <<>>, js |-> <<>>, esm |-> <<>>,
          lazy |-> <<>>, entry |-> SuNone, lazy_init |-> FALSE]
Class(type, parent) == [type |-> type, inherits |-> parent, constructor |-> parent = SuNone,
                        methods |-> <<type \o "_method">>]
MCDecl ==
  [base |-> [Plain EXCEPT !.ops = <<"op_a", "op_b">>, !.refs = <<"ref">>, !.js = <<"base.js">>,
                          !.objects = <<Class("Shape", SuNone), Class("Box", "Shape")>>,
                          !.esm = <<"base_main", "base_dep">>, !.entry = "base_main",
                          !.lazy = <<"base_lazy">>, !.lazy_init = TRUE],
   more |-> [Plain EXCEPT !.deps = {"base"}, !.ops = <<"op_c">>, !.js = <<"more.js">>,
                          !.esm = <<"more_main">>, !.entry = "more_main",
                          !.lazy = <<"more_lazy">>, !.lazy_init = TRUE],
   ops |-> [Plain EXCEPT !.ops = <<"op_d">>],
   files |-> [Plain EXCEPT !.js = <<"files.js">>, !.esm = <<"files_main">>, !.entry = "files_main"],
   classes |-> [Plain EXCEPT !.objects = <<Class("Shape", SuNone)>>],
   orphan |-> [Plain EXCEPT !.lazy = <<"orphan_lazy">>],
   stray |-> [Plain EXCEPT !.esm = <<"stray">>],
   broken |-> [Plain EXCEPT !.js = <<"broken.js">>]]
MCImports ==
  [base_main |-> <<"base_dep", SuOpsModule>>, base_dep |-> <<>>, base_lazy |-> <<"base_dep">>,
   more_main |-> <<"base_dep">>, more_lazy |-> <<"base_main">>, files_main |-> <<SuOpsModule>>,
   stray |-> <<>>, orphan_lazy |-> <<"more_main">>]
    @@ [m \in {SuOpsModule} \cup ToSet(SuBuiltinModules) |-> <<>>]
MCOpImports == [m \in DOMAIN MCImports |-> IF m = "base_main" THEN {"op_a", "Box"} ELSE {}]

Started(exts, snapshot, skip, warmup) ==
  [exts |-> exts, will_snapshot |-> snapshot, skip |-> skip, warmup |-> warmup]
Start(exts) == Started(exts, FALSE, FALSE, FALSE)
Snap(exts) == Started(exts, TRUE, FALSE, FALSE)
Warm(exts) == Started(exts, TRUE, TRUE, TRUE)   \* the second pass of create_snapshot

(* Without a snapshot; from one, with the same extensions or with more; a  *)
(* warmed-up snapshot of ops alone; an empty snapshot atop another;        *)
(* extensions in another order; one that never runs a module, one that     *)
(* throws.                                                                 *)
MCPlans ==
  {<<Start(<<"base", "more">>)>>,
   <<Snap(<<"base">>), Start(<<"base">>), Start(<<"base", "more">>)>>,
   <<Snap(<<"ops">>), Warm(<<"ops">>), Start(<<"ops", "files">>)>>,
   <<Snap(<<>>), Snap(<<>>), Started(<<"ops", "files">>, FALSE, TRUE, FALSE)>>,
   <<Snap(<<"base", "more">>), Start(<<"more", "base">>)>>,
   <<Start(<<"base", "stray">>), Start(<<"broken">>)>>}

(* They are what the theorem about ReferencesLineUp supposes of the plans. *)
ASSUME MCPlansAssumption == \A p \in MCPlans : PlanExtends(p)

(* With these ReferencesLineUp does not hold: a snapshot of files atop     *)
(* another (create_snapshot with a warm-up script), or a class added to a  *)
(* snapshot.                                                               *)
LayeredPlans == {<<Snap(<<"base">>), Warm(<<"base">>), Start(<<"base">>)>>}
ClassPlans == {<<Snap(<<>>), Start(<<"classes">>)>>}

(* With this one a module is handed out that V8 could not link. *)
OrphanPlans == {<<Start(<<"orphan">>)>>}

VARIABLE part
allVars == <<vars, graphVars, suVars, part>>

ModulesInit ==
  /\ part \in {"import", "load", "startup"} /\ Init /\ GraphInit /\ StartupInit
  /\ part # "load" => site = CHOOSE s \in Sites : TRUE
  /\ part # "startup" => suPlan = (CHOOSE p \in SuPlans : TRUE) /\ suDebug

ModulesNext ==
  \/ part = "import" /\ Next /\ UNCHANGED <<graphVars, suVars, part>>
  \/ part = "load" /\ GraphNext /\ UNCHANGED <<vars, suVars, part>>
  \/ part = "startup" /\ StartupNext /\ UNCHANGED <<vars, graphVars, part>>

(* The fairness of DynImport!FairSpec. *)
ModulesSpec ==
  /\ ModulesInit /\ [][ModulesNext]_allVars
  /\ WF_allVars(part = "import" /\ Poll /\ UNCHANGED <<graphVars, suVars, part>>)
  /\ WF_allVars(part = "import" /\ FutureWakes /\ UNCHANGED <<graphVars, suVars, part>>)
  /\ SF_allVars(part = "import" /\ Completion /\ UNCHANGED <<graphVars, suVars, part>>)
=============================================================================
