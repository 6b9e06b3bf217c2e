----------------------------- MODULE ModuleLoad -----------------------------
(***************************************************************************)
(* Loading of module graphs: RecursiveModuleLoad and the part of ModuleMap *)
(* that registers modules, their aliases (redirects) and their Wasm        *)
(* sources, and that resolves requests when V8 links a graph.              *)
(*                                                                         *)
(* Several loads share one module map.  The loader answers in any order,   *)
(* so a module may be fetched by two loads, or by one load under two       *)
(* names, before the first answer is registered.                           *)
(*                                                                         *)
(* Left out: modules of a custom type (ModuleType::Other), which become    *)
(* what the embedder's callback makes of them, and main and side modules   *)
(* whose code the embedder hands over, which are registered without a look *)
(* at what the map has under their name.                                   *)
(***************************************************************************)
EXTENDS Naturals, Sequences, FiniteSets, SequencesExt

CONSTANTS
  Names,   \* resolved module specifiers
  Sites,   \* what the loader may serve: see SiteType
  Loads    \* identities of RecursiveModuleLoad

(* The requested types "json", "text" and "bytes" differ in nothing that   *)
(* matters here: "data" stands for them.                                   *)
RequestedTypes == {"none", "data"}
Phases == {"evaluation", "source"}
Requests == [name : Names, type : RequestedTypes, phase : Phases]
Ref(r) == <<r.name, r.type>>

SiteType == [found : [Names -> Names], kind : [Names -> {"js", "wasm"}],
             imports : [Names -> Seq(Requests)], entries : SUBSET Requests]

ASSUME GraphAssumption == Sites \subseteq SiteType

(***************************************************************************)
(* What the theorems suppose of the loader.                                *)
(***************************************************************************)
(* A module that was found under a name is found there when asked for by   *)
(* that name.                                                              *)
RedirectsSettle == \A s \in Sites : \A n \in Names : s.found[s.found[n]] = s.found[n]

Imported(s, r) == \E n \in Names : r \in ToSet(s.imports[n])
Asked(s, r) == Imported(s, r) \/ (r \in s.entries /\ r.phase = "evaluation")

(* Redirects lead to JavaScript; no import of a module that redirects, or  *)
(* that a redirect leads to, has a type or asks for the source; no module  *)
(* is asked for in both phases.                                            *)
PlainSites ==
  \A s \in Sites :
    /\ \A n \in Names : s.found[n] # n => s.kind[s.found[n]] = "js"
    /\ \A n \in Names, r \in Requests :
         /\ Imported(s, r) /\ s.found[n] # n /\ r.name \in {n, s.found[n]}
         => r.type = "none" /\ r.phase = "evaluation"
    /\ \A r, q \in Requests :
         Asked(s, r) /\ Asked(s, q) /\ Ref(r) = Ref(q) => r.phase = q.phase

VARIABLES
  site,                \* the loader's answers in this behaviour
  (* ModuleMapData: *)
  by_name,
  info,                \* by ModuleId
  main_module_id,      \* 0: None
  sources,             \* its keys
  (* RecursiveModuleLoad, a function on Loads each: *)
  init, root, state,
  root_module_id,      \* a set of at most one
  fetches,             \* pending
  visited, visited_as_alias,
  (* register_and_recurse_inner, which nothing else interrupts: *)
  walker,              \* {}, or the load that is in it
  already_registered,  \* the queue of ModuleIds
  requests_left        \* what its inner loop has not considered

mapVars == <<by_name, info, main_module_id, sources>>
rmlVars == <<init, root, state, root_module_id, fetches, visited, visited_as_alias>>
walkVars == <<walker, already_registered, requests_left>>
graphVars == <<site, mapVars, rmlVars, walkVars>>

Absent == [at |-> "absent"]
Mod(id) == [at |-> "mod", id |-> id]
Alias(n) == [at |-> "alias", to |-> n]

(* RequestedModuleType::from(ModuleType). *)
RequestedFrom(module_type) == IF module_type = "data" THEN "data" ELSE "none"

(* What load() answers: the type follows the request, or the file.         *)
Found(r) == site.found[r.name]
LoadedType(r) == IF r.type = "data" THEN "data" ELSE site.kind[Found(r)]

(* ModuleMapData::get_id: the id a name stands for, as a set of at most    *)
(* one.  Following the aliases reaches the least set of names that holds   *)
(* the first one and the target of each alias in it.                       *)
Followed(names, n, t) ==
  {x \in Names : \A C \in SUBSET Names :
     n \in C /\ (\A y \in C : names[<<y, t>>].at = "alias" => names[<<y, t>>].to \in C) => x \in C}

GetId(names, n, t) ==
  {names[<<x, t>>].id : x \in {y \in Followed(names, n, t) : names[<<y, t>>].at = "mod"}}

(* Faulty variants of definitions below. *)
KnownAreNotWalked(known) == already_registered
StillLoading(l) == state[l]

NoRoot == [name |-> "none", type |-> "none", phase |-> "evaluation"]

GraphInit ==
  /\ site \in Sites
  /\ by_name = [k \in Names \X RequestedTypes |-> Absent] /\ info = <<>>
  /\ main_module_id = 0 /\ sources = {}
  /\ init = [l \in Loads |-> "side"] /\ root = [l \in Loads |-> NoRoot]
  /\ state = [l \in Loads |-> "none"] /\ root_module_id = [l \in Loads |-> {}]
  /\ fetches = [l \in Loads |-> {}] /\ visited = [l \in Loads |-> {}]
  /\ visited_as_alias = [l \in Loads |-> {}]
  /\ walker = {} /\ already_registered = <<>> /\ requests_left = <<>>

(* RecursiveModuleLoad::new looks the root up once, before prepare(). *)
NewLoad(l, how, r) ==
  /\ state[l] = "none"
  /\ how # "dynamic_import" => r.type = "none" /\ r.phase = "evaluation"
  /\ state' = [state EXCEPT ![l] = "init"]
  /\ init' = [init EXCEPT ![l] = how] /\ root' = [root EXCEPT ![l] = r]
  /\ root_module_id' = [root_module_id EXCEPT ![l] = GetId(by_name, r.name, r.type)]
  /\ UNCHANGED <<site, mapVars, fetches, visited, visited_as_alias, walkVars>>

(* A load that has ended is dropped. *)
Ends(l, how) ==
  /\ state' = [state EXCEPT ![l] = how]
  /\ init' = [init EXCEPT ![l] = "side"] /\ root' = [root EXCEPT ![l] = NoRoot]
  /\ root_module_id' = [root_module_id EXCEPT ![l] = {}]
  /\ fetches' = [fetches EXCEPT ![l] = {}] /\ visited' = [visited EXCEPT ![l] = {}]
  /\ visited_as_alias' = [visited_as_alias EXCEPT ![l] = {}]

Pending(r, started) == [request |-> r, started |-> started]

(***************************************************************************)
(* register_and_recurse_inner: from a registered module, breadth first     *)
(* through what the map knows; what it does not know is to be fetched.     *)
(* While `walker` names a load, nothing but the next step of it happens.   *)
(***************************************************************************)
KnownId(names, r) == GetId(names, r.name, r.type)

RecurseFrom(l, id, r) ==
  /\ walker' = {l} /\ already_registered' = <<id>> /\ requests_left' = <<>>
  /\ visited' = [visited EXCEPT ![l] = @ \cup {Ref(r)}]

(* The outer loop takes a module from the queue, *)
PopModule(l) ==
  /\ requests_left = <<>> /\ already_registered # <<>>
  /\ requests_left' = info[Head(already_registered)].requests
  /\ already_registered' = Tail(already_registered)
  /\ UNCHANGED <<site, mapVars, rmlVars, walker>>

(* ... the inner one looks at its requests: this load has met the module,  *)
Seen(l, r) == Ref(r) \in visited[l] \/ r.name \in visited_as_alias[l]

SkipRequest(l) ==
  /\ requests_left # <<>> /\ Seen(l, Head(requests_left))
  /\ requests_left' = Tail(requests_left)
  /\ UNCHANGED <<site, mapVars, rmlVars, walker, already_registered>>

(* ... or the map has it, *)
Queued(known) == Append(already_registered, CHOOSE id \in known : TRUE)

WalkKnown(l) ==
  /\ requests_left # <<>> /\ requests_left' = Tail(requests_left)
  /\ LET r == Head(requests_left) IN
     /\ ~Seen(l, r) /\ KnownId(by_name, r) # {}
     /\ already_registered' = Queued(KnownId(by_name, r))
     /\ visited' = [visited EXCEPT ![l] = @ \cup {Ref(r)}]
  /\ UNCHANGED <<site, mapVars, init, root, state, root_module_id, fetches, visited_as_alias,
                 walker>>

(* ... or it has to be fetched. *)
AddFetch(l) ==
  /\ requests_left # <<>> /\ requests_left' = Tail(requests_left)
  /\ LET r == Head(requests_left) IN
     /\ ~Seen(l, r) /\ KnownId(by_name, r) = {}
     /\ fetches' = [fetches EXCEPT ![l] = @ \cup {Pending(r, FALSE)}]
     /\ visited' = [visited EXCEPT ![l] = @ \cup {Ref(r)}]
  /\ UNCHANGED <<site, mapVars, init, root, state, root_module_id, visited_as_alias,
                 walker, already_registered>>

StateAfter(l) == IF fetches[l] = {} THEN "done" ELSE "loading_imports"

WalkEnds(l) ==
  /\ requests_left = <<>> /\ already_registered = <<>>
  /\ walker' = {} /\ state' = [state EXCEPT ![l] = StateAfter(l)]
  /\ UNCHANGED <<site, mapVars, init, root, root_module_id, fetches, visited, visited_as_alias,
                 already_registered, requests_left>>

(* The first poll_next: the root is in the map, *)
RootIsKnown(l) ==
  /\ state[l] = "init" /\ root[l].phase = "evaluation"
  /\ \E id \in root_module_id[l] : RecurseFrom(l, id, root[l])
  /\ UNCHANGED <<site, mapVars, init, root, state, root_module_id, fetches, visited_as_alias>>

(* ... or is fetched. *)
FetchRoot(l) ==
  /\ state[l] = "init" /\ (root[l].phase = "evaluation" => root_module_id[l] = {})
  /\ fetches' = [fetches EXCEPT ![l] = {Pending(root[l], TRUE)}]
  /\ state' = [state EXCEPT ![l] = "loading_root"]
  /\ UNCHANGED <<site, mapVars, init, root, root_module_id, visited, visited_as_alias, walkVars>>

Loading(l) == state[l] \in {"loading_root", "loading_imports"}

(* A fetch future is polled for the first time: it calls the loader, *)
FetchStarts(l, p) ==
  /\ Loading(l) /\ p \in fetches[l] /\ ~p.started
  /\ p.request.name \notin visited_as_alias[l]
  /\ fetches' = [fetches EXCEPT ![l] = (@ \ {p}) \cup {Pending(p.request, TRUE)}]
  /\ UNCHANGED <<site, mapVars, init, root, state, root_module_id, visited, visited_as_alias,
                 walkVars>>

(* ... or finds that a redirect has led there, and ends with None. *)
DoneIfLast(l, p) == [state EXCEPT ![l] = IF fetches[l] = {p} THEN "done" ELSE @]

FetchIsAlias(l, p) ==
  /\ Loading(l) /\ p \in fetches[l] /\ ~p.started
  /\ p.request.name \in visited_as_alias[l]
  /\ fetches' = [fetches EXCEPT ![l] = @ \ {p}] /\ state' = DoneIfLast(l, p)
  /\ UNCHANGED <<site, mapVars, init, root, root_module_id, visited, visited_as_alias, walkVars>>

(* A fetch that fails ends its load; so does a source phase import of a    *)
(* module that has no source.                                              *)
FetchFails(l, p) ==
  /\ Loading(l) /\ p \in fetches[l] /\ p.started
  /\ Ends(l, "failed") /\ UNCHANGED <<site, mapVars, walkVars>>

SourceUnsupported(l, p) ==
  /\ p.request.phase = "source" /\ LoadedType(p.request) # "wasm" /\ FetchFails(l, p)

(* new_module and new_wasm_module_source note a redirect first. *)
WithAlias(r) ==
  IF Found(r) = r.name THEN by_name
  ELSE [by_name EXCEPT ![<<r.name, RequestedFrom(LoadedType(r))>>] = Alias(Found(r))]

(* new_wasm_module_source: the source under the requested and loaded keys. *)
SourceKeys(r) == {<<"requested", r.name, r.type>>, <<"loaded", Found(r), LoadedType(r)>>}
WithSource(r) ==
  IF LoadedType(r) = "wasm" THEN sources \cup SourceKeys(r) ELSE sources

IsMain(l) == init[l] = "main" /\ state[l] = "loading_root"

(* new_module_from_js_source refuses a second main module; modules that    *)
(* are not JavaScript are never main.                                      *)
MainRefused(l, r) == IsMain(l) /\ LoadedType(r) = "js" /\ main_module_id # 0

AliasesAfter(l, p) ==
  IF Found(p.request) = p.request.name \/ state[l] = "loading_root" THEN visited_as_alias
  ELSE [visited_as_alias EXCEPT ![l] = @ \cup {Found(p.request)}]

(* register_and_recurse for the source phase: no module is made. *)
SourceFetched(l, p) ==
  /\ Loading(l) /\ p \in fetches[l] /\ p.started
  /\ p.request.phase = "source" /\ LoadedType(p.request) = "wasm"
  /\ by_name' = WithAlias(p.request) /\ sources' = WithSource(p.request)
  /\ fetches' = [fetches EXCEPT ![l] = @ \ {p}] /\ state' = DoneIfLast(l, p)
  /\ visited_as_alias' = AliasesAfter(l, p)
  /\ UNCHANGED <<site, info, main_module_id, init, root, root_module_id, visited, walkVars>>

(* The imports of a module as V8 lists them.  A Wasm module is rendered as *)
(* JavaScript that first imports its own source, by the name it was found  *)
(* under; synthetic modules import nothing.                                *)
RequestsIn(n, module_type) ==
  CASE module_type = "data" -> <<>>
    [] module_type = "wasm" ->
         <<[name |-> n, type |-> "none", phase |-> "source"]>> \o site.imports[n]
    [] OTHER -> site.imports[n]

(* register_and_recurse, once new_module has given an id. *)
RegisterAndRecurse(l, p, id) ==
  /\ sources' = WithSource(p.request) /\ visited_as_alias' = AliasesAfter(l, p)
  /\ fetches' = [fetches EXCEPT ![l] = @ \ {p}]
  /\ root_module_id' = IF state[l] = "loading_root" THEN [root_module_id EXCEPT ![l] = {id}]
                       ELSE root_module_id
  /\ RecurseFrom(l, id, p.request) /\ UNCHANGED <<site, init, root, state>>

(* new_module finds the module there already, *)
ExistingId(names, r) == GetId(names, Found(r), RequestedFrom(LoadedType(r)))

ModuleFound(l, p) ==
  /\ Loading(l) /\ p \in fetches[l] /\ p.started /\ p.request.phase = "evaluation"
  /\ by_name' = WithAlias(p.request)
  /\ \E id \in ExistingId(by_name', p.request) : RegisterAndRecurse(l, p, id)
  /\ UNCHANGED <<info, main_module_id>>

(* ... or creates it with its requests. *)
ModuleCreated(l, p) ==
  /\ Loading(l) /\ p \in fetches[l] /\ p.started /\ p.request.phase = "evaluation"
  /\ LET r == p.request
         id == Len(info) + 1
         main == IsMain(l) /\ LoadedType(r) = "js"
     IN /\ ExistingId(WithAlias(r), r) = {} /\ ~MainRefused(l, r)
        /\ by_name' = [WithAlias(r) EXCEPT ![<<Found(r), RequestedFrom(LoadedType(r))>>] = Mod(id)]
        /\ info' = Append(info, [name |-> Found(r), type |-> LoadedType(r), main |-> main,
                                 requests |-> RequestsIn(Found(r), LoadedType(r))])
        /\ main_module_id' = IF main THEN id ELSE main_module_id
        /\ RegisterAndRecurse(l, p, id)

(* The source does not compile, an import of it does not resolve, or it    *)
(* would be a second main module.  What was noted before that stays.       *)
ModuleRefused(l, p) ==
  /\ Loading(l) /\ p \in fetches[l] /\ p.started
  /\ LoadedType(p.request) = "wasm" \/ ExistingId(WithAlias(p.request), p.request) = {}
  /\ LoadedType(p.request) = "wasm" \/ p.request.phase = "evaluation"
  /\ by_name' = WithAlias(p.request)
  /\ sources' \in {sources} \cup IF p.request.phase = "source" THEN {}
                                ELSE {WithSource(p.request)}
  /\ Ends(l, "failed") /\ UNCHANGED <<site, info, main_module_id, walkVars>>

(***************************************************************************)
(* instantiate_module: V8 asks for every request of the graph.             *)
(***************************************************************************)
(* module_resolve_callback and module_source_callback. *)
Resolves(r) ==
  IF r.phase = "source" THEN <<"requested", r.name, r.type>> \in sources
  ELSE KnownId(by_name, r) # {}

RequestsOf(id) == ToSet(info[id].requests)

(* What V8 walks from a module: the least set that holds it and what its   *)
(* requests stand for.                                                     *)
Graph(id) ==
  {i \in DOMAIN info : \A C \in SUBSET DOMAIN info :
     /\ id \in C
     /\ \A j \in C : \A r \in RequestsOf(j) :
          r.phase = "evaluation" => KnownId(by_name, r) \subseteq C
     => i \in C}

Links(id) == \A i \in Graph(id) : \A r \in RequestsOf(i) : Resolves(r)

(* The end of a load: the graph is linked, or the Wasm source handed out. *)
LoadFutureEnds(l) ==
  /\ state[l] = "done"
  /\ Ends(l, IF root[l].phase = "source" \/ \A id \in root_module_id[l] : Links(id)
             THEN "linked" ELSE "unlinked")
  /\ UNCHANGED <<site, mapVars, walkVars>>

GraphQuiet ==
  /\ \A l \in Loads : state[l] \in {"linked", "unlinked", "failed"}
  /\ UNCHANGED graphVars

WalkStep(l) == PopModule(l) \/ SkipRequest(l) \/ WalkKnown(l) \/ AddFetch(l) \/ WalkEnds(l)

LoadStep(l) ==
  \/ RootIsKnown(l) \/ FetchRoot(l) \/ LoadFutureEnds(l)
  \/ \E how \in {"main", "side", "dynamic_import"}, r \in site.entries : NewLoad(l, how, r)
  \/ \E p \in fetches[l] :
       \/ FetchStarts(l, p) \/ FetchIsAlias(l, p) \/ FetchFails(l, p)
       \/ SourceUnsupported(l, p) \/ SourceFetched(l, p)
       \/ ModuleFound(l, p) \/ ModuleCreated(l, p) \/ ModuleRefused(l, p)

GraphNext ==
  \/ \E l \in walker : WalkStep(l)
  \/ walker = {} /\ \E l \in Loads : LoadStep(l)
  \/ GraphQuiet

GraphSpec == GraphInit /\ [][GraphNext]_graphVars

(***************************************************************************)
(* Properties.                                                             *)
(***************************************************************************)
(* The module map and the loads hold what they should. *)
GraphTypeOK ==
  /\ \A k \in Names \X RequestedTypes :
       by_name[k] \in {Absent} \cup {Mod(i) : i \in DOMAIN info} \cup {Alias(n) : n \in Names}
  /\ main_module_id \in 0 .. Len(info)
  /\ \A l \in Loads :
       /\ root_module_id[l] \subseteq DOMAIN info
       /\ visited[l] \subseteq Names \X RequestedTypes /\ visited_as_alias[l] \subseteq Names

(* When a load is Done the whole graph under its root is in the module     *)
(* map: V8 gets an answer for every import when it links it.  This is what *)
(* register_and_recurse_inner promises "robustly", whatever other loads    *)
(* registered meanwhile and however redirects overlap.                     *)
DoneMeansWholeGraph ==
  \A l \in Loads : state[l] = "done" /\ root[l].phase = "evaluation"
                     => \A id \in root_module_id[l] : Links(id)

(* A module is created once, however many loads fetched it and under       *)
(* however many names: its body would run twice, with two sets of exports. *)
OneModulePerName ==
  \A i, j \in DOMAIN info :
    info[i].name = info[j].name /\ RequestedFrom(info[i].type) = RequestedFrom(info[j].type)
      => i = j

(* poll_next never polls an empty set of fetches (its unreachable!), and a *)
(* load that is Done knows its root module, or holds its Wasm source (the  *)
(* expects of poll_dyn_imports).                                           *)
LoadsDoNotPanic ==
  walker = {} =>
    \A l \in Loads :
      /\ Loading(l) => fetches[l] # {}
      /\ state[l] = "done" =>
           IF root[l].phase = "source"
           THEN <<"requested", root[l].name, root[l].type>> \in sources
           ELSE root_module_id[l] # {}

(* Loads that overlap share one module map: no module is made twice, no    *)
(* entry is left half made and no load is led into a panic.                *)
MapConsistent == GraphTypeOK /\ OneModulePerName /\ LoadsDoNotPanic
=============================================================================
