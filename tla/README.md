# A verification project for deno_core

`deno_core` embeds V8 in a Rust program: it hands asynchronous *ops* to JavaScript, drives
an *event loop* that is itself one future polled by a Tokio executor, loads ES modules, and
starts runtimes from *snapshots*. Almost everything runs on one thread, and almost nothing is
atomic: promises are settled in the middle of Rust functions and the JavaScript that runs
there calls back into the same objects; futures are woken by other tasks and, for three parts,
by other threads; intrusive lists and arenas hold raw pointers to each other; and the loop
decides at the end of every tick, from a dozen counters and flags, whether it has finished,
must be polled again, may sleep, or should report a stalled module.

The modules here model those protocols, and the conversions every op call goes through. TLC
checks them on small instances; TLAPS proves the safety of almost every part that keeps state
for every instance.

## 1. Inventory

### Parts, state, operations

| part | source | state | operations |
|---|---|---|---|
| Task spawner | `core/tasks.rs`, `dispatch_task_spawner` | mutex-protected vector, atomic flag, `AtomicWaker` | `spawn`, `spawn_blocking` (any thread), `poll_inner`, batch dispatch with 3 retries |
| Inspector | `core/inspector.rs` | waker with five poll states, sessions, handshake, workers, flags | `poll_sessions` from the loop, an interrupt, a pause or a wait; connect, send, leave from other threads |
| Web timers | `core/web_timeout.rs`, `dispatch_timers` | B-tree of keys with tombstones, data map, unref and high-resolution counts, one re-armable Tokio sleep with its waker | queue, repeat, ref, unref, cancel, poll, take a fired timer, compact |
| uv layer: handles | `core/uv_compat.rs` | timer set and id table, lists of idle, prepare and check handles, closing handles, flags | start, stop, again, ref, unref, close, the phases that walk the tables |
| uv layer: TCP | `core/uv_compat.rs` | stream, backlog, write queue, connect and shutdown requests, active flag | open, connect, listen, accept, read, write, try_write, shutdown, close, `run_io` |
| Promise table | `core/00_infra.js` | ring of 4096 slots, overflow map, 32-bit ids | `setPromise`, `__resolvePromise`, `hasPromise` |
| Op driver and dispatch | `core/runtime/op_driver/`, `dispatch_pending_ops`, `core/ops_builtin.rs` | `FuturesUnordered`, driver task, completion queue, `len`, `unrefed_ops` | eager, lazy and deferred submission, driver poll, batch dispatch, ref, unref, shutdown |
| op2, op metrics | `ops/op2/`, `core/runtime/ops.rs`, `core/ops_metrics.rs` | per-op counters | parse a signature, generate a slow and a fast entry, call either |
| serde_v8 | `serde_v8/` | slices of shared buffers | serialize, deserialize, split |
| Conversions, WebIDL | `core/convert.rs`, `core/webidl.rs`, `core/runtime/ops_rust_to_v8.rs`, the derives | vectors under construction | `FromV8`, `ToV8`, WebIDL converters, dictionaries |
| Event loop | `poll_event_loop_inner` in `core/runtime/jsruntime.rs` | the pending state of all sources, tick, immediate and rejection flags, idle counter, dispatched exception | the six phases of a tick, the finish / re-wake / stall / park decision |
| Rejections and exceptions | `core/runtime/exception_state.rs`, `dispatch_rejections` | two queues, dispatched exception | reject, handle, deliver, report, check |
| Dynamic imports | `core/modules/map.rs` | preparing and pending loads, pending evaluations, waiters on a top-level await, three cached flags | `load_dynamic_import`, `poll_progress`, evaluate, resolve, reject |
| Module loading | `core/modules/recursive_load.rs`, `module_map_data.rs`, `map.rs` | load state machine, visited set, names, aliases and sources by type | prepare, load, register, recurse, instantiate |
| Runtime construction, extensions, snapshots | `core/extension_set.rs`, `core/runtime/{jsruntime,bindings,setup,snapshot}.rs` | op contexts, sources, reference table, module map, template store, the blob | create, bind, restore, run extensions, lazy load and init, snapshot, drop |
| `AsyncRefCell` | `core/async_cell.rs` | borrow count, queue of waiters with holes, turn | synchronous and awaited borrows, poll, wake, drop of a future or a borrow |
| Cancellation | `core/async_cancel.rs` | intrusive ring of nodes | link, update waker, unlink, cancel, drop |
| Arenas | `core/arena/` | free list, high water mark, reference counts, spin lock | allocate, reserve, clone, drop, drop of the arena |
| Resources, I/O views | `core/io/`, `core/ops_builtin.rs` | resource table, buffer with cursor, adaptive size | close, read all, write all, stream Wasm |
| Op state, cppgc, errors, source maps, strings, statistics, other macros, reactor, dcore | | see `PROJECT.json` | see `PROJECT.json` |

### How they interact

    any thread --spawn-----> task spawner --waker---> event loop --closure--> scripts
    any thread --connect---> inspector ----waker---> event loop --dispatch--> V8
    scripts --op call (op2, serde_v8, conversions)--> op driver --completion--> event loop
                                                     event loop --resolve--> promise table
    scripts --queue--------> web timers ---sleep----> event loop --callback-> scripts
    C code  --uv_*---------> uv handles, sockets <---phases of the event loop--> callbacks
    scripts --import()-----> dynamic imports --load-> module loading --> module map
    scripts --reject-------> exception state <---dispatch_rejections--- event loop
    ops     --borrow, cancel, allocate--> AsyncRefCell, CancelHandle, arenas, resources
    embedder --extensions--> construction --snapshot--> construction of the next process

The event loop registers one waker with each source on every poll. Each source must wake it
when it has something, and the loop must wake itself for what no source will announce.

### What is hard, and what makes each part correct

* **Task spawner** - three cells updated in separate steps by threads that do not exclude the
  loop. Correct when every task runs once, in the order of the lock, is never hidden behind a
  lowered flag, and `spawn_blocking`, which lends a borrowing closure a `'static` lifetime,
  does not return before its closure ran.
* **Inspector** - wakes arrive in any poll state, from threads, interrupts and the polled
  sessions themselves, and a breakpoint re-enters `poll_sessions`. Correct when no message is
  overlooked, no `unreachable!()` is reached and no worker is announced twice.
* **Web timers** - a batch of expired ids is held while callbacks cancel, queue and unref
  timers, those of the batch included; one sleep stands for all timers. Correct when the
  counts match, timers fire when due and in order, and the sleep covers the first of them.
* **uv handles** - callbacks start, stop and close handles while the tables that hold raw
  pointers to them are walked. Correct when tables and flags agree, no table names a freed
  handle, and only what is due fires.
* **TCP** - direct writes race queued ones, sockets block, and only a waker that was stored
  brings the next tick. Correct when bytes arrive in the order of the writes, each once, and
  what waits for a socket is served when the socket is ready.
* **Promise table** - ids lap the ring while old ops are pending. Correct when the completion
  of an op settles the promise of that very call.
* **Op driver** - four wakers lie between a finished future and its promise; the loop compares
  counts, not sets. Correct when an op is in one place at a time, every finished op settles,
  and the loop ends exactly when no ref'd op is left.
* **op2, serde_v8, conversions** - two code paths per op, integers at the ends of their types,
  buffers of fixed size, memory that is initialised element by element. Correct when a value
  keeps its meaning whichever path it takes, what one path refuses the other refuses, and a
  failure half way leaves nothing behind.
* **Event loop** - the order of phases decides what is seen when. Correct when it ends with
  nothing left, never sleeps on work, and reports a stall only when a module waits and nothing
  can happen.
* **Rejections** - handlers reject and handle promises while the queues are drained. Correct
  when each rejection is reported once, withdrawn, or ends the poll.
* **Dynamic imports** - re-entrancy at every promise that is settled. Correct when each import
  is answered once, not before its module is done, and none is forgotten.
* **Module loading** - several loads share one map, each with its own idea of what it has
  visited. Correct when a finished load has its whole graph in the map and no module is made
  twice.
* **Construction** - pointers cross processes as positions in a table that is rebuilt from the
  extensions. Correct when they denote the same things and every file has run exactly once.
* **AsyncRefCell** - futures dropped before or after they are served, moved between tasks,
  and served in batches. Correct when the count is exact, the queue is fair, nothing leaks.
* **Cancellation, arenas, resources** - raw pointers in rings and free lists, dropped in any
  order; partial transfers. Correct when no pointer dangles, everybody is woken, every slot is
  used once and no byte is lost.

`PROJECT.json` lists the hazards one by one with the line where each bites and the property
that would notice.

## 2. Modules

Each component module has VARIABLES named after the fields of the code and one action per
operation; `PROJECT.json` maps every definition to its lines. Small operators that end up in
no formula of the specification ("faulty variants") are plausible slips in the code. They
document what each property is able to notice. Names are prefixed where several modules are
instantiated together.

**TaskSpawner.** The mutex, the flag and the waker are separate steps: `Push`, `StoreFlag`,
`Wake` for a spawner, `PollFlag` (the compare-exchange), `PollTake` (`mem::take`),
`PollRegister` for the loop. `Rendezvous` is the channel of `spawn_blocking`.
`RunTask`/`EndBatch` are the dispatch with its three rounds; `Evaluate` is the end of the
tick: finish, re-wake or park. A task may spawn from within (`Local` handles). Sequentially
consistent atomics are assumed; the code uses release/acquire pairs on the flag and a mutex,
whose order is the model's.

**Inspector.** `insWaker` is the mutex-protected `InspectorWakerInner`; `insThread` the
isolate's thread with its place in `poll_sessions`, which may be entered from the loop, from
an interrupt, from a pause and from `wait_for_session`. An interrupt or a break in JavaScript
that a dispatched message runs finds the sessions borrowed: its `poll_sessions` gives up, but
`on_pause` has been set. Debuggers and workers are peers with channels; a protocol message is a
member of `Commands`, named for the effect it has on this state. `SpuriousReturn`, a park that
returns by itself, is part of `SpuriousSpec` only (section 6).

**WebTimers.** The tree is a set of keys, the sleep a record with deadline and fired flag. The
clock advances by `Advance`, Tokio fires by `SleepFires`; a sleep set in the past may or may
not be found elapsed by its first poll. Timer ops are enabled between ticks and between two
callbacks of a batch. `COMPACTION_MINIMUM` and the low-resolution limit are constants.
`WakerAtStart` says whether the loop had been polled with a sleep pending before the first
timer.

**UvLoop, UvTcp.** The uv functions are enabled between phases and inside callbacks. UvLoop
has the tables of `UvLoopInner` and the phases that walk them, by index or over a list taken
before. UvTcp has the sockets: a write is a number of bytes, the kernel's buffer has a
`Capacity`, and the peer accepts, sends, closes and reads when it likes. `run_io` is part of a
tick (`StartTick`, `RunIo` up to `MaxSpins` times, `EndTick`), and a tick takes a wake-up
(`uv_woken`): by `run_io` itself when it did any work, by Tokio's reactor, or by something
else. What Tokio keeps of a socket is `readiness`, taken away by a `try_read` or `try_write`
that would block, and `interest`, the directions a waker is stored for; `poll_read_ready` and
`poll_write_ready` store one only where the readiness is missing.

**PromiseTable, PromiseRing.** `PromiseTable` is the abstract promise: a completion settles
its own call. `PromiseRing` is the code: ids are signed 32-bit values of width `2 * Half`,
slots use JavaScript's signed `%`, settled slots are not moved to the map. `RefinesTable` is
the refinement, with `hasPromise` exact. A call of an op is one step: the stub reads the next
id, calls the op and advances the id, and `reentrancy_check` keeps ops from calling back.

**OpDriver.** Submission (eager, lazy, deferred; at once done or not), the driver task as a
Tokio task with `item_waker`, `FuturesUnordered` with its own waker and ready queue, the
completion queue and the loop's batch dispatch. Ref and unref of ops, and resources unref'd by
the embedder. An op that completes in its eager poll never enters the driver, and its promise
id is used again.

**Op2.** One step parses a signature as the macro does and yields what its entries do (or the
error it reports); the next ones call the op through the slow or the fast entry, with the
validators of the op and of the argument (slow only), the argument and return conversions of
`core/runtime/ops.rs`, buffers that are detached or cannot be, and metrics events. Doubles are
halves of integers, strings have a length and a width. A validator is a check for an int32, and
for the op one that an argument is there.

**SerdeV8.** Serialization and deserialization as recursive operators over a small data
model, run there and back. Integers keep the boundary at 2^53 - 1 as a symbolic one. This
module uses RECURSIVE operators and is only checked.

**V8Slice.** The buffers serde_v8 and op2 hand to ops: a view of a backing store, and the
pieces `split_to`, `split_off` and `truncate` make of it. The view is counted in bytes, the
pieces in elements of `ElemSize` bytes, as `from_parts` divides them.

**Conversions.** Walks over arrays, tuples, sequences, records and dictionaries one element
per step, with getters that throw and elements that do not convert; the integer converters of
WebIDL with their options on halves of integers around the ends of each type.

**EventLoop.** A tick phase by phase. Sources are idle, pending or ready; what they do to
become ready is the business of the modules above. `Script(w)` is what a callback may do to
the state the loop looks at: start one thing, settle a module, ref or unref, throw. `Conclude`
reads the pending state once and decides from that copy, as the code does, although the late
immediates have run in between. Where it finds a stall, `StallReport` is the error, or a panic
if no module is stalled. A call followed by `?` (the drain, the immediates, the late ones) ends
the poll at once with its exception. `features` selects the environment. The embedder is
assumed to wake the task when it lowers the external op count.

**Rejections.** `track_promise_rejection` from scripts at any point where JavaScript runs,
`dispatch_rejections` as the two loops it is, the JavaScript handler and listener that return
or throw, and the dispatched exception with its check at the end of a poll.

**DynImport.** `import()` in its variants (waits for a top-level await, resolved at once, new
load; source and deferred phase), and `poll_progress` split at each point where JavaScript
runs. `js` is
TRUE while such a window is open. Loading a module graph is one step that succeeds or fails.
`AutoMicrotasks` says whether V8 empties the microtask queue when `module.evaluate()` returns.

**ModuleLoad.** What that one step abstracts: `RecursiveModuleLoad` from its first poll to
done, two loads over one map. `site` is the world outside: which name redirects where, which
kind of module is there and what it imports. `Mod`, `Alias` and sources are the entries of
`ModuleMapData`. The walk of `register_and_recurse_inner` is taken apart into the steps of its
two loops (`PopModule`, `SkipRequest`, `WalkKnown`, `AddFetch`, `WalkEnds`); while `walker`
names a load nothing else is enabled, so it is as atomic as in the code. `get_id` and the graph
that V8 walks are least closed sets. `RedirectsSettle` and `PlainSites` say what the theorems
suppose of the loader; `MCModules` has TLC evaluate them for its sites.

**Startup.** The life of a process: a plan of runtimes, each with its extensions, with or
without a snapshot to be taken. The heap is a set of references, each an entity and its index
in the table; `create_external_references` rebuilds the table by position. Extension files run
as `init_extension_js_inner` orders them; modules have the statuses V8 gives them.

**AsyncRefCell.** A client owns a borrow future, a borrow, or nothing. `wake_waiters` pops the
longest prefix it can serve; what it adds to the count is a *reservation* until the future is
polled. Drops are actions of their own and may come at any time. Wakers only schedule.

**CancelHandle, Arena, Resources.** The ring with explicit `prev` and `next`, futures that
cancel their own handle while they are polled, and abortable ones that stay linked when they
are done (`returned`); entries, free list and reference counts of the three arenas with the
arena dropped at any time; the resource table, `op_read_all` and `op_write_all` over partial
and failing transfers with `BufView` cursors and the adaptive buffer. The resources are in the
table from the start.

**MC modules.** `MCThreads`, `MCTimers`, `MCOps`, `MCLoop`, `MCModules` and `MCCells` each
check a family of components that answer one kind of question. The variable `part` chooses at
the start which component a behaviour is about, and the others rest in their initial state, so
the state space is the sum of the parts and one run checks all of the family's properties. The
components of a family interact through what their modules take as environment (section 5).
UvTcp is checked by itself, since its liveness is about its own ticks.

## 3. Runs

| run | parts and instance | what it shows |
|---|---|---|
| `threads` | task spawner: one handle on the loop's thread, one on another, one blocking, 2 tasks each; inspector: one debugger, one worker, one message each, one pause | tasks run once in lock order, the flag is honest, the closure outlives `spawn_blocking`, no completion over a spawned task, local tasks need no outside wake-up; the inspector overlooks nothing, reaches no `unreachable!()`, announces no worker twice |
| `timers` | web timers: 2 timers, timeouts 0 and 2, 4 ms, compaction at 0, waker registered or not; uv: 2 timers, one idle handle, 4 calls, 1 ms | counts, tree, data and sleep agree; due order; with a registered waker every timer fires; uv tables and flags agree, no freed handle is reachable, `has_alive_handles` is exact |
| `ops` | driver: 3 ops, batches of 2; ring of 3, 9 calls (three laps); op2: every argument and return kind, 1 call on each entry; serde: every pair of a type and a value; slices: every view of 4 elements of 2 bytes, up to 4 pieces; conversions: walks of up to 3 elements, integers around the ends of the types | ops accounted for, exits exactly when unref'd, finished ops settle; the ring implements the table; arguments and results keep their meaning on every path and what must be refused is, and values come back from the other language as they went (`RoundTrips`); the pieces of a slice share no element; metrics add up; converted memory is initialised or dropped |
| `loop` | loop: 3 things started, one rejecting import; all features but the inspector, exceptions only, inspector only, cross-thread spawns and rejections without uv; rejections: 3 promises, 2 polls | ends with nothing left, no exception swallowed, never parks on work, a stall is one, always returns; rejections are reported once, withdrawn or fatal |
| `uv_tcp` | 2 sockets, 2 writes, 3 calls, 1 act of the peer, buffers of one unit, 2 passes, 2 rounds in a tick | writes arrive in order and once; connections, arrivals and writes a waker is stored for are served |
| `modules` | imports: 3 of 2 modules; loads: 2 over graphs of 3 names with cycles, diamonds, a redirect, Wasm sources and data modules; startup: six plans of up to three runtimes over six extensions, debug and release | imports answered once, waiters served, flags cover, all settle; a finished load has its graph; one module per name; runtimes come up complete from scratch and from snapshots, and the references of a restored heap line up with the new table |
| `cells` | cell: 3 clients, 2 tasks, 5 tickets; cancel: 3 futures, 2 tasks; arenas: 3 kinds, capacity 2, 3 objects; resources: 2 readers, 3 bytes, one hint of every size class | exact counts, no panic, no lost wake, nothing leaks, fair, everybody served; ring and free list intact; every cancel reaches every future; no byte lost or repeated |
| `task_spawner_lost_wake`, `op_driver_unrefed_resource`, `event_loop_stall_uv`, `uv_tcp_lost_wake`, `dyn_import_early` | minimal | the findings of section 6 |

### Why the bounds are enough

* Spawners: the interesting overlaps are of one push with one poll; two tasks per handle let a
  second push meet every step of the first one's dispatch, and six tasks exceed three rounds.
* Inspector: one debugger and one worker give every kind of waker (sessions, handshake,
  worker, interrupt, park); one pause re-enters `poll_sessions` once from within.
* Timers: two timers give every order of deadlines, a repeat against a once, and a cancel of
  the other one in the same batch; four milliseconds allow a repeat to fire twice. Compaction
  at zero tombstones makes compaction happen. For uv, four calls are enough to arm two timers
  and change both from a callback; one millisecond separates due from not due. Idle, prepare
  and check handles differ in their phase only, so one idle handle stands for them.
* Ring: three laps cover moving, settling in the map and settling in the ring, in any order.
* Ops: three ops in batches of two reach a full batch with a remainder. A call of op2 starts
  from the same state every time except for the counters, so one is enough.
* Values: numbers lie on both sides of every boundary a converter tests (zero, the ends of each
  width, fractions, the stack buffer's length and one more); values nest once.
* Event loop: three things started is the smallest number for which a callback of one phase
  creates work for an earlier phase while a third source is pending. A second import that
  rejects takes more of them, and is what `ExpectedStalledAwait` is about (section 6). The limit of 8 I/O rounds
  is not reached. That the three task rounds end early is allowed at any round (more
  behaviours than the code).
* TCP: two writes and a kernel buffer of one give a blocked head with one behind it; the
  second socket is the accepted one. The limits of passes and of rounds in a tick are 2 instead
  of 16 and 8, and are reached.
* Imports: three imports are needed for one evaluating, one waiting, and one made in a window.
  Loads: two loads and three names give every overlap of a load with a module the other one
  is about to register, with a cycle through it.
* Slices: four elements and four pieces allow a piece that was cut off to be cut again, at
  both ends and in the middle, and `truncate` with a length beyond it.
* Startup: the plans are the uses of the API: without a snapshot, from one with the same
  extensions or with more, a warmed-up one, a skipped op registration, a mismatch, an error.
  `MCModules.tla` also defines `LayeredPlans`, `ClassPlans`, `OrphanPlans` and `MixedSites`,
  for which properties fail: section 6.
* Cell: three clients give a holder, a head and one behind it; five tickets allow a dropped
  future to be replaced twice. Ring: three nodes are the fewest with a neighbour on both sides.

`CHECK_DEADLOCK FALSE` is used in `ops`, where scripts simply stop. Where one part of a family
comes to an end, its MC module has a stuttering step for it.

### Fairness

Weak fairness is given to: a started `spawn` call, the tick of a woken loop, the driver task,
the clock and Tokio's timer driver; for the event loop to the futures, deadlines and sessions
it waits for; for sockets to the steps of a tick that is on, to the tick of a loop that was
woken, to the reactor's report of a socket that is ready and to the peer's reads (nothing else
need ever wake the loop); for the cell to woken tasks and to holders giving back their borrow. The executor polls a woken task, and the
code never yields inside a tick, which is all that the first group says. The rest is an
assumption about the environment, and is part of the statement: with finite work that ends,
the loop returns; if the peer reads, writes that wait with a waker go on; if borrows are given
back, waiters are served. `DynImport` uses strong fairness for one action, the completion of loads and
top-level awaits, since a tick in progress disables it again and again. Scripts, other
threads' decisions to spawn, and outside wake-ups are never fair.

## 4. Proofs

Every listed theorem is of the form `Spec => []Inv`, `Spec => [][A]_vars` or `Spec =>
Abstract`, and holds for every value of the constants that satisfies the ASSUMEs of the
component's module. Those say that bounds are naturals, that sets which are counted are
finite, and that names do not coincide; TLC evaluates them on every run. What a theorem
supposes beyond them is a hypothesis in its statement. Each proof names an inductive
invariant, shows that Init implies it, has one lemma per action (or group of actions) that
keeps it, and derives the property. What follows is what each invariant adds to the property
and why.

### Threads_proofs
*TaskSpawner*, any sets of handles and any number of tasks: `TypeOK`, `RunsOnceInOrder`,
`FlagCoversTasks`, `BlockingBorrowSafe` and, as an action property, `FinishedMeansNoneQueued`.
`IInv` adds that the retry budget is positive while the dispatch loop runs (else `retries`
could leave its type), that a batch exists only while it is run (else `ran \o batch \o tasks`
is not the history), and that a `spawn_blocking` caller has at most one closure outstanding,
none when idle, and is not idle while its result is sent: this is what makes the return of the
call imply that the closure has left the queue.

*Inspector*, any debuggers, workers and messages: `SessionsConsistent`. `InsIInv` adds
`Covered`: a channel that `poll_sessions` found empty keeps the waker of the thread that
looked, so that whatever arrived since is unannounced only if that waker has been called. The
five poll states of the waker are related to the thread's place in `poll_sessions`, which is
what rules out its `unreachable!()`.

### AsyncRefCell_proofs
*AsyncRefCell*, any finite set of clients, any tasks, any number of tickets: `TypeOK`,
`BorrowsExact`, `AssertionsHold` (which says too that nothing is left behind in the end), and
`FirstComeFirstServed` as an action property. The inductive invariant adds to the exact count

* `QueueOf`: every queued future has an entry of its own mode, every entry that is no hole has
  exactly one future. Without it nothing relates the number of entries `wake_waiters` pops to
  the number of futures that become borrowers; with it `GrantedMatchLive` builds the bijection
  and the cardinalities agree.
* `HeadOf`: the head is no hole and is refused by the current count. It is what the sanity
  check in `poll_waiter` asserts, and why releasing one of several shared borrows need not
  look at the queue: a refused head beside a shared count wants to be exclusive.

`wake_waiters` is called in the middle of other calls, so the parts of the invariant take
their arguments explicitly and `WakeStep` is proved once for all callers.

*Resources*, any readers, stream, buffer sizes, size hints and growth limit:
`TransfersComplete`. `RsIInv` says of a read under way that the cursor counts the bytes handed
to the reader, that the buffer holds exactly those in front of it, and that there is room
behind it: a read into a full view would return 0 and be taken for the end of the stream. Of a
write it says that what the sink has followed by what the view still holds is the input. Both
hold at every failure: a read or write that fails leaves the bytes before it as they are.
`PowersAssumption` (that the powers of two the hints call for exist) is a fact about `2^k` that
would need induction; TLC evaluates it for the hints of the run.

### Cells_proofs
*CancelHandle*, any futures and tasks: `CancelSound`. `CancelIInv`: both neighbours of a linked
node are linked and point back, there is one ring, every future is where its node says, and the
waker stored in a node is that of the task that polled last. The walk of `cancel()` is the least
set closed under `next`; what it reaches follows by exhibiting closed sets, and needs no
induction.

*Arena*, any capacity and number of objects: `ArenaSound`. That the list of vacant entries has no
cycle is said by sets: one that holds a vacant entry and is closed under the links holds the
high water mark (`LeadsToMark`). `ArenaIInv`: the links of the free list are injective and never
lead back to its head, objects occupy different entries, and a reference count is the number of
pointers. Hypothesis `"unique" \notin SpillKinds`: see section 5.

### Sequence_lemmas
What the proofs about Op2 and Startup need of sequences. The library states induction with an
operator as a parameter, which the provers cannot instantiate; `LeastNumber` states it of sets
instead (a nonempty set of naturals has a least element), and a fact about all sequences of
length `n` follows by looking at the least `n` for which it fails. In this way the recursive
function inside `FlattenSeq` is shown to have its defining equation, and from that come
`FlattenSeq` of a concatenation, its elements and its type.

### Modules_proofs
*DynImport*, any modules and number of imports, either microtask policy: `ImportsConsistent`. `ImportIInv`:
an import that is under way is in exactly one place (preparing, loading, evaluating, or once on
one of the lists of waiters), and a list that `poll_progress` does not hold at a step is empty.

*ModuleLoad*, any loads, names and sites: `MapConsistent` under `RedirectsSettle` (a module
found under a name is found there when asked for by that name), and `DoneMeansWholeGraph` under
`PlainSites` as well (redirects lead to JavaScript, what redirects or is redirected to is
imported without a type and not for its source, no module is imported in both phases; section 6
has the counterexamples without it). `GraphIInv`: modules are entered only where nothing
redirects, so an alias never replaces one, names stand for one module at most (`KnownIdAt`) and
keep doing so while other loads register (`KnownStaysKnown`). `WalkIInv`: a reference in
`visited` is to be fetched, or is a source that is there, or stands for a module all of whose
requests this load has visited, has in `requests_left`, or which is itself on the queue. It is
per load, and what other loads do only makes the map grow. When a load is done nothing is left
to fetch or to walk, so the modules whose requests it has all visited are a closed set that
holds the root, and `Graph(root)` lies in it.

*Startup*, any extensions, modules and plans: `ReferencesLineUp`, under the hypothesis that each
plan satisfies `PlanExtends`: a runtime has the extensions of the snapshot it starts from and
more only behind them, the added ones declare no classes and no external references, and a
snapshot that another is built upon has no files. TLC evaluates it for `MCPlans` (an ASSUME of
`MCModules`); `LayeredPlans` and `ClassPlans`, which do not satisfy it, are the counterexamples
of section 6. `StartupIInv` says of a live runtime that its table has every op and source it may
come to refer to and, if a snapshot is to be taken of it, that it is the one the next process
rebuilds (`TableFits`), that the files yet to run are among its sources (`FilesKnown`), and that
the heap refers only to ops and sources (`HeapFits`); of a snapshot, that its heap already lines up with the *part* of the table that the ops and sources
in it fill (`BlobFits`), since the functions behind that part move when something is added; and
of the rest of the plan, that whatever comes next extends the snapshot (`PlanFollows`). The
table of the next process then begins with that part (`TableBegins`), because the ops and the
sources of more extensions are concatenations that begin with those of fewer.

### Ops_proofs
*OpDriver*, any ops, any batch size: `OpsAccountedFor`, and `ExitsExactlyWhenUnrefed` as an
action property. `DriverIInv`: an op is in one place, `len` and the queue lengths are the
cardinalities, and an op not yet taken is ref'd or has its id in `unrefed_ops` (`RefsKept`).

*PromiseRing* implements *PromiseTable* (`RefinesTable`) as long as `MaxCalls < Half`, that is
until ids wrap (section 6). `RingIInv`: the id of a call is its number, the ring holds
exactly the unsettled calls of the last lap, the map the older ones; a modulo argument shows
that two calls of one lap never share a slot.

*Op2*: `OutstandingExact` for all signatures and any number of calls. The invariant adds that
nothing is counted before the macro ran and that a call which has ended is not pending.

*Op2*: `ArgumentsArrive` for all signatures and every number, BigInt and string that is passed.
`Op2Assumption` says that they are integers and sequences of code units, and that a type is
written with or without Option. Widths are scaled to 2, 3 and 5 bits for 8, 32 and 64. A call
reads only the op the macro made and its own argument, so the invariant (`ArgIInv`) adds only
that the macro lets through arguments of the kinds it has conversions for, and a fast entry
only where the type has a fast form; the work is in lemmas that compare, for each kind of
argument, the slow conversion, the fast one and `Meaning`. What must be refused is: a value
without a reading and a buffer that cannot be detached on both entries, what a validator refuses
on the slow one (section 6 has the fast one), and a call that was refused has detached nothing. A string of Latin-1 grows to two
bytes per code unit at most, by the induction of `Sequence_lemmas`, so one that `FitsBuffer`
accepts is not written past the stack buffer.

*V8Slice*, a store of any length, elements of any size, any number of pieces: `PiecesApart`, for
bytes. `SliceIInv` adds the types of the ranges, and that each lies in the elements of the view; that the two parts of a cut are apart and inside what was cut is a lemma
of its own (`CutApart`).

*Conversions*: `ElementsInitialised` and `ConversionsFaithful`, for every number, integer and
array (`CvAssumption` says only that they are integers, and sequences of cells). The widths
stay the scaled ones, 3, 5 and 7 bits. `CvIInv`: while a walk is on, exactly the elements before
`walk.i` are written, however a getter resizes the array, and each field read so far is its
default exactly when its cell counts as absent. The rounding of `clamp` is a lemma of its own
(`Nearest`) for ranges of any size.

### WebTimers_proofs
Any timeouts, timers and clock bound: `TimersConsistent`, and `FiresDueInOrder` as an action
property. `TimersIInv`: a timer has one key at most in the tree and in the batch, the batch was
due when taken and goes before all the rest. That a least key exists is a well-foundedness
argument (`LeastNumber`).

### Loop_proofs
*EventLoop*, any amount of work: `NothingOverlooked`, and `StallIsTrue`, whose own hypotheses are
that only ops, timers and tasks run scripts and that at most one import rejects; both under
`ClosesQuietly` (no close callback throws; section 6 has the counterexample). `LoopIInv` says what
each phase leaves behind: in a tick during which nobody wakes the task, a source whose phase is
over is not ready (`Served`), and at the decision no exception is left. For the stall,
`StallIInv` relates the counter of idle ticks to what may still settle: once it is 2 either
nothing is left that could (`Resting`: no source is busy, so no script runs before the next look),
or an evaluation has been fulfilled and the modules phase, which resets the counter, has yet to
come; and it stays 1 beyond that only if the one import that may reject has done so.

*Rejections*, any promises and polls: `RejectionsAccountedFor` (action property). `RjIInv` says
in each phase which list a rejection may be on.

*UvTcp*, any sockets, capacities and calls: `WritesInOrder`. `TcpIInv`: the write queue
continues where the wire ends, only its first element has begun, and queues of different
handles are apart.

*UvLoop*, any timers, watchers and calls: `UvHandlesConsistent`, and `UvFiresDue` as an action
property, under `~StartsClosing` (section 5). `UvIInv`: ids are not reused, the keys
`run_timers` has taken name a deadline the timer had, the two closing lists share no handle.

### Only model-checked
* Liveness: `LocalTaskRuns`, `PolledTimersFire`, `FinishedOpSettles`, `Returns`,
  `RegisteredIsServed`, `ImportsSettle`, `EventuallyServed`. Fairness and ENABLED are outside
  the prover's reach.
* `RoundTrips`: recursive operators over values; its truth is an induction over data.
* `StartupSound`: that nothing panics and that every file runs once depend on what the
  extensions declare (no op name twice, imports that resolve, parents before their classes), and
  on the set of modules reached from one, a recursion over the graph. Stated for all extensions
  it would take most of these as hypotheses; TLC checks it for the plans of `MCModules`.

## 5. Limits of the models

* EventLoop, DynImport and OpDriver meet through abstractions: EventLoop sees every source as
  idle, pending or ready, DynImport a load as one step. No run composes them in one behaviour.
* `StallIsTrue` is about environments without uv loop, spawning threads and rejection handlers,
  and at most one import that rejects. With any of them the code reports stalls that are none,
  or panics: section 6. A rejection waiting for delivery does not hold back a report either.
* UvTcp: a uv function called after `run_io` in a tick registers nothing with Tokio and wakes
  nobody, so a connect, a listen or a write made there waits for some other wake-up; a stream
  that does not read is not active, so what is queued on it is not polled; `uv_read_stop` in a
  read callback leaves the readiness as it was, with no waker stored. The model does all of
  this, and `RegisteredIsServed` starts where a waker is stored. That the accept of a connection
  fails is not modelled.
* Op2: an op has one parameter. `#[validate]` on an async op itself generates nothing, and
  `#[anybuffer(detach)]` does not compile; both are modelled so.
* PromiseRing: an async op that calls back into JavaScript which makes another async call would
  hand out one id twice. No op of the repository is marked `reentrant`, and debug builds panic
  on one that is not.
* DynImport: the isolate is not terminated. A `module.evaluate()` cut short makes `poll_progress`
  fail (`map.rs:1656`) and leaves its import unanswered.
* ModuleLoad: modules of a custom type (`ModuleType::Other`, `map.rs:427-508`) and main and side
  modules registered from code (`jsrealm.rs:539-552`), which look nothing up, are left out.
* Arena: the Drop of a value may not use its arena: `recycle` runs it first, under the lock of the
  atomic one. Atomics are sequentially consistent; the code decrements with Relaxed.
* Inspector: outside `SpuriousSpec`, `thread::park` returns only when unparked.
* `SpillKinds` are the arenas whose `allocate` falls back to the heap when they are full. The
  owner of a unique arena, `FutureArena`, only reserves and boxes the future itself, so the
  proof supposes that the unique arena does not spill.
* The exception of `ExitsExactlyWhenUnrefed` named `EagerLeftover` is the finding on unref'd
  resources. It excuses every state in which an id in `unrefed_ops` belongs to a ref'd op, however
  it came to be there.
* WebTimers assumes a current-thread runtime, where Tokio's driver runs between polls.
* uv timers register no sleep; that something polls the loop when they are due is left to the
  embedder, and no liveness is claimed for them.
* C code is assumed not to start a handle it has closed (`StartsClosing`); with it,
  `UvHandlesConsistent` fails.
* A waker that runs or drops its task inside `wake()` is outside AsyncRefCell's model.
* The op2 model starts from signatures the grammar of `signature.rs` accepts or refuses; that
  rustc compiles the generated code is the business of the repository's own tests.

## 6. Findings

Each has a run with a counterexample; `PROJECT.json` quotes the lines that say otherwise.

1. `tasks.rs:71` - a cross-thread spawn between the failed flag check and the registration of
   the waker wakes nobody, and the tick's re-wake list does not look at the flag.
2. `ops_builtin.rs:338` - an op on an unref'd resource that completes eagerly leaves its
   promise id in `unrefed_ops`; the next op gets that id and the loop ends over it.
3. `jsruntime.rs:2184` - a live uv handle does not hold back the stall report.
4. `uv_compat.rs:718` - a queued write that blocks after `poll_write_ready` was ready has stored
   no waker and is not retried when the peer has read, unless something else wakes the loop.
5. `map.rs:1672` - an `import()` made while `evaluate_dyn_imports` has taken its list resolves
   with a module whose top-level await is pending.

### Other disagreements

The following properties are stated in the modules, and TLC refutes them; they have no run of
their own. To see the counterexample, check the property instead of the run's with the
constants named here.

| property | where | what happens |
|---|---|---|
| `WebTimers!EveryTimerFires` under `FairSpec`, with `WakerAtStart = {FALSE}`, `CompactionMinimum = 1` | `web_timeout.rs:215` | a sleep that elapses before the loop's first poll is consumed without storing the waker; the re-armed sleep wakes nobody |
| `EventLoop!ExpectedStalledAwait`, with `FeatureSets = {{}}`, `Budget = 6`, `MaxReject = 2` | `jsruntime.rs:2247` | an evaluation that settles after the modules phase still counts as pending at the end of the tick; once two rejected imports have used up the two idle ticks of grace, the loop looks for a stalled module, finds none and reaches `unreachable!` |
| `Startup!ReferencesLineUp` with `SuPlans <- LayeredPlans` | `jsruntime.rs:2318` | a snapshot built atop another forgets the source strings of the first; in the next process the references to them denote other entries of the table |
| `Op2!ValidatorsHeld` | `dispatch_slow.rs:396` | validators are generated into the slow entry only; the fast entry of the same op takes numbers that they refuse (`with_validate_int` of `testing/checkin/runner/ops.rs:149` gets 2 for 2.5) |
| `Inspector!PollStatesMatch` under `SpuriousSpec` | `inspector.rs:531` | `thread::park` may return for no reason; `poll_sessions` then goes round with the state `Parked` and reaches `unreachable!()` |
| `PromiseRing!HasPromiseExact`, with `Half = 8` | `00_infra.js:218` | ids wrap to negative values after 2^31 calls; a negative id is below every ring bound |
| `EventLoop!StalledMeansNeverResolved`, with `FeatureSets = {{"rejections"}}`, `Budget = 4`, `MaxReject = 1` | `jsruntime.rs:2204`, `map.rs:1805` | with a script that a rejection handler runs, an evaluation settles after the modules phase of a tick in which another module is pending, and the report names that one as stalled |
| `EventLoop!OkMeansNothingLeft`, feature `close_throw` | `jsruntime.rs:2121` | an exception of a close callback comes after the tick's last check, and the loop returns Ok |
| `Inspector!ActiveMeansConnected` | `jsruntime.rs:1895` | no session leaves `local`, so a loop that waits for active sessions waits for debuggers that have left |
| `Rejections!HandledOnlyAfterReport` | `exception_state.rs:144` | a promise handled while the list has been taken for delivery counts as reported and gets a `rejectionhandled` event |
| `ModuleLoad!DoneMeansWholeGraph` with `Sites <- MixedSites`, without `MCSitesAssumption` | `recursive_load.rs:356` | a redirect to a Wasm module, one module asked for in two phases or a redirect's target with another type: a load is done without a part of its graph |
| `Startup!StartupSound` with `SuPlans <- OrphanPlans` | `map.rs:2229` | the second lazy load of a module that could not be linked hands out its namespace although it was never instantiated |
| `Startup!ReferencesLineUp`, `TemplatesKnown` with `SuPlans <- ClassPlans` | `bindings.rs:99`, `cppgc.rs:303` | method contexts come before those of the ops, so a class added to a snapshot shifts them; and restoring the snapshot replaces the template store its class was entered in |
| `Startup!OpsModuleComplete` | `jsruntime.rs:1213` | `ext:core/ops` does not export ops added to a snapshot |
| `Startup!OneModePerProcess` | `setup.rs:73` | the flag that should forbid mixing modes is only stored where it has been found set |
| `Arena!LockIsReleased` with `AskKinds` incl. `"atomic"` | `shared_atomic_arena.rs:399` | a call that finds the arena full returns with the spin lock held |
| `Resources!WasmCloseOwnsResource` | `ops_builtin.rs:242` | closing a Wasm stream while a feed holds it panics |
| `Conversions!IntsFollowSpec` | `webidl.rs:475` | numbers outside the type's range do not convert modulo 2^w: an i8 of 383 becomes -128, a u8 of -256 becomes 255 |
| `Conversions!RequiredIsRequired` | `webidl.rs:100` | a required key that is undefined goes to its converter, and the numeric ones take undefined |
| `SerdeV8!Bijects` | `serde_v8/README.md:7` | some values that decode cannot be encoded again |
| `Op2!OutstandingSeen` | `ops_metrics.rs:114` | the fast entry of an async op counts no dispatch that `has_outstanding_ops` sees |
| `Op2!ExactlyTyped` | `signature.rs:770` | the fast path takes any view where a typed array of one kind is declared |
| `Op2!MacroTotal` | `op2/signature.rs` | the arm of `parse_type` marked unreachable can be reached |

Seen while modelling and outside every property: fewer extensions than a snapshot has are not
reported as a mismatch (the lists are zipped) and slicing the ops panics; the mutex that should
serialise the first snapshot initialisation is never taken (`setup.rs:113`);
`op_try_close` keeps the `OpState` borrowed while it closes a resource.

## 7. Not modelled

Errors, source maps, strings and specifiers are text and layout. The op state is a typed map;
cppgc objects are memory layout and type tags. Statistics only observe. The reactor is a trait
over Tokio. The other procedural macros generate code without state; dcore and the test runner
are embedders. Within modelled parts, `PROJECT.json` says in each component's note what is
left out, in particular `with_event_loop_promise` and `with_event_loop_future`, extension
middleware, code caches, and V8's own serialisation.

## 8. Plan

Done: all parts with a state of their own, first the protocols with wakers and threads, then
those with raw pointers, then values, then construction.

Next, most important first:

1. A composition of EventLoop with TaskSpawner and WebTimers, in which a source wakes the loop
   only as its own module does, and the abstract sources of EventLoop are shown to be sound.
2. DynImport's one-step load shown to be the abstraction of ModuleLoad.
