----------------------------- MODULE WebTimers -----------------------------
(***************************************************************************)
(* WebTimers (core/web_timeout.rs), the timer wheel behind setTimeout and  *)
(* setInterval, with dispatch_timers (core/runtime/jsruntime.rs), which    *)
(* polls it once per event loop tick, and the Tokio sleep that wakes the   *)
(* loop.  JavaScript may call any timer op between two callbacks of one    *)
(* batch and between ticks.                                                *)
(*                                                                         *)
(* `timers` is the BTreeSet of keys: it may hold tombstones, keys whose    *)
(* timer was cancelled.  `data` is data_map without its payload.           *)
(***************************************************************************)
EXTENDS Naturals, FiniteSets

CONSTANTS
  Timeouts,           \* the timeout_ms values scripts use
  CompactionMinimum,  \* COMPACTION_MINIMUM (16 in the code)
  LowResolution,      \* LOW_RES_TIMER_RESOLUTION (100 in the code)
  MaxIds,             \* bound: how many timers are ever queued
  MaxTime,            \* bound: the clock stops here
  WakerAtStart        \* may the loop have been polled before the first timer

ASSUME TimersAssumption ==
  /\ Timeouts \subseteq Nat
  /\ CompactionMinimum \in Nat /\ LowResolution \in Nat
  /\ MaxIds \in Nat /\ MaxTime \in Nat
  /\ WakerAtStart \subseteq BOOLEAN

VARIABLES
  now,             \* the clock, in milliseconds
  next_id,
  timers,          \* keys [deadline, id, interval]; interval 0 is Once
  data,            \* id -> [unrefd, high_res]
  unrefd_count,
  lock_count,      \* HighResTimerLock
  sleep,           \* MutableSleep.sleep: [armed, deadline, fired]
  ready,           \* MutableSleep.ready
  external_waker,  \* MutableSleep.external_waker is Some
  woken,           \* the executor will poll the event loop
  pc,              \* where the event loop is in dispatch_timers
  expired,         \* the batch dispatch_timers has still to run
  due              \* history: the deadline each queued timer waits for

vars == <<now, next_id, timers, data, unrefd_count, lock_count, sleep, ready,
          external_waker, woken, pc, expired, due>>
sleepVars == <<sleep, ready, woken>>
dataVars == <<data, unrefd_count, lock_count>>

Ids == 1 .. MaxIds
Live == DOMAIN data
NoSleep == [armed |-> FALSE, deadline |-> 0, fired |-> FALSE]

(***************************************************************************)
(* Faulty variants of definitions below.                                   *)
(***************************************************************************)
BeforeById(j, k) == j.id < k.id
UnrefIncrements(id) == 1
RearmForgotten(keys) == ready' = FALSE /\ UNCHANGED <<sleep, woken>>

(***************************************************************************)
(* Keys and the sleep.                                                     *)
(***************************************************************************)
(* The derived Ord of TimerKey: deadline, then id. *)
Before(j, k) ==
  \/ j.deadline < k.deadline
  \/ j.deadline = k.deadline /\ j.id < k.id

First(keys) == CHOOSE k \in keys : \A j \in keys : ~Before(j, k)

(* MutableSleep::change: replace the sleep and poll it at once.  A past    *)
(* deadline is reported by that poll or by the driver's next turn.         *)
Change(deadline, rdy) ==
  \E elapsed \in IF deadline <= now THEN BOOLEAN ELSE {FALSE} :
    /\ sleep' = [armed |-> TRUE, deadline |-> deadline, fired |-> elapsed]
    /\ ready' = (rdy \/ elapsed)
    /\ woken' = (woken \/ (elapsed /\ external_waker))

(* MutableSleep::clear *)
Clear == sleep' = NoSleep /\ ready' = FALSE /\ UNCHANGED woken

(* Arm the sleep for the first key, as poll_timers does on its way out. *)
Rearm(keys) ==
  IF keys = {} THEN ready' = FALSE /\ UNCHANGED <<sleep, woken>>
               ELSE Change(First(keys).deadline, FALSE)

Init ==
  /\ now = 0 /\ next_id = 0
  /\ timers = {} /\ data = [i \in {} |-> 0]
  /\ unrefd_count = 0 /\ lock_count = 0
  /\ sleep = NoSleep /\ ready = FALSE
  /\ external_waker \in WakerAtStart
  /\ woken = TRUE
  /\ pc = "parked" /\ expired = {} /\ due = [i \in {} |-> 0]

(***************************************************************************)
(* The timer ops.                                                          *)
(***************************************************************************)
(* maybe_lock *)
HighRes(timeout) == timeout <= LowResolution

(* A new deadline re-arms the sleep if it comes before every key. *)
NeedsArm(deadline) == timers = {} \/ deadline < First(timers).deadline

queue_timer(timeout, repeat) ==
  LET id == next_id + 1
      deadline == now + timeout
      interval == IF ~repeat THEN 0 ELSE IF timeout = 0 THEN 1 ELSE timeout
  IN /\ next_id < MaxIds
     /\ next_id' = id
     /\ lock_count' = IF HighRes(timeout) THEN lock_count + 1 ELSE lock_count
     /\ IF NeedsArm(deadline) THEN Change(deadline, ready) ELSE UNCHANGED sleepVars
     /\ timers' = timers \cup {[deadline |-> deadline, id |-> id, interval |-> interval]}
     /\ data' = [i \in Live \cup {id} |->
                   IF i = id THEN [unrefd |-> FALSE, high_res |-> HighRes(timeout)]
                             ELSE data[i]]
     /\ due' = [i \in DOMAIN due \cup {id} |-> IF i = id THEN deadline ELSE due[i]]
     /\ UNCHANGED <<now, unrefd_count, external_waker, pc, expired>>

(* mem::replace(unrefd, ..): the count moves only if the mark does. *)
RefDelta(id) == IF data[id].unrefd THEN 1 ELSE 0
UnrefDelta(id) == IF data[id].unrefd THEN 0 ELSE 1

ref_timer(id) ==
  /\ id \in Live
  /\ data' = [data EXCEPT ![id].unrefd = FALSE]
  /\ unrefd_count' = unrefd_count - RefDelta(id)
  /\ UNCHANGED <<now, next_id, timers, lock_count, sleepVars, external_waker,
                 pc, expired, due>>

unref_timer(id) ==
  /\ id \in Live
  /\ data' = [data EXCEPT ![id].unrefd = TRUE]
  /\ unrefd_count' = unrefd_count + UnrefDelta(id)
  /\ UNCHANGED <<now, next_id, timers, lock_count, sleepVars, external_waker,
                 pc, expired, due>>

LastTimer(id) == Live = {id}

(* The common tail of cancel_timer and take_fired_timer: drop the data,    *)
(* and with the last timer also the tree, the counts and the sleep.        *)
Forget(id) ==
  /\ data' = [i \in Live \ {id} |-> data[i]]
  /\ IF LastTimer(id)
     THEN /\ unrefd_count' = 0 /\ lock_count' = 0 /\ timers' = {}
          /\ Clear
     ELSE /\ unrefd_count' = unrefd_count - (IF data[id].unrefd THEN 1 ELSE 0)
          /\ lock_count' = lock_count - (IF data[id].high_res THEN 1 ELSE 0)
          /\ UNCHANGED <<timers, sleepVars>>

cancel_timer(id) ==
  /\ id \in Live
  /\ Forget(id)
  /\ UNCHANGED <<now, next_id, external_waker, pc, expired, due>>

(***************************************************************************)
(* The event loop: dispatch_timers polls once per tick.                    *)
(***************************************************************************)
(* poll_ready: `ready` wins; otherwise the waker is stored, and if one was *)
(* stored before, the deadline is also checked by hand.                    *)
SleepReady ==
  ready \/ (external_waker /\ sleep.armed /\ now >= sleep.deadline)

(* split_off((now, 0, Once)): the keys strictly before `now`, and of those *)
(* the ones that are no tombstones.                                        *)
Passed == {k \in timers : k.deadline < now}
Fired == {k \in Passed : k.id \in Live}

(* Repeating timers go back into the tree. *)
Requeued == {[k EXCEPT !.deadline = now + k.interval] :
               k \in {f \in Fired : f.interval # 0}}

(* The executor polls the event loop, which consumes the wake-up. *)
StartTick ==
  /\ pc = "parked" /\ woken
  /\ pc' = "poll" /\ woken' = FALSE
  /\ UNCHANGED <<now, next_id, timers, dataVars, sleep, ready, external_waker,
                 expired, due>>

PollPending ==
  /\ pc = "poll" /\ ~SleepReady
  /\ pc' = "parked"
  /\ external_waker' = TRUE
  /\ UNCHANGED <<now, next_id, timers, dataVars, sleepVars, expired, due>>

(* An ineffective poll drops the tombstones at the front and re-arms. *)
FrontCompacted(keys) ==
  {k \in keys : \E j \in keys : j.id \in Live /\ ~Before(k, j)}

PollIneffective ==
  /\ pc = "poll" /\ SleepReady /\ Fired = {}
  /\ pc' = "parked"
  /\ timers' = FrontCompacted(timers \ Passed)
  /\ Rearm(timers')
  /\ UNCHANGED <<now, next_id, dataVars, external_waker, expired, due>>

(* data.len() - fired_once_count: the timers that stay after this batch. *)
PendingCount(fired) ==
  Cardinality(Live) - Cardinality({k \in fired : k.interval = 0})

Compacted(keys, pending) ==
  IF Cardinality(keys) - pending > CompactionMinimum
  THEN {k \in keys : k.id \in Live} ELSE keys

PollFires ==
  /\ pc = "poll" /\ SleepReady /\ Fired # {}
  /\ pc' = "dispatch"
  /\ expired' = Fired
  /\ IF PendingCount(Fired) = 0
     THEN timers' = {} /\ Clear
     ELSE /\ timers' = Compacted((timers \ Passed) \cup Requeued, PendingCount(Fired))
          /\ Rearm(timers')
  /\ due' = [i \in DOMAIN due |->
               IF \E k \in Requeued : k.id = i
               THEN (CHOOSE k \in Requeued : k.id = i).deadline ELSE due[i]]
  /\ UNCHANGED <<now, next_id, dataVars, external_waker>>

(* take_fired_timer and the callback for the next timer of the batch; a    *)
(* timer cancelled meanwhile is skipped.                                   *)
TakeFired ==
  /\ pc = "dispatch" /\ expired # {}
  /\ LET k == First(expired) IN
     /\ expired' = expired \ {k}
     /\ IF k.id \in Live /\ k.interval = 0
        THEN Forget(k.id)
        ELSE UNCHANGED <<timers, dataVars, sleepVars>>
  /\ UNCHANGED <<now, next_id, external_waker, due, pc>>

EndDispatch ==
  /\ pc = "dispatch" /\ expired = {}
  /\ pc' = "parked"
  /\ UNCHANGED <<now, next_id, timers, dataVars, sleepVars, external_waker,
                 expired, due>>

(***************************************************************************)
(* The environment.                                                        *)
(***************************************************************************)
(* Tokio's driver reports an elapsed sleep to the internal waker. *)
SleepFires ==
  /\ sleep.armed /\ ~sleep.fired /\ sleep.deadline <= now
  /\ sleep' = [sleep EXCEPT !.fired = TRUE]
  /\ ready' = TRUE
  /\ woken' = (woken \/ external_waker)
  /\ UNCHANGED <<now, next_id, timers, dataVars, external_waker, expired, due, pc>>

Advance ==
  /\ now < MaxTime
  /\ now' = now + 1
  /\ UNCHANGED <<next_id, timers, dataVars, sleepVars, external_waker, expired,
                 due, pc>>

(* Anything else that makes the executor poll the event loop. *)
WakeOther ==
  /\ ~woken /\ woken' = TRUE
  /\ UNCHANGED <<now, next_id, timers, dataVars, sleep, ready, external_waker,
                 expired, due, pc>>

Script ==
  \/ \E timeout \in Timeouts, repeat \in BOOLEAN : queue_timer(timeout, repeat)
  \/ \E id \in Ids : ref_timer(id) \/ unref_timer(id) \/ cancel_timer(id)

LoopStep ==
  StartTick \/ PollPending \/ PollIneffective \/ PollFires \/ TakeFired \/ EndDispatch

Next == Script \/ LoopStep \/ SleepFires \/ Advance \/ WakeOther

Spec == Init /\ [][Next]_vars

(* The executor polls a woken loop, the clock runs and Tokio's driver is   *)
(* turned.  Scripts and outside wake-ups owe nothing.                      *)
FairSpec ==
  Spec /\ WF_vars(LoopStep) /\ WF_vars(SleepFires) /\ WF_vars(Advance)

----------------------------------------------------------------------------
Key == [deadline : Nat, id : Nat, interval : Nat]

(* Shapes, and no counter below zero (each is a usize). *)
TypeOK ==
  /\ now \in Nat /\ next_id \in Nat
  /\ timers \subseteq Key /\ expired \subseteq Key
  /\ Live \subseteq 1 .. next_id
  /\ data \in [Live -> [unrefd : BOOLEAN, high_res : BOOLEAN]]
  /\ unrefd_count \in Nat /\ lock_count \in Nat
  /\ sleep \in [armed : BOOLEAN, deadline : Nat, fired : BOOLEAN]
  /\ {ready, external_waker, woken} \subseteq BOOLEAN
  /\ pc \in {"parked", "poll", "dispatch"}
  /\ due \in [1 .. next_id -> Nat]

(* The counts behind has_pending_timers and the Windows timer period are   *)
(* exact, whatever order timers are unref'd, cancelled and fired in.       *)
CountsExact ==
  /\ unrefd_count = Cardinality({i \in Live : data[i].unrefd})
  /\ lock_count = Cardinality({i \in Live : data[i].high_res})

(* Ids whose data only waits for take_fired_timer. *)
FiredOnce == {k.id : k \in {e \in expired : e.interval = 0}}

(* Every timer that is still to fire has exactly one key, with the         *)
(* deadline it waits for; so the usize subtraction that counts tombstones  *)
(* (timers.len() - pending_data_count) cannot underflow.                   *)
PendingHasKey ==
  \A i \in Live \ FiredOnce :
    {k.deadline : k \in {t \in timers : t.id = i}} = {due[i]}

(* The sleep never outlasts the first key, and once it has elapsed the     *)
(* next poll is told so: no deadline is slept through.                     *)
SleepCoversTimers ==
  /\ \A k \in timers : sleep.armed /\ sleep.deadline <= k.deadline
  /\ sleep.fired => ready

(* assert_consistent and the two debug_asserts: without timers there is no *)
(* key, no count and no armed sleep, so no poll can be ineffective then.   *)
EmptyIsClean ==
  Live = {} =>
    timers = {} /\ unrefd_count = 0 /\ lock_count = 0 /\ ~sleep.armed /\ ~ready

(* The tables of WebTimersInner, its counts and its sleep agree at every   *)
(* point where a script or a poll can find them, in the middle of a batch  *)
(* of callbacks too.                                                       *)
TimersConsistent ==
  TypeOK /\ CountsExact /\ PendingHasKey /\ SleepCoversTimers /\ EmptyIsClean

(* A callback runs only after its deadline and never while an earlier one  *)
(* (by deadline, then by age) is still waiting, also when the scripts of a *)
(* batch queue and cancel timers; "timers fire in order".                  *)
Runs(k) == k.id \in Live /\ expired' = expired \ {k}

Earlier(d1, i1, d2, i2) == d1 < d2 \/ (d1 = d2 /\ i1 < i2)

FiresDueInOrder ==
  [][\A k \in expired : Runs(k) =>
       /\ k.deadline < now
       /\ \A i \in Live \ {k.id} : Earlier(k.deadline, k.id, due[i], i)
       /\ \A e \in expired \ {k} :
            e.id \in Live => Earlier(k.deadline, k.id, e.deadline, e.id)]_vars

(* Every queued timer whose deadline passes fires or is cancelled, with    *)
(* nothing but its own sleep to wake the event loop: while the clock runs  *)
(* on, none is left with a deadline that the clock has passed.             *)
DueInTime(i) == i \in Live /\ due[i] < MaxTime

EveryTimerFires == \A i \in Ids : DueInTime(i) ~> ~DueInTime(i)

(* The same once the event loop has been polled before its first timer can *)
(* elapse, so that the sleep knows whom to wake.                           *)
PolledTimersFire == external_waker => EveryTimerFires
============================================================================
