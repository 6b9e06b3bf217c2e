---------------------------- MODULE PromiseRing ----------------------------
(***************************************************************************)
(* The promise table of core/00_infra.js: a ring of the last RING_SIZE     *)
(* promises, and a map for the older ones that are still pending.          *)
(*                                                                         *)
(* Promise ids are int32 values: `(id + 1) & 0xffffffff` wraps at Half     *)
(* (2^31 in the code) to -Half.  A promise is represented by the number of *)
(* the call that created it, so that two uses of an id differ.  A call     *)
(* that returns or throws synchronously changes nothing here.              *)
(*                                                                         *)
(* The stub reads nextPromiseId, calls the op and then advances the id;    *)
(* here that is one step.  No async op of the repository is marked         *)
(* `reentrant`, and reentrancy_check (core/ops.rs) panics in debug builds  *)
(* when any other op calls back into one; a re-entrant async op would hand *)
(* its id out twice.                                                       *)
(***************************************************************************)
EXTENDS Integers

CONSTANTS
  RingSize,  \* RING_SIZE (4096 in the code)
  Half,      \* half of the id space (2^31 in the code)
  MaxCalls   \* bound: asynchronous op calls

ASSUME RingAssumption ==
  /\ RingSize \in Nat \ {0} /\ Half \in Nat \ {0} /\ MaxCalls \in Nat

VARIABLES
  nextId,
  promiseRing,   \* slot -> call, NO_PROMISE or NeverWritten
  promiseMap,    \* id -> call
  calls,         \* number of calls made so far
  idOf,          \* the id each call was given
  unreported,    \* calls whose op the driver has still to report
  settled,       \* pairs <<call whose op completed, call whose promise settled>>
  missing        \* __resolvePromise has thrown "Missing promise"

ringVars == <<nextId, promiseRing, promiseMap, calls, idOf, unreported,
              settled, missing>>

(* JavaScript's % takes the sign of its first operand. *)
Rem(a, b) == IF a >= 0 THEN a % b ELSE -((-a) % b)

(* Faulty variant of Evicted. *)
EvictedIdWrong(id) == id

(* & 0xffffffff: back to a signed 32-bit value. *)
ToInt32(n) == ((n + Half) % (2 * Half)) - Half

NO_PROMISE == -1   \* null
NeverWritten == -2 \* a slot never written
IsPromise(promise) == promise >= 0

Slots == (1 - RingSize) .. (RingSize - 1)   \* a negative id gives a negative slot

RingInit ==
  /\ nextId = 0
  /\ promiseRing = [i \in Slots |-> IF i >= 0 THEN NO_PROMISE ELSE NeverWritten]
  /\ promiseMap = [i \in {} |-> 0]
  /\ calls = 0 /\ idOf = [c \in {} |-> 0] /\ unreported = {}
  /\ settled = {} /\ missing = FALSE

(* setPromise moves the slot's old promise, settled ones excepted, to the  *)
(* map under the id one lap earlier.                                       *)
Evicted(id) == id - RingSize

MustMove(old) == old # NO_PROMISE

MapAfterEviction(id) ==
  LET old == promiseRing[Rem(id, RingSize)] IN
  IF MustMove(old)
  THEN [i \in DOMAIN promiseMap \cup {Evicted(id)} |->
          IF i = Evicted(id) THEN old ELSE promiseMap[i]]
  ELSE promiseMap

(* The tail of an async_op_N stub: the op went to the driver. *)
async_op ==
  LET id == nextId IN
  /\ calls < MaxCalls /\ ~missing
  /\ nextId' = ToInt32(id + 1)
  /\ promiseMap' = MapAfterEviction(id)
  /\ promiseRing' = [promiseRing EXCEPT ![Rem(id, RingSize)] = calls]
  /\ calls' = calls + 1
  /\ idOf' = [c \in DOMAIN idOf \cup {calls} |-> IF c = calls THEN id ELSE idOf[c]]
  /\ unreported' = unreported \cup {calls}
  /\ UNCHANGED <<settled, missing>>

OutOfBounds(id) == id < nextId - RingSize

SettleCall(c, promise) ==
  IF IsPromise(promise)
  THEN settled' = settled \cup {<<c, promise>>} /\ UNCHANGED missing
  ELSE missing' = TRUE /\ UNCHANGED settled

ResolveFromMap(c) ==
  LET id == idOf[c]
      promise == IF id \in DOMAIN promiseMap THEN promiseMap[id] ELSE NeverWritten
  IN
  /\ c \in unreported /\ ~missing /\ OutOfBounds(id)
  /\ SettleCall(c, promise)
  /\ promiseMap' = IF IsPromise(promise)
                   THEN [i \in DOMAIN promiseMap \ {id} |-> promiseMap[i]]
                   ELSE promiseMap
  /\ unreported' = unreported \ {c}
  /\ UNCHANGED <<nextId, promiseRing, calls, idOf>>

ResolveFromRing(c) ==
  LET idx == Rem(idOf[c], RingSize) IN
  /\ c \in unreported /\ ~missing /\ ~OutOfBounds(idOf[c])
  /\ SettleCall(c, promiseRing[idx])
  /\ promiseRing' =
       [promiseRing EXCEPT ![idx] = IF IsPromise(@) THEN NO_PROMISE ELSE @]
  /\ unreported' = unreported \ {c}
  /\ UNCHANGED <<nextId, promiseMap, calls, idOf>>

(* What refOp and unrefOp ask before they touch the op. *)
hasPromise(id) ==
  IF OutOfBounds(id) THEN id \in DOMAIN promiseMap
  ELSE IsPromise(promiseRing[Rem(id, RingSize)])

RingNext == async_op \/ \E c \in unreported : ResolveFromMap(c) \/ ResolveFromRing(c)

RingSpec == RingInit /\ [][RingNext]_ringVars

----------------------------------------------------------------------------
(* Shapes of the table; the map holds no settled or never written slot. *)
RingTypeOK ==
  /\ nextId \in -Half .. Half - 1
  /\ calls \in Nat /\ unreported \subseteq 0 .. calls - 1
  /\ promiseRing \in [Slots -> {NO_PROMISE, NeverWritten} \cup 0 .. calls - 1]
  /\ \A i \in DOMAIN promiseMap : promiseMap[i] \in 0 .. calls - 1
  /\ missing \in BOOLEAN

(* hasPromise is exact for every id ever given out: an op can be ref'd or  *)
(* unref'd from its call until it settles, however many laps the ring has  *)
(* gone since, and never afterwards.                                       *)
HasPromiseExact ==
  \A c \in 0 .. calls - 1 : hasPromise(idOf[c]) <=> c \in unreported

(* The promises the table holds. *)
Held ==
  {p \in {promiseRing[i] : i \in Slots} : IsPromise(p)}
  \cup {promiseMap[i] : i \in DOMAIN promiseMap}

Table == INSTANCE PromiseTable WITH open <- Held

(* The ring and the map together implement PromiseTable: a completion      *)
(* settles the promise of its own call and no other is lost or moved; and  *)
(* hasPromise tells the table's open promises from the rest at all times.  *)
RefinesTable == Table!Spec /\ [](RingTypeOK /\ HasPromiseExact)
============================================================================
