-------------------------- MODULE WebTimers_proofs --------------------------
(***************************************************************************)
(* Proofs about WebTimers for any timeouts, any number of timers and a     *)
(* clock without bound in effect (MaxTime is any number).  What the        *)
(* invariant needs beyond the properties of the model: a timer has at most *)
(* one key in the tree and one in the batch, and whatever is live and not  *)
(* in the batch is due after everything in it.                             *)
(***************************************************************************)
EXTENDS WebTimers, TLAPS, FiniteSetTheorems

TimerTypes ==
  /\ now \in Nat /\ next_id \in Nat
  /\ timers \subseteq Key /\ expired \subseteq Key
  /\ Live \subseteq 1 .. next_id
  /\ data \in [Live -> [unrefd : BOOLEAN, high_res : BOOLEAN]]
  /\ pc \in {"parked", "poll", "dispatch"}
  /\ due \in [1 .. next_id -> Nat]

SleepTypes ==
  /\ sleep \in [armed : BOOLEAN, deadline : Nat, fired : BOOLEAN]
  /\ ready \in BOOLEAN /\ external_waker \in BOOLEAN /\ woken \in BOOLEAN

(* One key for an id, and only ids that were given out. *)
KeysUnique ==
  /\ \A k \in timers \cup expired : k.id \in 1 .. next_id
  /\ \A j, k \in timers : j.id = k.id => j = k
  /\ \A j, k \in expired : j.id = k.id => j = k

(* The batch was due when it was taken, and goes before all the rest. *)
BatchFirst ==
  /\ pc # "dispatch" => expired = {}
  /\ \A e \in expired : e.deadline < now
  /\ \A i \in Live : \/ \E e \in expired : e.id = i /\ e.interval = 0 /\ due[i] = e.deadline
                     \/ \A e \in expired : e.deadline < due[i]

TimersIInv ==
  /\ TimerTypes /\ SleepTypes /\ KeysUnique /\ BatchFirst
  /\ CountsExact /\ PendingHasKey /\ SleepCoversTimers /\ EmptyIsClean

----------------------------------------------------------------------------
LEMMA LeastNumber ==
  ASSUME NEW T, T \subseteq Nat, T # {}
  PROVE  \E x \in T : \A y \in T : x <= y
<1> DEFINE R == {ab \in Nat \X Nat : ab[1] < ab[2]}
<1>1. IsWellFoundedOn(R, Nat)
  BY NatLessThanWellFounded DEF OpToRel
<1> HIDE DEF R
<1>2. PICK x \in T : \A y \in T : ~(<<y, x>> \in R)
  BY <1>1, WFMin
<1>3. \A y \in T : ~(y < x)
  BY <1>2 DEF R
<1> QED BY <1>3

(* The first key of the tree, by deadline and then by age. *)
LEMMA FirstKey ==
  ASSUME NEW keys, keys \subseteq Key, keys # {}
  PROVE  /\ First(keys) \in keys
         /\ \A j \in keys : ~Before(j, First(keys)) /\ First(keys).deadline <= j.deadline
<1> DEFINE D == {k.deadline : k \in keys}
<1>1. PICK d \in D : \A e \in D : d <= e
  <2>1. D \subseteq Nat /\ D # {}
    BY DEF Key
  <2> QED BY <2>1, LeastNumber
<1> DEFINE I == {k.id : k \in {j \in keys : j.deadline = d}}
<1>2. PICK i \in I : \A h \in I : i <= h
  <2>1. I \subseteq Nat /\ I # {}
    BY DEF Key
  <2> QED BY <2>1, LeastNumber
<1>3. PICK k \in keys : k.deadline = d /\ k.id = i
  BY <1>2
<1>4. \A j \in keys : k.deadline <= j.deadline /\ (j.deadline = k.deadline => k.id <= j.id)
  BY <1>1, <1>2, <1>3
<1>5. \A j \in keys : ~Before(j, k)
  BY <1>4 DEF Before, Key
<1>6. First(keys) \in keys /\ \A j \in keys : ~Before(j, First(keys))
  BY <1>5 DEF First
<1>7. \A j \in keys : First(keys).deadline <= j.deadline
  BY <1>6 DEF Before, Key
<1> QED BY <1>6, <1>7

LEMMA LiveFinite ==
  ASSUME TimerTypes, NEW S, S \subseteq Live
  PROVE  IsFiniteSet(S) /\ Cardinality(S) \in Nat
<1>1. IsFiniteSet(1 .. next_id)
  BY FS_Interval DEF TimerTypes
<1> QED BY <1>1, FS_Subset, FS_CardinalityType DEF TimerTypes

(* MutableSleep::change arms the sleep for the deadline it is given. *)
LEMMA ChangeArms ==
  ASSUME SleepTypes, NEW d \in Nat, NEW rdy \in BOOLEAN, Change(d, rdy),
         external_waker' = external_waker
  PROVE  /\ SleepTypes' /\ sleep'.armed /\ sleep'.deadline = d
         /\ sleep'.fired => ready'
<1>1. PICK elapsed \in BOOLEAN :
        /\ sleep' = [armed |-> TRUE, deadline |-> d, fired |-> elapsed]
        /\ ready' = (rdy \/ elapsed)
        /\ woken' = (woken \/ (elapsed /\ external_waker))
  BY DEF Change
<1>2. sleep' \in [armed : BOOLEAN, deadline : Nat, fired : BOOLEAN]
  BY <1>1
<1>3. ready' \in BOOLEAN /\ woken' \in BOOLEAN
  BY <1>1
<1>4. sleep'.armed /\ sleep'.deadline = d /\ sleep'.fired = elapsed
  BY <1>1
<1>5. sleep'.fired => ready'
  BY <1>1, <1>4
<1> QED BY <1>2, <1>3, <1>4, <1>5 DEF SleepTypes

LEMMA RearmCovers ==
  ASSUME SleepTypes, NEW keys, keys \subseteq Key, keys # {}, Rearm(keys),
         external_waker' = external_waker, timers' = keys
  PROVE  SleepTypes' /\ SleepCoversTimers'
<1>1. /\ First(keys) \in keys /\ First(keys).deadline \in Nat
      /\ \A j \in keys : First(keys).deadline <= j.deadline
  BY FirstKey DEF Key
<1>2. Change(First(keys).deadline, FALSE)
  BY DEF Rearm
<1>3. /\ SleepTypes' /\ sleep'.armed /\ sleep'.deadline = First(keys).deadline
      /\ sleep'.fired => ready'
  BY <1>1, <1>2, ChangeArms
<1> QED BY <1>1, <1>3 DEF SleepCoversTimers

(* Timers and batch entries go, nothing else does. *)
LEMMA ShrinkKeeps ==
  ASSUME TimersIInv, NEW L \in SUBSET Live, data' = [i \in L |-> data[i]],
         expired' \subseteq expired,
         \A e \in expired \ expired' : e.interval = 0 => e.id \notin L,
         \/ timers' = timers
         \/ timers' = {} /\ L = {},
         UNCHANGED <<now, next_id, due, pc>>
  PROVE  TimerTypes' /\ KeysUnique' /\ BatchFirst' /\ PendingHasKey' /\ Live' = L
<1>1. Live' = L
  BY DEF Live
<1>2. TimerTypes'
  <2>1. data' \in [L -> [unrefd : BOOLEAN, high_res : BOOLEAN]]
    BY DEF TimersIInv, TimerTypes
  <2> QED BY <1>1, <2>1 DEF TimersIInv, TimerTypes
<1>3. KeysUnique'
  BY DEF TimersIInv, KeysUnique
<1>4. BatchFirst'
  <2>1. ASSUME NEW i \in L
        PROVE  \/ \E e \in expired' : e.id = i /\ e.interval = 0 /\ due'[i] = e.deadline
               \/ \A e \in expired' : e.deadline < due'[i]
    <3>1. CASE \E e \in expired : e.id = i /\ e.interval = 0 /\ due[i] = e.deadline
      BY <2>1, <3>1
    <3>2. CASE \A e \in expired : e.deadline < due[i]
      BY <3>2
    <3> QED BY <3>1, <3>2 DEF TimersIInv, BatchFirst
  <2> QED BY <1>1, <2>1 DEF TimersIInv, BatchFirst
<1>5. PendingHasKey'
  <2> SUFFICES ASSUME NEW i \in L \ FiredOnce'
               PROVE  {k.deadline : k \in {t \in timers' : t.id = i}} = {due'[i]}
    BY <1>1 DEF PendingHasKey
  <2>1. i \in Live \ FiredOnce
    BY DEF FiredOnce
  <2> QED BY <2>1 DEF TimersIInv, PendingHasKey
<1> QED BY <1>1, <1>2, <1>3, <1>4, <1>5

(* The common tail of cancel_timer and take_fired_timer. *)
LEMMA ForgetKeeps ==
  ASSUME TimersIInv, NEW id \in Live, Forget(id), expired' \subseteq expired,
         \A e \in expired \ expired' : e.id = id,
         UNCHANGED <<now, next_id, due, pc, external_waker>>
  PROVE  TimersIInv'
<1>1. data' = [i \in Live \ {id} |-> data[i]]
  BY DEF Forget
<1>2. CASE LastTimer(id)
  <2>1. /\ unrefd_count' = 0 /\ lock_count' = 0 /\ timers' = {} /\ sleep' = NoSleep
        /\ ready' = FALSE /\ woken' = woken /\ Live \ {id} = {}
    BY <1>2 DEF Forget, Clear, LastTimer
  <2>2. TimerTypes' /\ KeysUnique' /\ BatchFirst' /\ PendingHasKey' /\ Live' = {}
    BY <1>1, <2>1, ShrinkKeeps
  <2>3. CountsExact'
    BY <2>1, <2>2, FS_EmptySet DEF CountsExact
  <2>4. SleepTypes'
    BY <2>1 DEF TimersIInv, SleepTypes, NoSleep
  <2>5. SleepCoversTimers' /\ EmptyIsClean'
    BY <2>1, <2>2 DEF SleepCoversTimers, EmptyIsClean, NoSleep
  <2> QED BY <2>2, <2>3, <2>4, <2>5 DEF TimersIInv
<1>3. CASE ~LastTimer(id)
  <2>1. /\ unrefd_count' = unrefd_count - (IF data[id].unrefd THEN 1 ELSE 0)
        /\ lock_count' = lock_count - (IF data[id].high_res THEN 1 ELSE 0)
        /\ UNCHANGED <<timers, sleep, ready, woken>> /\ Live \ {id} # {}
    BY <1>3 DEF Forget, LastTimer, sleepVars
  <2>2. TimerTypes' /\ KeysUnique' /\ BatchFirst' /\ PendingHasKey' /\ Live' = Live \ {id}
    BY <1>1, <2>1, ShrinkKeeps
  <2>3. CountsExact'
    <3>1. \A i \in Live' : data'[i] = data[i]
      BY <1>1, <2>2
    <3> DEFINE U == {i \in Live : data[i].unrefd}
               H == {i \in Live : data[i].high_res}
    <3>2. /\ {i \in Live' : data'[i].unrefd} = U \ {id}
          /\ {i \in Live' : data'[i].high_res} = H \ {id}
      BY <2>2, <3>1
    <3>3. IsFiniteSet(U) /\ IsFiniteSet(H) /\ Cardinality(U) \in Nat /\ Cardinality(H) \in Nat
      BY LiveFinite DEF TimersIInv
    <3>4. /\ Cardinality(U \ {id}) = Cardinality(U) - (IF data[id].unrefd THEN 1 ELSE 0)
          /\ Cardinality(H \ {id}) = Cardinality(H) - (IF data[id].high_res THEN 1 ELSE 0)
      <4>1. (id \in U <=> data[id].unrefd) /\ (id \in H <=> data[id].high_res)
        OBVIOUS
      <4> HIDE DEF U, H
      <4>2. Cardinality(U \ {id}) = IF id \in U THEN Cardinality(U) - 1 ELSE Cardinality(U)
        BY <3>3, FS_RemoveElement
      <4>3. Cardinality(H \ {id}) = IF id \in H THEN Cardinality(H) - 1 ELSE Cardinality(H)
        BY <3>3, FS_RemoveElement
      <4> QED BY <3>3, <4>1, <4>2, <4>3
    <3>5. unrefd_count = Cardinality(U) /\ lock_count = Cardinality(H)
      BY DEF TimersIInv, CountsExact
    <3> HIDE DEF U, H
    <3> QED BY <2>1, <3>2, <3>4, <3>5 DEF CountsExact
  <2>4. SleepTypes' /\ SleepCoversTimers' /\ EmptyIsClean'
    BY <2>1, <2>2 DEF TimersIInv, SleepTypes, SleepCoversTimers, EmptyIsClean
  <2> QED BY <2>2, <2>3, <2>4 DEF TimersIInv
<1> QED BY <1>2, <1>3

(* ref_timer and unref_timer: only the marks of one timer change. *)
LEMMA MarkKeeps ==
  ASSUME TimersIInv, NEW id \in Live, NEW mark \in BOOLEAN,
         data' = [data EXCEPT ![id].unrefd = mark],
         unrefd_count' = unrefd_count - (IF data[id].unrefd THEN 1 ELSE 0) + (IF mark THEN 1 ELSE 0),
         UNCHANGED <<now, next_id, timers, lock_count, sleep, ready, woken, external_waker,
                     pc, expired, due>>
  PROVE  TimersIInv'
<1>1. /\ Live' = Live /\ data' \in [Live -> [unrefd : BOOLEAN, high_res : BOOLEAN]]
      /\ data'[id].unrefd = mark /\ data'[id].high_res = data[id].high_res
      /\ \A i \in Live \ {id} : data'[i] = data[i]
  BY DEF TimersIInv, TimerTypes, Live
<1>2. TimerTypes' /\ SleepTypes' /\ KeysUnique'
  BY <1>1 DEF TimersIInv, TimerTypes, SleepTypes, KeysUnique
<1>3. BatchFirst' /\ PendingHasKey' /\ SleepCoversTimers'
  BY <1>1 DEF TimersIInv, BatchFirst, PendingHasKey, FiredOnce, SleepCoversTimers
<1>4. CountsExact'
  <2> DEFINE U == {i \in Live : data[i].unrefd}
  <2>1. /\ {i \in Live' : data'[i].unrefd} = (U \ {id}) \cup (IF mark THEN {id} ELSE {})
        /\ {i \in Live' : data'[i].high_res} = {i \in Live : data[i].high_res}
    BY <1>1
  <2>2. IsFiniteSet(U) /\ Cardinality(U) \in Nat /\ unrefd_count = Cardinality(U)
    BY LiveFinite DEF TimersIInv, CountsExact
  <2>3. id \in U <=> data[id].unrefd
    OBVIOUS
  <2> HIDE DEF U
  <2>4. /\ Cardinality(U \ {id}) = IF id \in U THEN Cardinality(U) - 1 ELSE Cardinality(U)
        /\ IsFiniteSet(U \ {id})
    BY <2>2, FS_RemoveElement
  <2>5. Cardinality((U \ {id}) \cup {id}) = Cardinality(U \ {id}) + 1
    BY <2>4, FS_AddElement
  <2>6. unrefd_count' = Cardinality((U \ {id}) \cup (IF mark THEN {id} ELSE {}))
    <3>1. unrefd_count - (IF data[id].unrefd THEN 1 ELSE 0) = Cardinality(U \ {id})
          /\ Cardinality(U \ {id}) \in Int
      BY <2>2, <2>3, <2>4
    <3>2. CASE mark
      BY <2>5, <3>1, <3>2
    <3>3. CASE ~mark
      <4>1. (U \ {id}) \cup (IF mark THEN {id} ELSE {}) = U \ {id}
        BY <3>3
      <4> QED BY <3>1, <3>3, <4>1
    <3> QED BY <3>2, <3>3
  <2> QED BY <2>1, <2>6 DEF TimersIInv, CountsExact
<1>5. EmptyIsClean'
  BY <1>1 DEF EmptyIsClean
<1> QED BY <1>2, <1>3, <1>4, <1>5 DEF TimersIInv

(* queue_timer *)
LEMMA QueueKeeps ==
  ASSUME TimersIInv, NEW timeout \in Timeouts, NEW repeat \in BOOLEAN, queue_timer(timeout, repeat)
  PROVE  TimersIInv'
<1> DEFINE id == next_id + 1
           deadline == now + timeout
           interval == IF ~repeat THEN 0 ELSE IF timeout = 0 THEN 1 ELSE timeout
           key == [deadline |-> deadline, id |-> id, interval |-> interval]
           mark == [unrefd |-> FALSE, high_res |-> HighRes(timeout)]
<1>1. /\ next_id' = id
      /\ lock_count' = IF HighRes(timeout) THEN lock_count + 1 ELSE lock_count
      /\ IF NeedsArm(deadline) THEN Change(deadline, ready) ELSE UNCHANGED sleepVars
      /\ timers' = timers \cup {key}
      /\ data' = [i \in Live \cup {id} |-> IF i = id THEN mark ELSE data[i]]
      /\ due' = [i \in DOMAIN due \cup {id} |-> IF i = id THEN deadline ELSE due[i]]
      /\ UNCHANGED <<now, unrefd_count, external_waker, pc, expired>>
  BY DEF queue_timer
<1>2. /\ now \in Nat /\ next_id \in Nat /\ id \in Nat /\ deadline \in Nat /\ deadline >= now
      /\ interval \in Nat /\ 1 .. next_id' = (1 .. next_id) \cup {id} /\ id \notin 1 .. next_id
  BY <1>1, TimersAssumption DEF TimersIInv, TimerTypes
<1>3. key \in Key /\ key.deadline = deadline /\ key.id = id /\ key.interval = interval
  BY <1>2 DEF Key
<1>4. mark \in [unrefd : BOOLEAN, high_res : BOOLEAN] /\ mark.unrefd = FALSE
      /\ mark.high_res = HighRes(timeout)
  BY DEF HighRes
<1> HIDE DEF key, deadline, interval, mark
<1>5. /\ Live' = Live \cup {id} /\ id \notin Live /\ Live \subseteq 1 .. next_id
      /\ data'[id] = mark /\ \A i \in Live : data'[i] = data[i]
      /\ data' \in [Live' -> [unrefd : BOOLEAN, high_res : BOOLEAN]]
  <2>1. Live \subseteq 1 .. next_id /\ id \notin Live
    BY <1>2 DEF TimersIInv, TimerTypes
  <2>2. Live' = Live \cup {id}
    BY <1>1 DEF Live
  <2> QED BY <1>1, <1>4, <2>1, <2>2 DEF TimersIInv, TimerTypes
<1>6. /\ due' \in [1 .. next_id' -> Nat] /\ due'[id] = deadline
      /\ \A i \in 1 .. next_id : due'[i] = due[i]
  BY <1>1, <1>2 DEF TimersIInv, TimerTypes
<1> HIDE DEF id
<1>7. TimerTypes'
  BY <1>1, <1>2, <1>3, <1>5, <1>6 DEF TimersIInv, TimerTypes
<1>8. \A k \in timers \cup expired : k.id \in 1 .. next_id /\ k.id # id
  BY <1>2 DEF TimersIInv, KeysUnique
<1>9. KeysUnique'
  BY <1>1, <1>2, <1>3, <1>8 DEF TimersIInv, KeysUnique
<1>10. BatchFirst'
  <2>1. ASSUME NEW i \in Live'
        PROVE  \/ \E e \in expired' : e.id = i /\ e.interval = 0 /\ due'[i] = e.deadline
               \/ \A e \in expired' : e.deadline < due'[i]
    <3>1. CASE i = id
      <4>1. \A e \in expired : e.deadline < now /\ e.deadline \in Nat
        BY DEF TimersIInv, BatchFirst, TimerTypes, Key
      <4> QED BY <1>1, <1>2, <1>6, <3>1, <4>1
    <3>2. CASE i # id
      BY <1>1, <1>5, <1>6, <3>2 DEF TimersIInv, BatchFirst
    <3> QED BY <3>1, <3>2
  <2> QED BY <1>1, <2>1 DEF TimersIInv, BatchFirst
<1>11. PendingHasKey'
  <2> SUFFICES ASSUME NEW i \in Live' \ FiredOnce'
               PROVE  {k.deadline : k \in {t \in timers' : t.id = i}} = {due'[i]}
    BY DEF PendingHasKey
  <2>1. CASE i = id
    <3>1. {t \in timers' : t.id = i} = {key}
      BY <1>1, <1>3, <1>8, <2>1
    <3> QED BY <1>3, <1>6, <2>1, <3>1
  <2>2. CASE i # id
    <3>1. i \in Live \ FiredOnce /\ i \in 1 .. next_id
      BY <1>1, <1>5, <2>2 DEF FiredOnce
    <3>2. {t \in timers' : t.id = i} = {t \in timers : t.id = i}
      BY <1>1, <1>3, <2>2
    <3> QED BY <1>6, <3>1, <3>2 DEF TimersIInv, PendingHasKey
  <2> QED BY <2>1, <2>2
<1>12. CountsExact'
  <2> DEFINE U == {i \in Live : data[i].unrefd}
             H == {i \in Live : data[i].high_res}
  <2>1. /\ {i \in Live' : data'[i].unrefd} = U
        /\ {i \in Live' : data'[i].high_res} = H \cup (IF HighRes(timeout) THEN {id} ELSE {})
    BY <1>4, <1>5
  <2>2. IsFiniteSet(H) /\ id \notin H /\ lock_count = Cardinality(H) /\ unrefd_count = Cardinality(U)
    BY <1>5, LiveFinite DEF TimersIInv, CountsExact
  <2> HIDE DEF U, H
  <2>3. Cardinality(H \cup {id}) = Cardinality(H) + 1
    BY <2>2, FS_AddElement
  <2>4. lock_count' = Cardinality(H \cup (IF HighRes(timeout) THEN {id} ELSE {}))
    BY <1>1, <2>2, <2>3
  <2> QED BY <1>1, <2>1, <2>2, <2>4 DEF CountsExact
<1>13. SleepTypes' /\ SleepCoversTimers'
  <2>1. CASE NeedsArm(deadline)
    <3>1. /\ SleepTypes' /\ sleep'.armed /\ sleep'.deadline = deadline
          /\ sleep'.fired => ready'
      BY <1>1, <1>2, <2>1, ChangeArms DEF TimersIInv, SleepTypes
    <3>2. \A k \in timers : deadline <= k.deadline
      <4>1. CASE timers = {}
        BY <4>1
      <4>2. CASE timers # {}
        <5>1. \A k \in timers : First(timers).deadline <= k.deadline /\ k.deadline \in Nat
          BY <4>2, FirstKey DEF TimersIInv, TimerTypes, Key
        <5>2. deadline < First(timers).deadline /\ First(timers) \in timers
          BY <2>1, <4>2, FirstKey DEF NeedsArm, TimersIInv, TimerTypes
        <5> QED BY <1>2, <5>1, <5>2
      <4> QED BY <4>1, <4>2
    <3> QED BY <1>1, <1>2, <1>3, <3>1, <3>2 DEF SleepCoversTimers
  <2>2. CASE ~NeedsArm(deadline)
    <3>1. UNCHANGED <<sleep, ready, woken>> /\ timers # {} /\ ~(deadline < First(timers).deadline)
      BY <1>1, <2>2 DEF NeedsArm, sleepVars
    <3>2. First(timers) \in timers /\ First(timers).deadline \in Nat
      BY <3>1, FirstKey DEF TimersIInv, TimerTypes, Key
    <3>3. sleep.armed /\ sleep.deadline <= First(timers).deadline /\ sleep.deadline \in Nat
      BY <3>2 DEF TimersIInv, SleepCoversTimers, SleepTypes
    <3>4. sleep.deadline <= deadline
      BY <1>2, <3>1, <3>2, <3>3
    <3>5. SleepTypes'
      BY <1>1, <3>1 DEF TimersIInv, SleepTypes
    <3> QED BY <1>1, <1>3, <3>1, <3>3, <3>4, <3>5 DEF TimersIInv, SleepCoversTimers
  <2> QED BY <2>1, <2>2
<1>14. EmptyIsClean'
  BY <1>5 DEF EmptyIsClean
<1> QED BY <1>7, <1>9, <1>10, <1>11, <1>12, <1>13, <1>14 DEF TimersIInv

----------------------------------------------------------------------------
(* Steps that leave the timers, the batch and the marks alone. *)
LEMMA RestKeeps ==
  ASSUME TimersIInv, UNCHANGED <<next_id, timers, data, unrefd_count, lock_count, expired, due>>,
         now' \in Nat, now' >= now, pc' \in {"parked", "poll", "dispatch"},
         pc' # "dispatch" => expired = {}, SleepTypes',
         sleep'.armed = sleep.armed, sleep'.deadline = sleep.deadline,
         sleep'.fired => ready', ~sleep.armed /\ ~ready => ~ready'
  PROVE  TimersIInv'
<1>1. Live' = Live
  BY DEF Live
<1>2. TimerTypes' /\ KeysUnique' /\ CountsExact'
  BY <1>1 DEF TimersIInv, TimerTypes, KeysUnique, CountsExact
<1>3. BatchFirst'
  <2>1. \A e \in expired : e.deadline < now'
    BY DEF TimersIInv, TimerTypes, BatchFirst, Key
  <2> QED BY <1>1, <2>1 DEF TimersIInv, BatchFirst
<1>4. PendingHasKey'
  BY <1>1 DEF TimersIInv, PendingHasKey, FiredOnce
<1>5. SleepCoversTimers' /\ EmptyIsClean'
  BY <1>1 DEF TimersIInv, SleepCoversTimers, EmptyIsClean
<1> QED BY <1>2, <1>3, <1>4, <1>5 DEF TimersIInv

(* A poll finds nothing to fire: there are timers then, and each has kept  *)
(* its key.                                                                *)
LEMMA IneffectiveKeeps ==
  ASSUME TimersIInv, PollIneffective PROVE TimersIInv'
<1>1. /\ pc = "poll" /\ SleepReady /\ Fired = {} /\ pc' = "parked" /\ Rearm(timers')
      /\ timers' = FrontCompacted(timers \ Passed)
      /\ UNCHANGED <<now, next_id, data, unrefd_count, lock_count, external_waker, expired, due>>
  BY DEF PollIneffective, dataVars
<1>2. expired = {} /\ FiredOnce = {} /\ FiredOnce' = {} /\ Live' = Live
  BY <1>1 DEF TimersIInv, BatchFirst, FiredOnce, Live
<1>3. timers' \subseteq timers /\ timers' \subseteq Key
  BY <1>1 DEF FrontCompacted, TimersIInv, TimerTypes
<1>4. ASSUME NEW k \in timers, k.id \in Live PROVE k \in timers'
  <2>1. k \in timers \ Passed
    BY <1>1, <1>4 DEF Fired
  <2>2. ~Before(k, k)
    BY DEF Before, TimersIInv, TimerTypes, Key
  <2> QED BY <1>1, <1>4, <2>1, <2>2 DEF FrontCompacted
<1>5. PICK i \in Live : TRUE
  <2>1. Live # {}
    BY <1>1 DEF TimersIInv, EmptyIsClean, SleepReady
  <2> QED BY <2>1
<1>6. timers' # {}
  <2>1. {k.deadline : k \in {t \in timers : t.id = i}} = {due[i]}
    BY <1>2, <1>5 DEF TimersIInv, PendingHasKey
  <2>2. \E t \in timers : t.id = i
    BY <2>1
  <2> QED BY <1>4, <1>5, <2>2
<1>7. SleepTypes' /\ SleepCoversTimers'
  BY <1>1, <1>3, <1>6, RearmCovers DEF TimersIInv
<1>8. TimerTypes' /\ KeysUnique' /\ CountsExact'
  BY <1>1, <1>2, <1>3 DEF TimersIInv, TimerTypes, KeysUnique, CountsExact
<1>9. BatchFirst'
  BY <1>1, <1>2 DEF BatchFirst
<1>10. PendingHasKey'
  <2> SUFFICES ASSUME NEW h \in Live
               PROVE  {k.deadline : k \in {t \in timers' : t.id = h}} = {due[h]}
    BY <1>1, <1>2 DEF PendingHasKey
  <2>1. {t \in timers' : t.id = h} = {t \in timers : t.id = h}
    BY <1>3, <1>4
  <2> QED BY <1>2, <2>1 DEF TimersIInv, PendingHasKey
<1>11. EmptyIsClean'
  BY <1>2, <1>5 DEF EmptyIsClean
<1> QED BY <1>7, <1>8, <1>9, <1>10, <1>11 DEF TimersIInv

(* What a poll takes from the tree, and what it puts back: every live      *)
(* timer has its one key there, with the deadline it is due at.            *)
LEMMA PollFacts ==
  ASSUME TimersIInv, pc = "poll"
  PROVE  /\ expired = {} /\ FiredOnce = {}
         /\ \A i \in Live : \E t \in timers : t.id = i /\ t.deadline = due[i]
         /\ \A t \in timers : t.id \in Live => t.deadline = due[t.id]
         /\ Fired \subseteq timers /\ Passed \subseteq timers
         /\ \A k \in Fired : k.id \in Live /\ k.deadline < now
         /\ \A k \in timers \ Passed : k.deadline >= now
         /\ Requeued \subseteq Key
         /\ \A q \in Requeued : \E f \in Fired :
              f.interval # 0 /\ q.id = f.id /\ q.interval = f.interval /\ q.deadline = now + f.interval
         /\ \A f \in Fired : f.interval # 0 =>
              \E q \in Requeued : q.id = f.id /\ q.deadline = now + f.interval
<1>1. expired = {} /\ FiredOnce = {}
  BY DEF TimersIInv, BatchFirst, FiredOnce
<1>2. \A i \in Live : {k.deadline : k \in {t \in timers : t.id = i}} = {due[i]}
  BY <1>1 DEF TimersIInv, PendingHasKey
<1>3. \A i \in Live : \E t \in timers : t.id = i /\ t.deadline = due[i]
  BY <1>2
<1>4. \A t \in timers : t.id \in Live => t.deadline = due[t.id]
  BY <1>2
<1>5. Fired \subseteq timers /\ Passed \subseteq timers
  BY DEF Fired, Passed
<1>6. \A k \in Fired : k.id \in Live /\ k.deadline < now
  BY DEF Fired, Passed
<1>7. timers \subseteq Key /\ now \in Nat
  BY DEF TimersIInv, TimerTypes
<1>8. \A k \in timers \ Passed : k.deadline >= now
  BY <1>7 DEF Passed, Key
<1>9. ASSUME NEW f \in Fired
      PROVE  LET q == [f EXCEPT !.deadline = now + f.interval]
             IN  q \in Key /\ q.id = f.id /\ q.interval = f.interval /\ q.deadline = now + f.interval
  <2>1. f \in [deadline : Nat, id : Nat, interval : Nat]
    BY <1>5, <1>7 DEF Key
  <2> QED BY <1>7, <2>1 DEF Key
<1>10. Requeued \subseteq Key
  BY <1>9 DEF Requeued
<1>11. \A q \in Requeued : \E f \in Fired :
         f.interval # 0 /\ q.id = f.id /\ q.interval = f.interval /\ q.deadline = now + f.interval
  BY <1>9 DEF Requeued
<1>12. \A f \in Fired : f.interval # 0 =>
         \E q \in Requeued : q.id = f.id /\ q.deadline = now + f.interval
  BY <1>9 DEF Requeued
<1> QED BY <1>1, <1>3, <1>4, <1>5, <1>6, <1>8, <1>10, <1>11, <1>12

(* data.len() - fired_once_count is zero only if every timer fires, and    *)
(* none of them repeats.                                                   *)
LEMMA NonePending ==
  ASSUME TimersIInv, pc = "poll"
  PROVE  PendingCount(Fired) = 0 <=> \A i \in Live : \E k \in Fired : k.interval = 0 /\ k.id = i
<1> DEFINE Once == {k \in Fired : k.interval = 0}
           idOf == [k \in Once |-> k.id]
<1>1. \A j, k \in Once : idOf[j] = idOf[k] => j = k
  BY PollFacts DEF TimersIInv, KeysUnique
<1>2. idOf \in [Once -> Live]
  BY PollFacts
<1>3. idOf \in Injection(Once, Live)
  BY <1>1, <1>2 DEF Injection, IsInjective
<1>4. IsFiniteSet(Live) /\ Cardinality(Live) \in Nat
  BY LiveFinite DEF TimersIInv
<1>5. PendingCount(Fired) = Cardinality(Live) - Cardinality(Once)
  BY DEF PendingCount
<1>6. idOf \in Surjection(Once, Live) <=> \A i \in Live : \E k \in Fired : k.interval = 0 /\ k.id = i
  BY <1>2 DEF Surjection
<1> HIDE DEF idOf, Once
<1>7. /\ IsFiniteSet(Once)
      /\ Cardinality(Once) = Cardinality(Live) <=> idOf \in Surjection(Once, Live)
  BY <1>3, <1>4, FS_Injection
<1>8. Cardinality(Once) \in Nat
  BY <1>7, FS_CardinalityType
<1> QED BY <1>4, <1>5, <1>6, <1>7, <1>8

(* What each live timer waits for after the batch is taken: one that does  *)
(* not repeat keeps its deadline, one that does gets a later one, and the  *)
(* rest was not due.                                                       *)
LEMMA DueAfterPoll ==
  ASSUME TimersIInv, PollFires
  PROVE  /\ due' \in [1 .. next_id -> Nat]
         /\ \A k \in Fired : k.interval = 0 => due'[k.id] = k.deadline
         /\ \A q \in Requeued : due'[q.id] = q.deadline /\ q.deadline >= now
         /\ \A t \in timers \ Passed : t.id \in Live => due'[t.id] = t.deadline
<1> DEFINE again(i) == \E k \in Requeued : k.id = i
<1>1. /\ pc = "poll"
      /\ due' = [i \in DOMAIN due |->
                   IF again(i) THEN (CHOOSE k \in Requeued : k.id = i).deadline ELSE due[i]]
  BY DEF PollFires
<1>2. due \in [1 .. next_id -> Nat] /\ Live \subseteq 1 .. next_id /\ now \in Nat /\ timers \subseteq Key
  BY DEF TimersIInv, TimerTypes
<1>3. \A j, k \in timers : j.id = k.id => j = k
  BY DEF TimersIInv, KeysUnique
<1>4. Requeued \subseteq Key /\ Fired \subseteq timers /\ Fired \subseteq Passed /\ \A k \in Fired : k.id \in Live
  BY <1>1, PollFacts DEF Fired
<1>5. \A q \in Requeued : \E f \in Fired :
         f.interval # 0 /\ q.id = f.id /\ q.interval = f.interval /\ q.deadline = now + f.interval
  BY <1>1, PollFacts
<1>6. \A p, q \in Requeued : p.id = q.id => p.deadline = q.deadline
  BY <1>3, <1>4, <1>5
<1>7. ASSUME NEW q \in Requeued
      PROVE  due'[q.id] = q.deadline /\ q.deadline >= now
  <2>1. q.id \in 1 .. next_id /\ again(q.id)
    BY <1>2, <1>4, <1>5
  <2>2. due'[q.id] = (CHOOSE k \in Requeued : k.id = q.id).deadline
    BY <1>1, <1>2, <2>1
  <2>3. (CHOOSE k \in Requeued : k.id = q.id) \in Requeued /\ (CHOOSE k \in Requeued : k.id = q.id).id = q.id
    OBVIOUS
  <2>4. q.deadline >= now
    <3>1. PICK f \in Fired : q.deadline = now + f.interval
      BY <1>5
    <3>2. f.interval \in Nat
      BY <1>2, <1>4 DEF Key
    <3> QED BY <1>2, <3>1, <3>2
  <2> QED BY <1>6, <2>2, <2>3, <2>4
<1>8. ASSUME NEW i \in 1 .. next_id, ~again(i) PROVE due'[i] = due[i]
  BY <1>1, <1>2, <1>8
<1>9. due' \in [1 .. next_id -> Nat]
  <2>1. \A i \in 1 .. next_id : due'[i] \in Nat
    <3> SUFFICES ASSUME NEW i \in 1 .. next_id PROVE due'[i] \in Nat
      OBVIOUS
    <3>1. CASE again(i)
      BY <1>4, <1>7, <3>1 DEF Key
    <3>2. CASE ~again(i)
      BY <1>2, <1>8, <3>2
    <3> QED BY <3>1, <3>2
  <2>2. due' = [i \in 1 .. next_id |-> due'[i]]
    BY <1>1, <1>2
  <2> QED BY <2>1, <2>2
<1>10. \A t \in timers : t.id \in Live => t.deadline = due[t.id]
  BY <1>1, PollFacts
<1>11. ASSUME NEW k \in Fired, k.interval = 0 PROVE due'[k.id] = k.deadline
  <2>1. ~again(k.id)
    BY <1>3, <1>4, <1>5, <1>11
  <2>2. k.id \in 1 .. next_id /\ k.deadline = due[k.id]
    BY <1>2, <1>4, <1>10
  <2>3. due'[k.id] = due[k.id]
    BY <1>8, <2>1, <2>2
  <2> QED BY <2>2, <2>3
<1>12. ASSUME NEW t \in timers \ Passed, t.id \in Live PROVE due'[t.id] = t.deadline
  <2>1. ~again(t.id)
    BY <1>3, <1>4, <1>5
  <2>2. t.id \in 1 .. next_id /\ t.deadline = due[t.id]
    BY <1>2, <1>10, <1>12
  <2>3. due'[t.id] = due[t.id]
    BY <1>8, <2>1, <2>2
  <2> QED BY <2>2, <2>3
<1> QED BY <1>7, <1>9, <1>11, <1>12

(* Every live timer is in one of three places after a poll. *)
LEMMA PollPlaces ==
  ASSUME TimersIInv, PollFires, NEW i \in Live
  PROVE  \/ \E k \in Fired : k.id = i /\ k.interval = 0
         \/ \E q \in Requeued : q.id = i
         \/ \E t \in timers \ Passed : t.id = i
<1>1. pc = "poll"
  BY DEF PollFires
<1>2. PICK t \in timers : t.id = i
  BY <1>1, PollFacts
<1>3. CASE t \in Passed
  BY <1>1, <1>2, <1>3, PollFacts DEF Fired
<1>4. CASE t \notin Passed
  BY <1>2, <1>4
<1> QED BY <1>3, <1>4

(* A poll that takes a batch: what repeats goes back into the tree, and    *)
(* with nothing left to wait for the tree and the sleep are cleared.       *)
LEMMA FiresKeeps ==
  ASSUME TimersIInv, PollFires PROVE TimersIInv'
<1> DEFINE left == (timers \ Passed) \cup Requeued
<1>1. /\ pc = "poll" /\ Fired # {} /\ pc' = "dispatch" /\ expired' = Fired
      /\ IF PendingCount(Fired) = 0
         THEN timers' = {} /\ Clear
         ELSE /\ timers' = Compacted(left, PendingCount(Fired))
              /\ Rearm(timers')
      /\ UNCHANGED <<now, next_id, data, unrefd_count, lock_count, external_waker>>
  BY DEF PollFires, dataVars
<1>2. Live' = Live /\ Live # {} /\ expired = {}
  BY <1>1, PollFacts DEF Live
<1>3. left \subseteq Key /\ Fired \subseteq Key /\ timers \subseteq Key
  BY <1>1, PollFacts DEF TimersIInv, TimerTypes
<1>4. timers' \subseteq left /\ (PendingCount(Fired) # 0 => \A k \in left : k.id \in Live => k \in timers')
  BY <1>1 DEF Compacted
<1>5. \A j, k \in left : j.id = k.id => j = k
  <2>1. \A j, k \in timers : j.id = k.id => j = k
    BY DEF TimersIInv, KeysUnique
  <2>2. \A q \in Requeued : \E f \in Fired : f \in Passed /\ f \in timers /\
          q.id = f.id /\ q.interval = f.interval /\ q.deadline = now + f.interval
    BY <1>1, PollFacts DEF Fired
  <2>3. \A q \in Requeued, t \in timers \ Passed : q.id # t.id
    BY <2>1, <2>2
  <2>4. \A p, q \in Requeued : p.id = q.id => p = q
    <3>1. \A p, q \in Requeued : p.id = q.id => p.deadline = q.deadline /\ p.interval = q.interval
      BY <2>1, <2>2
    <3> QED BY <1>3, <3>1 DEF Key
  <2> QED BY <2>1, <2>3, <2>4
<1>6. TimerTypes'
  BY <1>1, <1>2, <1>3, <1>4, DueAfterPoll DEF TimersIInv, TimerTypes
<1>7. KeysUnique'
  <2>1. \A k \in left \cup Fired : k.id \in 1 .. next_id
    BY <1>1, PollFacts DEF TimersIInv, TimerTypes, KeysUnique
  <2>2. \A j, k \in Fired : j.id = k.id => j = k
    BY <1>1, PollFacts DEF TimersIInv, KeysUnique
  <2> QED BY <1>1, <1>4, <1>5, <2>1, <2>2 DEF KeysUnique
<1>8. CountsExact'
  BY <1>1, <1>2 DEF TimersIInv, CountsExact
<1>9. BatchFirst'
  <2>1. \A e \in Fired : e.deadline < now /\ e.deadline \in Nat
    BY <1>1, <1>3, PollFacts DEF Key
  <2>2. ASSUME NEW i \in Live
        PROVE  \/ \E e \in Fired : e.id = i /\ e.interval = 0 /\ due'[i] = e.deadline
               \/ \A e \in Fired : e.deadline < due'[i]
    <3>1. CASE \E k \in Fired : k.id = i /\ k.interval = 0
      BY <3>1, DueAfterPoll
    <3>2. CASE \E q \in left : q.id = i
      <4>1. PICK q \in left : q.id = i
        BY <3>2
      <4>2. due'[i] = q.deadline /\ q.deadline >= now /\ q.deadline \in Nat /\ now \in Nat
        BY <1>1, <1>3, <4>1, DueAfterPoll, PollFacts DEF Key, TimersIInv, TimerTypes
      <4> QED BY <2>1, <4>2
    <3> QED BY <3>1, <3>2, PollPlaces
  <2> QED BY <1>1, <1>2, <2>1, <2>2 DEF BatchFirst
<1>10. PendingHasKey'
  <2> SUFFICES ASSUME NEW i \in Live, i \notin FiredOnce'
               PROVE  {k.deadline : k \in {t \in timers' : t.id = i}} = {due'[i]}
    BY <1>2 DEF PendingHasKey
  <2>1. ~\E k \in Fired : k.id = i /\ k.interval = 0
    BY <1>1 DEF FiredOnce
  <2>2. PendingCount(Fired) # 0
    BY <1>1, <2>1, NonePending
  <2>3. PICK q \in left : q.id = i
    BY <2>1, PollPlaces
  <2>4. {t \in timers' : t.id = i} = {q}
    BY <1>4, <1>5, <2>2, <2>3
  <2>5. q.deadline = due'[i]
    BY <2>3, DueAfterPoll
  <2> QED BY <2>4, <2>5
<1>11. SleepTypes' /\ SleepCoversTimers'
  <2>1. CASE PendingCount(Fired) = 0
    <3>1. timers' = {} /\ sleep' = NoSleep /\ ready' = FALSE /\ woken' = woken
      BY <1>1, <2>1 DEF Clear
    <3>2. SleepTypes'
      BY <1>1, <3>1 DEF TimersIInv, SleepTypes, NoSleep
    <3> QED BY <3>1, <3>2 DEF SleepCoversTimers, NoSleep
  <2>2. CASE PendingCount(Fired) # 0
    <3>1. PICK i \in Live : ~\E k \in Fired : k.interval = 0 /\ k.id = i
      BY <1>1, <2>2, NonePending
    <3>2. PICK q \in left : q.id = i
      BY <3>1, PollPlaces
    <3>3. timers' # {} /\ timers' \subseteq Key
      BY <1>3, <1>4, <2>2, <3>2
    <3> QED BY <1>1, <2>2, <3>3, RearmCovers DEF TimersIInv
  <2> QED BY <2>1, <2>2
<1>12. EmptyIsClean'
  BY <1>2 DEF EmptyIsClean
<1> QED BY <1>6, <1>7, <1>8, <1>9, <1>10, <1>11, <1>12 DEF TimersIInv

(* take_fired_timer: the next timer of the batch runs, or is skipped. *)
LEMMA TakeKeeps ==
  ASSUME TimersIInv, TakeFired PROVE TimersIInv'
<1> DEFINE k == First(expired)
<1>1. /\ pc = "dispatch" /\ expired # {} /\ expired' = expired \ {k}
      /\ IF k.id \in Live /\ k.interval = 0
         THEN Forget(k.id)
         ELSE UNCHANGED <<timers, data, unrefd_count, lock_count, sleep, ready, woken>>
      /\ UNCHANGED <<now, next_id, external_waker, due, pc>>
  BY DEF TakeFired, dataVars, sleepVars
<1>2. k \in expired
  BY <1>1, FirstKey DEF TimersIInv, TimerTypes
<1> HIDE DEF k
<1>3. CASE k.id \in Live /\ k.interval = 0
  <2>1. expired' \subseteq expired /\ \A e \in expired \ expired' : e.id = k.id
    BY <1>1
  <2> QED BY <1>1, <1>3, <2>1, ForgetKeeps
<1>4. CASE ~(k.id \in Live /\ k.interval = 0)
  <2>1. UNCHANGED <<timers, data, unrefd_count, lock_count, sleep, ready, woken>>
    BY <1>1, <1>4
  <2>2. data' = [i \in Live |-> data[i]] /\ Live \in SUBSET Live
    BY <2>1 DEF Live, TimersIInv, TimerTypes
  <2>3. expired' \subseteq expired /\ \A e \in expired \ expired' : e.interval = 0 => e.id \notin Live
    BY <1>1, <1>4
  <2>4. TimerTypes' /\ KeysUnique' /\ BatchFirst' /\ PendingHasKey' /\ Live' = Live
    BY <1>1, <2>1, <2>2, <2>3, ShrinkKeeps
  <2>5. CountsExact' /\ SleepTypes' /\ SleepCoversTimers' /\ EmptyIsClean'
    BY <1>1, <2>1, <2>4
       DEF TimersIInv, CountsExact, SleepTypes, SleepCoversTimers, EmptyIsClean
  <2> QED BY <2>4, <2>5 DEF TimersIInv
<1> QED BY <1>3, <1>4

LEMMA TimersInitial ==
  ASSUME Init PROVE TimersIInv
<1>1. Live = {}
  BY DEF Init, Live
<1>2. TimerTypes
  BY <1>1 DEF Init, TimerTypes
<1>3. SleepTypes
  BY TimersAssumption DEF Init, SleepTypes, NoSleep
<1>4. KeysUnique /\ BatchFirst /\ PendingHasKey
  BY <1>1 DEF Init, KeysUnique, BatchFirst, PendingHasKey
<1>5. CountsExact
  BY <1>1, FS_EmptySet DEF Init, CountsExact
<1>6. SleepCoversTimers /\ EmptyIsClean
  BY DEF Init, SleepCoversTimers, EmptyIsClean, NoSleep
<1> QED BY <1>2, <1>3, <1>4, <1>5, <1>6 DEF TimersIInv

LEMMA CountsAreNat ==
  ASSUME TimersIInv PROVE unrefd_count \in Nat /\ lock_count \in Nat
BY LiveFinite DEF TimersIInv, CountsExact

LEMMA TimersInductive ==
  ASSUME TimersIInv, [Next]_vars PROVE TimersIInv'
<1>1. ASSUME NEW timeout \in Timeouts, NEW repeat \in BOOLEAN, queue_timer(timeout, repeat)
      PROVE  TimersIInv'
  BY <1>1, QueueKeeps
<1>2. ASSUME NEW id \in Ids, ref_timer(id) PROVE TimersIInv'
  <2>1. /\ id \in Live /\ data' = [data EXCEPT ![id].unrefd = FALSE]
        /\ UNCHANGED <<now, next_id, timers, lock_count, sleep, ready, woken, external_waker,
                       pc, expired, due>>
    BY <1>2 DEF ref_timer, sleepVars
  <2>2. unrefd_count' = unrefd_count - (IF data[id].unrefd THEN 1 ELSE 0) + (IF FALSE THEN 1 ELSE 0)
    BY <1>2, CountsAreNat DEF ref_timer, RefDelta
  <2> QED BY <2>1, <2>2, MarkKeeps
<1>3. ASSUME NEW id \in Ids, unref_timer(id) PROVE TimersIInv'
  <2>1. /\ id \in Live /\ data' = [data EXCEPT ![id].unrefd = TRUE]
        /\ UNCHANGED <<now, next_id, timers, lock_count, sleep, ready, woken, external_waker,
                       pc, expired, due>>
    BY <1>3 DEF unref_timer, sleepVars
  <2>2. unrefd_count' = unrefd_count - (IF data[id].unrefd THEN 1 ELSE 0) + (IF TRUE THEN 1 ELSE 0)
    BY <1>3, CountsAreNat DEF unref_timer, UnrefDelta
  <2> QED BY <2>1, <2>2, MarkKeeps
<1>4. ASSUME NEW id \in Ids, cancel_timer(id) PROVE TimersIInv'
  BY <1>4, ForgetKeeps DEF cancel_timer
<1>5. CASE StartTick
  <2>1. /\ pc = "parked" /\ pc' = "poll" /\ woken' = FALSE
        /\ UNCHANGED <<now, next_id, timers, data, unrefd_count, lock_count, sleep, ready,
                       external_waker, expired, due>>
    BY <1>5 DEF StartTick, dataVars
  <2>2. SleepTypes'
    BY <2>1 DEF TimersIInv, SleepTypes
  <2>3. expired = {} /\ now' \in Nat /\ now' >= now
    BY <2>1 DEF TimersIInv, TimerTypes, BatchFirst
  <2> QED BY <2>1, <2>2, <2>3, RestKeeps DEF TimersIInv, SleepCoversTimers
<1>6. CASE PollPending
  BY <1>6, RestKeeps DEF PollPending, dataVars, sleepVars, TimersIInv, TimerTypes, SleepTypes,
                         BatchFirst, SleepCoversTimers
<1>7. CASE PollIneffective
  BY <1>7, IneffectiveKeeps
<1>8. CASE PollFires
  BY <1>8, FiresKeeps
<1>9. CASE TakeFired
  BY <1>9, TakeKeeps
<1>10. CASE EndDispatch
  BY <1>10, RestKeeps DEF EndDispatch, dataVars, sleepVars, TimersIInv, TimerTypes, SleepTypes,
                          SleepCoversTimers
<1>11. CASE SleepFires
  <2>1. /\ sleep.armed /\ ready' = TRUE /\ woken' \in BOOLEAN
        /\ sleep' \in [armed : BOOLEAN, deadline : Nat, fired : BOOLEAN]
        /\ sleep'.armed = sleep.armed /\ sleep'.deadline = sleep.deadline
    BY <1>11 DEF SleepFires, TimersIInv, SleepTypes
  <2>2. UNCHANGED <<now, next_id, timers, data, unrefd_count, lock_count, external_waker,
                    expired, due, pc>>
    BY <1>11 DEF SleepFires, dataVars
  <2>3. SleepTypes'
    BY <2>1, <2>2 DEF TimersIInv, SleepTypes
  <2> QED BY <2>1, <2>2, <2>3, RestKeeps DEF TimersIInv, TimerTypes, BatchFirst
<1>12. CASE Advance
  <2>1. /\ now' \in Nat /\ now' >= now
        /\ UNCHANGED <<next_id, timers, data, unrefd_count, lock_count, sleep, ready, woken,
                       external_waker, expired, due, pc>>
    BY <1>12 DEF Advance, dataVars, sleepVars, TimersIInv, TimerTypes
  <2>2. SleepTypes'
    BY <2>1 DEF TimersIInv, SleepTypes
  <2> QED BY <2>1, <2>2, RestKeeps DEF TimersIInv, TimerTypes, BatchFirst, SleepCoversTimers
<1>13. CASE WakeOther
  BY <1>13, RestKeeps DEF WakeOther, dataVars, TimersIInv, TimerTypes, SleepTypes, BatchFirst,
                          SleepCoversTimers
<1>14. CASE UNCHANGED vars
  BY <1>14, RestKeeps DEF vars, TimersIInv, TimerTypes, SleepTypes, BatchFirst, SleepCoversTimers
<1> QED BY <1>1, <1>2, <1>3, <1>4, <1>5, <1>6, <1>7, <1>8, <1>9, <1>10, <1>11, <1>12, <1>13, <1>14
        DEF Next, Script, LoopStep

LEMMA TimersInvariant == Spec => []TimersIInv
<1>1. Init => TimersIInv
  BY TimersInitial
<1>2. TimersIInv /\ [Next]_vars => TimersIInv'
  BY TimersInductive
<1> QED BY <1>1, <1>2, PTL DEF Spec

(* For any timeouts and any number of timers, the key tree, the data map,  *)
(* the counts behind has_pending_timers and the sleep of WebTimersInner    *)
(* agree at every point where a script or a poll can find them.            *)
THEOREM TimersAreConsistent == Spec => []TimersConsistent
<1>1. TimersIInv => TimersConsistent
  <2> SUFFICES ASSUME TimersIInv PROVE TypeOK
    BY DEF TimersIInv, TimersConsistent
  <2>1. {ready, external_waker, woken} \subseteq BOOLEAN
    BY DEF TimersIInv, SleepTypes
  <2>2. unrefd_count \in Nat /\ lock_count \in Nat
    BY CountsAreNat
  <2> QED BY <2>1, <2>2 DEF TimersIInv, TimerTypes, SleepTypes, TypeOK
<1> QED BY <1>1, TimersInvariant, PTL

(* A callback runs only after its deadline, and never while an earlier one *)
(* (by deadline, then by age) waits, in the batch or in the tree.          *)
LEMMA RunsInOrder ==
  ASSUME TimersIInv, [Next]_vars, NEW k \in expired, Runs(k)
  PROVE  /\ k.deadline < now
         /\ \A i \in Live \ {k.id} : Earlier(k.deadline, k.id, due[i], i)
         /\ \A e \in expired \ {k} : e.id \in Live => Earlier(k.deadline, k.id, e.deadline, e.id)
<1>1. k = First(expired)
  <2>1. expired' # expired /\ k \in expired /\ k \notin expired' /\ expired # {}
    BY DEF Runs
  <2>2. TakeFired
    <3>1. ~PollFires
      <4>1. pc = "dispatch"
        BY <2>1 DEF TimersIInv, BatchFirst
      <4> QED BY <4>1 DEF PollFires
    <3> QED BY <2>1, <3>1 DEF Next, Script, LoopStep, queue_timer, ref_timer, unref_timer, cancel_timer,
               StartTick, PollPending, PollIneffective, EndDispatch, SleepFires, Advance, WakeOther, vars
  <2>3. expired' = expired \ {First(expired)}
    BY <2>2 DEF TakeFired
  <2> QED BY <2>1, <2>3
<1>2. \A e \in expired : ~Before(e, k) /\ k.deadline <= e.deadline
  BY <1>1, FirstKey DEF TimersIInv, TimerTypes
<1>3. k.deadline < now /\ k \in Key /\ expired \subseteq Key
  BY DEF TimersIInv, BatchFirst, TimerTypes
<1>4. ASSUME NEW e \in expired, e.id # k.id PROVE Earlier(k.deadline, k.id, e.deadline, e.id)
  BY <1>2, <1>3, <1>4 DEF Before, Earlier, Key
<1>5. \A e \in expired \ {k} : e.id # k.id
  BY DEF TimersIInv, KeysUnique
<1>6. ASSUME NEW i \in Live, i # k.id PROVE Earlier(k.deadline, k.id, due[i], i)
  <2>1. CASE \E e \in expired : e.id = i /\ e.interval = 0 /\ due[i] = e.deadline
    BY <1>4, <1>6, <2>1
  <2>2. CASE \A e \in expired : e.deadline < due[i]
    BY <2>2 DEF Earlier
  <2> QED BY <2>1, <2>2 DEF TimersIInv, BatchFirst
<1> QED BY <1>3, <1>4, <1>5, <1>6

(* For any timeouts and any number of timers: timers fire in order, also   *)
(* when the scripts of a batch queue and cancel timers.                    *)
THEOREM TimersFireInOrder == Spec => FiresDueInOrder
<1> DEFINE A == \A k \in expired : Runs(k) =>
                  /\ k.deadline < now
                  /\ \A i \in Live \ {k.id} : Earlier(k.deadline, k.id, due[i], i)
                  /\ \A e \in expired \ {k} : e.id \in Live => Earlier(k.deadline, k.id, e.deadline, e.id)
<1>1. TimersIInv /\ [Next]_vars => [A]_vars
  BY RunsInOrder
<1> QED BY <1>1, TimersInvariant, PTL DEF Spec, FiresDueInOrder
=============================================================================
