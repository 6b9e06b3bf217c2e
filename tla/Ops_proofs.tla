----------------------------- MODULE Ops_proofs -----------------------------
(***************************************************************************)
(* Proofs about what an op passes through: OpDriver, for any number of ops *)
(* and any batch size, PromiseRing, for any ring size, the arguments and   *)
(* the metrics of Op2, for any ops and values, Conversions, for any        *)
(* numbers, integers and arrays, and V8Slice, for a store of any length.   *)
(* The five have no state in common.                                       *)
(***************************************************************************)
EXTENDS OpDriver, PromiseRing, Op2, Conversions, V8Slice, Sequence_lemmas, FiniteSetTheorems

(***************************************************************************)
(* OpDriver.  An op is in one place from its submission on, and an op that *)
(* is not popped yet is ref'd or has its id in unrefed_ops.                *)
(***************************************************************************)

Distinct(s) == \A i, j \in DOMAIN s : s[i] = s[j] => i = j

DriverTypes ==
  /\ nextPromiseId \in 0 .. MaxOps
  /\ inflight \subseteq Ids /\ ready_to_run \subseteq inflight /\ finished \subseteq Ids
  /\ driver \in {"unspawned", "idle", "woken", "running", "aborted"}
  /\ completed_ops \in Seq(Ids) /\ args \in Seq(Ids)
  /\ len \in 0 .. MaxOps /\ unrefed_ops \subseteq 0 .. MaxOps
  /\ pc \in {"parked", "pop", "js", "done", "shutdown"}
  /\ resolved \subseteq Ids /\ refd \subseteq Ids

DriverFlags ==
  item_waker \in BOOLEAN /\ futures_waker \in BOOLEAN /\ completed_waker \in BOOLEAN /\ woken \in BOOLEAN

(* The ops that dispatch_pending_ops has not taken. *)
Unpopped == inflight \cup Range(completed_ops)

OnePlace ==
  /\ inflight \cap Range(completed_ops) = {} /\ Unpopped \cap Range(args) = {}
  /\ (Unpopped \cup Range(args)) \cap resolved = {}
  /\ Unpopped \cup Range(args) \cup resolved = 0 .. nextPromiseId - 1
  /\ Distinct(completed_ops) /\ Distinct(args)

CountsOps ==
  /\ len = Cardinality(inflight) + Len(completed_ops)
  /\ Range(completed_ops) \cup Range(args) \cup resolved \subseteq finished

(* What unrefed_ops holds, and what it must hold. *)
RefsKept ==
  /\ unrefed_ops \subseteq Unpopped \cup {nextPromiseId}
  /\ Unpopped \subseteq unrefed_ops \cup refd

DriverIInv ==
  /\ DriverTypes
  /\ pc # "pop" => args = <<>>
  /\ pc # "shutdown" => OnePlace /\ CountsOps /\ RefsKept

----------------------------------------------------------------------------
(* Lists. *)
LEMMA AppendedList ==
  ASSUME NEW S, NEW s \in Seq(S), NEW x \in S
  PROVE  /\ Append(s, x) \in Seq(S) /\ Range(Append(s, x)) = Range(s) \cup {x}
         /\ Distinct(s) /\ x \notin Range(s) => Distinct(Append(s, x))
<1> DEFINE t == Append(s, x)
<1>1. /\ t \in Seq(S) /\ Len(t) = Len(s) + 1 /\ Len(s) \in Nat
      /\ DOMAIN s = 1 .. Len(s) /\ DOMAIN t = 1 .. Len(s) + 1
      /\ \A i \in 1 .. Len(s) : t[i] = s[i]
      /\ t[Len(s) + 1] = x
  OBVIOUS
<1> HIDE DEF t
<1>2. Range(t) = Range(s) \cup {x}
  BY <1>1 DEF Range
<1>3. Distinct(s) /\ x \notin Range(s) => Distinct(t)
  BY <1>1 DEF Distinct, Range
<1> QED BY <1>1, <1>2, <1>3 DEF t

LEMMA TailOfList ==
  ASSUME NEW S, NEW s \in Seq(S), s # <<>>
  PROVE  /\ Tail(s) \in Seq(S) /\ Head(s) \in Range(s) /\ Head(s) \in S
         /\ Range(s) = Range(Tail(s)) \cup {Head(s)}
         /\ Distinct(s) => Distinct(Tail(s)) /\ Head(s) \notin Range(Tail(s))
<1> DEFINE t == Tail(s)
<1>1. /\ t \in Seq(S) /\ Len(t) = Len(s) - 1 /\ Len(s) \in Nat \ {0}
      /\ DOMAIN s = 1 .. Len(s) /\ DOMAIN t = 1 .. Len(s) - 1
      /\ \A i \in 1 .. Len(s) - 1 : t[i] = s[i + 1]
      /\ Head(s) = s[1] /\ Head(s) \in S
  OBVIOUS
<1> HIDE DEF t
<1>2. Range(s) = Range(t) \cup {Head(s)} /\ Head(s) \in Range(s)
  <2>1. \A i \in DOMAIN s : i = 1 \/ (i - 1 \in DOMAIN t /\ s[i] = t[i - 1])
    BY <1>1
  <2>2. \A i \in DOMAIN t : i + 1 \in DOMAIN s /\ t[i] = s[i + 1]
    BY <1>1
  <2>3. 1 \in DOMAIN s
    BY <1>1
  <2>4. Range(s) \subseteq Range(t) \cup {Head(s)}
    <3> SUFFICES ASSUME NEW i \in DOMAIN s PROVE s[i] \in Range(t) \cup {Head(s)}
      BY DEF Range
    <3>1. CASE i = 1
      BY <1>1, <3>1
    <3>2. CASE i # 1
      BY <2>1, <3>2 DEF Range
    <3> QED BY <3>1, <3>2
  <2>5. Range(t) \subseteq Range(s)
    BY <2>2 DEF Range
  <2>6. Head(s) \in Range(s)
    BY <1>1, <2>3 DEF Range
  <2> QED BY <2>4, <2>5, <2>6
<1>3. Distinct(s) => Distinct(t) /\ Head(s) \notin Range(t)
  <2> SUFFICES ASSUME Distinct(s) PROVE Distinct(t) /\ Head(s) \notin Range(t)
    OBVIOUS
  <2>1. ASSUME NEW i \in DOMAIN t, NEW j \in DOMAIN t, t[i] = t[j] PROVE i = j
    <3>1. i + 1 \in DOMAIN s /\ j + 1 \in DOMAIN s /\ s[i + 1] = s[j + 1]
      BY <1>1, <2>1
    <3>2. i + 1 = j + 1
      BY <3>1 DEF Distinct
    <3> QED BY <1>1, <3>2
  <2>2. ASSUME NEW i \in DOMAIN t PROVE t[i] # Head(s)
    BY <1>1 DEF Distinct
  <2> QED BY <2>1, <2>2 DEF Distinct, Range
<1> QED BY <1>1, <1>2, <1>3 DEF t

LEMMA EmptyList ==
  /\ Range(<<>>) = {} /\ Distinct(<<>>) /\ \A S : <<>> \in Seq(S)
  /\ \A S : \A s \in Seq(S) : Range(s) \subseteq S /\ (Range(s) = {} => s = <<>>)
<1>1. Range(<<>>) = {} /\ Distinct(<<>>) /\ \A S : <<>> \in Seq(S)
  BY DEF Range, Distinct
<1>2. ASSUME NEW S, NEW s \in Seq(S) PROVE Range(s) \subseteq S /\ (Range(s) = {} => s = <<>>)
  <2>1. Range(s) \subseteq S
    BY DEF Range
  <2>2. ASSUME s # <<>> PROVE Range(s) # {}
    BY <2>2, TailOfList
  <2> QED BY <2>1, <2>2
<1> QED BY <1>1, <1>2

LEMMA CountOfList ==
  ASSUME NEW S, NEW s \in Seq(S), Distinct(s)
  PROVE  IsFiniteSet(Range(s)) /\ Cardinality(Range(s)) = Len(s) /\ Len(s) \in Nat
<1>1. Len(s) \in Nat /\ DOMAIN s = 1 .. Len(s) /\ s \in [1 .. Len(s) -> S]
  OBVIOUS
<1>2. s \in [1 .. Len(s) -> Range(s)]
  BY <1>1 DEF Range
<1>3. s \in Injection(1 .. Len(s), Range(s))
  BY <1>1, <1>2 DEF Injection, IsInjective, Distinct
<1>4. s \in Surjection(1 .. Len(s), Range(s))
  BY <1>1, <1>2 DEF Surjection, Range
<1>5. ExistsBijection(1 .. Len(s), Range(s))
  BY <1>3, <1>4 DEF ExistsBijection, Bijection
<1>6. IsFiniteSet(Range(s))
  BY <1>1, <1>5, FS_NatBijection
<1> QED BY <1>1, <1>5, <1>6, FS_CountingElements

LEMMA DisjointUnion ==
  ASSUME NEW S, NEW T, IsFiniteSet(S), IsFiniteSet(T), S \cap T = {}
  PROVE  IsFiniteSet(S \cup T) /\ Cardinality(S \cup T) = Cardinality(S) + Cardinality(T)
<1>1. Cardinality(S \cap T) = 0 /\ Cardinality(S) \in Nat /\ Cardinality(T) \in Nat
  BY FS_EmptySet, FS_CardinalityType
<1>2. /\ IsFiniteSet(S \cup T)
      /\ Cardinality(S \cup T) = Cardinality(S) + Cardinality(T) - Cardinality(S \cap T)
  BY FS_Union
<1> QED BY <1>1, <1>2

----------------------------------------------------------------------------
LEMMA OpNumbers ==
  ASSUME DriverTypes
  PROVE  /\ Ids \subseteq Nat /\ nextPromiseId \in Nat /\ MaxOps \in Nat
         /\ nextPromiseId \notin 0 .. nextPromiseId - 1
         /\ nextPromiseId < MaxOps => nextPromiseId \in Ids
         /\ IsFiniteSet(Ids) /\ IsFiniteSet(inflight) /\ Cardinality(inflight) \in Nat
         /\ IsFiniteSet(unrefed_ops) /\ IsFiniteSet(resolved) /\ len \in Nat
<1>1. /\ Ids \subseteq Nat /\ nextPromiseId \in Nat /\ MaxOps \in Nat
      /\ nextPromiseId \notin 0 .. nextPromiseId - 1
      /\ nextPromiseId < MaxOps => nextPromiseId \in Ids
      /\ len \in Nat
  BY DriverAssumption DEF DriverTypes, Ids
<1>2. IsFiniteSet(Ids) /\ IsFiniteSet(0 .. MaxOps)
  BY <1>1, FS_Interval DEF Ids
<1>3. IsFiniteSet(inflight) /\ IsFiniteSet(unrefed_ops) /\ IsFiniteSet(resolved)
  BY <1>2, FS_Subset DEF DriverTypes
<1> QED BY <1>1, <1>2, <1>3, FS_CardinalityType

(* `len` is the number of ops that are not popped. *)
LEMMA LenCounts ==
  ASSUME DriverIInv, pc # "shutdown"
  PROVE  /\ IsFiniteSet(Unpopped) /\ len = Cardinality(Unpopped) /\ len <= nextPromiseId
         /\ Unpopped \subseteq 0 .. nextPromiseId - 1
<1>1. DriverTypes /\ OnePlace /\ CountsOps
  BY DEF DriverIInv
<1>2. /\ IsFiniteSet(Range(completed_ops)) /\ Cardinality(Range(completed_ops)) = Len(completed_ops)
      /\ Len(completed_ops) \in Nat
  BY <1>1, CountOfList DEF DriverTypes, OnePlace
<1>3. IsFiniteSet(Unpopped) /\ len = Cardinality(Unpopped)
  <2>1. inflight \cap Range(completed_ops) = {} /\ IsFiniteSet(inflight)
    BY <1>1, OpNumbers DEF OnePlace
  <2>2. /\ IsFiniteSet(Unpopped)
        /\ Cardinality(Unpopped) = Cardinality(inflight) + Cardinality(Range(completed_ops))
    BY <1>2, <2>1, DisjointUnion DEF Unpopped
  <2> QED BY <1>1, <1>2, <2>2 DEF CountsOps
<1>4. Unpopped \subseteq 0 .. nextPromiseId - 1
  BY <1>1 DEF OnePlace
<1>5. Cardinality(Unpopped) <= nextPromiseId
  <2>1. nextPromiseId \in Nat
    BY <1>1, OpNumbers
  <2>2. IsFiniteSet(0 .. nextPromiseId - 1) /\ Cardinality(0 .. nextPromiseId - 1) = nextPromiseId
    BY <2>1, FS_Interval
  <2> QED BY <1>4, <2>2, FS_Subset
<1> QED BY <1>3, <1>4, <1>5

LEMMA DriverInitial == Init => DriverIInv
<1> SUFFICES ASSUME Init PROVE DriverIInv
  OBVIOUS
<1>1. Range(completed_ops) = {} /\ Range(args) = {} /\ Unpopped = {}
  BY EmptyList DEF Init, Unpopped
<1>2. DriverTypes
  BY DriverAssumption, EmptyList DEF Init, DriverTypes, Ids
<1>3. OnePlace
  BY <1>1, EmptyList DEF Init, OnePlace
<1>4. CountsOps
  BY <1>1, FS_EmptySet DEF Init, CountsOps
<1>5. RefsKept
  BY <1>1 DEF Init, RefsKept
<1> QED BY <1>2, <1>3, <1>4, <1>5 DEF DriverIInv, Init

----------------------------------------------------------------------------
(* Steps that leave every op where it is. *)
LEMMA PlacesStay ==
  ASSUME DriverIInv, UNCHANGED <<nextPromiseId, inflight, completed_ops, args, resolved, len>>,
         finished \subseteq finished', pc # "shutdown"
  PROVE  OnePlace' /\ CountsOps' /\ Unpopped' = Unpopped
<1>1. Unpopped' = Unpopped /\ Range(args)' = Range(args)
      /\ Range(completed_ops)' = Range(completed_ops)
  BY DEF Unpopped, Range
<1>2. OnePlace'
  BY <1>1 DEF DriverIInv, OnePlace
<1>3. CountsOps'
  BY <1>1 DEF DriverIInv, CountsOps
<1> QED BY <1>1, <1>2, <1>3

LEMMA StayKeeps ==
  ASSUME DriverIInv,
         UNCHANGED <<nextPromiseId, inflight, completed_ops, args, resolved, len, unrefed_ops, refd>>,
         finished' \in {finished} \/ (finished \subseteq finished' /\ finished' \subseteq Ids),
         ready_to_run' \subseteq inflight,
         driver' \in {"unspawned", "idle", "woken", "running", "aborted"},
         (pc' \in {"parked", "pop", "js", "done"} /\ pc # "shutdown") \/ pc' = pc,
         pc = "pop" => pc' = "pop"
  PROVE  DriverIInv'
<1>1. DriverTypes' /\ (pc' # "pop" => args' = <<>>)
  BY DEF DriverIInv, DriverTypes
<1>2. ASSUME pc' # "shutdown" PROVE OnePlace' /\ CountsOps' /\ RefsKept'
  <2>1. pc # "shutdown"
    BY <1>2
  <2>2. OnePlace' /\ CountsOps' /\ Unpopped' = Unpopped
    BY <2>1, PlacesStay
  <2> QED BY <2>1, <2>2 DEF DriverIInv, RefsKept
<1> QED BY <1>1, <1>2 DEF DriverIInv

(* ref, unref, and an op that completes eagerly. *)
LEMMA RefKeeps ==
  ASSUME DriverIInv, pc \notin {"shutdown", "pop"},
         UNCHANGED <<nextPromiseId, inflight, ready_to_run, finished, driver, completed_ops, args,
                     resolved, len, pc>>,
         NEW id \in Ids, HasPromise(id),
         \/ unrefed_ops' = unrefed_ops \ {id} /\ refd' = refd \cup {id}
         \/ unrefed_ops' = unrefed_ops \cup {id} /\ refd' = refd \ {id}
  PROVE  DriverIInv'
<1>1. args = <<>> /\ DriverTypes /\ OnePlace /\ RefsKept
  BY DEF DriverIInv
<1>2. id \in Unpopped
  <2>1. id \in 0 .. nextPromiseId - 1 /\ id \notin resolved
    BY <1>1, OpNumbers DEF HasPromise, Ids
  <2> QED BY <1>1, <2>1, EmptyList DEF OnePlace
<1>3. OnePlace' /\ CountsOps' /\ Unpopped' = Unpopped
  BY PlacesStay
<1>4. RefsKept'
  BY <1>1, <1>2, <1>3 DEF RefsKept
<1>5. DriverTypes'
  <2>1. id \in 0 .. MaxOps
    BY DriverAssumption DEF Ids
  <2> QED BY <1>1, <2>1 DEF DriverTypes
<1> QED BY <1>1, <1>3, <1>4, <1>5 DEF DriverIInv

LEMMA SubmitReadyKeeps ==
  ASSUME DriverIInv, SubmitReady PROVE DriverIInv'
<1>1. /\ pc \notin {"shutdown", "pop"} /\ nextPromiseId < MaxOps
      /\ unrefed_ops' = unrefed_ops \cup {nextPromiseId}
      /\ UNCHANGED <<nextPromiseId, inflight, ready_to_run, finished, driver, completed_ops, args,
                     resolved, refd, len, pc>>
  BY DEF SubmitReady, ScriptMayRun, jsVars, taskVars, loopVars
<1>2. OnePlace' /\ CountsOps' /\ Unpopped' = Unpopped
  BY <1>1, PlacesStay
<1>3. RefsKept'
  BY <1>1, <1>2 DEF DriverIInv, RefsKept
<1>4. DriverTypes'
  BY <1>1 DEF DriverIInv, DriverTypes
<1> QED BY <1>1, <1>2, <1>3, <1>4 DEF DriverIInv

LEMMA SubmitKeeps ==
  ASSUME DriverIInv, NEW done \in BOOLEAN, NEW unrefed \in BOOLEAN, Submit(done, unrefed)
  PROVE  DriverIInv'
<1> DEFINE id == nextPromiseId
<1>1. /\ pc \notin {"shutdown", "pop"} /\ id < MaxOps /\ nextPromiseId' = id + 1
      /\ inflight' = inflight \cup {id} /\ ready_to_run' = ready_to_run \cup {id}
      /\ finished' \in {finished, finished \cup {id}} /\ driver' \in {driver, "woken"}
      /\ len' = len + 1
      /\ \/ unrefed_ops' = unrefed_ops \cup {id} /\ refd' = refd
         \/ unrefed_ops' = unrefed_ops /\ refd' = refd \cup {id}
      /\ UNCHANGED <<completed_ops, args, resolved, pc>>
  BY DEF Submit, ScriptMayRun, SpawnWakes, loopVars
<1>2. DriverTypes /\ OnePlace /\ CountsOps /\ RefsKept
  BY <1>1 DEF DriverIInv
<1>3. id \in Ids /\ id \in Nat /\ id \notin 0 .. id - 1 /\ MaxOps \in Nat
  BY <1>1, <1>2, OpNumbers
<1>4. id \notin inflight \cup Range(completed_ops) \cup Range(args) \cup resolved
  BY <1>2, <1>3 DEF OnePlace, Unpopped
<1>5. /\ Range(args)' = Range(args) /\ Range(completed_ops)' = Range(completed_ops)
      /\ Unpopped' = Unpopped \cup {id}
  BY <1>1 DEF Unpopped, Range
<1>6. DriverTypes'
  <2>1. len \in Nat /\ len <= id
    BY <1>1, <1>2, LenCounts, OpNumbers
  <2>2. len' \in 0 .. MaxOps /\ nextPromiseId' \in 0 .. MaxOps /\ id \in 0 .. MaxOps
    BY <1>1, <1>3, <2>1
  <2> QED BY <1>1, <1>2, <1>3, <2>2 DEF DriverTypes
<1>7. OnePlace'
  <2>1. 0 .. nextPromiseId' - 1 = (0 .. id - 1) \cup {id}
    BY <1>1, <1>3
  <2> QED BY <1>1, <1>2, <1>4, <1>5, <2>1 DEF OnePlace, Unpopped
<1>8. CountsOps'
  <2>1. Cardinality(inflight') = Cardinality(inflight) + 1 /\ Cardinality(inflight) \in Nat
    BY <1>1, <1>2, <1>4, OpNumbers, FS_AddElement
  <2>2. Len(completed_ops) \in Nat
    BY <1>2 DEF DriverTypes
  <2> QED BY <1>1, <1>2, <1>5, <2>1, <2>2 DEF CountsOps
<1>9. RefsKept'
  BY <1>1, <1>2, <1>5 DEF RefsKept
<1> QED BY <1>1, <1>6, <1>7, <1>8, <1>9 DEF DriverIInv

(* FuturesUnordered yields a result. *)
LEMMA CompletionKeeps ==
  ASSUME DriverIInv, NEW id \in ready_to_run, DriverPolls(id), id \in finished PROVE DriverIInv'
<1>1. /\ inflight' = inflight \ {id} /\ ready_to_run' = ready_to_run \ {id}
      /\ completed_ops' = Append(completed_ops, id)
      /\ UNCHANGED <<nextPromiseId, finished, driver, args, resolved, refd, len, unrefed_ops, pc>>
  BY DEF DriverPolls, jsVars
<1>2. DriverTypes /\ id \in inflight /\ id \in Ids
  BY DEF DriverIInv, DriverTypes
<1>3. /\ completed_ops' \in Seq(Ids) /\ Range(completed_ops') = Range(completed_ops) \cup {id}
      /\ Distinct(completed_ops) /\ id \notin Range(completed_ops) => Distinct(completed_ops')
  BY <1>1, <1>2, AppendedList DEF DriverTypes
<1>4. DriverTypes'
  BY <1>1, <1>2, <1>3 DEF DriverTypes
<1>5. ASSUME pc # "shutdown" PROVE OnePlace' /\ CountsOps' /\ RefsKept'
  <2>1. OnePlace /\ CountsOps /\ RefsKept
    BY <1>5 DEF DriverIInv
  <2>2. id \notin Range(completed_ops) /\ id \notin Range(args) /\ id \notin resolved
    BY <1>2, <2>1 DEF OnePlace, Unpopped
  <2>3. /\ Range(args)' = Range(args) /\ Range(completed_ops)' = Range(completed_ops) \cup {id}
        /\ Unpopped' = Unpopped
    <3>1. Range(args)' = Range(args) /\ Range(completed_ops)' = Range(completed_ops')
      BY <1>1 DEF Range
    <3> QED BY <1>1, <1>2, <1>3, <3>1 DEF Unpopped
  <2>4. OnePlace'
    BY <1>1, <1>3, <2>1, <2>2, <2>3 DEF OnePlace
  <2>5. CountsOps'
    <3>1. Cardinality(inflight') = Cardinality(inflight) - 1 /\ Cardinality(inflight) \in Nat
      BY <1>1, <1>2, OpNumbers, FS_RemoveElement
    <3>2. Len(completed_ops') = Len(completed_ops) + 1 /\ Len(completed_ops) \in Nat
      BY <1>1, <1>2 DEF DriverTypes
    <3> QED BY <1>1, <2>1, <2>3, <3>1, <3>2 DEF CountsOps
  <2>6. RefsKept'
    BY <1>1, <2>1, <2>3 DEF RefsKept
  <2> QED BY <2>4, <2>5, <2>6
<1> QED BY <1>1, <1>4, <1>5 DEF DriverIInv

LEMMA PopKeeps ==
  ASSUME DriverIInv, PopOp PROVE DriverIInv'
<1> DEFINE id == Head(completed_ops)
<1>1. /\ pc = "pop" /\ completed_ops # <<>> /\ completed_ops' = Tail(completed_ops)
      /\ args' = Append(args, id) /\ len' = len - 1 /\ unrefed_ops' = unrefed_ops \ {id}
      /\ UNCHANGED <<nextPromiseId, inflight, ready_to_run, finished, driver, resolved, refd, pc>>
  BY DEF PopOp, LenAfterPop, UnrefedAfterPop, jsVars, taskVars
<1>2. DriverTypes /\ OnePlace /\ CountsOps /\ RefsKept
  BY <1>1 DEF DriverIInv
<1>3. /\ completed_ops' \in Seq(Ids) /\ id \in Range(completed_ops) /\ id \in Ids
      /\ Range(completed_ops) = Range(completed_ops') \cup {id}
      /\ Distinct(completed_ops') /\ id \notin Range(completed_ops')
      /\ Len(completed_ops') = Len(completed_ops) - 1 /\ Len(completed_ops) \in Nat \ {0}
  BY <1>1, <1>2, TailOfList DEF DriverTypes, OnePlace
<1> HIDE DEF id
<1>4. id \notin Range(args) /\ id \notin inflight /\ id \notin resolved
  BY <1>2, <1>3 DEF OnePlace, Unpopped
<1>5. args' \in Seq(Ids) /\ Range(args') = Range(args) \cup {id} /\ Distinct(args')
  BY <1>1, <1>2, <1>3, <1>4, AppendedList DEF DriverTypes, OnePlace
<1>6. /\ Range(args)' = Range(args) \cup {id}
      /\ Range(completed_ops)' = Range(completed_ops) \ {id}
      /\ Unpopped' = Unpopped \ {id}
  <2>1. Range(args)' = Range(args') /\ Range(completed_ops)' = Range(completed_ops')
    BY DEF Range
  <2> QED BY <1>1, <1>3, <1>4, <1>5, <2>1 DEF Unpopped
<1>7. DriverTypes'
  <2>1. len' \in 0 .. MaxOps
    BY <1>1, <1>2, <1>3, OpNumbers DEF CountsOps, DriverTypes
  <2> QED BY <1>1, <1>2, <1>3, <1>5, <2>1 DEF DriverTypes
<1>8. OnePlace'
  <2>1. id \in Unpopped
    BY <1>3 DEF Unpopped
  <2> QED BY <1>1, <1>2, <1>3, <1>4, <1>5, <1>6, <2>1 DEF OnePlace
<1>9. CountsOps'
  BY <1>1, <1>2, <1>3, <1>6, OpNumbers DEF CountsOps
<1>10. RefsKept'
  BY <1>1, <1>2, <1>6 DEF RefsKept
<1> QED BY <1>1, <1>7, <1>8, <1>9, <1>10 DEF DriverIInv

LEMMA ResolveKeeps ==
  ASSUME DriverIInv, ResolveOps PROVE DriverIInv'
<1>1. /\ pc = "pop" /\ pc' = "js" /\ args' = <<>> /\ resolved' = resolved \cup Range(args)
      /\ UNCHANGED <<nextPromiseId, inflight, ready_to_run, finished, driver, completed_ops, len,
                     unrefed_ops, refd>>
  BY DEF ResolveOps, taskVars
<1>2. DriverTypes /\ OnePlace /\ CountsOps /\ RefsKept
  BY <1>1 DEF DriverIInv
<1>3. /\ Range(args)' = {} /\ Range(completed_ops)' = Range(completed_ops) /\ Unpopped' = Unpopped
  BY <1>1 DEF Unpopped, Range
<1>4. DriverTypes'
  BY <1>1, <1>2, EmptyList DEF DriverTypes
<1>5. OnePlace'
  BY <1>1, <1>2, <1>3, EmptyList DEF OnePlace
<1>6. CountsOps' /\ RefsKept'
  BY <1>1, <1>2, <1>3 DEF CountsOps, RefsKept
<1> QED BY <1>1, <1>4, <1>5, <1>6 DEF DriverIInv

LEMMA DriverInductive == DriverIInv /\ [Next]_vars => DriverIInv'
<1> SUFFICES ASSUME DriverIInv, [Next]_vars PROVE DriverIInv'
  OBVIOUS
<1> USE DEF jsVars, taskVars, loopVars
<1>1. ASSUME NEW id \in Ids, op_ref_op(id) \/ op_unref_op(id) PROVE DriverIInv'
  BY <1>1, RefKeeps DEF op_ref_op, op_unref_op, ScriptMayRun
<1>2. ASSUME NEW id \in Ids, FutureFinishes(id) PROVE DriverIInv'
  <2>1. /\ driver' \in {driver, "woken"} /\ finished' = finished \cup {id}
        /\ ready_to_run' = ready_to_run \cup {id} /\ id \in inflight
    BY <1>2 DEF FutureFinishes
  <2>2. /\ ready_to_run' \subseteq inflight /\ finished' \subseteq Ids
        /\ driver' \in {"unspawned", "idle", "woken", "running", "aborted"}
    BY <2>1 DEF DriverIInv, DriverTypes
  <2> QED BY <1>2, <2>1, <2>2, StayKeeps DEF FutureFinishes
<1>3. CASE DriverStart
  BY <1>3, StayKeeps DEF DriverStart, DriverIInv, DriverTypes
<1>4. ASSUME NEW id \in ready_to_run, DriverPolls(id) PROVE DriverIInv'
  <2>1. CASE id \in finished
    BY <1>4, <2>1, CompletionKeeps
  <2>2. CASE id \notin finished
    BY <1>4, <2>2, StayKeeps DEF DriverPolls, DriverIInv, DriverTypes
  <2> QED BY <2>1, <2>2
<1>5. CASE DriverParks
  BY <1>5, StayKeeps DEF DriverParks, DriverIInv, DriverTypes
<1>6. CASE StartTick
  BY <1>6, StayKeeps DEF StartTick, DriverIInv, DriverTypes
<1>7. CASE Evaluate
  BY <1>7, StayKeeps DEF Evaluate, DriverIInv, DriverTypes
<1>8. CASE RunAgain
  BY <1>8, StayKeeps DEF RunAgain, DriverIInv, DriverTypes
<1>9. CASE Shutdown
  BY <1>9, EmptyList DEF Shutdown, DriverIInv, DriverTypes
<1>10. CASE UNCHANGED vars
  BY <1>10, StayKeeps DEF vars, DriverIInv, DriverTypes
<1> QED BY <1>1, <1>2, <1>3, <1>4, <1>5, <1>6, <1>7, <1>8, <1>9, <1>10, SubmitKeeps, SubmitReadyKeeps,
           PopKeeps, ResolveKeeps
        DEF Next, DriverStep, LoopStep

LEMMA DriverFlagsKeep == DriverFlags /\ [Next]_vars => DriverFlags'
<1> SUFFICES ASSUME DriverFlags, [Next]_vars PROVE DriverFlags'
  OBVIOUS
<1> USE DEF DriverFlags, jsVars, taskVars, loopVars
<1>1. ASSUME NEW done \in BOOLEAN, NEW unrefed \in BOOLEAN, Submit(done, unrefed) PROVE DriverFlags'
  BY <1>1 DEF Submit
<1>2. ASSUME NEW id \in Ids, op_ref_op(id) \/ op_unref_op(id) \/ FutureFinishes(id) PROVE DriverFlags'
  BY <1>2 DEF op_ref_op, op_unref_op, FutureFinishes
<1>3. ASSUME NEW id \in ready_to_run, DriverPolls(id) PROVE DriverFlags'
  BY <1>3 DEF DriverPolls, WakeOnCompletion
<1>4. CASE SubmitReady \/ DriverStart \/ DriverParks
  BY <1>4 DEF SubmitReady, DriverStart, DriverParks
<1>5. CASE LoopStep
  BY <1>5 DEF LoopStep, StartTick, PopOp, ResolveOps, Evaluate
<1>6. CASE RunAgain \/ Shutdown \/ UNCHANGED vars
  BY <1>6 DEF RunAgain, Shutdown, vars
<1> QED BY <1>1, <1>2, <1>3, <1>4, <1>5, <1>6 DEF Next, DriverStep

LEMMA DriverIInvAccounts == DriverIInv /\ DriverFlags => OpsAccountedFor
<1> SUFFICES ASSUME DriverIInv, DriverFlags PROVE OpsAccountedFor
  OBVIOUS
<1>1. TypeOK
  BY DEF TypeOK, DriverIInv, DriverTypes, DriverFlags
<1>2. ASSUME pc # "shutdown"
      PROVE  /\ Outstanding \cup resolved = 0 .. nextPromiseId - 1
             /\ Cardinality(inflight) + Len(completed_ops) + Len(args) + Cardinality(resolved)
                  = nextPromiseId
             /\ len = Cardinality(inflight) + Len(completed_ops)
             /\ resolved \cup Range(completed_ops) \subseteq finished
  <2>1. DriverTypes /\ OnePlace /\ CountsOps
    BY <1>2 DEF DriverIInv
  <2>2. IsFiniteSet(Unpopped) /\ len = Cardinality(Unpopped) /\ len \in Nat
    BY <1>2, <2>1, LenCounts, OpNumbers
  <2>3. IsFiniteSet(Range(args)) /\ Cardinality(Range(args)) = Len(args) /\ Len(args) \in Nat
    BY <2>1, CountOfList DEF DriverTypes, OnePlace
  <2>4. IsFiniteSet(resolved) /\ Cardinality(resolved) \in Nat /\ nextPromiseId \in Nat
    BY <2>1, OpNumbers, FS_CardinalityType
  <2>5. /\ IsFiniteSet(Unpopped \cup Range(args))
        /\ Cardinality(Unpopped \cup Range(args)) = len + Len(args)
    <3>1. Unpopped \cap Range(args) = {}
      BY <2>1 DEF OnePlace
    <3>2. /\ IsFiniteSet(Unpopped \cup Range(args))
          /\ Cardinality(Unpopped \cup Range(args)) = Cardinality(Unpopped) + Cardinality(Range(args))
      BY <2>2, <2>3, <3>1, DisjointUnion
    <3> QED BY <2>2, <2>3, <3>2
  <2>6. Cardinality((Unpopped \cup Range(args)) \cup resolved) = len + Len(args) + Cardinality(resolved)
    <3>1. (Unpopped \cup Range(args)) \cap resolved = {}
      BY <2>1 DEF OnePlace
    <3>2. Cardinality((Unpopped \cup Range(args)) \cup resolved)
            = Cardinality(Unpopped \cup Range(args)) + Cardinality(resolved)
      BY <2>4, <2>5, <3>1, DisjointUnion
    <3> QED BY <2>5, <3>2
  <2>7. Cardinality(0 .. nextPromiseId - 1) = nextPromiseId
    BY <2>4, FS_Interval
  <2>8. (Unpopped \cup Range(args)) \cup resolved = 0 .. nextPromiseId - 1
    BY <2>1 DEF OnePlace
  <2>9. Outstanding = Unpopped \cup Range(args)
    BY DEF Outstanding, Unpopped
  <2> QED BY <2>1, <2>6, <2>7, <2>8, <2>9 DEF CountsOps
<1> QED BY <1>1, <1>2 DEF OpsAccountedFor

(* Every op that went to the driver is with the futures, completed, being  *)
(* dispatched or resolved, and in one of these places only; a promise is   *)
(* settled only with a result, and `len` counts what is left to dispatch.  *)
THEOREM OpsAreAccountedFor == Spec => []OpsAccountedFor
<1>1. Init => DriverFlags
  BY DEF Init, DriverFlags
<1> QED BY <1>1, DriverInitial, DriverInductive, DriverFlagsKeep, DriverIInvAccounts, PTL DEF Spec

(* The event loop ends exactly when no op outstanding is ref'd, by         *)
(* has_pending_refed_ops comparing two counts only, unless an op that      *)
(* completed eagerly left its id in unrefed_ops.                           *)
THEOREM LoopExitsExactlyWhenUnrefed == Spec => ExitsExactlyWhenUnrefed
<1>1. ASSUME DriverIInv, [Next]_vars
      PROVE  [pc = "js" /\ pc' # "js" /\ ~EagerLeftover =>
                (pc' = "done" <=> \A id \in Outstanding : id \notin refd)]_vars
  <2> SUFFICES ASSUME Next, pc = "js", pc' # "js", ~EagerLeftover
               PROVE  pc' = "done" <=> \A id \in Outstanding : id \notin refd
    BY <1>1 DEF vars
  <2>1. Evaluate
    BY DEF Next, Submit, SubmitReady, op_ref_op, op_unref_op, FutureFinishes, DriverStep, DriverStart,
           DriverPolls, DriverParks, LoopStep, StartTick, PopOp, ResolveOps, RunAgain, Shutdown, loopVars
  <2>2. Outstanding = Unpopped
    BY <1>1, EmptyList DEF Outstanding, Unpopped, DriverIInv
  <2>3. RefsKept /\ DriverTypes
    BY <1>1 DEF DriverIInv
  <2>4. unrefed_ops \subseteq Unpopped /\ unrefed_ops \cap refd = {}
    BY <2>3 DEF EagerLeftover, RefsKept
  <2>5. IsFiniteSet(Unpopped) /\ len = Cardinality(Unpopped)
    BY <1>1, LenCounts
  <2>6. /\ IsFiniteSet(unrefed_ops) /\ Cardinality(unrefed_ops) \in Nat /\ Cardinality(Unpopped) \in Nat
        /\ Cardinality(unrefed_ops) <= Cardinality(Unpopped)
        /\ Cardinality(unrefed_ops) = Cardinality(Unpopped) <=> unrefed_ops = Unpopped
    BY <2>4, <2>5, FS_Subset, FS_CardinalityType
  <2>7. KeepsAlive <=> unrefed_ops # Unpopped
    BY <2>5, <2>6 DEF KeepsAlive
  <2>8. unrefed_ops = Unpopped <=> \A id \in Unpopped : id \notin refd
    BY <2>3, <2>4 DEF RefsKept
  <2> QED BY <2>1, <2>2, <2>7, <2>8 DEF Evaluate
<1> QED BY <1>1, DriverInitial, DriverInductive, PTL DEF Spec, ExitsExactlyWhenUnrefed

----------------------------------------------------------------------------
(***************************************************************************)
(* PromiseRing implements PromiseTable.  First, division with remainder.   *)
(***************************************************************************)
LEMMA Division ==
  ASSUME NEW n \in Nat, NEW r \in Nat \ {0}
  PROVE  n \div r \in Nat /\ n % r \in 0 .. r - 1 /\ n = r * (n \div r) + (n % r)
OBVIOUS

LEMMA DivisionIsUnique ==
  ASSUME NEW r \in Nat \ {0}, NEW p \in Int, NEW q \in Int, NEW a \in 0 .. r - 1, NEW b \in 0 .. r - 1,
         r * p + a = r * q + b
  PROVE  p = q /\ a = b
<1>1. r * (p - q) = b - a
  OBVIOUS
<1>2. CASE p - q >= 1
  <2>1. r * (p - q) >= r
    BY <1>2
  <2> QED BY <1>1, <2>1
<1>3. CASE p - q <= -1
  <2>1. r * (p - q) <= -r
    BY <1>3
  <2> QED BY <1>1, <2>1
<1>4. CASE p = q
  BY <1>1, <1>4
<1> QED BY <1>2, <1>3, <1>4

(* Calls one lap apart share a slot, and nearer ones do not. *)
LEMMA LapSameSlot ==
  ASSUME NEW n \in Nat, n >= RingSize PROVE (n - RingSize) % RingSize = n % RingSize
<1> DEFINE r == RingSize
           m == n - r
<1>1. r \in Nat \ {0} /\ m \in Nat
  BY RingAssumption
<1> HIDE DEF m
<1>2. /\ n \div r \in Nat /\ n % r \in 0 .. r - 1 /\ n = r * (n \div r) + (n % r)
      /\ m \div r \in Nat /\ m % r \in 0 .. r - 1 /\ m = r * (m \div r) + (m % r)
  BY <1>1, Division
<1>3. r * ((m \div r) + 1) = r * (m \div r) + r
  BY <1>1, <1>2
<1>4. r * ((m \div r) + 1) + (m % r) = r * (n \div r) + (n % r)
  BY <1>1, <1>2, <1>3 DEF m
<1>5. (m \div r) + 1 \in Int /\ n \div r \in Int
  BY <1>2
<1> DEFINE p == (m \div r) + 1
           q == n \div r
           a == m % r
           b == n % r
<1>6. /\ p \in Int /\ q \in Int /\ a \in 0 .. r - 1 /\ b \in 0 .. r - 1
      /\ r * p + a = r * q + b /\ r \in Nat \ {0}
  BY <1>1, <1>2, <1>4, <1>5
<1> HIDE DEF p, q, a, b, r
<1>7. a = b
  BY <1>6, DivisionIsUnique
<1> QED BY <1>7 DEF a, b, m, r

LEMMA NearOtherSlot ==
  ASSUME NEW m \in Nat, NEW n \in Nat, m < n, m % RingSize = n % RingSize PROVE n - m >= RingSize
<1> DEFINE r == RingSize
           p == m \div r
           q == n \div r
<1>1. r \in Nat \ {0}
  BY RingAssumption
<1>2. /\ q \in Nat /\ n % r \in 0 .. r - 1 /\ n = r * q + (n % r)
      /\ p \in Nat /\ m = r * p + (n % r)
  BY <1>1, Division
<1> HIDE DEF p, q
<1>3. n - m = r * (q - p)
  BY <1>1, <1>2
<1>4. CASE q <= p
  <2>1. r * (q - p) <= 0
    BY <1>1, <1>2, <1>4
  <2> QED BY <1>2, <1>3, <2>1
<1>5. CASE q - p >= 1
  <2>1. r * (q - p) >= r
    BY <1>1, <1>2, <1>5
  <2> QED BY <1>3, <2>1
<1> QED BY <1>2, <1>4, <1>5

LEMMA SlotRange ==
  ASSUME NEW n \in Nat PROVE n % RingSize \in 0 .. RingSize - 1 /\ Rem(n, RingSize) = n % RingSize
<1>1. RingSize \in Nat /\ RingSize > 0
  BY RingAssumption
<1> QED BY <1>1 DEF Rem

LEMMA NoWrap ==
  ASSUME NEW n \in Nat, n < Half PROVE ToInt32(n) = n
<1>1. Half \in Nat /\ Half > 0
  BY RingAssumption
<1>2. (n + Half) % (2 * Half) = n + Half
  BY <1>1
<1> QED BY <1>1, <1>2 DEF ToInt32

(***************************************************************************)
(* As long as the ids do not wrap, a call's id is its number: the ring     *)
(* holds the unsettled calls of the last lap, each in its slot, and the    *)
(* map the older ones.                                                     *)
(***************************************************************************)
RingIInv ==
  /\ calls \in Nat /\ calls <= MaxCalls /\ nextId = calls
  /\ DOMAIN idOf = 0 .. calls - 1 /\ \A c \in 0 .. calls - 1 : idOf[c] = c
  /\ unreported \subseteq 0 .. calls - 1 /\ missing = FALSE
  /\ promiseRing \in [Slots -> Int]
  /\ \A i \in Slots : \/ promiseRing[i] \in {NO_PROMISE, NeverWritten}
                      \/ promiseRing[i] \in unreported
  /\ \A i \in 0 .. RingSize - 1 :
       \/ promiseRing[i] = NO_PROMISE
       \/ /\ promiseRing[i] \in unreported /\ promiseRing[i] >= calls - RingSize
          /\ promiseRing[i] % RingSize = i
  /\ \A i \in (1 - RingSize) .. -1 : promiseRing[i] = NeverWritten
  /\ \A c \in unreported : c >= calls - RingSize => promiseRing[c % RingSize] = c
  /\ DOMAIN promiseMap = {c \in unreported : c < calls - RingSize}
  /\ \A c \in DOMAIN promiseMap : promiseMap[c] = c

LEMMA HeldIsUnreported ==
  ASSUME RingIInv PROVE Held = unreported
<1>1. unreported \subseteq Nat /\ RingSize \in Nat \ {0} /\ calls \in Nat
  BY RingAssumption DEF RingIInv
<1>2. ASSUME NEW c \in unreported PROVE c \in Held
  <2>1. CASE c >= calls - RingSize
    <3>1. promiseRing[c % RingSize] = c
      BY <2>1 DEF RingIInv
    <3>2. c % RingSize \in Slots
      BY <1>1, SlotRange DEF Slots
    <3>3. IsPromise(c)
      BY <1>1 DEF IsPromise
    <3> QED BY <3>1, <3>2, <3>3 DEF Held
  <2>2. CASE ~(c >= calls - RingSize)
    <3>1. c \in DOMAIN promiseMap /\ promiseMap[c] = c
      BY <1>1, <2>2 DEF RingIInv
    <3> QED BY <3>1 DEF Held
  <2> QED BY <2>1, <2>2
<1>3. ASSUME NEW c \in Held PROVE c \in unreported
  <2>1. CASE \E i \in Slots : promiseRing[i] = c /\ IsPromise(c)
    BY <2>1 DEF RingIInv, IsPromise, NO_PROMISE, NeverWritten
  <2>2. CASE \E i \in DOMAIN promiseMap : promiseMap[i] = c
    BY <2>2 DEF RingIInv
  <2> QED BY <1>3, <2>1, <2>2 DEF Held
<1> QED BY <1>2, <1>3

LEMMA RingInitial ==
  ASSUME RingInit PROVE RingIInv
<1>1. RingSize \in Nat /\ RingSize > 0 /\ MaxCalls \in Nat
  BY RingAssumption
<1>2. calls = 0 /\ 0 .. calls - 1 = {}
  BY DEF RingInit
<1>3. /\ promiseRing \in [Slots -> Int]
      /\ \A i \in 0 .. RingSize - 1 : i \in Slots /\ promiseRing[i] = NO_PROMISE
      /\ \A i \in (1 - RingSize) .. -1 : i \in Slots /\ promiseRing[i] = NeverWritten
      /\ \A i \in Slots : promiseRing[i] \in {NO_PROMISE, NeverWritten}
  <2>1. \A i \in 0 .. RingSize - 1 : i \in Slots /\ i >= 0
    BY <1>1 DEF Slots
  <2>2. \A i \in (1 - RingSize) .. -1 : i \in Slots /\ ~(i >= 0)
    BY <1>1 DEF Slots
  <2> QED BY <2>1, <2>2 DEF RingInit, NO_PROMISE, NeverWritten
<1>4. DOMAIN idOf = {} /\ DOMAIN promiseMap = {} /\ unreported = {} /\ missing = FALSE /\ nextId = 0
  BY DEF RingInit
<1> QED BY <1>1, <1>2, <1>3, <1>4 DEF RingIInv

(* A call: the slot's old promise, if it has one, is that of the call one  *)
(* lap before.                                                             *)
LEMMA CallKeeps ==
  ASSUME MaxCalls < Half, RingIInv, async_op
  PROVE  RingIInv' /\ unreported' = unreported \cup {calls}
<1> DEFINE slot == calls % RingSize
           lap == calls - RingSize
<1>1. /\ RingSize \in Nat /\ RingSize > 0 /\ calls \in Nat /\ calls < MaxCalls /\ MaxCalls \in Nat
      /\ Half \in Nat
  BY RingAssumption DEF RingIInv, async_op
<1>2. Rem(calls, RingSize) = slot /\ slot \in 0 .. RingSize - 1 /\ slot \in Slots
  BY <1>1, SlotRange DEF Slots
<1>3. ToInt32(calls + 1) = calls + 1
  BY <1>1, NoWrap
<1>4. /\ nextId' = calls + 1 /\ promiseMap' = MapAfterEviction(calls)
      /\ promiseRing' = [promiseRing EXCEPT ![slot] = calls]
      /\ calls' = calls + 1 /\ unreported' = unreported \cup {calls} /\ missing' = missing
      /\ idOf' = [c \in DOMAIN idOf \cup {calls} |-> IF c = calls THEN calls ELSE idOf[c]]
  BY <1>2, <1>3 DEF async_op, RingIInv
<1>5. \A c \in unreported : c \in Nat /\ c < calls
  BY <1>1 DEF RingIInv
<1>6. /\ DOMAIN idOf' = 0 .. calls' - 1 /\ \A c \in 0 .. calls' - 1 : idOf'[c] = c
      /\ unreported' \subseteq 0 .. calls' - 1
  <2>1. 0 .. calls' - 1 = (0 .. calls - 1) \cup {calls}
    BY <1>1, <1>4
  <2> QED BY <1>1, <1>4, <2>1 DEF RingIInv
<1>7. /\ promiseRing' \in [Slots -> Int] /\ promiseRing'[slot] = calls
      /\ \A i \in Slots \ {slot} : promiseRing'[i] = promiseRing[i]
  BY <1>1, <1>2, <1>4 DEF RingIInv
<1>8. ASSUME NEW c \in unreported, c >= lap, c % RingSize = slot PROVE c = lap
  <2>1. c \in Nat /\ c < calls
    BY <1>5
  <2>2. calls - c >= RingSize
    BY <1>1, <1>8, <2>1, NearOtherSlot
  <2> QED BY <1>1, <1>8, <2>1, <2>2
<1>9. \/ promiseRing[slot] = NO_PROMISE /\ lap \notin unreported
      \/ promiseRing[slot] = lap /\ lap \in unreported
  <2>1. lap \in unreported => promiseRing[slot] = lap
    <3> SUFFICES ASSUME lap \in unreported PROVE promiseRing[slot] = lap
      OBVIOUS
    <3>1. lap % RingSize = slot
      BY <1>1, <1>5, LapSameSlot
    <3> QED BY <1>1, <1>5, <3>1 DEF RingIInv
  <2>2. \/ promiseRing[slot] = NO_PROMISE
        \/ /\ promiseRing[slot] \in unreported /\ promiseRing[slot] >= lap
           /\ promiseRing[slot] % RingSize = slot
    BY <1>2 DEF RingIInv
  <2>3. NO_PROMISE \notin unreported
    BY <1>5 DEF NO_PROMISE
  <2> QED BY <1>8, <2>1, <2>2, <2>3
<1>10. /\ DOMAIN promiseMap' = DOMAIN promiseMap \cup (IF lap \in unreported THEN {lap} ELSE {})
       /\ \A c \in DOMAIN promiseMap' : promiseMap'[c] = c
  <2>1. NO_PROMISE \notin unreported
    BY <1>5 DEF NO_PROMISE
  <2> QED BY <1>2, <1>4, <1>9, <2>1 DEF MapAfterEviction, MustMove, Evicted, RingIInv
<1>11. DOMAIN promiseMap' = {c \in unreported' : c < calls' - RingSize}
  <2>1. \A c \in unreported : c < calls + 1 - RingSize <=> c < lap \/ c = lap
    BY <1>1, <1>5
  <2>2. ~(calls < calls + 1 - RingSize)
    BY <1>1
  <2>3. DOMAIN promiseMap = {c \in unreported : c < lap}
    BY DEF RingIInv
  <2>4. calls' - RingSize = calls + 1 - RingSize
    BY <1>1, <1>4
  <2> HIDE DEF lap
  <2> QED BY <1>4, <1>10, <2>1, <2>2, <2>3, <2>4
<1>12. \A i \in Slots : \/ promiseRing'[i] \in {NO_PROMISE, NeverWritten}
                        \/ promiseRing'[i] \in unreported'
  BY <1>4, <1>7 DEF RingIInv
<1>13. ASSUME NEW i \in 0 .. RingSize - 1
       PROVE  \/ promiseRing'[i] = NO_PROMISE
              \/ /\ promiseRing'[i] \in unreported' /\ promiseRing'[i] >= calls' - RingSize
                 /\ promiseRing'[i] % RingSize = i
  <2>1. CASE i = slot
    BY <1>1, <1>4, <1>7, <2>1
  <2>2. CASE i # slot /\ promiseRing[i] # NO_PROMISE
    <3>1. /\ promiseRing'[i] = promiseRing[i] /\ promiseRing[i] \in unreported
          /\ promiseRing[i] >= lap /\ promiseRing[i] % RingSize = i
      BY <1>1, <1>7, <2>2 DEF RingIInv, Slots
    <3>2. promiseRing[i] # lap
      BY <1>1, <1>5, <2>2, <3>1, LapSameSlot
    <3> QED BY <1>1, <1>4, <1>5, <3>1, <3>2
  <2>3. CASE i # slot /\ promiseRing[i] = NO_PROMISE
    BY <1>1, <1>7, <2>3 DEF Slots
  <2> QED BY <2>1, <2>2, <2>3
<1>14. \A i \in (1 - RingSize) .. -1 : promiseRing'[i] = NeverWritten
  BY <1>1, <1>2, <1>7 DEF RingIInv, Slots
<1>15. ASSUME NEW c \in unreported', c >= calls' - RingSize PROVE promiseRing'[c % RingSize] = c
  <2>1. CASE c = calls
    BY <1>7, <2>1
  <2>2. CASE c # calls
    <3>1. c \in unreported /\ c >= lap /\ c # lap
      BY <1>1, <1>4, <1>5, <1>15, <2>2
    <3>2. c % RingSize # slot /\ promiseRing[c % RingSize] = c /\ c % RingSize \in Slots
      BY <1>1, <1>5, <1>8, <3>1, SlotRange DEF RingIInv, Slots
    <3> QED BY <1>7, <3>2
  <2> QED BY <2>1, <2>2
<1>16. calls' \in Nat /\ calls' <= MaxCalls /\ nextId' = calls' /\ missing' = FALSE
  BY <1>1, <1>4 DEF RingIInv
<1> HIDE DEF slot, lap
<1> QED BY <1>4, <1>6, <1>7, <1>10, <1>11, <1>12, <1>13, <1>14, <1>15, <1>16 DEF RingIInv

(* The completion of an op finds the promise of its own call. *)
LEMMA SettlesOwnCall ==
  ASSUME RingIInv, NEW c \in unreported, ResolveFromMap(c) \/ ResolveFromRing(c)
  PROVE  /\ RingIInv' /\ unreported' = unreported \ {c}
         /\ settled' = settled \cup {<<c, c>>} /\ calls' = calls
<1>1. /\ RingSize \in Nat /\ RingSize > 0 /\ calls \in Nat /\ c \in Nat /\ c < calls /\ nextId = calls
      /\ idOf[c] = c /\ unreported \subseteq Nat
  BY RingAssumption DEF RingIInv
<1>2. unreported' = unreported \ {c} /\ UNCHANGED <<nextId, calls, idOf>>
  BY DEF ResolveFromMap, ResolveFromRing
<1>3. OutOfBounds(c) <=> c < calls - RingSize
  BY <1>1 DEF OutOfBounds
<1>4. CASE ResolveFromMap(c)
  <2>1. c < calls - RingSize /\ c \in DOMAIN promiseMap /\ promiseMap[c] = c
    BY <1>1, <1>3, <1>4 DEF ResolveFromMap, RingIInv
  <2>2. IsPromise(c)
    BY <1>1 DEF IsPromise
  <2>3. /\ settled' = settled \cup {<<c, c>>} /\ UNCHANGED <<missing, promiseRing>>
        /\ promiseMap' = [i \in DOMAIN promiseMap \ {c} |-> promiseMap[i]]
    BY <1>1, <1>4, <2>1, <2>2 DEF ResolveFromMap, SettleCall
  <2>4. \A i \in 0 .. RingSize - 1 : promiseRing[i] # c
    BY <1>1, <2>1 DEF RingIInv, NO_PROMISE
  <2>5. \A i \in Slots : promiseRing[i] # c
    BY <1>1, <2>4 DEF RingIInv, Slots, NeverWritten
  <2>6. DOMAIN promiseMap' = DOMAIN promiseMap \ {c} /\ \A i \in DOMAIN promiseMap' : promiseMap'[i] = i
    BY <2>3 DEF RingIInv
  <2>7. RingIInv'
    BY <1>1, <1>2, <2>3, <2>4, <2>5, <2>6 DEF RingIInv
  <2> QED BY <1>2, <2>3, <2>7
<1>5. CASE ResolveFromRing(c)
  <2> DEFINE slot == c % RingSize
  <2>1. Rem(c, RingSize) = slot /\ slot \in 0 .. RingSize - 1 /\ slot \in Slots
    BY <1>1, SlotRange DEF Slots
  <2>2. ~(c < calls - RingSize) /\ promiseRing[slot] = c
    BY <1>1, <1>3, <1>5 DEF ResolveFromRing, RingIInv
  <2>3. IsPromise(c)
    BY <1>1 DEF IsPromise
  <2>4. /\ settled' = settled \cup {<<c, c>>} /\ UNCHANGED <<missing, promiseMap>>
        /\ promiseRing' = [promiseRing EXCEPT ![slot] = NO_PROMISE]
    BY <1>1, <1>5, <2>1, <2>2, <2>3 DEF ResolveFromRing, SettleCall
  <2>5. /\ promiseRing' \in [Slots -> Int] /\ promiseRing'[slot] = NO_PROMISE
        /\ \A i \in Slots \ {slot} : promiseRing'[i] = promiseRing[i]
    BY <2>1, <2>4 DEF RingIInv, NO_PROMISE
  <2>6. \A i \in 0 .. RingSize - 1 : i # slot => promiseRing[i] # c
    BY <1>1 DEF RingIInv, NO_PROMISE
  <2>7. \A i \in Slots \ {slot} : promiseRing[i] # c
    BY <1>1, <2>6 DEF RingIInv, Slots, NeverWritten
  <2>8. \A i \in 0 .. RingSize - 1 :
          \/ promiseRing'[i] = NO_PROMISE
          \/ /\ promiseRing'[i] \in unreported' /\ promiseRing'[i] >= calls' - RingSize
             /\ promiseRing'[i] % RingSize = i
    <3> SUFFICES ASSUME NEW i \in 0 .. RingSize - 1, i # slot, promiseRing'[i] # NO_PROMISE
                 PROVE  /\ promiseRing'[i] \in unreported' /\ promiseRing'[i] >= calls' - RingSize
                        /\ promiseRing'[i] % RingSize = i
      BY <2>5
    <3>1. i \in Slots \ {slot} /\ promiseRing'[i] = promiseRing[i]
      BY <1>1, <2>5 DEF Slots
    <3>2. /\ promiseRing[i] \in unreported /\ promiseRing[i] >= calls - RingSize
          /\ promiseRing[i] % RingSize = i
      BY <3>1 DEF RingIInv
    <3> QED BY <1>2, <2>6, <3>1, <3>2
  <2>9. \A i \in (1 - RingSize) .. -1 : promiseRing'[i] = NeverWritten
    BY <1>1, <2>1, <2>5 DEF RingIInv, Slots
  <2>10. ASSUME NEW d \in unreported', d >= calls' - RingSize PROVE promiseRing'[d % RingSize] = d
    <3>1. d \in unreported /\ d # c /\ promiseRing[d % RingSize] = d
      BY <1>2, <2>10 DEF RingIInv
    <3>2. d % RingSize # slot /\ d % RingSize \in Slots
      BY <1>1, <2>2, <3>1, SlotRange DEF Slots
    <3> QED BY <2>5, <3>1, <3>2
  <2>11. DOMAIN promiseMap' = {d \in unreported' : d < calls' - RingSize}
    BY <1>2, <2>2, <2>4 DEF RingIInv
  <2>12. \A i \in Slots : promiseRing'[i] \in {NO_PROMISE, NeverWritten} \/ promiseRing'[i] \in unreported'
    BY <1>2, <2>5, <2>7 DEF RingIInv
  <2> HIDE DEF slot
  <2>13. RingIInv'
    BY <1>2, <2>4, <2>5, <2>8, <2>9, <2>10, <2>11, <2>12 DEF RingIInv
  <2> QED BY <1>2, <2>4, <2>13
<1> QED BY <1>4, <1>5

LEMMA RingInductive ==
  ASSUME MaxCalls < Half, RingIInv, [RingNext]_ringVars PROVE RingIInv'
<1>1. CASE UNCHANGED ringVars
  BY <1>1 DEF RingIInv, ringVars
<1> QED BY <1>1, CallKeeps, SettlesOwnCall DEF RingNext

LEMMA RingTypes ==
  ASSUME RingIInv, MaxCalls < Half PROVE RingTypeOK
<1>1. /\ RingSize \in Nat /\ RingSize > 0 /\ calls \in Nat /\ calls <= MaxCalls /\ MaxCalls \in Nat
      /\ Half \in Nat /\ nextId = calls
  BY RingAssumption DEF RingIInv
<1>2. nextId \in -Half .. Half - 1
  BY <1>1
<1>3. promiseRing \in [Slots -> {NO_PROMISE, NeverWritten} \cup 0 .. calls - 1]
  <2>1. \A i \in Slots : promiseRing[i] \in {NO_PROMISE, NeverWritten} \cup 0 .. calls - 1
    BY DEF RingIInv
  <2> QED BY <2>1 DEF RingIInv
<1> QED BY <1>1, <1>2, <1>3 DEF RingIInv, RingTypeOK

LEMMA HasPromiseIsExact ==
  ASSUME RingIInv PROVE HasPromiseExact
<1> SUFFICES ASSUME NEW c \in 0 .. calls - 1 PROVE hasPromise(c) <=> c \in unreported
  BY DEF RingIInv, HasPromiseExact
<1>1. /\ RingSize \in Nat /\ RingSize > 0 /\ calls \in Nat /\ c \in Nat /\ nextId = calls /\ c < calls
      /\ unreported \subseteq 0 .. calls - 1
  BY RingAssumption DEF RingIInv
<1>2. CASE c < calls - RingSize
  BY <1>1, <1>2 DEF hasPromise, OutOfBounds, RingIInv
<1>3. CASE ~(c < calls - RingSize)
  <2> DEFINE slot == c % RingSize
             p == promiseRing[slot]
  <2>1. Rem(c, RingSize) = slot /\ slot \in 0 .. RingSize - 1
    BY <1>1, SlotRange
  <2>2. hasPromise(c) <=> IsPromise(p)
    BY <1>1, <1>3, <2>1 DEF hasPromise, OutOfBounds
  <2>3. p = NO_PROMISE \/ (p \in unreported /\ p >= calls - RingSize /\ p % RingSize = slot)
    BY <2>1 DEF RingIInv
  <2>4. c \in unreported => p = c
    BY <1>1, <1>3 DEF RingIInv
  <2> HIDE DEF p
  <2>5. p \in unreported /\ p >= calls - RingSize /\ p % RingSize = slot => p = c
    <3> SUFFICES ASSUME p \in unreported, p >= calls - RingSize, p % RingSize = slot PROVE p = c
      OBVIOUS
    <3>1. p \in Nat /\ p < calls
      BY <1>1
    <3>2. CASE p < c
      <4>1. c - p >= RingSize
        BY <1>1, <3>1, <3>2, NearOtherSlot
      <4> QED BY <1>1, <3>1, <4>1
    <3>3. CASE c < p
      <4>1. p - c >= RingSize
        BY <1>1, <3>1, <3>3, NearOtherSlot
      <4> QED BY <1>1, <1>3, <3>1, <4>1
    <3> QED BY <1>1, <3>1, <3>2, <3>3
  <2>6. p = NO_PROMISE => ~IsPromise(p)
    BY DEF IsPromise, NO_PROMISE
  <2>7. c \in unreported => IsPromise(p)
    BY <1>1, <2>4 DEF IsPromise
  <2> QED BY <2>2, <2>3, <2>5, <2>6, <2>7
<1> QED BY <1>2, <1>3

(* The ring with its map is a promise table: for any ring size and any     *)
(* number of pending promises, a completion settles the promise of its own *)
(* call, and hasPromise is exact, as long as fewer calls are made than     *)
(* there are nonnegative ids.                                              *)
THEOREM RingImplementsTable ==
  ASSUME MaxCalls < Half PROVE RingSpec => RefinesTable
<1>1. RingInit => RingIInv
  BY RingInitial
<1>2. RingIInv /\ [RingNext]_ringVars => RingIInv'
  BY RingInductive
<1>3. RingIInv => RingTypeOK /\ HasPromiseExact
  BY RingTypes, HasPromiseIsExact
<1>4. RingInit => Table!Init
  <2> SUFFICES ASSUME RingInit PROVE Table!Init
    OBVIOUS
  <2>1. Held = {}
    BY RingInitial, HeldIsUnreported DEF RingInit
  <2> QED BY <2>1 DEF RingInit, Table!Init
<1>5. RingIInv => Held = unreported
  BY HeldIsUnreported
<1>6. RingIInv' => (Held = unreported)'
  BY <1>5, PTL
<1>7. RingIInv /\ RingIInv' /\ [RingNext]_ringVars => [Table!Next]_(Table!vars)
  <2> SUFFICES ASSUME RingIInv, RingIInv', [RingNext]_ringVars PROVE [Table!Next]_(Table!vars)
    OBVIOUS
  <2>1. Held = unreported /\ Held' = unreported'
    BY <1>5, <1>6
  <2>2. CASE async_op
    <3>1. Table!Call
      BY <2>1, <2>2, CallKeeps DEF Table!Call, async_op
    <3> QED BY <3>1 DEF Table!Next
  <2>3. ASSUME NEW c \in unreported, ResolveFromMap(c) \/ ResolveFromRing(c) PROVE Table!Next
    <3>1. Table!Complete(c)
      BY <2>1, <2>3, SettlesOwnCall DEF Table!Complete
    <3> QED BY <2>1, <3>1 DEF Table!Next
  <2>4. CASE UNCHANGED ringVars
    BY <2>1, <2>4 DEF ringVars, Table!vars
  <2> QED BY <2>2, <2>3, <2>4 DEF RingNext
<1> QED BY <1>1, <1>2, <1>3, <1>4, <1>7, PTL DEF RingSpec, RefinesTable, Table!Spec

(***************************************************************************)
(* Op2's metrics, for any ops, any values and any number of calls.  Before *)
(* the macro has run nothing is counted.                                   *)
(***************************************************************************)
StatsType == [dispatched : Nat, completed : Nat, pending : Nat, calls : Nat]

Op2IInv ==
  /\ op2stats \in StatsType
  /\ op2.k = "source" => op2stats = Summary0
  /\ OutstandingExact

(* The counters, each raised by a number. *)
Plus(x, m, d, c, p) ==
  /\ x.dispatched = m.dispatched + d /\ x.completed = m.completed + c
  /\ x.pending = m.pending + p

LEMMA StatsFields ==
  ASSUME NEW m \in StatsType
  PROVE  /\ m.dispatched \in Nat /\ m.completed \in Nat /\ m.pending \in Nat /\ m.calls \in Nat
         /\ m.dispatched + 1 \in Nat /\ m.completed + 1 \in Nat /\ m.pending + 1 \in Nat
         /\ m.calls + 1 \in Nat
BY DEF StatsType

LEMMA StatsUpdates ==
  ASSUME NEW m \in StatsType, NEW n \in Nat
  PROVE  /\ [m EXCEPT !.dispatched = n] \in StatsType
         /\ [m EXCEPT !.completed = n] \in StatsType
         /\ [m EXCEPT !.pending = n] \in StatsType
         /\ [m EXCEPT !.calls = n] \in StatsType
BY DEF StatsType

LEMMA StatsSet ==
  ASSUME NEW m \in StatsType, NEW n \in Nat
  PROVE  /\ [m EXCEPT !.dispatched = n].dispatched = n
         /\ [m EXCEPT !.dispatched = n].completed = m.completed
         /\ [m EXCEPT !.dispatched = n].pending = m.pending
         /\ [m EXCEPT !.completed = n].dispatched = m.dispatched
         /\ [m EXCEPT !.completed = n].completed = n
         /\ [m EXCEPT !.completed = n].pending = m.pending
         /\ [m EXCEPT !.pending = n].dispatched = m.dispatched
         /\ [m EXCEPT !.pending = n].completed = m.completed
         /\ [m EXCEPT !.pending = n].pending = n
         /\ [m EXCEPT !.calls = n].dispatched = m.dispatched
         /\ [m EXCEPT !.calls = n].completed = m.completed
         /\ [m EXCEPT !.calls = n].pending = m.pending
BY DEF StatsType

(* What one event adds to the counters. *)
LEMMA EventCounted ==
  ASSUME NEW m \in StatsType, NEW isAsync, NEW event,
         NEW x, x = op_metrics_fn(m, isAsync, event)
  PROVE  /\ x \in StatsType
         /\ isAsync /\ event = "Dispatched" => Plus(x, m, 1, 0, 0)
         /\ isAsync /\ event # "Dispatched" => Plus(x, m, 0, 1, 0)
         /\ ~isAsync => x = m
<1>1. CASE ~isAsync
  BY <1>1 DEF op_metrics_fn
<1>0. m.dispatched + 1 \in Nat /\ m.completed + 1 \in Nat
      /\ m.dispatched \in Nat /\ m.completed \in Nat /\ m.pending \in Nat
  BY StatsFields
<1>2. CASE isAsync /\ event = "Dispatched"
  <2>1. x = [m EXCEPT !.dispatched = m.dispatched + 1]
    BY <1>2 DEF op_metrics_fn
  <2>2. x \in StatsType
    BY <1>0, <2>1, StatsUpdates
  <2>3. Plus(x, m, 1, 0, 0)
    BY <1>0, <2>1, StatsSet DEF Plus
  <2> QED BY <1>2, <2>2, <2>3
<1>3. CASE isAsync /\ event # "Dispatched"
  <2>1. x = [m EXCEPT !.completed = m.completed + 1]
    BY <1>3 DEF op_metrics_fn
  <2>2. x \in StatsType
    BY <1>0, <2>1, StatsUpdates
  <2>3. Plus(x, m, 0, 1, 0)
    BY <1>0, <2>1, StatsSet DEF Plus
  <2> QED BY <1>3, <2>2, <2>3
<1> QED BY <1>1, <1>2, <1>3

(* Both entries keep the type; the slow one counts a pending call as       *)
(* dispatched and any other as dispatched and completed.                   *)
LEMMA SlowCounted ==
  ASSUME NEW m \in StatsType, NEW op, NEW out, NEW waits \in BOOLEAN,
         NEW x, x = slow_function_metrics(m, op, out, waits)
  PROVE  /\ x \in StatsType
         /\ op.async /\ waits => Plus(x, m, 1, 0, 1)
         /\ op.async /\ ~waits => Plus(x, m, 1, 1, 0)
<1> DEFINE m1 == op_metrics_fn(m, op.async, "Dispatched")
           event == IF out.o = "throw" THEN "Error" ELSE "Completed"
<1>1. m1 \in StatsType /\ (op.async => Plus(m1, m, 1, 0, 0))
  BY EventCounted
<1>2. m1.pending + 1 \in Nat /\ m1.pending \in Nat /\ m1.dispatched \in Nat /\ m1.completed \in Nat
      /\ m.pending \in Nat /\ m.dispatched \in Nat /\ m.completed \in Nat
  BY <1>1, StatsFields
<1>3. x = IF waits THEN [m1 EXCEPT !.pending = m1.pending + 1]
          ELSE op_metrics_fn(m1, op.async, event)
  BY DEF slow_function_metrics
<1> HIDE DEF m1
<1>4. CASE waits
  <2>1. x = [m1 EXCEPT !.pending = m1.pending + 1]
    BY <1>3, <1>4
  <2>2. x \in StatsType
    BY <2>1, <1>1, <1>2, StatsUpdates
  <2>3. Plus(x, m1, 0, 0, 1)
    BY <2>1, <1>1, <1>2, StatsSet DEF Plus
  <2>4. x.dispatched \in Nat /\ x.completed \in Nat /\ x.pending \in Nat
    BY <2>2, StatsFields
  <2>5. op.async => Plus(x, m, 1, 0, 1)
    BY <1>1, <1>2, <2>3, <2>4 DEF Plus
  <2> QED BY <1>4, <2>2, <2>5
<1>5. CASE ~waits
  <2>0. event # "Dispatched"
    OBVIOUS
  <2>1. x = op_metrics_fn(m1, op.async, event)
    BY <1>3, <1>5
  <2> HIDE DEF event
  <2>2. x \in StatsType /\ (op.async => Plus(x, m1, 0, 1, 0))
    BY <2>0, <2>1, <1>1, EventCounted
  <2> QED BY <1>1, <1>2, <1>5, <2>2 DEF Plus
<1> QED BY <1>4, <1>5

LEMMA FastCounted ==
  ASSUME NEW m \in StatsType, NEW op, NEW waits \in BOOLEAN
  PROVE  fast_function_metrics(m, op, waits) \in StatsType
<1> DEFINE m1 == op_metrics_fn(m, op.async, "Dispatched")
           m2 == op_metrics_fn(m1, op.async, "Completed")
           n == m2.pending + (IF waits THEN 1 ELSE 0)
<1>1. m1 \in StatsType
  BY EventCounted
<1>2. m2 \in StatsType
  <2> HIDE DEF m1
  <2> QED BY <1>1, EventCounted
<1>3. fast_function_metrics(m, op, waits) = [m2 EXCEPT !.pending = n]
  BY DEF fast_function_metrics
<1> HIDE DEF m1, m2
<1>4. n \in Nat
  BY <1>2, StatsFields
<1> HIDE DEF n
<1> QED BY <1>2, <1>3, <1>4, StatsUpdates

LEMMA Op2Step ==
  ASSUME Op2IInv, [Op2Next]_op2Vars
  PROVE  Op2IInv'
<1>0. op2stats \in StatsType /\ (op2.k = "source" => op2stats = Summary0) /\ OutstandingExact
  BY DEF Op2IInv
<1>f. /\ op2stats.dispatched \in Nat /\ op2stats.completed \in Nat /\ op2stats.pending \in Nat
      /\ op2stats.calls \in Nat /\ op2stats.completed + 1 \in Nat
  BY <1>0, StatsFields
<1>1. CASE UNCHANGED op2Vars
  BY <1>0, <1>1 DEF op2Vars, Op2IInv, OutstandingExact
<1>2. CASE Expand
  <2>1. op2stats = Summary0 /\ op2stats' = op2stats
    BY <1>0, <1>2 DEF Expand
  <2>2. op2stats'.dispatched - op2stats'.completed = op2stats'.pending
    BY <2>1 DEF Summary0
  <2> QED BY <1>0, <2>1, <2>2 DEF Op2IInv, OutstandingExact
<1>3. ASSUME NEW y, y \in StatsType, op2stats' = [y EXCEPT !.calls = y.calls + 1],
             op2' = op2, op2.k = "op",
             op2.async /\ ~op2.fast => Plus(y, op2stats, 1, 0, 1) \/ Plus(y, op2stats, 1, 1, 0)
      PROVE  Op2IInv'
  <2>1. y.calls + 1 \in Nat /\ y.dispatched \in Nat /\ y.completed \in Nat /\ y.pending \in Nat
    BY <1>3, StatsFields
  <2>2. op2stats' \in StatsType
    BY <1>3, <2>1, StatsUpdates
  <2>3. /\ op2stats'.dispatched = y.dispatched /\ op2stats'.completed = y.completed
        /\ op2stats'.pending = y.pending
    BY <1>3, <2>1, StatsSet
  <2>4. op2.async /\ ~op2.fast => y.dispatched - y.completed = y.pending
    BY <1>0, <1>3, <1>f, <2>1 DEF Plus, OutstandingExact
  <2> QED BY <1>3, <2>2, <2>3, <2>4 DEF Op2IInv, OutstandingExact
<1>4. ASSUME NEW v \in JsValues, NEW fails \in BOOLEAN, NEW eager \in BOOLEAN,
             CallSlow(v, fails, eager)
      PROVE  Op2IInv'
  <2> DEFINE checked == with_validate(op2, v) /\ with_required_check(op2, v) /\ extract_arg(op2, v)
             conv == IF checked THEN SlowConvert(op2, v) ELSE Throw
             out == return_value(op2, conv, fails)
             waits == generate_dispatch_async(op2, out, eager)
             y == slow_function_metrics(op2stats, op2, out, waits)
  <2>1. op2stats' = [y EXCEPT !.calls = y.calls + 1] /\ op2' = op2 /\ op2.k = "op"
    BY <1>4 DEF CallSlow, Ready
  <2>2. waits \in BOOLEAN
    BY DEF generate_dispatch_async
  <2> HIDE DEF waits, out
  <2>3. y \in StatsType /\ (op2.async => Plus(y, op2stats, 1, 0, 1) \/ Plus(y, op2stats, 1, 1, 0))
    BY <1>0, <2>2, SlowCounted
  <2> HIDE DEF y
  <2> QED BY <1>3, <2>1, <2>3
<1>5. ASSUME NEW v \in JsValues, NEW fails \in BOOLEAN, CallFast(v, fails)
      PROVE  Op2IInv'
  <2> DEFINE out == return_value(op2, map_v8_fastcall_arg_to_arg(op2, v), fails)
             waits == generate_dispatch_async(op2, out, FALSE)
             y == fast_function_metrics(op2stats, op2, waits)
  <2>1. op2stats' = [y EXCEPT !.calls = y.calls + 1] /\ op2' = op2 /\ op2.k = "op" /\ op2.fast
    BY <1>5 DEF CallFast, Ready
  <2>2. waits \in BOOLEAN
    BY DEF generate_dispatch_async
  <2> HIDE DEF waits, out
  <2>3. y \in StatsType
    BY <1>0, <2>2, FastCounted
  <2> HIDE DEF y
  <2> QED BY <1>3, <2>1, <2>3
<1>6. CASE CompleteAsync
  <2> DEFINE y == op_metrics_fn(op2stats, TRUE, "CompletedAsync")
  <2>1. op2stats' = [y EXCEPT !.pending = y.pending - 1] /\ op2' = op2 /\ op2stats.pending > 0
    BY <1>6 DEF CompleteAsync
  <2>2. y \in StatsType /\ Plus(y, op2stats, 0, 1, 0)
    <3>1. y = [op2stats EXCEPT !.completed = op2stats.completed + 1]
      BY DEF op_metrics_fn
    <3> HIDE DEF y
    <3>2. y \in StatsType
      BY <1>0, <1>f, <3>1, StatsUpdates
    <3>3. Plus(y, op2stats, 0, 1, 0)
      BY <1>0, <1>f, <3>1, StatsSet DEF Plus
    <3> QED BY <3>2, <3>3
  <2> HIDE DEF y
  <2>3. y.pending - 1 \in Nat /\ y.dispatched \in Nat /\ y.completed \in Nat
    BY <1>f, <2>1, <2>2, StatsFields DEF Plus
  <2>4. op2stats' \in StatsType
    BY <2>1, <2>2, <2>3, StatsUpdates
  <2>5. /\ op2stats'.dispatched = y.dispatched /\ op2stats'.completed = y.completed
        /\ op2stats'.pending = y.pending - 1
    BY <2>1, <2>2, <2>3, StatsSet
  <2>6. op2.k # "source"
    <3>1. Summary0.pending = 0
      BY DEF Summary0
    <3> QED BY <1>0, <2>1, <3>1
  <2>7. OutstandingExact'
    BY <1>0, <1>f, <2>1, <2>2, <2>3, <2>5 DEF OutstandingExact, Plus
  <2> QED BY <2>1, <2>4, <2>6, <2>7 DEF Op2IInv
<1> QED BY <1>1, <1>2, <1>4, <1>5, <1>6 DEF Op2Next

(* An op without a fast entry that is called through its slow entry, ends  *)
(* or stays pending, and finishes later, is counted by op_metrics_fn so    *)
(* that the dispatches exceed the completions by exactly the pending calls *)
(* (OutstandingExact): for any ops, any values and any number of calls.    *)
THEOREM OutstandingIsExact == Op2Spec => []OutstandingExact
<1>1. Op2Init => Op2IInv
  <2> SUFFICES ASSUME Op2Init PROVE Op2IInv
    OBVIOUS
  <2>1. op2stats = Summary0
    BY DEF Op2Init
  <2>2. Summary0 \in StatsType /\ Summary0.dispatched - Summary0.completed = Summary0.pending
    BY DEF Summary0, StatsType
  <2> QED BY <2>1, <2>2 DEF Op2IInv, OutstandingExact
<1>2. Op2IInv /\ [Op2Next]_op2Vars => Op2IInv'
  BY Op2Step
<1>3. Op2IInv => OutstandingExact
  BY DEF Op2IInv
<1> QED BY <1>1, <1>2, <1>3, PTL DEF Op2Spec

(***************************************************************************)
(* Conversions.  While a walk is on, exactly the elements before index i   *)
(* are written, and a field that was read is the default of the cell it    *)
(* stands for.                                                             *)
(***************************************************************************)

Cells == {"good", "bad", "undefined", "throws"}

CvShape ==
  /\ cv = [pc |-> cv.pc, kind |-> cv.kind, ty |-> cv.ty, opts |-> cv.opts, v |-> cv.v, out |-> cv.out]
  /\ walk = [cells |-> walk.cells, i |-> walk.i, len |-> walk.len, init |-> walk.init,
             dropped |-> walk.dropped, read |-> walk.read]

(* What is asked for, before it is converted. *)
CvAsked ==
  cv.pc = "start" =>
    /\ walk.cells \in Seq(Cells) /\ walk.i = 0 /\ walk.dropped = {} /\ walk.read = <<>>
    /\ cv.kind = "webidl" /\ cv.ty \in IntTypes /\ cv.v.t = "num" => cv.v.n \in Int
    /\ cv.kind \in Wrappers => /\ cv.ty \in IntTypes /\ cv.v.n \in TypeMin(cv.ty)..TypeMax(cv.ty)
                               /\ cv.kind = "bool" => cv.v.n \in 0..1
    /\ cv.kind = "result" =>
         /\ cv.opts \in {"none", "smi", "number"}
         /\ cv.ty \in IntTypes \cup {"unit", "bool", "option"}
         /\ cv.ty \in IntTypes => cv.v.n \in TypeMin(cv.ty)..TypeMax(cv.ty)
         /\ cv.ty \notin IntTypes => cv.v.n \in 0..1 /\ cv.opts = "none"
         /\ cv.ty \in {"u64", "i64"} => cv.opts # "none"

(* The elements before walk.i are written and no others. *)
CvWritten ==
  /\ walk.i \in Nat /\ walk.len \in Nat /\ walk.init = 0..(walk.i - 1)
  /\ cv.pc = "walk" => walk.i <= walk.len \/ cv.kind = "sequence"

(* The fields before walk.i are read from the cells of an object, which    *)
(* stays as it is.                                                         *)
CvRead ==
  cv.pc \in {"walk", "done"} /\ cv.kind \in {"dictionary", "struct"} =>
    /\ walk.read \in Seq({"value", "default"}) /\ Len(walk.read) = walk.i
    /\ cv.pc = "walk" => walk.cells \in Seq(Cells) /\ Len(walk.cells) = walk.len
    /\ cv.opts = "default" =>
         \A k \in 1..walk.i : walk.read[k] = "default" <=> walk.cells[k] \in {"undefined", "throws"}

CvIInv == CvShape /\ CvAsked /\ CvWritten /\ CvRead /\ ElementsInitialised /\ ConversionsFaithful

(* What End leaves. *)
LEMMA EndFields ==
  ASSUME CvShape, NEW r, End(r)
  PROVE  /\ cv' = [pc |-> cv'.pc, kind |-> cv'.kind, ty |-> cv'.ty, opts |-> cv'.opts, v |-> cv'.v, out |-> cv'.out]
         /\ cv'.pc = "done" /\ cv'.kind = cv.kind /\ cv'.ty = cv.ty /\ cv'.opts = cv.opts
         /\ cv'.v = cv.v /\ cv'.out = r
BY DEF CvShape, End

(* The widths, as numbers. *)
LEMMA Widths ==
  /\ 2^3 = 8 /\ 2^(3-1) = 4 /\ 2^5 = 32 /\ 2^(5-1) = 16 /\ 2^7 = 128 /\ 2^(7-1) = 64
OBVIOUS

LEMMA Ranges ==
  /\ TypeMin("u8") = 0 /\ TypeMax("u8") = 7 /\ TypeMin("i8") = -4 /\ TypeMax("i8") = 3
  /\ TypeMin("u32") = 0 /\ TypeMax("u32") = 31 /\ TypeMin("i32") = -16 /\ TypeMax("i32") = 15
  /\ TypeMin("u64") = 0 /\ TypeMax("u64") = 127 /\ TypeMin("i64") = -64 /\ TypeMax("i64") = 63
BY Widths DEF TypeMin, TypeMax, Signed, IntWidth, CvW8, CvW32, CvW64

LEMMA IdlRanges ==
  /\ IdlMin("u8") = 0 /\ IdlMax("u8") = 7 /\ IdlMin("i8") = -4 /\ IdlMax("i8") = 3
  /\ IdlMin("u32") = 0 /\ IdlMax("u32") = 31 /\ IdlMin("i32") = -16 /\ IdlMax("i32") = 15
  /\ IdlMin("u64") = 0 /\ IdlMax("u64") = 31 /\ IdlMin("i64") = -31 /\ IdlMax("i64") = 31
BY Ranges DEF IdlMin, IdlMax, CvSafe

Dist(n, x) == IF n >= 2 * x THEN n - 2 * x ELSE 2 * x - n

(* clamp yields the nearest integer of any range, the even one of two.     *)
LEMMA Nearest ==
  ASSUME NEW lo \in Int, NEW hi \in Int, lo <= hi, NEW n \in Int, NEW c \in Int,
         NEW h \in Int, h = Within(2 * lo, 2 * hi, n),
         c = IF h % 2 = 0 THEN h \div 2
             ELSE IF ((h - 1) \div 2) % 2 = 0 THEN (h - 1) \div 2 ELSE (h + 1) \div 2
  PROVE  /\ c \in lo..hi
         /\ \A x \in lo..hi :
              Dist(n, c) < Dist(n, x) \/ x = c \/ (Dist(n, c) = Dist(n, x) /\ c % 2 = 0)
<1>1. h % 2 \in {0, 1} /\ h = 2 * (h \div 2) + (h % 2) /\ h \div 2 \in Int
  OBVIOUS
<1>2. CASE h % 2 = 0
  <2>1. h = 2 * c
    BY <1>1, <1>2
  <2>2. c \in lo..hi
    BY <2>1 DEF Within
  <2>3. CASE n < 2 * lo
    BY <2>1, <2>2, <2>3 DEF Within, Dist
  <2>4. CASE n > 2 * hi
    BY <2>1, <2>2, <2>4 DEF Within, Dist
  <2>5. CASE n >= 2 * lo /\ n <= 2 * hi
    <3>1. n = 2 * c
      BY <2>1, <2>5 DEF Within
    <3>2. Dist(n, c) = 0
      BY <3>1 DEF Dist
    <3>3. ASSUME NEW x \in lo..hi PROVE x = c \/ 0 < Dist(n, x)
      BY <3>1 DEF Dist
    <3> QED BY <2>2, <3>2, <3>3
  <2> QED BY <2>3, <2>4, <2>5
<1>3. CASE h % 2 = 1
  <2>1. h = n /\ 2 * lo < n /\ n < 2 * hi
    BY <1>1, <1>3 DEF Within
  <2>2. PICK q \in Int : h = 2 * q + 1
    BY <1>1, <1>3
  <2>3. (h - 1) \div 2 = q /\ (h + 1) \div 2 = q + 1
    BY <2>2
  <2>4. q % 2 \in {0, 1} /\ (q % 2 = 1 => (q + 1) % 2 = 0)
    OBVIOUS
  <2>5. c \in {q, q + 1} /\ c % 2 = 0
    BY <1>3, <2>3, <2>4
  <2> QED BY <2>1, <2>2, <2>5 DEF Dist
<1> QED BY <1>1, <1>2, <1>3

(* impl_ints keeps to its options.                                         *)
LEMMA IntOptions ==
  ASSUME NEW ty \in IntTypes, NEW opts, NEW v, v.t = "num", v.n \in Int,
         NEW out, out = impl_ints(ty, opts, v)
  PROVE  /\ opts = "clamp" =>
              /\ out.n \in IdlMin(ty)..IdlMax(ty)
              /\ \A x \in IdlMin(ty)..IdlMax(ty) :
                   \/ Dist(v.n, out.n) < Dist(v.n, x) \/ x = out.n
                   \/ Dist(v.n, out.n) = Dist(v.n, x) /\ out.n % 2 = 0
         /\ opts = "enforce_range" =>
              IF CvTrunc(v.n) \in IdlMin(ty)..IdlMax(ty) THEN out = CvOk(CvTrunc(v.n)) ELSE out = CvErr
<1>0. number_value(v) = v
  BY DEF number_value
<1>r. IdlMin(ty) \in Int /\ IdlMax(ty) \in Int /\ IdlMin(ty) <= IdlMax(ty)
  BY IdlRanges DEF IntTypes
<1>t. CvTrunc(v.n) \in Int
  BY DEF CvTrunc
<1>1. CASE opts = "clamp"
  <2> DEFINE lo == IdlMin(ty)
             hi == IdlMax(ty)
             h == Within(2 * lo, 2 * hi, v.n)
             c == IF h % 2 = 0 THEN h \div 2
                  ELSE IF ((h - 1) \div 2) % 2 = 0 THEN (h - 1) \div 2 ELSE (h + 1) \div 2
  <2>1. out = CvOk(c)
    BY <1>0, <1>1 DEF impl_ints, ClampInt
  <2>2. out.n = c
    BY <2>1 DEF CvOk
  <2> HIDE DEF lo, hi
  <2>3. h \in Int
    BY <1>r DEF Within, lo, hi
  <2>4. c \in Int
    BY <2>3
  <2>5. /\ c \in lo..hi
        /\ \A x \in lo..hi :
              Dist(v.n, c) < Dist(v.n, x) \/ x = c \/ (Dist(v.n, c) = Dist(v.n, x) /\ c % 2 = 0)
    <3> HIDE DEF c, h
    <3>1. h = Within(2 * lo, 2 * hi, v.n) /\ lo \in Int /\ hi \in Int /\ lo <= hi
      BY <1>r DEF h, lo, hi
    <3>2. c = IF h % 2 = 0 THEN h \div 2
              ELSE IF ((h - 1) \div 2) % 2 = 0 THEN (h - 1) \div 2 ELSE (h + 1) \div 2
      BY DEF c
    <3> QED BY <2>3, <2>4, <3>1, <3>2, Nearest
  <2> HIDE DEF c, h
  <2> QED BY <1>1, <2>2, <2>5 DEF lo, hi
<1>2. CASE opts = "enforce_range"
  BY <1>0, <1>2, <1>r, <1>t DEF impl_ints
<1> QED BY <1>1, <1>2

(* The wrappers of FromV8 and ToV8 give back what they were given.         *)
LEMMA RoundTrip ==
  ASSUME NEW kind \in Wrappers, NEW ty \in IntTypes, NEW x \in TypeMin(ty)..TypeMax(ty),
         kind = "bool" => x \in 0..1, kind = "Smi" => IntWidth(ty) <= CvW32,
         kind \in {"Number", "int", "OptionNull", "OptionUndefined", "Option"} => x \in -CvSafe..CvSafe
  PROVE  convert_from_v8(kind, ty, convert_to_v8(kind, x)) = CvOk(x)
<1>0. x \in Int
  BY Ranges DEF IntTypes
<1>t. ASSUME NEW y \in Int PROVE CvTrunc(2 * y) = y
  BY DEF CvTrunc
<1>s. Saturate(ty, x) = x
  BY Ranges DEF IntTypes, Saturate, Within
<1>j. ASSUME NEW t, NEW n PROVE CvJs(t, n).t = t /\ CvJs(t, n).n = n
  BY DEF CvJs
<1>1. CASE kind = "Smi"
  <2>1. as_i32(x) \in Int /\ as_i32(as_i32(x)) = as_i32(x)
    BY <1>0, Widths DEF as_i32, CvW32
  <2>2. from_i32(ty, as_i32(x)) = x
    <3>1. as_i32(x) = ((x + 16) % 32) - 16
      BY Widths DEF as_i32, CvW32
    <3>2. ty \in {"u8", "i8", "u32", "i32"}
      BY <1>1 DEF IntWidth, CvW32, CvW64, IntTypes
    <3>3. CASE ty = "u8"
      BY <1>0, <3>1, <3>3, Ranges, Widths DEF from_i32, IntWidth, Signed, CvW8
    <3>4. CASE ty = "i8"
      BY <1>0, <3>1, <3>4, Ranges, Widths DEF from_i32, IntWidth, Signed, CvW8
    <3>5. CASE ty = "u32"
      BY <1>0, <3>1, <3>5, Ranges, Widths DEF from_i32, IntWidth, Signed, CvW32
    <3>6. CASE ty = "i32"
      BY <1>0, <3>1, <3>6, Ranges, Widths DEF from_i32, IntWidth, Signed, CvW32
    <3> QED BY <3>2, <3>3, <3>4, <3>5, <3>6
  <2>3. convert_to_v8(kind, x) = CvJs("num", 2 * as_i32(x))
    BY <1>1 DEF convert_to_v8
  <2>4. CvTrunc(2 * as_i32(x)) = as_i32(x)
    BY <1>t, <2>1
  <2> QED BY <1>1, <1>j, <2>1, <2>2, <2>3, <2>4 DEF convert_from_v8
<1>2. CASE kind \in {"Number", "int"}
  <2>1. as_f64(x) = 2 * x
    BY <1>0, <1>2 DEF as_f64, CvSafe
  <2>2. convert_to_v8(kind, x) = CvJs("num", 2 * x)
    BY <1>2, <2>1 DEF convert_to_v8
  <2> QED BY <1>0, <1>2, <1>j, <1>s, <1>t, <2>2 DEF convert_from_v8
<1>3. CASE kind \in {"BigInt", "bool"}
  BY <1>3, <1>j DEF convert_to_v8, convert_from_v8
<1>4. CASE kind \in {"OptionNull", "OptionUndefined", "Option"}
  <2>1. CASE x = 0
    BY <1>4, <1>j, <2>1 DEF convert_to_v8, convert_from_v8
  <2>2. CASE x # 0
    <3>1. convert_to_v8(kind, x) = CvJs("num", 2 * x)
      BY <1>4, <2>2 DEF convert_to_v8
    <3> QED BY <1>0, <1>4, <1>j, <1>s, <1>t, <3>1 DEF convert_from_v8
  <2> QED BY <2>1, <2>2
<1> QED BY <1>1, <1>2, <1>3, <1>4 DEF Wrappers

(* A result is the same value by both ways.                                *)
LEMMA BothWays ==
  ASSUME NEW marker \in {"none", "smi", "number"}, NEW ty \in IntTypes \cup {"unit", "bool", "option"},
         NEW x, ty \in IntTypes => x \in TypeMin(ty)..TypeMax(ty),
         ty \notin IntTypes => x \in 0..1 /\ marker = "none",
         ty \in {"u64", "i64"} => marker # "none"
  PROVE  rust_to_v8(marker, ty, x) = to_v8_rv(marker, ty, x)
<1>1. CASE marker # "none" \/ ty \in {"unit", "bool", "option"}
  BY <1>1 DEF rust_to_v8, to_v8_rv, IntTypes
<1>2. CASE marker = "none" /\ ty = "u32"
  <2>1. x % 2^CvW32 = x
    BY <1>2, Ranges, Widths DEF CvW32, IntTypes
  <2> QED BY <1>2, <2>1 DEF rust_to_v8, to_v8_rv
<1>3. CASE marker = "none" /\ ty \in {"u8", "i8", "i32"}
  <2>1. as_i32(x) = ((x + 16) % 32) - 16
    BY Widths DEF as_i32, CvW32
  <2>2. x \in -16..15
    BY <1>3, Ranges DEF IntTypes
  <2>3. as_i32(x) = x
    BY <2>1, <2>2
  <2> QED BY <1>3, <2>3 DEF rust_to_v8, to_v8_rv
<1> QED BY <1>1, <1>2, <1>3 DEF IntTypes

(* A step that ends a conversion which was not started yet.                *)
LEMMA EndsAtOnce ==
  ASSUME CvIInv, cv.pc = "start", walk' = walk, CvShape',
         cv'.pc = "done", cv'.kind = cv.kind, cv'.ty = cv.ty, cv'.opts = cv.opts,
         cv.kind \in {"vec", "tuple"} => cv'.out.o = "err", ConversionsFaithful'
  PROVE  CvIInv'
<1>1. walk.i = 0 /\ walk.init = {} /\ walk.dropped = {} /\ walk.read = <<>>
  BY DEF CvIInv, CvAsked, CvWritten
<1>2. CvAsked' /\ CvWritten'
  BY DEF CvIInv, CvAsked, CvWritten
<1>3. CvRead'
  <2>1. walk.read \in Seq({"value", "default"}) /\ Len(walk.read) = 0
    BY <1>1
  <2> QED BY <1>1, <2>1 DEF CvRead
<1>4. ElementsInitialised'
  BY <1>1 DEF ElementsInitialised, CvDone
<1> QED BY <1>2, <1>3, <1>4 DEF CvIInv

LEMMA StepConvertOne == ASSUME CvIInv, ConvertOne PROVE CvIInv'
<1> DEFINE r == CASE cv.kind = "webidl" -> webidl_one(cv.ty, cv.opts, cv.v)
             [] cv.kind = "option" -> webidl_Option(cv.ty, cv.opts, cv.v)
             [] OTHER -> webidl_Nullable(cv.ty, cv.opts, cv.v)
<1>1. End(r) /\ walk' = walk /\ cv.pc = "start" /\ cv.kind \in {"webidl", "option", "nullable"}
  BY DEF ConvertOne
<1>2. cv.kind = "webidl" /\ cv.ty \in IntTypes => r = impl_ints(cv.ty, cv.opts, cv.v)
  BY DEF webidl_one, IntTypes
<1> HIDE DEF r
<1>3. /\ cv' = [pc |-> cv'.pc, kind |-> cv'.kind, ty |-> cv'.ty, opts |-> cv'.opts, v |-> cv'.v, out |-> cv'.out]
      /\ cv'.pc = "done" /\ cv'.kind = cv.kind /\ cv'.ty = cv.ty /\ cv'.opts = cv.opts
      /\ cv'.v = cv.v /\ cv'.out = r
  BY <1>1, EndFields DEF CvIInv
<1>4. IntOptionsHonoured'
  <2> SUFFICES ASSUME cv.kind = "webidl", cv.ty \in IntTypes, cv.v.t = "num"
      PROVE /\ cv.opts = "clamp" =>
                 /\ r.n \in IdlMin(cv.ty)..IdlMax(cv.ty)
                 /\ \A x \in IdlMin(cv.ty)..IdlMax(cv.ty) :
                      \/ Dist(cv.v.n, r.n) < Dist(cv.v.n, x) \/ x = r.n
                      \/ Dist(cv.v.n, r.n) = Dist(cv.v.n, x) /\ r.n % 2 = 0
            /\ cv.opts = "enforce_range" =>
                 IF CvTrunc(cv.v.n) \in IdlMin(cv.ty)..IdlMax(cv.ty) THEN r = CvOk(CvTrunc(cv.v.n)) ELSE r = CvErr
    BY <1>3 DEF IntOptionsHonoured, CvDone, Dist
  <2>1. cv.v.n \in Int
    BY <1>1 DEF CvIInv, CvAsked
  <2> QED BY <1>2, <2>1, IntOptions
<1>5. WrappersRoundTrip' /\ RetvalAgrees' /\ DefaultsApply'
  BY <1>1, <1>3 DEF WrappersRoundTrip, RetvalAgrees, DefaultsApply, CvDone, Wrappers
<1>6. CvShape' /\ cv.kind \notin {"vec", "tuple"}
  BY <1>1, <1>3 DEF CvIInv, CvShape
<1> QED BY <1>1, <1>3, <1>4, <1>5, <1>6, EndsAtOnce DEF ConversionsFaithful

LEMMA StepThereAndBack == ASSUME CvIInv, ThereAndBack PROVE CvIInv'
<1> DEFINE r == convert_from_v8(cv.kind, cv.ty, convert_to_v8(cv.kind, cv.v.n))
<1>1. End(r) /\ walk' = walk /\ cv.pc = "start" /\ cv.kind \in Wrappers
  BY DEF ThereAndBack
<1>2. (cv.kind = "Smi" => IntWidth(cv.ty) <= CvW32)
        /\ (cv.kind \in {"Number", "int", "OptionNull", "OptionUndefined", "Option"} =>
               cv.v.n \in -CvSafe..CvSafe)
      => r = CvOk(cv.v.n)
  BY <1>1, RoundTrip DEF CvIInv, CvAsked
<1> HIDE DEF r
<1>3. /\ cv' = [pc |-> cv'.pc, kind |-> cv'.kind, ty |-> cv'.ty, opts |-> cv'.opts, v |-> cv'.v, out |-> cv'.out]
      /\ cv'.pc = "done" /\ cv'.kind = cv.kind /\ cv'.ty = cv.ty /\ cv'.opts = cv.opts
      /\ cv'.v = cv.v /\ cv'.out = r
  BY <1>1, EndFields DEF CvIInv
<1>4. WrappersRoundTrip'
  BY <1>2, <1>3 DEF WrappersRoundTrip
<1>5. IntOptionsHonoured' /\ RetvalAgrees' /\ DefaultsApply'
  BY <1>1, <1>3 DEF IntOptionsHonoured, RetvalAgrees, DefaultsApply, CvDone, Wrappers
<1>6. CvShape' /\ cv.kind \notin {"vec", "tuple"}
  BY <1>1, <1>3 DEF CvIInv, CvShape, Wrappers
<1> QED BY <1>1, <1>3, <1>4, <1>5, <1>6, EndsAtOnce DEF ConversionsFaithful

LEMMA StepReturnBoth == ASSUME CvIInv, ReturnBoth PROVE CvIInv'
<1>1. /\ cv.pc = "start" /\ cv.kind = "result" /\ walk' = walk
      /\ cv' = [cv EXCEPT !.pc = "done", !.out = [o |-> "ok", n |-> rust_to_v8(cv.opts, cv.ty, cv.v.n)],
                          !.v = to_v8_rv(cv.opts, cv.ty, cv.v.n)]
  BY DEF ReturnBoth
<1>2. /\ cv' = [pc |-> cv'.pc, kind |-> cv'.kind, ty |-> cv'.ty, opts |-> cv'.opts, v |-> cv'.v, out |-> cv'.out]
      /\ cv'.pc = "done" /\ cv'.kind = cv.kind /\ cv'.ty = cv.ty /\ cv'.opts = cv.opts
      /\ cv'.v = to_v8_rv(cv.opts, cv.ty, cv.v.n) /\ cv'.out.n = rust_to_v8(cv.opts, cv.ty, cv.v.n)
  BY <1>1 DEF CvIInv, CvShape
<1>3. RetvalAgrees'
  BY <1>1, <1>2, BothWays DEF RetvalAgrees, CvIInv, CvAsked
<1>4. IntOptionsHonoured' /\ WrappersRoundTrip' /\ DefaultsApply'
  BY <1>1, <1>2 DEF IntOptionsHonoured, WrappersRoundTrip, DefaultsApply, CvDone, Wrappers
<1>5. CvShape' /\ cv.kind \notin {"vec", "tuple"}
  BY <1>1, <1>2 DEF CvIInv, CvShape
<1> QED BY <1>1, <1>2, <1>3, <1>4, <1>5, EndsAtOnce DEF ConversionsFaithful

(* What is converted element by element. *)
Walked == {"vec", "tuple", "sequence", "record", "dictionary", "struct"}

LEMMA StepStartWalk == ASSUME CvIInv, StartWalk PROVE CvIInv'
<1> DEFINE empty == cv.kind = "dictionary" /\ cv.v.t \in {"null", "undefined"}
           cells == IF empty THEN [k \in DOMAIN walk.cells |-> "throws"] ELSE walk.cells
<1>0. cv.kind \in Walked /\ cv.pc = "start"
  BY DEF StartWalk, Walked
<1>1. CASE End(CvErr) /\ walk' = walk
  <2>1. /\ cv' = [pc |-> cv'.pc, kind |-> cv'.kind, ty |-> cv'.ty, opts |-> cv'.opts, v |-> cv'.v, out |-> cv'.out]
        /\ cv'.pc = "done" /\ cv'.kind = cv.kind /\ cv'.ty = cv.ty /\ cv'.opts = cv.opts
        /\ cv'.v = cv.v /\ cv'.out = CvErr
    BY <1>1, EndFields DEF CvIInv
  <2>2. cv'.out.o = "err"
    BY <2>1 DEF CvErr
  <2>3. DefaultsApply'
    BY <2>2 DEF DefaultsApply
  <2>4. ConversionsFaithful'
    BY <1>0, <2>1, <2>2 DEF ConversionsFaithful, IntOptionsHonoured, WrappersRoundTrip, RetvalAgrees,
       DefaultsApply, CvDone, Wrappers, Walked
  <2>5. CvShape'
    BY <1>1, <2>1 DEF CvIInv, CvShape
  <2> QED BY <1>0, <1>1, <2>1, <2>2, <2>4, <2>5, EndsAtOnce
<1>2. CASE walk' = [walk EXCEPT !.cells = cells, !.len = Len(cells)] /\ cv' = [cv EXCEPT !.pc = "walk"]
  <2>0. walk.cells \in Seq(Cells) /\ walk.i = 0 /\ walk.dropped = {} /\ walk.read = <<>> /\ walk.init = {}
    BY <1>0 DEF CvIInv, CvAsked, CvWritten
  <2>1. cells \in Seq(Cells) /\ Len(cells) \in Nat
    <3>1. [k \in DOMAIN walk.cells |-> "throws"] \in Seq(Cells)
      BY <2>0 DEF Cells
    <3> QED BY <2>0, <3>1
  <2> HIDE DEF cells
  <2>2. /\ walk'.cells = cells /\ walk'.len = Len(cells) /\ walk'.i = 0 /\ walk'.init = {}
        /\ walk'.read = <<>> /\ cv'.pc = "walk" /\ cv'.kind = cv.kind /\ CvShape'
    BY <1>2, <2>0 DEF CvIInv, CvShape
  <2>3. CvAsked' /\ CvWritten'
    BY <2>1, <2>2 DEF CvAsked, CvWritten
  <2>4. CvRead'
    <3>1. walk'.read \in Seq({"value", "default"}) /\ Len(walk'.read) = 0
      BY <2>2
    <3> QED BY <2>1, <2>2, <3>1 DEF CvRead
  <2>5. ElementsInitialised' /\ ConversionsFaithful'
    BY <2>2 DEF ElementsInitialised, ConversionsFaithful, IntOptionsHonoured, WrappersRoundTrip, RetvalAgrees,
       DefaultsApply, CvDone
  <2> QED BY <2>2, <2>3, <2>4, <2>5 DEF CvIInv
<1> QED BY <1>1, <1>2 DEF StartWalk

(* The last step of a walk, as it leaves the written elements.             *)
LEMMA WalkEnds ==
  ASSUME CvIInv, cv.pc = "walk", cv.kind \in Walked, NEW r, End(r),
         \/ walk' = walk /\ r.o # "err" /\ (r.o = "ok" => walk.i = walk.len \/ cv.kind = "sequence")
         \/ walk' = [walk EXCEPT !.dropped = walk.init] /\ r.o = "err"
  PROVE  CvIInv'
<1>1. /\ cv' = [pc |-> cv'.pc, kind |-> cv'.kind, ty |-> cv'.ty, opts |-> cv'.opts, v |-> cv'.v, out |-> cv'.out]
      /\ cv'.pc = "done" /\ cv'.kind = cv.kind /\ cv'.ty = cv.ty /\ cv'.opts = cv.opts
      /\ cv'.v = cv.v /\ cv'.out = r
  BY EndFields DEF CvIInv
<1>2. /\ walk'.i = walk.i /\ walk'.len = walk.len /\ walk'.init = walk.init /\ walk'.read = walk.read
      /\ walk'.cells = walk.cells /\ (r.o = "err" => walk'.dropped = walk.init) /\ CvShape'
  BY <1>1 DEF CvIInv, CvShape
<1>3. CvAsked' /\ CvWritten'
  BY <1>1, <1>2 DEF CvIInv, CvAsked, CvWritten
<1>4. CvRead'
  BY <1>1, <1>2 DEF CvIInv, CvRead
<1>5. ElementsInitialised'
  BY <1>1, <1>2 DEF CvIInv, CvWritten, ElementsInitialised, CvDone
<1>6. DefaultsApply'
  <2> SUFFICES ASSUME cv.kind \in {"dictionary", "struct"}, cv.opts = "default", NEW k \in DOMAIN walk.read
      PROVE walk.read[k] = "default" <=> walk.cells[k] \in {"undefined", "throws"}
    BY <1>1, <1>2 DEF DefaultsApply, CvDone
  <2>1. walk.read \in Seq({"value", "default"}) /\ Len(walk.read) = walk.i
    BY DEF CvIInv, CvRead
  <2>2. k \in 1..walk.i
    BY <2>1
  <2> QED BY <2>2 DEF CvIInv, CvRead
<1>7. ConversionsFaithful'
  BY <1>1, <1>6 DEF ConversionsFaithful, IntOptionsHonoured, WrappersRoundTrip, RetvalAgrees, CvDone,
     Wrappers, Walked
<1> QED BY <1>2, <1>3, <1>4, <1>5, <1>7 DEF CvIInv

(* A step within a walk ends nothing.                                      *)
LEMMA WalkGoesOn ==
  ASSUME cv.pc = "walk", cv' = cv
  PROVE  CvAsked' /\ ElementsInitialised' /\ ConversionsFaithful'
BY DEF CvAsked, ElementsInitialised, ConversionsFaithful, IntOptionsHonoured, WrappersRoundTrip, RetvalAgrees,
   DefaultsApply, CvDone

(* One element more is written.                                            *)
LEMMA ElementWritten ==
  ASSUME CvIInv, cv.pc = "walk", cv.kind \in {"vec", "tuple", "sequence", "record"}, cv' = cv,
         walk.i < walk.len \/ cv.kind = "sequence",
         walk' = [walk EXCEPT !.i = @ + 1, !.init = @ \cup {walk.i}]
  PROVE  CvIInv'
<1>1. walk'.i = walk.i + 1 /\ walk'.len = walk.len /\ walk'.init = walk.init \cup {walk.i} /\ CvShape'
  BY DEF CvIInv, CvShape
<1>2. CvWritten'
  BY <1>1 DEF CvIInv, CvWritten
<1>3. CvRead'
  BY DEF CvRead
<1> QED BY <1>1, <1>2, <1>3, WalkGoesOn DEF CvIInv

LEMMA Outcomes ==
  /\ CvErr.o = "err" /\ CvPanic.o = "panic"
  /\ \A n : CvOk(n).o = "ok"
BY DEF CvErr, CvPanic, CvOk

LEMMA StepVecElement == ASSUME CvIInv, VecElement PROVE CvIInv'
<1>0. cv.pc = "walk" /\ cv.kind = "vec" /\ cv.kind \in Walked
  BY DEF VecElement, Walked
<1>1. CASE walk.i = walk.len /\ End(CvOk(walk.len)) /\ UNCHANGED walk
  BY <1>0, <1>1, WalkEnds, Outcomes
<1>2. CASE walk.i < walk.len /\ walk' = [walk EXCEPT !.i = @ + 1, !.init = @ \cup {walk.i}] /\ UNCHANGED cv
  BY <1>0, <1>2, ElementWritten
<1>3. CASE walk' = [walk EXCEPT !.dropped = Written(walk.i)] /\ End(CvErr)
  <2>1. Written(walk.i) = walk.init
    BY DEF CvIInv, CvWritten, Written
  <2> QED BY <1>0, <1>3, <2>1, WalkEnds, Outcomes
<1>4. CASE End(CvPanic) /\ UNCHANGED walk
  BY <1>0, <1>4, WalkEnds, Outcomes
<1> QED BY <1>1, <1>2, <1>3, <1>4 DEF VecElement

LEMMA StepTupleElement == ASSUME CvIInv, TupleElement PROVE CvIInv'
<1>0. cv.pc = "walk" /\ cv.kind = "tuple" /\ cv.kind \in Walked
  BY DEF TupleElement, Walked
<1>1. CASE walk.i = walk.len /\ End(CvOk(walk.len)) /\ UNCHANGED walk
  BY <1>0, <1>1, WalkEnds, Outcomes
<1>2. CASE walk.i < walk.len /\ walk' = [walk EXCEPT !.i = @ + 1, !.init = @ \cup {walk.i}] /\ UNCHANGED cv
  BY <1>0, <1>2, ElementWritten
<1>3. CASE walk' = [walk EXCEPT !.dropped = walk.init] /\ End(CvErr)
  BY <1>0, <1>3, WalkEnds, Outcomes
<1>4. CASE End(CvPanic) /\ UNCHANGED walk
  BY <1>0, <1>4, WalkEnds, Outcomes
<1> QED BY <1>1, <1>2, <1>3, <1>4 DEF TupleElement

LEMMA StepSequenceElement == ASSUME CvIInv, SequenceElement PROVE CvIInv'
<1>0. cv.pc = "walk" /\ cv.kind = "sequence" /\ cv.kind \in Walked
  BY DEF SequenceElement, Walked
<1>1. CASE End(CvOk(walk.i)) /\ UNCHANGED walk
  BY <1>0, <1>1, WalkEnds, Outcomes
<1>2. CASE walk' = [walk EXCEPT !.i = @ + 1, !.init = @ \cup {walk.i}] /\ UNCHANGED cv
  BY <1>0, <1>2, ElementWritten
<1>3. CASE walk' = [walk EXCEPT !.dropped = walk.init] /\ End(CvErr)
  BY <1>0, <1>3, WalkEnds, Outcomes
<1> QED BY <1>1, <1>2, <1>3 DEF SequenceElement

LEMMA StepRecordEntry == ASSUME CvIInv, RecordEntry PROVE CvIInv'
<1>0. cv.pc = "walk" /\ cv.kind = "record" /\ cv.kind \in Walked
  BY DEF RecordEntry, Walked
<1>1. CASE walk.i = walk.len /\ End(CvOk(walk.i)) /\ UNCHANGED walk
  BY <1>0, <1>1, WalkEnds, Outcomes
<1>2. CASE walk.i < walk.len /\ walk' = [walk EXCEPT !.i = @ + 1, !.init = @ \cup {walk.i}] /\ UNCHANGED cv
  BY <1>0, <1>2, ElementWritten
<1>3. CASE walk' = [walk EXCEPT !.dropped = walk.init] /\ End(CvErr)
  BY <1>0, <1>3, WalkEnds, Outcomes
<1>4. CASE End(CvPanic) /\ UNCHANGED walk
  BY <1>0, <1>4, WalkEnds, Outcomes
<1> QED BY <1>1, <1>2, <1>3, <1>4 DEF RecordEntry

(* A field is read as its default exactly when its cell counts as absent.  *)
LEMMA StepReadField ==
  ASSUME CvIInv, cv.pc = "walk", cv.kind \in {"dictionary", "struct"}, walk.i < walk.len,
         NEW takes, ReadField(FieldOf(cv.opts = "default", CellAt(walk.i), takes))
  PROVE  CvIInv'
<1> DEFINE r == FieldOf(cv.opts = "default", CellAt(walk.i), takes)
<1>0. /\ walk.i \in Nat /\ walk.len \in Nat /\ walk.cells \in Seq(Cells) /\ Len(walk.cells) = walk.len
      /\ walk.read \in Seq({"value", "default"}) /\ Len(walk.read) = walk.i
  BY DEF CvIInv, CvWritten, CvRead
<1>c. CellAt(walk.i) = walk.cells[walk.i + 1]
  BY <1>0 DEF CellAt
<1>d. cv.opts = "default" => (r = "default" <=> walk.cells[walk.i + 1] \in {"undefined", "throws"})
  BY <1>c DEF FieldOf, Present
<1>r. ReadField(r)
  OBVIOUS
<1> HIDE DEF r
<1>1. CASE /\ r \in {"value", "default"} /\ cv' = cv
           /\ walk' = [walk EXCEPT !.i = @ + 1, !.init = @ \cup {walk.i}, !.read = Append(@, r)]
  <2>1. /\ walk'.i = walk.i + 1 /\ walk'.len = walk.len /\ walk'.init = walk.init \cup {walk.i}
        /\ walk'.read = Append(walk.read, r) /\ walk'.cells = walk.cells /\ CvShape'
    BY <1>1 DEF CvIInv, CvShape
  <2>2. CvWritten'
    BY <1>0, <1>1, <2>1 DEF CvIInv, CvWritten
  <2>3. /\ Append(walk.read, r) \in Seq({"value", "default"}) /\ Len(Append(walk.read, r)) = walk.i + 1
        /\ Append(walk.read, r)[walk.i + 1] = r
        /\ \A k \in 1..walk.i : Append(walk.read, r)[k] = walk.read[k]
    BY <1>0, <1>1
  <2>4. cv.opts = "default" =>
          \A k \in 1..(walk.i + 1) :
            Append(walk.read, r)[k] = "default" <=> walk.cells[k] \in {"undefined", "throws"}
    <3> SUFFICES ASSUME cv.opts = "default", NEW k \in 1..(walk.i + 1)
        PROVE Append(walk.read, r)[k] = "default" <=> walk.cells[k] \in {"undefined", "throws"}
      OBVIOUS
    <3>1. CASE k = walk.i + 1
      BY <1>d, <2>3, <3>1
    <3>2. CASE k \in 1..walk.i
      BY <2>3, <3>2 DEF CvIInv, CvRead
    <3> QED BY <1>0, <3>1, <3>2
  <2>5. CvRead'
    BY <1>0, <1>1, <2>1, <2>3, <2>4 DEF CvRead
  <2> QED BY <1>1, <2>1, <2>2, <2>5, WalkGoesOn DEF CvIInv
<1>2. CASE walk' = [walk EXCEPT !.dropped = walk.init] /\ End(CvErr)
  <2>1. cv.kind \in Walked
    BY DEF Walked
  <2> QED BY <1>2, <2>1, WalkEnds, Outcomes
<1> QED BY <1>r, <1>1, <1>2 DEF ReadField

LEMMA StepField == ASSUME CvIInv, DictionaryField \/ StructField PROVE CvIInv'
<1>0. cv.pc = "walk" /\ cv.kind \in {"dictionary", "struct"} /\ cv.kind \in Walked
  BY DEF DictionaryField, StructField, Walked
<1>1. CASE walk.i = walk.len /\ End(CvOk(walk.i)) /\ UNCHANGED walk
  BY <1>0, <1>1, WalkEnds, Outcomes
<1>2. ASSUME walk.i < walk.len, NEW takes, ReadField(FieldOf(cv.opts = "default", CellAt(walk.i), takes))
      PROVE CvIInv'
  BY <1>0, <1>2, StepReadField
<1> QED BY <1>1, <1>2 DEF DictionaryField, StructField

(* A getter changes the array; what is written stays as it is.             *)
LEMMA StepRunGetter == ASSUME CvIInv, RunGetter PROVE CvIInv'
<1>1. cv.pc = "walk" /\ cv' = cv /\ cv.kind \notin {"dictionary", "struct"}
  BY DEF RunGetter, Getter
<1>2. PICK c : walk' = [walk EXCEPT !.cells = c]
  <2>1. walk = [walk EXCEPT !.cells = walk.cells]
    BY DEF CvIInv, CvShape
  <2> QED BY <2>1 DEF RunGetter, Getter
<1>3. walk'.i = walk.i /\ walk'.len = walk.len /\ walk'.init = walk.init /\ CvShape'
  BY <1>1, <1>2 DEF CvIInv, CvShape
<1>4. CvWritten' /\ CvRead'
  BY <1>1, <1>3 DEF CvIInv, CvWritten, CvRead
<1> QED BY <1>1, <1>3, <1>4, WalkGoesOn DEF CvIInv

LEMMA CvStep == ASSUME CvIInv, [CvNext]_cvVars PROVE CvIInv'
<1>1. CASE CvNext
  BY <1>1, StepConvertOne, StepThereAndBack, StepReturnBoth, StepStartWalk, StepRunGetter, StepVecElement,
     StepTupleElement, StepSequenceElement, StepRecordEntry, StepField DEF CvNext
<1>2. CASE UNCHANGED cvVars
  <2>1. cv' = cv /\ walk' = walk
    BY <1>2 DEF cvVars
  <2>2. CvShape' /\ CvAsked' /\ CvWritten' /\ CvRead' /\ ElementsInitialised'
    BY <2>1 DEF CvIInv, CvShape, CvAsked, CvWritten, CvRead, ElementsInitialised, CvDone
  <2>3. ConversionsFaithful'
    BY <2>1 DEF CvIInv, ConversionsFaithful, IntOptionsHonoured, WrappersRoundTrip, RetvalAgrees,
       DefaultsApply, CvDone
  <2> QED BY <2>2, <2>3 DEF CvIInv
<1> QED BY <1>1, <1>2

LEMMA CvStart == CvInit => CvIInv
<1> SUFFICES ASSUME CvInit PROVE CvIInv
  OBVIOUS
<1>1. ASSUME NEW kind, NEW ty, NEW opts, NEW v, cv = Case(kind, ty, opts, v)
      PROVE /\ cv = [pc |-> cv.pc, kind |-> cv.kind, ty |-> cv.ty, opts |-> cv.opts, v |-> cv.v, out |-> cv.out]
            /\ cv.pc = "start" /\ cv.kind = kind /\ cv.ty = ty /\ cv.opts = opts /\ cv.v = v
  BY <1>1 DEF Case
<1>2. ASSUME NEW t, NEW n PROVE CvJs(t, n).t = t /\ CvJs(t, n).n = n
  BY DEF CvJs
<1>3. ASSUME NEW cells \in Seq(Cells), walk = [NoWalk EXCEPT !.cells = cells]
      PROVE /\ walk = [cells |-> walk.cells, i |-> walk.i, len |-> walk.len, init |-> walk.init,
                       dropped |-> walk.dropped, read |-> walk.read]
            /\ walk.cells \in Seq(Cells) /\ walk.i = 0 /\ walk.len = 0 /\ walk.init = {} /\ walk.dropped = {}
            /\ walk.read = <<>>
  <2>1. walk = [cells |-> cells, i |-> 0, len |-> 0, init |-> {}, dropped |-> {}, read |-> <<>>]
    BY <1>3 DEF NoWalk
  <2> QED BY <2>1
<1>4. ASSUME cv.pc = "start", CvShape, walk.i = 0, walk.len = 0, walk.init = {}, CvAsked
      PROVE CvIInv
  <2>1. CvWritten /\ CvRead /\ ElementsInitialised
    BY <1>4 DEF CvWritten, CvRead, ElementsInitialised, CvDone
  <2>2. ConversionsFaithful
    BY <1>4 DEF ConversionsFaithful, IntOptionsHonoured, WrappersRoundTrip, RetvalAgrees, DefaultsApply, CvDone
  <2> QED BY <1>4, <2>1, <2>2 DEF CvIInv
<1>5. <<>> \in Seq(Cells) /\ NoWalk = [NoWalk EXCEPT !.cells = <<>>]
  BY DEF NoWalk
<1>6. ASSUME walk = NoWalk, NEW k \in {"webidl", "option", "nullable"}, NEW v \in JsAll, NEW ty, NEW o,
             cv = Case(k, ty, o, v)
      PROVE CvIInv
  <2>1. v.t = "num" => v.n \in Int
    BY CvAssumption DEF JsAll
  <2>w. /\ walk = [cells |-> walk.cells, i |-> walk.i, len |-> walk.len, init |-> walk.init,
                   dropped |-> walk.dropped, read |-> walk.read]
        /\ walk.cells \in Seq(Cells) /\ walk.i = 0 /\ walk.len = 0 /\ walk.init = {} /\ walk.dropped = {}
        /\ walk.read = <<>>
    BY <1>3, <1>5, <1>6
  <2>c. /\ cv = [pc |-> cv.pc, kind |-> cv.kind, ty |-> cv.ty, opts |-> cv.opts, v |-> cv.v, out |-> cv.out]
        /\ cv.pc = "start" /\ cv.kind = k /\ cv.ty = ty /\ cv.opts = o /\ cv.v = v
    BY <1>1, <1>6
  <2>2. CvShape /\ CvAsked
    BY <2>1, <2>c, <2>w DEF CvShape, CvAsked, Wrappers
  <2> QED BY <1>4, <2>2, <2>c, <2>w
<1>7. ASSUME walk = NoWalk, NEW k \in Wrappers, NEW ty \in IntTypes, NEW x \in CvInts,
             x \in TypeMin(ty)..TypeMax(ty), k = "bool" => x \in 0..1, cv = Case(k, ty, "none", CvJs("rust", x))
      PROVE CvIInv
  <2>w. /\ walk = [cells |-> walk.cells, i |-> walk.i, len |-> walk.len, init |-> walk.init,
                   dropped |-> walk.dropped, read |-> walk.read]
        /\ walk.cells \in Seq(Cells) /\ walk.i = 0 /\ walk.len = 0 /\ walk.init = {} /\ walk.dropped = {}
        /\ walk.read = <<>>
    BY <1>3, <1>5, <1>7
  <2>c. /\ cv = [pc |-> cv.pc, kind |-> cv.kind, ty |-> cv.ty, opts |-> cv.opts, v |-> cv.v, out |-> cv.out]
        /\ cv.pc = "start" /\ cv.kind = k /\ cv.ty = ty /\ cv.opts = "none" /\ cv.v = CvJs("rust", x)
    BY <1>1, <1>7
  <2>1. CvShape
    BY <2>c, <2>w DEF CvShape
  <2>2. cv.v.n = x
    BY <1>2, <2>c
  <2>3. CvAsked
    BY <1>7, <2>2, <2>c, <2>w DEF CvAsked, Wrappers
  <2> QED BY <1>4, <2>1, <2>3, <2>c, <2>w
<1>8. ASSUME walk = NoWalk, NEW x \in CvInts, NEW m \in {"none", "smi", "number"},
             NEW ty \in IntTypes \cup {"unit", "bool", "option"},
             ty \in IntTypes => x \in TypeMin(ty)..TypeMax(ty),
             ty \notin IntTypes => x \in 0..1 /\ m = "none",
             ty \in {"u64", "i64"} => m # "none", cv = Case("result", ty, m, CvJs("rust", x))
      PROVE CvIInv
  <2>w. /\ walk = [cells |-> walk.cells, i |-> walk.i, len |-> walk.len, init |-> walk.init,
                   dropped |-> walk.dropped, read |-> walk.read]
        /\ walk.cells \in Seq(Cells) /\ walk.i = 0 /\ walk.len = 0 /\ walk.init = {} /\ walk.dropped = {}
        /\ walk.read = <<>>
    BY <1>3, <1>5, <1>8
  <2>c. /\ cv = [pc |-> cv.pc, kind |-> cv.kind, ty |-> cv.ty, opts |-> cv.opts, v |-> cv.v, out |-> cv.out]
        /\ cv.pc = "start" /\ cv.kind = "result" /\ cv.ty = ty /\ cv.opts = m /\ cv.v = CvJs("rust", x)
    BY <1>1, <1>8
  <2>1. CvShape
    BY <2>c, <2>w DEF CvShape
  <2>2. cv.v.n = x
    BY <1>2, <2>c
  <2>3. CvAsked
    BY <1>8, <2>2, <2>c, <2>w DEF CvAsked, Wrappers
  <2> QED BY <1>4, <2>1, <2>3, <2>c, <2>w
<1>9. ASSUME NEW cells \in CvCells, NEW k \in Walked, NEW ty, NEW o, NEW t,
             walk = [NoWalk EXCEPT !.cells = cells], cv = Case(k, ty, o, CvJs(t, 0))
      PROVE CvIInv
  <2>0. cells \in Seq(Cells)
    BY CvAssumption DEF Cells
  <2>w. /\ walk = [cells |-> walk.cells, i |-> walk.i, len |-> walk.len, init |-> walk.init,
                   dropped |-> walk.dropped, read |-> walk.read]
        /\ walk.cells \in Seq(Cells) /\ walk.i = 0 /\ walk.len = 0 /\ walk.init = {} /\ walk.dropped = {}
        /\ walk.read = <<>>
    BY <1>3, <1>9, <2>0
  <2>c. /\ cv = [pc |-> cv.pc, kind |-> cv.kind, ty |-> cv.ty, opts |-> cv.opts, v |-> cv.v, out |-> cv.out]
        /\ cv.pc = "start" /\ cv.kind = k /\ cv.ty = ty /\ cv.opts = o /\ cv.v = CvJs(t, 0)
    BY <1>1, <1>9
  <2>1. CvShape /\ CvAsked
    BY <2>c, <2>w DEF CvShape, CvAsked, Wrappers, Walked
  <2> QED BY <1>4, <2>1, <2>c, <2>w
<1> QED BY <1>6, <1>7, <1>8, <1>9 DEF CvInit, Walked

(* Whatever the getters of an array do to it while Vec::from_v8 and the    *)
(* tuples read it, a conversion that succeeds has written each element it  *)
(* hands out, and one that fails drops exactly those it wrote              *)
(* (ElementsInitialised): for arrays of any length.                        *)
THEOREM ElementsAreInitialised == CvSpec => []ElementsInitialised
<1>1. CvIInv /\ [CvNext]_cvVars => CvIInv'
  BY CvStep
<1>2. CvIInv => ElementsInitialised
  BY DEF CvIInv
<1> QED BY <1>1, <1>2, CvStart, PTL DEF CvSpec

(* The WebIDL integers keep to clamp and enforce_range, the wrappers give  *)
(* back what they were given, a result is the same by both ways, and an    *)
(* absent field and no other gets its default (ConversionsFaithful): for   *)
(* every number, every integer and objects with any number of fields.      *)
THEOREM ConversionsAreFaithful == CvSpec => []ConversionsFaithful
<1>1. CvIInv /\ [CvNext]_cvVars => CvIInv'
  BY CvStep
<1>2. CvIInv => ConversionsFaithful
  BY DEF CvIInv
<1> QED BY <1>1, <1>2, CvStart, PTL DEF CvSpec

(***************************************************************************)
(* The arguments of Op2.  Each entry of the generated code, slow or fast,  *)
(* hands over the value the argument denotes, or throws: the conversions   *)
(* are compared with it type by type.                                      *)
(***************************************************************************)

LEMMA Op2Widths ==
  2^W8 = 4 /\ 2^W32 = 8 /\ 2^(W32 - 1) = 4 /\ 2^W64 = 32 /\ 2^(W64 - 1) = 16
BY DEF W8, W32, W64

LEMMA JsFields ==
  ASSUME NEW v \in JsValues
  PROVE  /\ v.t \in {"num", "big"} => v.n \in Int
         /\ v.t = "str" => v.s \in Seq(Nat)
<1>1. CASE v \in [t : {"num"}, n : Op2Numbers, s : {<<>>}]
  BY <1>1, Op2Assumption
<1>2. CASE v \in [t : {"big"}, n : Op2BigInts, s : {<<>>}]
  BY <1>2, Op2Assumption
<1>3. CASE v \in [t : {"str"}, n : {0}, s : Op2Strings]
  BY <1>3, Op2Assumption
<1>4. CASE v \in [t : Views \cup {"arraybuffer"}, n : {0, 1}, s : {<<>>, <<1, 2>>}]
  BY <1>4 DEF Views
<1>5. CASE v \in [t : {"absent", "undefined", "null", "true", "false", "external", "wrapped", "object"},
                  n : {0}, s : {<<>>}]
  BY <1>5
<1> QED BY <1>1, <1>2, <1>3, <1>4, <1>5 DEF JsValues

(* What the macro lets through as a parameter. *)
Parameter(arg) ==
  /\ arg.opt => arg.k \in {"numeric", "string", "buffer", "v8", "local", "cppgc"}
  /\ arg.k = "numeric" => arg.n \in Numerics \cup {"smi"} /\ (arg.num => arg.n \in Wide)

LEMMA NumericPath ==
  ASSUME NEW pos, NEW primary, NEW ctx, NEW of, parse_type_path(pos, primary, ctx, of).k = "numeric"
  PROVE  of \in Numerics
<1>1. path_container(of, primary) = "numeric"
  BY DEF parse_type_path, Err
<1>2. path_container(of, primary) = "numeric" => of \in Numerics
  BY DEF path_container
<1> QED BY <1>1, <1>2

(* A parameter that is not optional. *)
PlainArgument(a) == a.opt = FALSE /\ a.num = FALSE /\ (a.k = "numeric" => a.n \in Numerics)

LEMMA ArgOfPlain ==
  ASSUME NEW k, NEW n, k # "numeric", NEW a, a = ArgOf(k, n)
  PROVE  PlainArgument(a)
BY DEF ArgOf, PlainArgument

LEMMA BuiltPlain ==
  ASSUME NEW c, NEW ty, NEW pos, NEW primary, NEW a, a = from_parsed(c, ty, pos, primary),
         a # Err, c = "numeric" => ty.of \in Numerics
  PROVE  PlainArgument(a)
<1>1. CASE c = "buffer"
  BY <1>1 DEF from_parsed, ArgOf, PlainArgument
<1>2. CASE c \in {"unknown", "scoped"}
  BY <1>2 DEF from_parsed, ArgOf, PlainArgument
<1>3. CASE c \notin {"buffer", "unknown", "scoped"}
  BY <1>3 DEF from_parsed, ArgOf, PlainArgument
<1> QED BY <1>1, <1>2, <1>3

(* Outside Option a type yields such a parameter. *)
LEMMA PlainParameter ==
  ASSUME NEW pos, NEW primary, NEW ty, NEW a, a = parse_plain(pos, primary, ty), a # Err
  PROVE  PlainArgument(a)
<1> DEFINE parsed(ctx) == parse_type_path(pos, primary, ctx, ty.of)
<1>1. \/ \E k, n : k # "numeric" /\ a = ArgOf(k, n)
      \/ \E c, t : a = from_parsed(c, t, pos, primary) /\ (c = "numeric" => t.of \in Numerics)
  <2>1. CASE ty.form = "unit"
    <3>1. a = ArgOf("void", "")
      BY <2>1 DEF parse_plain
    <3> QED BY <3>1
  <2>2. CASE ty.form = "tuple"
    <3>1. a = ArgOf("fromv8", "tuple") \/ a = ArgOf("tov8", "tuple")
      BY <2>2 DEF parse_plain
    <3> QED BY <3>1
  <2>3. CASE ty.form = "slice"
    <3>1. a = ArgOf("external", "c_void") \/ a = from_parsed("buffer", [ty EXCEPT !.of = "slice"], pos, primary)
      BY <2>3 DEF parse_plain
    <3> QED BY <3>1
  <2>4. CASE ty.form = "ref"
    <3> DEFINE c == IF parsed("ref").k = "special" THEN "refspecial" ELSE parsed("ref").k
    <3>1. a = from_parsed(c, ty, pos, primary) /\ parsed("ref").k \in {"string", "v8", "special"}
      BY <2>4 DEF parse_plain
    <3>2. c # "numeric"
      BY <3>1
    <3> HIDE DEF c
    <3> QED BY <3>1, <3>2
  <2>5. CASE ty.form = "ptr"
    <3>1. a = ArgOf("external", "c_void") \/ a = from_parsed("buffer", [ty EXCEPT !.of = "ptr"], pos, primary)
      BY <2>5 DEF parse_plain
    <3> QED BY <3>1
  <2>6. CASE ty.form = "path"
    <3>1. a = from_parsed(parsed("none").k, ty, pos, primary)
      BY <2>6 DEF parse_plain
    <3>2. parsed("none").k = "numeric" => ty.of \in Numerics
      BY NumericPath
    <3> HIDE DEF parsed
    <3> QED BY <3>1, <3>2
  <2>7. CASE ty.form \notin {"unit", "tuple", "slice", "ref", "ptr", "path"}
    BY <2>7 DEF parse_plain
  <2> QED BY <2>1, <2>2, <2>3, <2>4, <2>5, <2>6, <2>7
<1> QED BY <1>1, ArgOfPlain, BuiltPlain

LEMMA PlainIsParameter ==
  ASSUME NEW a, PlainArgument(a) PROVE Parameter(a)
BY DEF PlainArgument, Parameter

LEMMA OptionParameter ==
  ASSUME NEW pos, NEW primary, NEW ty, ty.opt, NEW inner, inner = parse_plain(pos, primary, ty),
         NEW a, a = parse_option(pos, primary, ty, inner), a # Err, ~Failed(a), from_arg(a)
  PROVE  Parameter(a)
<1>1. \/ /\ a = [inner EXCEPT !.opt = TRUE] /\ ~Failed(inner)
         /\ inner.k \in {"special", "string", "numeric", "buffer", "v8", "local"}
      \/ a = ArgOf("fromv8", ty.of) \/ a = ArgOf("tov8", ty.of)
  BY DEF parse_option
<1>2. CASE a = ArgOf("fromv8", ty.of) \/ a = ArgOf("tov8", ty.of)
  BY <1>2, ArgOfPlain, PlainIsParameter
<1>3. CASE /\ a = [inner EXCEPT !.opt = TRUE] /\ ~Failed(inner)
           /\ inner.k \in {"special", "string", "numeric", "buffer", "v8", "local"}
  <2>0. inner # Err
    BY <1>3 DEF Failed, Err
  <2>1. PlainArgument(inner)
    BY <2>0, PlainParameter
  <2>2. a.k = inner.k /\ a.n = inner.n /\ a.num = inner.num
    BY <1>3
  <2>3. a.k # "special"
    BY DEF from_arg
  <2> QED BY <1>3, <2>1, <2>2, <2>3 DEF Parameter, PlainArgument
<1> QED BY <1>1, <1>2, <1>3

LEMMA ParsedParameter ==
  ASSUME NEW primary, NEW ty, ty.opt \in BOOLEAN, NEW a, a = parse_type("arg", primary, ty),
         ~Failed(a), from_arg(a)
  PROVE  Parameter(a)
<1>0. a # Err /\ a # Panic
  BY DEF Failed, Err, Panic
<1>1. CASE primary.a \in {"validate", "undefined", "varargs", "this"}
  <2>1. a = ArgOf("varargs", "") \/ a = ArgOf("this", "")
    BY <1>0, <1>1 DEF parse_type
  <2> QED BY <2>1, ArgOfPlain, PlainIsParameter
<1>2. CASE primary.a \in {"cppgc", "proto"}
  <2>1. a = parse_cppgc("arg", ty, primary.a = "proto")
    BY <1>2 DEF parse_type
  <2>2. a = [ArgOf("cppgc", ty.of) EXCEPT !.opt = ty.opt, !.num = (primary.a = "proto") /\ ~ty.opt]
    BY <1>0, <2>1 DEF parse_cppgc
  <2>3. a.k = "cppgc"
    BY <2>2 DEF ArgOf
  <2> QED BY <2>3 DEF Parameter
<1>3. CASE primary.a \in {"serde", "webidl"}
  <2>1. a = ArgOf(primary.a, "tuple") \/ a = ArgOf(primary.a, ty.of)
    BY <1>0, <1>3 DEF parse_type
  <2> QED BY <1>3, <2>1, ArgOfPlain, PlainIsParameter
<1>4. CASE primary.a = "number"
  <2>1. a = [ArgOf("numeric", ty.of) EXCEPT !.opt = ty.opt, !.num = TRUE] /\ ty.of \in Wide
    BY <1>0, <1>4 DEF parse_type
  <2>2. a.k = "numeric" /\ a.n = ty.of
    BY <2>1 DEF ArgOf
  <2> QED BY <2>1, <2>2 DEF Parameter, Numerics
<1>5. CASE primary.a = "smi"
  <2>1. a = [ArgOf("numeric", "smi") EXCEPT !.opt = ty.opt]
    BY <1>0, <1>5 DEF parse_type
  <2>2. a.k = "numeric" /\ a.n = "smi" /\ a.num = FALSE
    BY <2>1 DEF ArgOf
  <2> QED BY <2>1, <2>2 DEF Parameter
<1>6. CASE primary.a \notin {"validate", "undefined", "varargs", "this", "cppgc", "proto", "serde",
                             "webidl", "number", "smi"}
  <2>1. PICK inner : inner = parse_plain("arg", primary, ty)
    OBVIOUS
  <2>2. a = parse_option("arg", primary, ty, inner)
    BY <1>6, <2>1 DEF parse_type
  <2>3. CASE ty.opt
    BY <1>0, <2>1, <2>2, <2>3, OptionParameter
  <2>4. CASE ~ty.opt
    <3>1. a = inner
      BY <2>2, <2>4 DEF parse_option
    <3> QED BY <1>0, <2>1, <3>1, PlainParameter, PlainIsParameter
  <2> QED BY <2>3, <2>4
<1> QED BY <1>1, <1>2, <1>3, <1>4, <1>5, <1>6

(* The first one that failed. *)
FirstFailure(s) == SelectInSeq(s, Failed)

LEMMA FirstFailed ==
  ASSUME NEW s, Len(s) \in Nat, NEW first, first = FirstFailure(s)
  PROVE  /\ first # 0 => Failed(s[first])
         /\ first = 0 => \A i \in 1 .. Len(s) : ~Failed(s[i])
<1> DEFINE I == {i \in 1 .. Len(s) : Failed(s[i])}
<1>1. first = IF I # {} THEN Min(I) ELSE 0
  BY DEF SelectInSeq, FirstFailure
<1>2. ASSUME I # {} PROVE Min(I) \in I
  <2>1. I \subseteq Nat
    OBVIOUS
  <2> HIDE DEF I
  <2>2. \E x \in I : \A y \in I : x <= y
    BY <1>2, <2>1, LeastNumber
  <2> QED BY <2>2 DEF Min
<1> QED BY <1>1, <1>2

(* The fast entry exists for a parameter that has a C type. *)
LEMMA FastEntry ==
  ASSUME NEW cfg, NEW arg, NEW ret, generate_dispatch_fast(cfg, arg, ret) = "fast",
         "fast(other)" \notin cfg.f
  PROVE  map_arg_to_v8_fastcall_type(arg) \notin {"slow", "error"}
BY DEF generate_dispatch_fast

(* What the macro can make of a source. *)
LEMMA Expanded ==
  ASSUME NEW o, o.ty.opt \in BOOLEAN, NEW op, op = generate_op2(o)
  PROVE  /\ op.k # "source"
         /\ op.k = "op" =>
              /\ Parameter(op.arg)
              /\ op.fast => map_arg_to_v8_fastcall_type(op.arg) \notin {"slow", "error"}
<1>1. PICK cfg, as, arg, ret :
        /\ cfg = from_metas(o.flags) /\ as = parse_attributes(o.attrs)
        /\ arg = (IF Failed(as) THEN as ELSE parse_type("arg", as.primary, o.ty))
        /\ ret = try_parse(o.ret)
  OBVIOUS
<1>2. PICK s, first : s = <<cfg, as, arg, ret>> /\ first = FirstFailure(s)
  OBVIOUS
<1>3. PICK fast : fast = generate_dispatch_fast(cfg, arg, ret)
  OBVIOUS
<1> DEFINE isFast == fast = "fast" /\ cfg.f \cap {"nofast", "getter", "setter", "fast(other)"} = {}
           result == [k |-> "op", cfg |-> cfg, arg |-> arg, ret |-> ret,
                      validated |-> as.validated, fast |-> isFast,
                      async |-> ret.async \/ "async(fake)" \in cfg.f]
<1>4. op = IF first # 0 THEN s[first]
           ELSE IF ~from_arg(arg) \/ (slow_retval(ret.arg) = "none" /\ "setter" \notin cfg.f) THEN Err
           ELSE IF fast = "error" \/ ShouldBeFast(cfg, fast) \/ ShouldNotBeFast(cfg, fast) THEN Err
           ELSE result
  BY <1>1, <1>2, <1>3, Zenon DEF generate_op2, FirstFailure
<1> HIDE DEF isFast
<1>5. Len(s) = 4 /\ s[2] = as /\ s[3] = arg
  BY <1>2
<1>6. /\ first # 0 => Failed(s[first])
      /\ first = 0 => \A i \in 1 .. Len(s) : ~Failed(s[i])
  BY <1>2, <1>5, FirstFailed
<1>7. result.k = "op" /\ result.arg = arg /\ result.fast = isFast /\ Err.k = "error"
  BY DEF Err
<1> HIDE DEF result
<1>8. op.k # "source"
  BY <1>4, <1>6, <1>7 DEF Failed
<1>9. ASSUME op.k = "op"
      PROVE  Parameter(arg) /\ op.arg = arg
             /\ (op.fast => map_arg_to_v8_fastcall_type(arg) \notin {"slow", "error"})
  <2>1. first = 0 /\ op = result /\ from_arg(arg)
    BY <1>4, <1>6, <1>7, <1>9 DEF Failed
  <2>2. ~Failed(s[2]) /\ ~Failed(s[3])
    <3>1. 2 \in 1 .. Len(s) /\ 3 \in 1 .. Len(s)
      BY <1>5
    <3>2. \A i \in 1 .. Len(s) : ~Failed(s[i])
      BY <1>6, <2>1
    <3> QED BY <3>1, <3>2, Zenon
  <2>3. ~Failed(as) /\ ~Failed(arg)
    BY <1>5, <2>2
  <2>4. Parameter(arg)
    BY <1>1, <2>1, <2>3, ParsedParameter
  <2>5. isFast => fast = "fast" /\ "fast(other)" \notin cfg.f
    BY DEF isFast
  <2>6. isFast => map_arg_to_v8_fastcall_type(arg) \notin {"slow", "error"}
    BY <1>3, <2>5, FastEntry
  <2> QED BY <1>7, <2>1, <2>4, <2>6
<1> QED BY <1>8, <1>9

(* A number that is in the range of a type stays what it is. *)
LEMMA Wraps ==
  ASSUME NEW x \in Int
  PROVE  /\ x \in 0 .. 3 => UWrap(W8, x) = x
         /\ x \in 0 .. 7 => UWrap(W32, x) = x
         /\ x \in -4 .. 3 => SWrap(W32, x) = x
         /\ x \in 0 .. 31 => UWrap(W64, x) = x
         /\ x \in -16 .. 15 => SWrap(W64, x) = x /\ SWrap(W64, UWrap(W64, x)) = x
<1>1. UWrap(W8, x) = x % 4 /\ UWrap(W32, x) = x % 8 /\ UWrap(W64, x) = x % 32
  BY Op2Widths DEF UWrap
<1>2. SWrap(W32, x) = ((x + 4) % 8) - 4 /\ SWrap(W64, x) = ((x + 16) % 32) - 16
  BY Op2Widths DEF SWrap
<1>3. SWrap(W64, UWrap(W64, x)) = (((x % 32) + 16) % 32) - 16
  BY <1>1, Op2Widths DEF SWrap
<1>4. x \in 0 .. 3 => x % 4 = x
  OBVIOUS
<1>5. x \in 0 .. 7 => x % 8 = x
  OBVIOUS
<1>6. x \in 0 .. 31 => x % 32 = x
  OBVIOUS
<1>7. x \in -4 .. 3 => (x + 4) % 8 = x + 4
  OBVIOUS
<1>8. x \in -16 .. 15 => (x + 16) % 32 = x + 16 /\ ((x % 32) + 16) % 32 = x + 16
  OBVIOUS
<1> QED BY <1>1, <1>2, <1>3, <1>4, <1>5, <1>6, <1>7, <1>8

LEMMA Saturates ==
  ASSUME NEW h \in Int, NEW x \in Int, h = 2 * x
  PROVE  /\ h \div 2 = x /\ h % 2 = 0
         /\ x \in 0 .. 31 => USat(h) = x
         /\ x \in -16 .. 15 => SSat(h) = x
<1>1. Trunc(h) = x /\ h \div 2 = x /\ h % 2 = 0
  BY DEF Trunc
<1> QED BY <1>1, Op2Widths DEF USat, SSat, Clamp

LEMMA SmallInts ==
  ASSUME NEW v
  PROVE  /\ IsUint32(v) <=> v.t = "num" /\ v.n % 2 = 0 /\ v.n \div 2 \in 0 .. 7
         /\ IsInt32(v) <=> v.t = "num" /\ v.n % 2 = 0 /\ v.n \div 2 \in -4 .. 3
<1>1. 8 - 1 = 7 /\ 4 - 1 = 3
  OBVIOUS
<1> QED BY <1>1, Op2Widths DEF IsUint32, IsInt32

(* What a conforming number denotes, by the type it is passed as. *)
LEMMA ConformingNumber ==
  ASSUME NEW arg, NEW v, v.t \in {"num", "big"} => v.n \in Int, ConformsNumeric(arg, v)
  PROVE  /\ arg.n = "bool" => v.t \in {"true", "false"}
         /\ arg.n = "f64" => v.t = "num"
         /\ arg.n = "u8" => v.t = "num" /\ v.n % 2 = 0 /\ v.n \div 2 \in 0 .. 3
         /\ arg.n = "u32" => v.t = "num" /\ v.n % 2 = 0 /\ v.n \div 2 \in 0 .. 7
         /\ arg.n \in {"i32", "smi"} => v.t = "num" /\ v.n % 2 = 0 /\ v.n \div 2 \in -4 .. 3
         /\ arg.n = "u64" => IF arg.num THEN v.t = "num" /\ v.n % 2 = 0 /\ v.n \div 2 \in 0 .. 31
                             ELSE v.t = "big" /\ v.n \in 0 .. 31
         /\ arg.n = "i64" => IF arg.num THEN v.t = "num" /\ v.n % 2 = 0 /\ v.n \div 2 \in -16 .. 15
                             ELSE v.t = "big" /\ v.n \in -16 .. 15
<1>0. /\ 2^W8 - 1 = 3 /\ 2^W32 - 1 = 7 /\ -(2^(W32 - 1)) = -4 /\ 2^(W32 - 1) - 1 = 3
      /\ 2^W64 - 1 = 31 /\ -(2^(W64 - 1)) = -16 /\ 2^(W64 - 1) - 1 = 15
  BY Op2Widths
<1>e. ASSUME NEW lo \in Int, NEW hi \in Int, v.n \in {2 * i : i \in lo .. hi}
      PROVE  v.n % 2 = 0 /\ v.n \div 2 \in lo .. hi
  <2>1. PICK i \in lo .. hi : v.n = 2 * i
    BY <1>e
  <2> QED BY <2>1, Saturates
<1>1. CASE arg.n = "bool"
  BY <1>1 DEF ConformsNumeric
<1>2. CASE arg.n = "f64"
  BY <1>2 DEF ConformsNumeric
<1>3. CASE arg.n = "u8"
  <2>1. v.t = "num" /\ v.n \in {2 * i : i \in 0 .. 3}
    BY <1>0, <1>3 DEF ConformsNumeric
  <2> QED BY <1>3, <1>e, <2>1
<1>4. CASE arg.n = "u32"
  <2>1. IsUint32(v)
    BY <1>4 DEF ConformsNumeric
  <2> QED BY <1>4, <2>1, SmallInts
<1>5. CASE arg.n \in {"i32", "smi"}
  <2>1. IsInt32(v)
    BY <1>5 DEF ConformsNumeric
  <2> QED BY <1>5, <2>1, SmallInts
<1>6. CASE arg.n = "u64"
  <2>1. IF arg.num THEN v.t = "num" /\ v.n \in {2 * i : i \in 0 .. 31} ELSE v.t = "big" /\ v.n \in 0 .. 31
    BY <1>0, <1>6 DEF ConformsNumeric
  <2> QED BY <1>6, <1>e, <2>1
<1>7. CASE arg.n = "i64"
  <2>1. IF arg.num THEN v.t = "num" /\ v.n \in {2 * i : i \in -16 .. 15} ELSE v.t = "big" /\ v.n \in -16 .. 15
    BY <1>0, <1>7 DEF ConformsNumeric
  <2> QED BY <1>7, <1>e, <2>1
<1>8. CASE arg.n \notin {"bool", "f64", "u8", "u32", "i32", "smi", "u64", "i64"}
  BY <1>8
<1> QED BY <1>1, <1>2, <1>3, <1>4, <1>5, <1>6, <1>7, <1>8

LEMMA OutcomeFields == ASSUME NEW n PROVE Num(n).o = "ok" /\ Num(n).n = n
BY DEF Num

(* An even Number is two times its half. *)
LEMMA Halved ==
  ASSUME NEW h \in Int, h % 2 = 0
  PROVE  h = 2 * (h \div 2) /\ h \div 2 \in Int
OBVIOUS

(* The slow entry's conversion of a conforming number. *)
LEMMA SlowNumberArrives ==
  ASSUME NEW arg, NEW v, v.t \in {"num", "big"} => v.n \in Int,
         arg.n \in Numerics \cup {"smi"}, arg.num => arg.n \in Wide, ConformsNumeric(arg, v)
  PROVE  SlowNumeric(arg, v) = Meaning(arg, v)
<1>1. CASE arg.n = "bool"
  <2>1. v.t \in {"true", "false"} /\ ~arg.num
    BY <1>1, ConformingNumber DEF Wide
  <2>2. SlowNumeric(arg, v) = Num(Cast(arg.n, IF v.t = "true" THEN 1 ELSE 0))
    BY <1>1, <2>1 DEF SlowNumeric, Num
  <2>3. Cast(arg.n, 1) = 1 /\ Cast(arg.n, 0) = 0
    BY <1>1 DEF Cast
  <2> QED BY <2>1, <2>2, <2>3 DEF Meaning
<1>2. CASE arg.n = "f64"
  <2>1. v.t = "num" /\ ~arg.num
    BY <1>2, ConformingNumber DEF Wide
  <2>2. SlowNumeric(arg, v) = Num(Cast(arg.n, v.n))
    BY <1>2, <2>1 DEF SlowNumeric, to_f64_option, Num
  <2>3. Cast(arg.n, v.n) = v.n
    BY <1>2 DEF Cast
  <2> QED BY <1>2, <2>1, <2>2, <2>3 DEF Meaning
<1>3. CASE arg.n \in {"u8", "u32"}
  <2>1. /\ v.t = "num" /\ v.n \in Int /\ v.n % 2 = 0 /\ v.n \div 2 \in 0 .. 7 /\ ~arg.num
        /\ arg.n = "u8" => v.n \div 2 \in 0 .. 3
    BY <1>3, ConformingNumber DEF Wide
  <2>2. IsUint32(v)
    BY <2>1, SmallInts
  <2>3. to_u32_option(v) = Num(UWrap(W32, v.n \div 2))
    BY <2>1, <2>2 DEF to_u32_option
  <2>4. UWrap(W32, v.n \div 2) = v.n \div 2
    BY <2>1, Wraps
  <2>5. Cast(arg.n, v.n \div 2) = v.n \div 2
    BY <1>3, <2>1, <2>4, Wraps DEF Cast
  <2>6. SlowNumeric(arg, v) = Num(Cast(arg.n, v.n \div 2))
    BY <1>3, <2>1, <2>3, <2>4, OutcomeFields DEF SlowNumeric
  <2> QED BY <1>3, <2>1, <2>5, <2>6 DEF Meaning
<1>4. CASE arg.n \in {"i32", "smi"}
  <2>1. v.t = "num" /\ v.n \in Int /\ v.n % 2 = 0 /\ v.n \div 2 \in -4 .. 3 /\ ~arg.num
    BY <1>4, ConformingNumber DEF Wide
  <2>2. IsInt32(v)
    BY <2>1, SmallInts
  <2>3. to_i32_option(v) = Num(SWrap(W32, v.n \div 2))
    BY <2>1, <2>2 DEF to_i32_option
  <2>4. SWrap(W32, v.n \div 2) = v.n \div 2
    BY <2>1, Wraps
  <2>5. Cast(arg.n, v.n \div 2) = v.n \div 2
    BY <1>4, <2>4 DEF Cast
  <2>6. SlowNumeric(arg, v) = Num(Cast(arg.n, v.n \div 2))
    BY <1>4, <2>1, <2>3, <2>4, OutcomeFields DEF SlowNumeric
  <2> QED BY <1>4, <2>1, <2>5, <2>6 DEF Meaning
<1>5. CASE arg.n \in {"u64", "i64"} /\ arg.num
  <2>1. /\ v.t = "num" /\ v.n \in Int /\ v.n % 2 = 0
        /\ arg.n = "u64" => v.n \div 2 \in 0 .. 31
        /\ arg.n = "i64" => v.n \div 2 \in -16 .. 15
    BY <1>5, ConformingNumber
  <2>2. to_f64_option(v) = Num(v.n)
    BY <2>1 DEF to_f64_option
  <2>3. SlowNumeric(arg, v) = Num(IF arg.n = "u64" THEN USat(v.n) ELSE SSat(v.n))
    BY <1>5, <2>2, OutcomeFields DEF SlowNumeric
  <2>4. (IF arg.n = "u64" THEN USat(v.n) ELSE SSat(v.n)) = v.n \div 2
    BY <1>5, <2>1, Halved, Saturates
  <2> QED BY <1>5, <2>1, <2>3, <2>4 DEF Meaning
<1>6. CASE arg.n = "u64" /\ ~arg.num
  <2>1. v.t = "big" /\ v.n \in 0 .. 31
    BY <1>6, ConformingNumber
  <2>2. to_u64_option(v) = Num(UWrap(W64, v.n))
    BY <2>1 DEF to_u64_option
  <2>3. UWrap(W64, v.n) = v.n
    BY <2>1, Wraps
  <2>4. SlowNumeric(arg, v) = Num(Cast(arg.n, v.n))
    BY <1>6, <2>2, <2>3, OutcomeFields DEF SlowNumeric
  <2>5. Cast(arg.n, v.n) = v.n
    BY <1>6, <2>3 DEF Cast
  <2> QED BY <2>1, <2>4, <2>5 DEF Meaning
<1>7. CASE arg.n = "i64" /\ ~arg.num
  <2>1. v.t = "big" /\ v.n \in -16 .. 15
    BY <1>7, ConformingNumber
  <2>2. to_i64_option(v) = Num(SWrap(W64, UWrap(W64, v.n)))
    BY <2>1 DEF to_i64_option
  <2>3. SWrap(W64, UWrap(W64, v.n)) = v.n /\ SWrap(W64, v.n) = v.n
    BY <2>1, Wraps
  <2>4. SlowNumeric(arg, v) = Num(Cast(arg.n, v.n))
    BY <1>7, <2>2, <2>3, OutcomeFields DEF SlowNumeric
  <2>5. Cast(arg.n, v.n) = v.n
    BY <1>7, <2>3 DEF Cast
  <2> QED BY <2>1, <2>4, <2>5 DEF Meaning
<1> QED BY <1>1, <1>2, <1>3, <1>4, <1>5, <1>6, <1>7 DEF Numerics, Wide

(* The fast entry's, which starts from what V8 made of it. *)
FastNumeric(arg, raw) ==
  Num(IF arg.num THEN (IF arg.n = "u64" THEN USat(raw) ELSE SSat(raw)) ELSE Cast(arg.n, raw))

LEMMA FastNumberArrives ==
  ASSUME NEW arg, NEW v, v.t \in {"num", "big"} => v.n \in Int, arg.k = "numeric",
         arg.n \in Numerics \cup {"smi"}, arg.num => arg.n \in Wide, ConformsNumeric(arg, v),
         NEW ctype, ctype = map_arg_to_v8_fastcall_type(arg), ctype # "slow"
  PROVE  FastNumeric(arg, FastRaw(ctype, v)) = Meaning(arg, v)
<1>0. ctype = IF arg.num \/ arg.n = "f64" THEN "F64" ELSE IF arg.n = "bool" THEN "Bool"
              ELSE IF arg.n \in {"u8", "u32"} THEN "U32" ELSE IF arg.n \in {"i32", "smi"} THEN "I32"
              ELSE IF arg.n = "u64" THEN "U64" ELSE "I64"
  BY DEF map_arg_to_v8_fastcall_type
<1>t. ASSUME v.n \in Int, v.n % 2 = 0 PROVE Trunc(v.n) = v.n \div 2
  BY <1>t DEF Trunc
<1>1. CASE arg.n = "bool"
  <2>1. v.t \in {"true", "false"} /\ ~arg.num /\ ctype = "Bool"
    BY <1>0, <1>1, ConformingNumber DEF Wide
  <2>2. FastRaw(ctype, v) = IF v.t = "true" THEN 1 ELSE 0
    BY <2>1 DEF FastRaw
  <2>3. Cast(arg.n, 1) = 1 /\ Cast(arg.n, 0) = 0
    BY <1>1 DEF Cast
  <2> QED BY <2>1, <2>2, <2>3 DEF Meaning, FastNumeric
<1>2. CASE arg.n = "f64"
  <2>1. v.t = "num" /\ ~arg.num /\ ctype = "F64"
    BY <1>0, <1>2, ConformingNumber DEF Wide
  <2>2. FastRaw(ctype, v) = v.n
    BY <2>1 DEF FastRaw
  <2>3. Cast(arg.n, v.n) = v.n
    BY <1>2 DEF Cast
  <2> QED BY <1>2, <2>1, <2>2, <2>3 DEF Meaning, FastNumeric
<1>3. CASE arg.n \in {"u8", "u32"}
  <2>1. /\ v.t = "num" /\ v.n \in Int /\ v.n % 2 = 0 /\ v.n \div 2 \in 0 .. 7 /\ ~arg.num
        /\ arg.n = "u8" => v.n \div 2 \in 0 .. 3
    BY <1>3, ConformingNumber DEF Wide
  <2>2. ctype = "U32"
    BY <1>0, <1>3, <2>1
  <2>3. FastRaw(ctype, v) = UWrap(W32, v.n \div 2)
    BY <1>t, <2>1, <2>2 DEF FastRaw
  <2>4. UWrap(W32, v.n \div 2) = v.n \div 2
    BY <2>1, Wraps
  <2>5. Cast(arg.n, v.n \div 2) = v.n \div 2
    BY <1>3, <2>1, <2>4, Wraps DEF Cast
  <2> QED BY <1>3, <2>1, <2>3, <2>4, <2>5 DEF Meaning, FastNumeric
<1>4. CASE arg.n \in {"i32", "smi"}
  <2>1. v.t = "num" /\ v.n \in Int /\ v.n % 2 = 0 /\ v.n \div 2 \in -4 .. 3 /\ ~arg.num
    BY <1>4, ConformingNumber DEF Wide
  <2>2. ctype = "I32"
    BY <1>0, <1>4, <2>1
  <2>3. FastRaw(ctype, v) = SWrap(W32, v.n \div 2)
    BY <1>t, <2>1, <2>2 DEF FastRaw
  <2>4. SWrap(W32, v.n \div 2) = v.n \div 2
    BY <2>1, Wraps
  <2>5. Cast(arg.n, v.n \div 2) = v.n \div 2
    BY <1>4, <2>4 DEF Cast
  <2> QED BY <1>4, <2>1, <2>3, <2>4, <2>5 DEF Meaning, FastNumeric
<1>5. CASE arg.n \in {"u64", "i64"} /\ arg.num
  <2>1. /\ v.t = "num" /\ v.n \in Int /\ v.n % 2 = 0
        /\ arg.n = "u64" => v.n \div 2 \in 0 .. 31
        /\ arg.n = "i64" => v.n \div 2 \in -16 .. 15
    BY <1>5, ConformingNumber
  <2>2. FastRaw(ctype, v) = v.n
    BY <1>0, <1>5 DEF FastRaw
  <2>4. (IF arg.n = "u64" THEN USat(v.n) ELSE SSat(v.n)) = v.n \div 2
    BY <1>5, <2>1, Halved, Saturates
  <2> QED BY <1>5, <2>1, <2>2, <2>4 DEF Meaning, FastNumeric
<1>6. CASE arg.n = "u64" /\ ~arg.num
  <2>1. v.t = "big" /\ v.n \in 0 .. 31
    BY <1>6, ConformingNumber
  <2>2. FastRaw(ctype, v) = UWrap(W64, v.n)
    BY <1>0, <1>6 DEF FastRaw
  <2>3. UWrap(W64, v.n) = v.n
    BY <2>1, Wraps
  <2>4. Cast(arg.n, v.n) = v.n
    BY <1>6, <2>3 DEF Cast
  <2> QED BY <1>6, <2>1, <2>2, <2>3, <2>4 DEF Meaning, FastNumeric
<1>7. CASE arg.n = "i64" /\ ~arg.num
  <2>1. v.t = "big" /\ v.n \in -16 .. 15
    BY <1>7, ConformingNumber
  <2>2. FastRaw(ctype, v) = SWrap(W64, v.n)
    BY <1>0, <1>7 DEF FastRaw
  <2>3. SWrap(W64, v.n) = v.n
    BY <2>1, Wraps
  <2>4. Cast(arg.n, v.n) = v.n
    BY <1>7, <2>3 DEF Cast
  <2> QED BY <1>7, <2>1, <2>2, <2>3, <2>4 DEF Meaning, FastNumeric
<1> QED BY <1>1, <1>2, <1>3, <1>4, <1>5, <1>6, <1>7 DEF Numerics, Wide

(* Strings.  What each code unit becomes on the fast path. *)
Latin1Bytes(s) == [i \in DOMAIN s |-> IF s[i] < Ascii THEN <<s[i]>> ELSE Bytes2(s[i])]

LEMMA SameBytes ==
  ASSUME NEW s, OneByte(s)
  PROVE  latin1_to_utf8(s) = to_rust_string_lossy(s)
<1>1. Latin1Bytes(s) = [i \in DOMAIN s |->
        IF s[i] < Ascii THEN <<s[i]>> ELSE IF s[i] < Latin1 THEN Bytes2(s[i])
        ELSE <<224 + (s[i] \div 16)>> \o Bytes2(s[i] % 16)]
  BY DEF Latin1Bytes, OneByte
<1>2. latin1_to_utf8(s) = FlattenSeq(Latin1Bytes(s))
  BY DEF latin1_to_utf8, Latin1Bytes
<1> QED BY <1>1, <1>2 DEF to_rust_string_lossy

LEMMA UnitBytes ==
  ASSUME NEW c \in Nat
  PROVE  Bytes2(c) \in Seq(Nat) /\ Len(Bytes2(c)) = 2
<1>1. c \div 4 \in Nat /\ c % 4 \in Nat
  OBVIOUS
<1> QED BY <1>1 DEF Bytes2

LEMMA Latin1Type ==
  ASSUME NEW s \in Seq(Nat)
  PROVE  Latin1Bytes(s) \in Seq(Seq(Nat)) /\ Len(Latin1Bytes(s)) = Len(s)
<1>1. \A i \in 1 .. Len(s) : s[i] \in Nat /\ Latin1Bytes(s)[i] \in Seq(Nat)
  BY UnitBytes DEF Latin1Bytes
<1>2. DOMAIN s = 1 .. Len(s) /\ Len(s) \in Nat
  OBVIOUS
<1> QED BY <1>1, <1>2 DEF Latin1Bytes

LEMMA Latin1Append ==
  ASSUME NEW s \in Seq(Nat), NEW c \in Nat
  PROVE  Latin1Bytes(Append(s, c)) = Append(Latin1Bytes(s), IF c < Ascii THEN <<c>> ELSE Bytes2(c))
<1> DEFINE b == IF c < Ascii THEN <<c>> ELSE Bytes2(c)
           l == Latin1Bytes(Append(s, c))
           r == Append(Latin1Bytes(s), b)
<1>1. b \in Seq(Nat)
  BY UnitBytes
<1>2. Latin1Bytes(s) \in Seq(Seq(Nat)) /\ Len(Latin1Bytes(s)) = Len(s)
  BY Latin1Type
<1>3. Append(s, c) \in Seq(Nat) /\ Len(Append(s, c)) = Len(s) + 1
  OBVIOUS
<1>4. l \in Seq(Seq(Nat)) /\ Len(l) = Len(s) + 1
  BY <1>3, Latin1Type
<1>5. \A i \in 1 .. Len(s) : l[i] = Latin1Bytes(s)[i]
  BY DEF Latin1Bytes
<1>6. l[Len(s) + 1] = b
  BY DEF Latin1Bytes
<1> HIDE DEF b, l
<1>7. r \in Seq(Seq(Nat)) /\ Len(r) = Len(s) + 1 /\ r[Len(s) + 1] = b
      /\ \A i \in 1 .. Len(s) : r[i] = Latin1Bytes(s)[i]
  BY <1>1, <1>2
<1> HIDE DEF r
<1>8. \A i \in 1 .. Len(s) + 1 : l[i] = r[i]
  <2>1. \A i \in 1 .. Len(s) + 1 : i \in 1 .. Len(s) \/ i = Len(s) + 1
    OBVIOUS
  <2> QED BY <1>5, <1>6, <1>7, <2>1
<1>9. l = r
  BY <1>4, <1>7, <1>8
<1> QED BY <1>9 DEF l, r, b

(* A string of ASCII is its own UTF-8, and no string needs more than two   *)
(* bytes for a unit.                                                       *)
LEMMA Utf8OfLatin1 ==
  \A s \in Seq(Nat) :
    /\ latin1_to_utf8(s) \in Seq(Nat) /\ Len(latin1_to_utf8(s)) <= 2 * Len(s)
    /\ (\A i \in DOMAIN s : s[i] < Ascii) => latin1_to_utf8(s) = s
<1> DEFINE Fine(s) == /\ latin1_to_utf8(s) \in Seq(Nat) /\ Len(latin1_to_utf8(s)) <= 2 * Len(s)
                      /\ (\A i \in DOMAIN s : s[i] < Ascii) => latin1_to_utf8(s) = s
           T == {s \in Seq(Nat) : Fine(s)}
<1>0. \A s : latin1_to_utf8(s) = FlattenSeq(Latin1Bytes(s))
  BY DEF latin1_to_utf8, Latin1Bytes
<1>1. <<>> \in T
  <2>0. <<>> \in Seq(Nat) /\ Len(<<>>) = 0
    OBVIOUS
  <2>1. Latin1Bytes(<<>>) = <<>>
    BY DEF Latin1Bytes
  <2>2. latin1_to_utf8(<<>>) = <<>>
    BY <1>0, <2>1, FlattenEmpty
  <2>3. Len(<<>>) <= 2 * Len(<<>>)
    BY <2>0
  <2>4. Fine(<<>>)
    BY <2>0, <2>2, <2>3
  <2> QED BY <2>0, <2>4
<1>2. ASSUME NEW s \in Seq(Nat), NEW c \in Nat, s \in T PROVE Append(s, c) \in T
  <2>1. PICK b : b = IF c < Ascii THEN <<c>> ELSE Bytes2(c)
    OBVIOUS
  <2>2. b \in Seq(Nat) /\ Len(b) <= 2 /\ Len(b) \in Nat
    <3>1. CASE c < Ascii
      BY <2>1, <3>1, UnitBytes
    <3>2. CASE ~(c < Ascii)
      <4>1. b = Bytes2(c)
        BY <2>1, <3>2
      <4>2. Bytes2(c) \in Seq(Nat) /\ Len(Bytes2(c)) = 2
        BY UnitBytes
      <4> QED BY <4>1, <4>2
    <3> QED BY <3>1, <3>2
  <2>3. Latin1Bytes(s) \in Seq(Seq(Nat))
    BY Latin1Type
  <2>4. latin1_to_utf8(Append(s, c)) = latin1_to_utf8(s) \o b
    BY <1>0, <2>1, <2>2, <2>3, Latin1Append, FlattenAppend
  <2>5. Fine(s)
    BY <1>2
  <2>6. PICK u : u = latin1_to_utf8(s)
    OBVIOUS
  <2>7. u \in Seq(Nat) /\ Len(u) <= 2 * Len(s)
    BY <2>5, <2>6
  <2>8. u \o b \in Seq(Nat) /\ Len(u \o b) <= 2 * Len(Append(s, c))
    BY <2>2, <2>7
  <2>9. ASSUME \A i \in DOMAIN Append(s, c) : Append(s, c)[i] < Ascii
        PROVE  u \o b = Append(s, c)
    <3>1. \A i \in DOMAIN s : i \in DOMAIN Append(s, c) /\ Append(s, c)[i] = s[i]
      OBVIOUS
    <3>2. Len(s) + 1 \in DOMAIN Append(s, c) /\ Append(s, c)[Len(s) + 1] = c
      OBVIOUS
    <3>3. u = s
      BY <2>5, <2>6, <2>9, <3>1
    <3>4. b = <<c>>
      BY <2>1, <2>9, <3>2
    <3>5. s \o <<c>> = Append(s, c)
      OBVIOUS
    <3> QED BY <3>3, <3>4, <3>5
  <2> HIDE DEF Fine
  <2>10. Fine(Append(s, c))
    BY <2>4, <2>6, <2>8, <2>9 DEF Fine
  <2> QED BY <2>10
<1>3. Seq(Nat) \subseteq T
  <2> HIDE DEF T
  <2> QED BY <1>1, <1>2, SeqInduction
<1> QED BY <1>3

(* Which is what the buffer on the stack is measured for. *)
LEMMA BufferHolds ==
  ASSUME NEW s \in Seq(Nat), FitsBuffer(s)
  PROVE  ~(Len(latin1_to_utf8(s)) > StackBuffer)
<1>1. PICK u : u = latin1_to_utf8(s)
  OBVIOUS
<1>2. u \in Seq(Nat) /\ Len(u) <= 2 * Len(s)
  BY <1>1, Utf8OfLatin1
<1>3. Len(u) \in Nat /\ Len(s) \in Nat
  BY <1>2
<1>4. Len(s) < StackBuffer \div 2 /\ StackBuffer \in Nat
  BY Op2Assumption DEF FitsBuffer
<1> QED BY <1>1, <1>2, <1>3, <1>4

LEMMA FastStringArrives ==
  ASSUME NEW arg, NEW v, v.t = "str", v.s \in Seq(Nat), OneByte(v.s)
  PROVE  FastString(arg, v) = Meaning(arg, v)
<1>1. latin1_to_utf8(v.s) = to_rust_string_lossy(v.s)
  BY SameBytes
<1>2. Meaning(arg, v) = Str(IF arg.n = "CowByte" THEN v.s ELSE latin1_to_utf8(v.s))
  BY <1>1 DEF Meaning
<1>3. to_str_ptr(v.s) = Str(latin1_to_utf8(v.s))
  <2>1. CASE \A i \in DOMAIN v.s : v.s[i] < Ascii
    <3>1. to_str_ptr(v.s) = Str(v.s)
      BY <2>1 DEF to_str_ptr
    <3> QED BY <2>1, <3>1, Utf8OfLatin1
  <2>2. CASE ~(\A i \in DOMAIN v.s : v.s[i] < Ascii)
    BY <2>2, BufferHolds DEF to_str_ptr
  <2> QED BY <2>1, <2>2
<1> QED BY <1>2, <1>3 DEF FastString, to_string_ptr

(* A conforming argument arrives through the slow entry, ... *)
LEMMA SlowArrives ==
  ASSUME NEW op, Parameter(op.arg), NEW v \in JsValues, Conforms(op.arg, v)
  PROVE  SlowConvert(op, v) = Meaning(op.arg, v)
<1>1. PICK arg : arg = op.arg
  OBVIOUS
<1>2. /\ arg.opt => arg.k \in {"numeric", "string", "buffer", "v8", "local", "cppgc"}
      /\ arg.k = "numeric" => arg.n \in Numerics \cup {"smi"} /\ (arg.num => arg.n \in Wide)
      /\ v.t \in {"num", "big"} => v.n \in Int
  BY <1>1, JsFields DEF Parameter
<1>3. CASE arg.opt /\ v.t = "null"
  <2>1. ~is_virtual(arg)
    BY <1>2, <1>3 DEF is_virtual
  <2> QED BY <1>1, <1>3, <2>1 DEF SlowConvert, Meaning
<1>4. CASE arg.k = "numeric" /\ ConformsNumeric(arg, v)
  <2>1. v.t \in {"num", "big", "true", "false"}
    BY <1>2, <1>4, ConformingNumber DEF Numerics, Wide
  <2>2. SlowConvert(op, v) = SlowNumeric(arg, v)
    BY <1>1, <1>4, <2>1 DEF SlowConvert, is_virtual
  <2> QED BY <1>1, <1>2, <1>4, <2>2, SlowNumberArrives
<1>5. CASE arg.k = "string" /\ v.t = "str" /\ (arg.n = "CowByte" => OneByte(v.s))
  <2>1. SlowConvert(op, v) = SlowString(arg, v)
    BY <1>1, <1>5 DEF SlowConvert, is_virtual
  <2> QED BY <1>1, <1>5, <2>1 DEF SlowString, Meaning
<1>6. CASE /\ arg.k = "buffer" /\ v.t = (IF arg.src = "ArrayBuffer" THEN "arraybuffer" ELSE "u8array")
           /\ arg.mode = "Detach" => ~Pinned(v)
  <2>1. SlowConvert(op, v) = SlowBuffer(arg, v)
    BY <1>1, <1>6 DEF SlowConvert, is_virtual
  <2>2. SlowBuffer(arg, v) = Str(v.s)
    BY <1>6 DEF SlowBuffer, to_v8_slice_detachable, to_v8_slice, to_v8_slice_buffer, to_v8_slice_any, Views
  <2> QED BY <1>1, <1>6, <2>1, <2>2 DEF Meaning
<1>7. CASE arg.k = "cppgc" /\ v.t = "wrapped" /\ ~arg.num
  <2>1. SlowConvert(op, v) = try_unwrap_cppgc(arg, v)
    BY <1>1, <1>7 DEF SlowConvert, is_virtual
  <2> QED BY <1>1, <1>7, <2>1 DEF try_unwrap_cppgc, Meaning
<1>8. CASE arg.k = "external" /\ v.t \in {"external", "null"}
  <2>1. ~arg.opt
    BY <1>2, <1>8
  <2>2. SlowConvert(op, v) = to_external_option(v)
    BY <1>1, <1>8, <2>1 DEF SlowConvert, is_virtual
  <2> QED BY <1>1, <1>8, <2>1, <2>2 DEF to_external_option, Meaning
<1>9. Conforms(arg, v)
  BY <1>1
<1> QED BY <1>3, <1>4, <1>5, <1>6, <1>7, <1>8, <1>9 DEF Conforms

(* ... and through the fast one when V8 takes it. *)
LEMMA FastArrives ==
  ASSUME NEW op, Parameter(op.arg), NEW v \in JsValues, Conforms(op.arg, v),
         map_arg_to_v8_fastcall_type(op.arg) \notin {"slow", "error"},
         ~is_virtual(op.arg) => FastTakes(map_arg_to_v8_fastcall_type(op.arg), v)
  PROVE  map_v8_fastcall_arg_to_arg(op, v) = Meaning(op.arg, v)
<1>1. PICK arg, ctype : arg = op.arg /\ ctype = map_arg_to_v8_fastcall_type(arg)
  OBVIOUS
<1>2. /\ arg.opt => arg.k \in {"numeric", "string", "buffer", "v8", "local", "cppgc"}
      /\ arg.k = "numeric" => arg.n \in Numerics \cup {"smi"} /\ (arg.num => arg.n \in Wide)
      /\ v.t \in {"num", "big"} => v.n \in Int
      /\ v.t = "str" => v.s \in Seq(Nat)
      /\ ctype \notin {"slow", "error"}
      /\ ~is_virtual(arg) => FastTakes(ctype, v)
  BY <1>1, JsFields DEF Parameter
<1>3. CASE arg.opt /\ v.t = "null"
  <2>1. ~is_virtual(arg)
    BY <1>2, <1>3 DEF is_virtual
  <2>2. arg.k \in {"v8", "local", "cppgc"}
    BY <1>1, <1>2, <1>3 DEF map_arg_to_v8_fastcall_type
  <2> QED BY <1>1, <1>3, <2>1, <2>2 DEF map_v8_fastcall_arg_to_arg, Meaning
<1>4. CASE arg.k = "numeric" /\ ConformsNumeric(arg, v)
  <2>1. map_v8_fastcall_arg_to_arg(op, v) = FastNumeric(arg, FastRaw(ctype, v))
    BY <1>1, <1>4 DEF map_v8_fastcall_arg_to_arg, is_virtual, FastNumeric
  <2> QED BY <1>1, <1>2, <1>4, <2>1, FastNumberArrives
<1>5. CASE arg.k = "string" /\ v.t = "str" /\ (arg.n = "CowByte" => OneByte(v.s))
  <2>1. map_v8_fastcall_arg_to_arg(op, v) = FastString(arg, v)
    BY <1>1, <1>5 DEF map_v8_fastcall_arg_to_arg, is_virtual
  <2>2. ctype = "SeqOneByteString"
    BY <1>1, <1>2, <1>5 DEF map_arg_to_v8_fastcall_type
  <2>3. OneByte(v.s)
    BY <1>2, <1>5, <2>2 DEF FastTakes, is_virtual
  <2> QED BY <1>1, <1>2, <1>5, <2>1, <2>3, FastStringArrives
<1>6. CASE /\ arg.k = "buffer" /\ v.t = (IF arg.src = "ArrayBuffer" THEN "arraybuffer" ELSE "u8array")
           /\ arg.mode = "Detach" => ~Pinned(v)
  <2>1. map_v8_fastcall_arg_to_arg(op, v) = FastBuffer(arg, v)
    BY <1>1, <1>6 DEF map_v8_fastcall_arg_to_arg, is_virtual
  <2>2. FastBuffer(arg, v) = Str(v.s)
    BY <1>6 DEF FastBuffer, fast_api_typed_array_to_buffer, to_v8_slice_buffer, Views
  <2> QED BY <1>1, <1>6, <2>1, <2>2 DEF Meaning
<1>7. CASE arg.k = "cppgc" /\ v.t = "wrapped" /\ ~arg.num
  BY <1>1, <1>7 DEF map_v8_fastcall_arg_to_arg, is_virtual, Meaning
<1>8. CASE arg.k = "external" /\ v.t \in {"external", "null"}
  <2>1. ~arg.opt
    BY <1>2, <1>8
  <2> QED BY <1>1, <1>8, <2>1 DEF map_v8_fastcall_arg_to_arg, is_virtual, Meaning
<1>9. Conforms(arg, v)
  BY <1>1
<1> QED BY <1>3, <1>4, <1>5, <1>6, <1>7, <1>8, <1>9 DEF Conforms

(* A value without a reading throws on the slow entry, ... *)
LEMMA SlowRefuses ==
  ASSUME NEW op, NEW v, Refused(op.arg, v), Parameter(op.arg)
  PROVE  SlowConvert(op, v) = Throw
<1>1. PICK arg : arg = op.arg
  OBVIOUS
<1>2. /\ ~(arg.opt /\ v.t \in {"null", "undefined", "absent"})
      /\ arg.k \in {"numeric", "string", "buffer", "cppgc", "external", "v8", "local"}
      /\ arg.k = "numeric" => arg.n \in Numerics \cup {"smi"}
  BY <1>1 DEF Refused, Parameter
<1>3. CASE arg.k = "numeric"
  <2>1. SlowConvert(op, v) = SlowNumeric(arg, v)
    BY <1>1, <1>2, <1>3 DEF SlowConvert, is_virtual
  <2>2. arg.n # "bool" /\ v.t \notin {"num", "big"}
    BY <1>1, <1>3 DEF Refused
  <2>3. /\ to_u32_option(v) = Throw /\ to_i32_option(v) = Throw /\ to_u64_option(v) = Throw
        /\ to_i64_option(v) = Throw /\ to_f64_option(v) = Throw
    BY <2>2 DEF to_u32_option, to_i32_option, to_u64_option, to_i64_option, to_f64_option
  <2>4. Throw.o # "ok"
    BY DEF Throw
  <2> QED BY <2>1, <2>2, <2>3, <2>4 DEF SlowNumeric
<1>4. CASE arg.k = "string"
  <2>1. SlowConvert(op, v) = SlowString(arg, v)
    BY <1>1, <1>2, <1>4 DEF SlowConvert, is_virtual
  <2> QED BY <1>1, <1>4, <2>1 DEF SlowString, Refused
<1>5. CASE arg.k = "buffer"
  <2>1. SlowConvert(op, v) = SlowBuffer(arg, v)
    BY <1>1, <1>2, <1>5 DEF SlowConvert, is_virtual
  <2>2. \/ v.t \notin Views \cup {"arraybuffer"}
        \/ arg.src = "TypedArray" /\ v.t = "arraybuffer"
        \/ arg.src = "ArrayBuffer" /\ v.t \in Views
        \/ arg.mode = "Detach" /\ Pinned(v)
    BY <1>1, <1>5 DEF Refused
  <2>3. SlowBuffer(arg, v) = Throw
    BY <2>2 DEF SlowBuffer, to_v8_slice_detachable, to_v8_slice, to_v8_slice_buffer, to_v8_slice_any, Views
  <2> QED BY <2>1, <2>3
<1>6. CASE arg.k = "cppgc"
  <2>1. SlowConvert(op, v) = try_unwrap_cppgc(arg, v)
    BY <1>1, <1>2, <1>6 DEF SlowConvert, is_virtual
  <2> QED BY <1>1, <1>6, <2>1 DEF try_unwrap_cppgc, Refused
<1>7. CASE arg.k = "external"
  <2>1. SlowConvert(op, v) = to_external_option(v)
    BY <1>1, <1>2, <1>7 DEF SlowConvert, is_virtual
  <2> QED BY <1>1, <1>7, <2>1 DEF to_external_option, Refused
<1>8. CASE arg.k \in {"v8", "local"}
  <2>1. SlowConvert(op, v) = v8_try_convert(arg, v)
    BY <1>1, <1>2, <1>8 DEF SlowConvert, is_virtual
  <2> QED BY <1>1, <1>8, <2>1 DEF v8_try_convert, Refused
<1> QED BY <1>2, <1>3, <1>4, <1>5, <1>6, <1>7, <1>8

(* ... and on the fast one, if V8 takes it there at all. *)
LEMMA FastRefuses ==
  ASSUME NEW op, NEW v, Refused(op.arg, v), Parameter(op.arg),
         map_arg_to_v8_fastcall_type(op.arg) \notin {"slow", "error"},
         ~is_virtual(op.arg) => FastTakes(map_arg_to_v8_fastcall_type(op.arg), v)
  PROVE  map_v8_fastcall_arg_to_arg(op, v) = Throw
<1>1. PICK arg, ctype : arg = op.arg /\ ctype = map_arg_to_v8_fastcall_type(arg)
  OBVIOUS
<1>2. /\ ~(arg.opt /\ v.t \in {"null", "undefined", "absent"})
      /\ arg.k \in {"numeric", "string", "buffer", "cppgc", "external", "v8", "local"}
      /\ arg.k = "numeric" => arg.n \in Numerics \cup {"smi"}
      /\ ctype \notin {"slow", "error"}
  BY <1>1 DEF Refused, Parameter
<1>3. ~is_virtual(arg) /\ FastTakes(ctype, v)
  BY <1>1, <1>2 DEF is_virtual
<1>4. CASE arg.k = "numeric"
  <2>1. arg.n # "bool" /\ v.t \notin {"num", "big"}
    BY <1>1, <1>4 DEF Refused
  <2>2. ctype \in {"U32", "I32", "F64", "U64", "I64"}
    BY <1>1, <1>2, <1>4, <2>1 DEF map_arg_to_v8_fastcall_type, Numerics, Wide
  <2> QED BY <1>3, <2>1, <2>2 DEF FastTakes
<1>5. CASE arg.k = "string"
  <2>1. ctype = "SeqOneByteString"
    BY <1>1, <1>2, <1>5 DEF map_arg_to_v8_fastcall_type
  <2> QED BY <1>1, <1>3, <1>5, <2>1 DEF FastTakes, Refused
<1>6. CASE arg.k = "buffer"
  <2>1. map_v8_fastcall_arg_to_arg(op, v) = FastBuffer(arg, v)
    BY <1>1, <1>3, <1>6 DEF map_v8_fastcall_arg_to_arg
  <2>2. arg.mode # "Detach" /\ arg.src # "Any"
    BY <1>1, <1>2, <1>6 DEF map_arg_to_v8_fastcall_type
  <2>3. \/ v.t \notin Views \cup {"arraybuffer"}
        \/ arg.src = "TypedArray" /\ v.t = "arraybuffer"
        \/ arg.src = "ArrayBuffer" /\ v.t \in Views
    BY <1>1, <1>6, <2>2 DEF Refused
  <2>4. FastBuffer(arg, v) = Throw
    BY <2>3 DEF FastBuffer, fast_api_typed_array_to_buffer, to_v8_slice_buffer, Views
  <2> QED BY <2>1, <2>4
<1>7. CASE arg.k = "cppgc"
  <2>1. v.t # "wrapped"
    BY <1>1, <1>7 DEF Refused
  <2> QED BY <1>1, <1>2, <1>3, <1>7, <2>1 DEF map_v8_fastcall_arg_to_arg
<1>8. CASE arg.k = "external"
  <2>1. ctype = "Pointer"
    BY <1>1, <1>8 DEF map_arg_to_v8_fastcall_type
  <2> QED BY <1>1, <1>3, <1>8, <2>1 DEF FastTakes, Refused
<1>9. CASE arg.k \in {"v8", "local"}
  <2>1. map_v8_fastcall_arg_to_arg(op, v) = v8_try_convert(arg, v)
    BY <1>1, <1>2, <1>3, <1>9 DEF map_v8_fastcall_arg_to_arg
  <2> QED BY <1>1, <1>9, <2>1 DEF v8_try_convert, Refused
<1> QED BY <1>2, <1>4, <1>5, <1>6, <1>7, <1>8, <1>9

LEMMA MeaningArrives ==
  ASSUME NEW arg, NEW v PROVE Meaning(arg, v).o \in {"ok", "none"}
BY DEF Meaning, Num, Str, None

(* Before the macro has run there is no call; what it lets through has a   *)
(* conversion.                                                             *)
ArgIInv ==
  /\ op2.k = "source" => op2.src \in Op2Ops /\ op2call = NoCall
  /\ op2.k = "op" =>
       /\ Parameter(op2.arg)
       /\ op2.fast => map_arg_to_v8_fastcall_type(op2.arg) \notin {"slow", "error"}
  /\ ArgumentsArrive

LEMMA NoCallArrives ==
  ASSUME op2call' = NoCall PROVE ArgumentsArrive'
BY DEF NoCall, ArgumentsArrive

(* What the op returns is the value, or an error it may return. *)
LEMMA Returned ==
  ASSUME NEW arg, NEW v, NEW conv, conv = Meaning(arg, v), NEW fails, fails => op2.ret.fallible,
         NEW out, out = return_value(op2, conv, fails)
  PROVE  out = Meaning(arg, v) \/ (out = Throw /\ op2.ret.fallible)
<1>1. conv.o # "throw"
  BY MeaningArrives
<1> QED BY <1>1 DEF return_value

(* An argument that was refused makes the call throw, whatever the op does.*)
LEMMA RefusedThrows ==
  ASSUME NEW op, NEW fails PROVE return_value(op, Throw, fails) = Throw /\ ~Detaches(op, Throw)
BY DEF return_value, Detaches, Throw

(* What is admitted passes the checks of the slow entry, and only that.    *)
LEMMA AdmittedIsChecked ==
  ASSUME NEW op, NEW v
  PROVE  Admitted(op, v) <=> with_validate(op, v) /\ with_required_check(op, v) /\ extract_arg(op, v)
BY DEF Admitted, with_validate, with_required_check, extract_arg

LEMMA ArgStep ==
  ASSUME ArgIInv, [Op2Next]_op2Vars
  PROVE  ArgIInv'
<1>1. CASE UNCHANGED op2Vars
  BY <1>1 DEF op2Vars, ArgIInv, ArgumentsArrive
<1>2. CASE Expand
  <2>1. op2' = generate_op2(op2.src) /\ op2call' = NoCall /\ op2.src.ty.opt \in BOOLEAN
    BY <1>2, Op2Assumption DEF Expand, ArgIInv
  <2>2. /\ op2'.k # "source"
        /\ op2'.k = "op" =>
             /\ Parameter(op2'.arg)
             /\ op2'.fast => map_arg_to_v8_fastcall_type(op2'.arg) \notin {"slow", "error"}
    BY <2>1, Expanded
  <2> QED BY <2>1, <2>2, NoCallArrives DEF ArgIInv
<1>3. ASSUME NEW v \in JsValues, NEW fails \in BOOLEAN, NEW eager \in BOOLEAN, CallSlow(v, fails, eager)
      PROVE  ArgIInv'
  <2> DEFINE conv == IF Admitted(op2, v) THEN SlowConvert(op2, v) ELSE Throw
             out == return_value(op2, conv, fails)
  <2>1. /\ op2call' = [entry |-> "slow", v |-> v, out |-> out, detached |-> Detaches(op2, conv)]
        /\ op2' = op2 /\ op2.k = "op" /\ (fails => op2.ret.fallible)
    BY <1>3, AdmittedIsChecked DEF CallSlow, Ready
  <2>2. Parameter(op2.arg)
    BY <2>1 DEF ArgIInv
  <2>3. ASSUME Admitted(op2, v), Conforms(op2.arg, v)
        PROVE  out = Meaning(op2.arg, v) \/ (out = Throw /\ op2.ret.fallible)
    <3>1. conv = Meaning(op2.arg, v)
      BY <2>2, <2>3, SlowArrives
    <3> HIDE DEF conv
    <3> QED BY <2>1, <3>1, Returned
  <2>4. ASSUME ~Admitted(op2, v) \/ Refused(op2.arg, v) PROVE out = Throw /\ ~Detaches(op2, conv)
    <3>1. conv = Throw
      BY <2>2, <2>4, SlowRefuses
    <3> HIDE DEF conv
    <3> QED BY <3>1, RefusedThrows
  <2> HIDE DEF out, conv
  <2>5. op2call'.entry = "slow" /\ op2call'.v = v /\ op2call'.out = out /\ op2call'.detached = Detaches(op2, conv)
    BY <2>1
  <2>6. ArgumentsArrive'
    BY <2>1, <2>3, <2>4, <2>5 DEF ArgumentsArrive
  <2> QED BY <2>1, <2>6 DEF ArgIInv
<1>4. ASSUME NEW v \in JsValues, NEW fails \in BOOLEAN, CallFast(v, fails)
      PROVE  ArgIInv'
  <2> DEFINE conv == map_v8_fastcall_arg_to_arg(op2, v)
             out == return_value(op2, conv, fails)
  <2>1. /\ op2call' = [entry |-> "fast", v |-> v, out |-> out, detached |-> FALSE]
        /\ op2' = op2 /\ op2.k = "op" /\ (fails => op2.ret.fallible)
        /\ op2.fast /\ (~is_virtual(op2.arg) => FastTakes(map_arg_to_v8_fastcall_type(op2.arg), v))
    BY <1>4 DEF CallFast, Ready
  <2>2. Parameter(op2.arg) /\ map_arg_to_v8_fastcall_type(op2.arg) \notin {"slow", "error"}
    BY <2>1 DEF ArgIInv
  <2>3. ASSUME Conforms(op2.arg, v) PROVE out = Meaning(op2.arg, v) \/ (out = Throw /\ op2.ret.fallible)
    <3>1. conv = Meaning(op2.arg, v)
      BY <2>1, <2>2, <2>3, FastArrives
    <3> HIDE DEF conv
    <3> QED BY <2>1, <3>1, Returned
  <2>4. ASSUME Refused(op2.arg, v) PROVE out = Throw
    <3>1. conv = Throw
      BY <2>1, <2>2, <2>4, FastRefuses
    <3> HIDE DEF conv
    <3> QED BY <3>1, RefusedThrows
  <2> HIDE DEF out
  <2>5. op2call'.entry = "fast" /\ op2call'.v = v /\ op2call'.out = out /\ ~op2call'.detached
    BY <2>1
  <2>6. ArgumentsArrive'
    BY <2>1, <2>3, <2>4, <2>5 DEF ArgumentsArrive
  <2> QED BY <2>1, <2>6 DEF ArgIInv
<1>5. CASE CompleteAsync
  <2>1. op2call' = NoCall /\ op2' = op2
    BY <1>5 DEF CompleteAsync
  <2> QED BY <2>1, NoCallArrives DEF ArgIInv
<1> QED BY <1>1, <1>2, <1>3, <1>4, <1>5 DEF Op2Next

(* Whichever entry V8 takes into an op, a value that conforms to the type  *)
(* the op declares, and that its validators let pass, reaches the Rust     *)
(* function as the value it denotes, or the call throws and the op is      *)
(* fallible; a value the type has no reading for (a buffer that cannot be  *)
(* detached among them), and on the slow entry one a validator refuses,    *)
(* throws and leaves the caller its buffer: for every number, BigInt and   *)
(* string that a call may pass.                                            *)
THEOREM ArgumentsDoArrive == Op2Spec => []ArgumentsArrive
<1>1. Op2Init => ArgIInv
  <2> SUFFICES ASSUME Op2Init PROVE ArgIInv
    OBVIOUS
  <2>1. op2.k = "source" /\ op2.src \in Op2Ops /\ op2call = NoCall
    BY DEF Op2Init
  <2> QED BY <2>1 DEF ArgIInv, ArgumentsArrive
<1>2. ArgIInv /\ [Op2Next]_op2Vars => ArgIInv'
  BY ArgStep
<1>3. ArgIInv => ArgumentsArrive
  BY DEF ArgIInv
<1> QED BY <1>1, <1>2, <1>3, PTL DEF Op2Spec

(***************************************************************************)
(* V8Slice.  A cut replaces a piece by two that meet where it is cut.      *)
(***************************************************************************)

Spans == [start : Nat, end : Nat]

(* What the pieces and the view are, apart from each other and within it.  *)
Apart(r, q) == \A e \in Nat : ~(Holds(r, e) /\ Holds(q, e))
Inside(r, q) == \A e \in Nat : Holds(r, e) => Holds(q, e)
SliceIInv ==
  /\ slices \in Seq(Spans) /\ view \in Spans /\ view.start % ElemSize = 0
  /\ \A i, k \in DOMAIN slices : i # k => Apart(slices[i], slices[k])
  /\ \A i \in DOMAIN slices : Inside(slices[i], from_parts(view))

(* A piece that may be cut is cut into two, apart and inside it. *)
LEMMA CutApart ==
  ASSUME NEW r \in Spans, NEW at \in Nat, at <= SliceLen(r)
  PROVE  /\ Cut(r, at)[1] \in Spans /\ Cut(r, at)[2] \in Spans
         /\ Apart(Cut(r, at)[1], Cut(r, at)[2])
         /\ Inside(Cut(r, at)[1], r) /\ Inside(Cut(r, at)[2], r)
<1> DEFINE n == SliceLen(r)
<1>0. StoreElems \in Nat
  BY SliceAssumption, Division DEF StoreElems
<1>1. n \in Nat /\ (n # 0 => r.start + n <= r.end)
  BY <1>0 DEF SliceLen, Spans
<1>2. Cut(r, at) = <<[start |-> r.start, end |-> r.start + at], [start |-> r.start + at, end |-> r.start + n]>>
  BY DEF Cut
<1> QED BY <1>1, <1>2, SliceAssumption DEF Spans, Apart, Inside, Holds

(* Putting a part of a piece in its place, and another part behind all the *)
(* pieces, keeps them apart.                                               *)
LEMMA CutKeepsApart ==
  ASSUME SliceIInv, NEW i \in DOMAIN slices, NEW p \in Spans, NEW q \in Spans,
         Apart(p, q), Inside(p, slices[i]), Inside(q, slices[i]),
         slices' = Append([slices EXCEPT ![i] = p], q), UNCHANGED view
  PROVE  SliceIInv'
<1> DEFINE n == Len(slices)
<1>1. n \in Nat /\ DOMAIN slices = 1..n /\ \A k \in 1..n : slices[k] \in Spans
  BY DEF SliceIInv
<1>2. /\ slices' \in Seq(Spans) /\ DOMAIN slices' = 1..(n + 1) /\ slices'[n + 1] = q
      /\ \A k \in 1..n : slices'[k] = IF k = i THEN p ELSE slices[k]
  BY DEF SliceIInv
<1>3. \A k \in 1..n : k # i => Apart(p, slices[k]) /\ Apart(q, slices[k])
  BY <1>1 DEF SliceIInv, Apart, Inside
<1>4. Inside(p, from_parts(view)) /\ Inside(q, from_parts(view))
  BY DEF SliceIInv, Inside
<1>5. ASSUME NEW j \in DOMAIN slices', NEW k \in DOMAIN slices', j # k PROVE Apart(slices'[j], slices'[k])
  <2>1. j \in 1..n \/ j = n + 1
    BY <1>1, <1>2
  <2>2. k \in 1..n \/ k = n + 1
    BY <1>1, <1>2
  <2>3. \A x, y : Apart(x, y) => Apart(y, x)
    BY DEF Apart
  <2>4. \A a, b \in 1..n : a # b => Apart(slices[a], slices[b])
    BY <1>1 DEF SliceIInv
  <2> HIDE DEF n
  <2> QED BY <1>1, <1>2, <1>3, <1>5, <2>1, <2>2, <2>3, <2>4
<1>6. \A k \in DOMAIN slices' : Inside(slices'[k], from_parts(view))
  BY <1>1, <1>2, <1>4 DEF SliceIInv
<1> QED BY <1>2, <1>5, <1>6 DEF SliceIInv, Apart, Inside, Holds, from_parts

LEMMA SliceStep == SliceIInv /\ [SliceNext]_sliceVars => SliceIInv'
<1> SUFFICES ASSUME SliceIInv, [SliceNext]_sliceVars PROVE SliceIInv'
  OBVIOUS
<1>1. CASE UNCHANGED sliceVars
  BY <1>1 DEF sliceVars, SliceIInv, Apart, Inside, Holds, from_parts
<1>2. CASE SliceNext
  <2> PICK i \in DOMAIN slices, n \in 0..(StoreElems + 1) : split_to(i, n) \/ split_off(i, n) \/ truncate(i, n)
    BY <1>2 DEF SliceNext
  <2>0. StoreElems \in Nat
    BY SliceAssumption, Division DEF StoreElems
  <2>1. n \in Nat /\ slices[i] \in Spans
    BY <2>0 DEF SliceIInv
  <2>2. CASE split_to(i, n)
    <3>1. Apart(Cut(slices[i], n)[2], Cut(slices[i], n)[1])
      BY <2>1, <2>2, CutApart DEF split_to, Apart
    <3> QED BY <2>1, <2>2, <3>1, CutApart, CutKeepsApart DEF split_to
  <2>3. CASE split_off(i, n)
    BY <2>1, <2>3, CutApart, CutKeepsApart DEF split_off
  <2>4. CASE truncate(i, n)
    <3> DEFINE p == [slices[i] EXCEPT !.end = IF @ < slices[i].start + n THEN @ ELSE slices[i].start + n]
    <3>1. p \in Spans /\ Inside(p, slices[i])
      BY <2>1, SliceAssumption DEF Spans, Inside, Holds
    <3>2. slices' = [slices EXCEPT ![i] = p] /\ view' = view
      BY <2>4 DEF truncate
    <3> HIDE DEF p
    <3>3. /\ slices' \in Seq(Spans) /\ DOMAIN slices' = DOMAIN slices
          /\ \A k \in DOMAIN slices : slices'[k] = IF k = i THEN p ELSE slices[k]
      BY <3>1, <3>2 DEF SliceIInv
    <3>4. \A k \in DOMAIN slices : k # i => Apart(p, slices[k]) /\ Apart(slices[k], p)
      BY <3>1 DEF SliceIInv, Apart, Inside
    <3>5. Inside(p, from_parts(view))
      BY <3>1 DEF SliceIInv, Inside
    <3>6. \A j, k \in DOMAIN slices' : j # k => Apart(slices'[j], slices'[k])
      BY <3>3, <3>4 DEF SliceIInv
    <3>7. \A k \in DOMAIN slices' : Inside(slices'[k], from_parts(view))
      BY <3>3, <3>5 DEF SliceIInv
    <3> QED BY <3>2, <3>3, <3>6, <3>7 DEF SliceIInv, Apart, Inside, Holds, from_parts
  <2> QED BY <2>2, <2>3, <2>4
<1> QED BY <1>1, <1>2

(* A byte of an element of a view is a byte of the view, which starts      *)
(* where an element does.                                                  *)
LEMMA ElementsAreOfTheView ==
  ASSUME NEW b \in Nat, NEW v \in Spans, v.start % ElemSize = 0, HoldsByte(from_parts(v), b)
  PROVE  v.start <= b /\ b < v.end
<1> DEFINE q == b \div ElemSize
           s == v.start \div ElemSize
           t == v.end \div ElemSize
<1>1. ElemSize \in Nat \ {0} /\ v.start \in Nat /\ v.end \in Nat
  BY SliceAssumption DEF Spans
<1>2. /\ q \in Nat /\ b % ElemSize \in 0 .. ElemSize - 1 /\ b = ElemSize * q + (b % ElemSize)
      /\ s \in Nat /\ v.start = ElemSize * s + (v.start % ElemSize)
      /\ t \in Nat /\ v.end % ElemSize \in 0 .. ElemSize - 1 /\ v.end = ElemSize * t + (v.end % ElemSize)
  BY <1>1, Division
<1>3. s <= q /\ q + 1 <= t
  BY <1>2 DEF HoldsByte, Holds, from_parts
<1> HIDE DEF q, s, t
<1>4. ElemSize * s <= ElemSize * q
  BY <1>1, <1>2, <1>3
<1>5. ElemSize * (q + 1) <= ElemSize * t
  BY <1>1, <1>2, <1>3
<1>6. ElemSize * (q + 1) = ElemSize * q + ElemSize
  BY <1>1, <1>2
<1> DEFINE x == ElemSize * q
           y == ElemSize * s
           z == ElemSize * t
<1>7. x \in Int /\ y \in Int /\ z \in Int
  BY <1>1, <1>2
<1> HIDE DEF x, y, z
<1>8. y <= x /\ x + ElemSize <= z /\ v.start = y + 0 /\ b = x + (b % ElemSize) /\ v.end = z + (v.end % ElemSize)
  BY <1>2, <1>4, <1>5, <1>6 DEF x, y, z
<1> QED BY <1>1, <1>2, <1>7, <1>8

(* However an op cuts and shortens the slice of a buffer it was given      *)
(* (split_to, split_off, truncate), no two pieces have a byte in common    *)
(* and none reaches outside the view: for a store of any length, elements  *)
(* of any size and any number of pieces.                                   *)
THEOREM PiecesStayApart == SliceSpec => []PiecesApart
<1>1. SliceInit => SliceIInv
  <2> SUFFICES ASSUME SliceInit PROVE SliceIInv
    OBVIOUS
  <2>1. view \in Spans /\ view.start % ElemSize = 0 /\ slices = <<from_parts(view)>>
    BY SliceAssumption DEF SliceInit, to_ranged_buffer, Spans
  <2>2. from_parts(view) \in Spans
    <3>1. view.start \in Nat /\ view.end \in Nat
      BY <2>1 DEF Spans
    <3>2. view.start \div ElemSize \in Nat /\ view.end \div ElemSize \in Nat
      BY <3>1, SliceAssumption, Division
    <3> QED BY <3>2 DEF from_parts, Spans
  <2>3. slices \in Seq(Spans) /\ DOMAIN slices = {1} /\ slices[1] = from_parts(view)
    BY <2>1, <2>2
  <2> QED BY <2>1, <2>3 DEF SliceIInv, Inside, Apart
<1>2. SliceIInv => PiecesApart
  <2> SUFFICES ASSUME SliceIInv PROVE PiecesApart
    OBVIOUS
  <2>1. \A b \in 0..(StoreLen - 1) : b \in Nat /\ b \div ElemSize \in Nat
    BY SliceAssumption, Division
  <2>2. ASSUME NEW i \in DOMAIN slices, NEW k \in DOMAIN slices, i # k, NEW b \in 0..(StoreLen - 1)
        PROVE  ~(HoldsByte(slices[i], b) /\ HoldsByte(slices[k], b))
    BY <2>1, <2>2 DEF SliceIInv, Apart, HoldsByte
  <2>3. ASSUME NEW i \in DOMAIN slices, NEW b \in 0..(StoreLen - 1), HoldsByte(slices[i], b)
        PROVE  view.start <= b /\ b < view.end
    <3>1. HoldsByte(from_parts(view), b)
      BY <2>1, <2>3 DEF SliceIInv, Inside, HoldsByte
    <3> QED BY <2>1, <3>1, ElementsAreOfTheView DEF SliceIInv
  <2> QED BY <2>2, <2>3 DEF PiecesApart
<1> QED BY <1>1, <1>2, SliceStep, PTL DEF SliceSpec
=============================================================================
