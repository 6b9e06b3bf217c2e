------------------------ MODULE AsyncRefCell_proofs ------------------------
(***************************************************************************)
(* Proofs about AsyncRefCell for any finite set of clients, any tasks and  *)
(* any number of tickets.  BorrowsExact is not inductive by itself: that   *)
(* the waiters served by wake_waiters become as many borrowers needs the   *)
(* queue and the futures to correspond one to one (QueueOf), and that      *)
(* nothing is served late needs the head to be refused (HeadOf).  Both are *)
(* stated of explicit arguments, because wake_waiters starts from a state  *)
(* in the middle of a call.                                                *)
(*                                                                         *)
(* The last part proves op_read_all and op_write_all (Resources), which    *)
(* share no state with the cells, complete for every stream and buffer.    *)
(***************************************************************************)
EXTENDS AsyncRefCell, Resources, TLAPS, FiniteSetTheorems, SequenceTheorems

Entry == Waiter \cup {Hole}
States == {"none", "future", "borrow"}
Counts == Nat \cup {ExclusiveCount}

(* Who borrows, or has a borrow reserved, when the turn is t. *)
BorrowersOf(st, ids, t) ==
  {c \in Clients : st[c] = "borrow" \/ (st[c] = "future" /\ ids[c] < t)}

QueuedOf(c, st, ids, t) == st[c] = "future" /\ ids[c] >= t

Exact(count, B, md) ==
  \/ count = Cardinality(B) /\ \A c \in B : md[c] = "Shared"
  \/ count = ExclusiveCount /\ \E c \in B : B = {c} /\ md[c] = "Exclusive"

(* Every queued future has an entry of its mode, every entry that is no    *)
(* hole a future, and no two futures share one.                            *)
QueueOf(q, st, ids, md, t) ==
  /\ \A c \in Clients : QueuedOf(c, st, ids, t) =>
       /\ ids[c] - t + 1 \in 1..Len(q)
       /\ q[ids[c] - t + 1] # Hole
       /\ q[ids[c] - t + 1].mode = md[c]
  /\ \A i \in 1..Len(q) : q[i] # Hole =>
       \E c \in Clients : QueuedOf(c, st, ids, t) /\ ids[c] - t + 1 = i
  /\ \A c, d \in Clients :
       QueuedOf(c, st, ids, t) /\ QueuedOf(d, st, ids, t) /\ ids[c] = ids[d] => c = d

HeadOf(count, q) ==
  Len(q) # 0 => q[1] # Hole /\ try_add(count, q[1].mode) = Refused

IInv ==
  /\ TypeOK
  /\ Exact(borrow_count, BorrowersOf(state, id, turn), mode)
  /\ QueueOf(waiters, state, id, mode, turn)
  /\ HeadOf(borrow_count, waiters)

----------------------------------------------------------------------------
(* The futures whose tickets are among the next k. *)
Granted(st, ids, t, k) ==
  {c \in Clients : st[c] = "future" /\ ids[c] >= t /\ ids[c] < t + k}

(* They correspond to the first k entries that are no holes. *)
Matched(G, L, q, ids, md, t) ==
  /\ IsFiniteSet(G) /\ IsFiniteSet(L)
  /\ Cardinality(G) = Cardinality(L)
  /\ \A c \in G : ids[c] - t + 1 \in L /\ md[c] = q[ids[c] - t + 1].mode
  /\ \A i \in L : \E c \in G : ids[c] - t + 1 = i
  /\ \A c, d \in G : ids[c] = ids[d] => c = d

(* wake_waiters serves as many futures as it pops entries that are no      *)
(* holes, and with the modes of those entries.                             *)
LEMMA GrantedMatchLive ==
  ASSUME NEW q \in Seq(Entry), NEW st \in [Clients -> States],
         NEW ids \in [Clients -> Nat], NEW md \in [Clients -> Modes],
         NEW t \in Nat, NEW k \in 0..Len(q),
         QueueOf(q, st, ids, md, t)
  PROVE  Matched(Granted(st, ids, t, k), Live(q, k), q, ids, md, t)
<1> DEFINE G == Granted(st, ids, t, k)
           L == Live(q, k)
           f == [c \in G |-> ids[c] - t + 1]
<1>0. Len(q) \in Nat
  OBVIOUS
<1>1. ASSUME NEW c \in G PROVE ids[c] - t + 1 \in L /\ md[c] = q[ids[c] - t + 1].mode
  BY <1>0 DEF QueueOf, QueuedOf, Granted, Live
<1>2. ASSUME NEW i \in L PROVE \E c \in G : ids[c] - t + 1 = i
  <2>1. i \in 1..Len(q) /\ q[i] # Hole /\ i <= k /\ i \in Nat
    BY <1>0 DEF Live
  <2>2. PICK c \in Clients : QueuedOf(c, st, ids, t) /\ ids[c] - t + 1 = i
    BY <2>1 DEF QueueOf
  <2>3. c \in G
    BY <2>1, <2>2 DEF QueuedOf, Granted
  <2> QED BY <2>2, <2>3
<1>3. ASSUME NEW c \in G, NEW d \in G, ids[c] = ids[d] PROVE c = d
  BY <1>3 DEF QueueOf, QueuedOf, Granted
<1>4. f \in Bijection(G, L)
  <2>1. f \in [G -> L]
    BY <1>1
  <2>2. \A c, d \in G : f[c] = f[d] => c = d
    <3> SUFFICES ASSUME NEW c \in G, NEW d \in G, f[c] = f[d] PROVE c = d
      OBVIOUS
    <3>1. ids[c] \in Nat /\ ids[d] \in Nat
      BY DEF Granted
    <3>2. ids[c] = ids[d]
      BY <3>1
    <3> QED BY <3>2, <1>3
  <2>3. \A i \in L : \E c \in G : f[c] = i
    BY <1>2
  <2> QED BY <2>1, <2>2, <2>3 DEF Bijection, Injection, IsInjective, Surjection
<1>5. IsFiniteSet(G)
  BY CellAssumption, FS_Subset DEF Granted
<1>6. IsFiniteSet(L) /\ Cardinality(L) = Cardinality(G)
  BY <1>4, <1>5, FS_Bijection DEF ExistsBijection
<1> QED BY <1>1, <1>2, <1>3, <1>5, <1>6 DEF Matched

(* The borrow count is exact after wake_waiters if it was before. *)
LEMMA WakeExact ==
  ASSUME NEW count \in Counts, NEW q \in Seq(Entry), NEW st \in [Clients -> States],
         NEW ids \in [Clients -> Nat], NEW md \in [Clients -> Modes],
         NEW t \in Nat, NEW k \in 0..Len(q),
         CanServe(count, q, k),
         Exact(count, BorrowersOf(st, ids, t), md),
         QueueOf(q, st, ids, md, t)
  PROVE  /\ CountServed(count, q, k) \in Counts
         /\ Exact(CountServed(count, q, k), BorrowersOf(st, ids, t + k), md)
<1> DEFINE G == Granted(st, ids, t, k)
           L == Live(q, k)
           B == BorrowersOf(st, ids, t)
           B2 == BorrowersOf(st, ids, t + k)
<1>0. Len(q) \in Nat /\ k \in Nat
  OBVIOUS
<1>1. /\ IsFiniteSet(G) /\ IsFiniteSet(L)
      /\ Cardinality(G) = Cardinality(L)
      /\ \A c \in G : ids[c] - t + 1 \in L /\ md[c] = q[ids[c] - t + 1].mode
      /\ \A i \in L : \E c \in G : ids[c] - t + 1 = i
      /\ \A c, d \in G : ids[c] = ids[d] => c = d
  <2>1. Matched(G, L, q, ids, md, t)
    BY GrantedMatchLive
  <2> QED BY <2>1 DEF Matched
<1>2. B2 = B \cup G /\ B \cap G = {}
  BY <1>0 DEF BorrowersOf, Granted
<1>3. IsFiniteSet(B) /\ Cardinality(B) \in Nat /\ Cardinality(L) \in Nat
  BY <1>1, CellAssumption, FS_Subset, FS_CardinalityType DEF BorrowersOf
<1>4. CASE L = {}
  <2>1. G = {}
    BY <1>1, <1>4
  <2>2. CountServed(count, q, k) = count
    BY <1>4 DEF CountServed
  <2> QED BY <1>2, <2>1, <2>2
<1>5. CASE \E i \in L : q[i].mode = "Exclusive"
  <2>1. PICK i \in L : count = 0 /\ L = {i} /\ q[i].mode = "Exclusive"
    BY <1>5 DEF CanServe
  <2>2. CountServed(count, q, k) = ExclusiveCount
    BY <1>5 DEF CountServed
  <2>3. B = {}
    <3>1. Cardinality(B) = 0
      BY <2>1 DEF Exact, ExclusiveCount
    <3> QED BY <3>1, <1>3, FS_EmptySet
  <2>4. PICK c \in G : ids[c] - t + 1 = i
    BY <1>1, <2>1
  <2>5. \A d \in G : d = c
    <3> SUFFICES ASSUME NEW d \in G PROVE ids[d] = ids[c]
      BY <1>1
    <3>1. ids[d] - t + 1 = i
      BY <1>1, <2>1
    <3>2. ids[d] \in Nat /\ ids[c] \in Nat
      BY DEF Granted
    <3> QED BY <3>1, <3>2, <2>4
  <2>6. B2 = {c} /\ md[c] = "Exclusive"
    BY <1>1, <1>2, <2>1, <2>3, <2>4, <2>5
  <2> QED BY <2>2, <2>6 DEF Exact, Counts
<1>6. CASE L # {} /\ ~\E i \in L : q[i].mode = "Exclusive"
  <2>1. count >= 0 /\ \A i \in L : q[i].mode = "Shared"
    BY <1>6 DEF CanServe
  <2>2. CountServed(count, q, k) = count + Cardinality(L)
    BY <1>6 DEF CountServed
  <2>3. count = Cardinality(B) /\ \A c \in B : md[c] = "Shared"
    BY <2>1 DEF Exact, ExclusiveCount
  <2>4. \A c \in G : md[c] = "Shared"
    BY <1>1, <2>1
  <2>5. Cardinality(B2) = Cardinality(B) + Cardinality(G)
    <3>1. Cardinality(B \cup G) = Cardinality(B) + Cardinality(G) - Cardinality(B \cap G)
      BY <1>1, <1>3, FS_Union
    <3>2. Cardinality(B \cap G) = 0
      BY <1>2, FS_EmptySet
    <3>3. Cardinality(G) \in Nat
      BY <1>1, <1>3
    <3>4. Cardinality(B2) = Cardinality(B \cup G)
      BY <1>2
    <3> HIDE DEF B, G, B2
    <3> QED BY <1>3, <3>1, <3>2, <3>3, <3>4
  <2> QED BY <1>1, <1>2, <1>3, <2>2, <2>3, <2>4, <2>5 DEF Exact, Counts
<1> QED BY <1>4, <1>5, <1>6

(* What is left of a queue without its first k entries. *)
Remainder(r, q, k) ==
  /\ r \in Seq(Entry) /\ Len(r) = Len(q) - k
  /\ \A i \in 1..(Len(q) - k) : r[i] = q[k + i]

(* The pops of wake_waiters leave the rest of the queue as it was. *)
LEMMA PopRemainder ==
  ASSUME NEW q \in Seq(Entry), NEW k \in 0..Len(q)
  PROVE  Remainder(SubSeq(q, k + 1, Len(q)), q, k)
<1> DEFINE r == SubSeq(q, k + 1, Len(q))
<1>0. Len(q) \in Nat /\ k \in Nat /\ k <= Len(q)
  OBVIOUS
<1>1. r \in Seq(Entry)
  BY <1>0, SubSeqProperties
<1>2. Len(r) = Len(q) - k
  BY <1>0, SubSeqProperties
<1>3. ASSUME NEW i \in 1..(Len(q) - k) PROVE r[i] = q[k + i]
  BY <1>0, SubSeqProperties
<1> HIDE DEF r
<1>4. Remainder(r, q, k)
  BY <1>1, <1>2, <1>3 DEF Remainder
<1> QED BY <1>4 DEF r

(* wake_waiters keeps the queue and the futures in correspondence. *)
LEMMA WakeQueue ==
  ASSUME NEW q \in Seq(Entry), NEW st, NEW ids \in [Clients -> Nat], NEW md,
         NEW t \in Nat, NEW k \in 0..Len(q), NEW r,
         Remainder(r, q, k), QueueOf(q, st, ids, md, t)
  PROVE  QueueOf(r, st, ids, md, t + k)
<1>0. Len(q) \in Nat /\ k \in Nat /\ k <= Len(q)
  OBVIOUS
<1>1. r \in Seq(Entry) /\ Len(r) = Len(q) - k /\ \A i \in 1..(Len(q) - k) : r[i] = q[k + i]
  BY DEF Remainder
<1>2. ASSUME NEW c \in Clients, QueuedOf(c, st, ids, t + k)
      PROVE  /\ ids[c] - (t + k) + 1 \in 1..Len(r)
             /\ r[ids[c] - (t + k) + 1] # Hole
             /\ r[ids[c] - (t + k) + 1].mode = md[c]
  <2>1. QueuedOf(c, st, ids, t) /\ ids[c] \in Nat /\ ids[c] >= t + k
    BY <1>0, <1>2 DEF QueuedOf
  <2>2. /\ ids[c] - t + 1 \in 1..Len(q)
        /\ q[ids[c] - t + 1] # Hole /\ q[ids[c] - t + 1].mode = md[c]
    BY <2>1 DEF QueueOf
  <2>3. ids[c] - (t + k) + 1 \in 1..Len(r)
    BY <1>0, <1>1, <2>1, <2>2
  <2>4. k + (ids[c] - (t + k) + 1) = ids[c] - t + 1
    BY <1>0, <2>1
  <2>5. r[ids[c] - (t + k) + 1] = q[ids[c] - t + 1]
    <3> DEFINE j == ids[c] - (t + k) + 1
    <3>1. j \in 1..(Len(q) - k) /\ k + j = ids[c] - t + 1
      BY <1>1, <2>3, <2>4
    <3> HIDE DEF j
    <3>2. r[j] = q[k + j]
      BY <1>1, <3>1
    <3> QED BY <3>1, <3>2 DEF j
  <2> QED BY <2>2, <2>3, <2>5
<1>3. ASSUME NEW i \in 1..Len(r), r[i] # Hole
      PROVE  \E c \in Clients : QueuedOf(c, st, ids, t + k) /\ ids[c] - (t + k) + 1 = i
  <2>1. k + i \in 1..Len(q) /\ q[k + i] # Hole /\ i \in Nat /\ i >= 1
    BY <1>0, <1>1, <1>3
  <2>2. PICK c \in Clients : QueuedOf(c, st, ids, t) /\ ids[c] - t + 1 = k + i
    BY <2>1 DEF QueueOf
  <2>3. QueuedOf(c, st, ids, t + k) /\ ids[c] - (t + k) + 1 = i
    BY <1>0, <2>1, <2>2 DEF QueuedOf
  <2> QED BY <2>3
<1>4. ASSUME NEW c \in Clients, NEW d \in Clients,
             QueuedOf(c, st, ids, t + k), QueuedOf(d, st, ids, t + k), ids[c] = ids[d]
      PROVE  c = d
  BY <1>0, <1>4 DEF QueuedOf, QueueOf
<1> QED BY <1>2, <1>3, <1>4 DEF QueueOf

(* wake_waiters stops at a waiter that has to wait. *)
LEMMA WakeHead ==
  ASSUME NEW count \in Counts, NEW q \in Seq(Entry), NEW k \in 0..Len(q),
         Serves(count, q, k), k < Len(q)
  PROVE  q[k + 1] # Hole /\ try_add(CountServed(count, q, k), q[k + 1].mode) = Refused
<1> DEFINE L == Live(q, k)
           M == Live(q, k + 1)
           e == q[k + 1]
<1>0. Len(q) \in Nat /\ k \in Nat /\ k + 1 \in 1..Len(q)
  OBVIOUS
<1>1. CanServe(count, q, k) /\ ~CanServe(count, q, k + 1)
  BY DEF Serves
<1>2. e # Hole
  <2> SUFFICES ASSUME e = Hole PROVE FALSE
    OBVIOUS
  <2>1. M = L
    BY <1>0 DEF Live
  <2> QED BY <1>1, <2>1 DEF CanServe
<1>3. M = L \cup {k + 1}
  BY <1>0, <1>2 DEF Live
<1>4. e.mode \in Modes
  <2>1. e \in Entry
    BY <1>0
  <2> QED BY <1>2, <2>1 DEF Entry, Waiter
<1>5. IsFiniteSet(L) /\ Cardinality(L) \in Nat
  <2>1. IsFiniteSet(1..k)
    BY <1>0, FS_Interval
  <2>2. L \in SUBSET (1..k)
    BY DEF Live
  <2>3. IsFiniteSet(L)
    BY <2>1, <2>2, FS_Subset
  <2> QED BY <2>3, FS_CardinalityType
<1>6. CASE e.mode = "Shared"
  <2> SUFFICES ASSUME CountServed(count, q, k) >= 0 PROVE FALSE
    BY <1>2, <1>6 DEF try_add
  <2>1. ~\E i \in L : q[i].mode = "Exclusive"
    BY DEF CountServed, ExclusiveCount
  <2>2. count >= 0
    BY <1>1, <2>1 DEF CountServed, CanServe
  <2>3. \A i \in L : q[i].mode = "Shared"
    BY <1>1, <2>1 DEF CanServe
  <2> QED BY <1>1, <1>3, <1>6, <2>2, <2>3 DEF CanServe
<1>7. CASE e.mode = "Exclusive"
  <2> SUFFICES ASSUME CountServed(count, q, k) = 0 PROVE FALSE
    BY <1>2, <1>7 DEF try_add
  <2>1. ~\E i \in L : q[i].mode = "Exclusive"
    BY DEF CountServed, ExclusiveCount
  <2>2. L = {}
    <3> SUFFICES ASSUME L # {} PROVE FALSE
      OBVIOUS
    <3>1. CountServed(count, q, k) = count + Cardinality(L)
      BY <2>1 DEF CountServed
    <3>2. count >= 0
      BY <1>1, <2>1 DEF CanServe
    <3>3. Cardinality(L) # 0
      BY <1>5, FS_EmptySet
    <3> QED BY <1>5, <3>1, <3>2, <3>3 DEF Counts, ExclusiveCount
  <2>3. count = 0
    BY <2>2 DEF CountServed
  <2>4. M = {k + 1}
    BY <1>3, <2>2
  <2> QED BY <1>1, <1>7, <2>3, <2>4 DEF CanServe
<1> QED BY <1>4, <1>6, <1>7 DEF Modes

----------------------------------------------------------------------------
(* Each call, from the invariant. *)

(* Every call that ends in wake_waiters re-establishes the invariant. *)
LEMMA WakeStep ==
  ASSUME TypeOK, NEW count \in Counts, NEW q \in Seq(Entry),
         NEW st \in [Clients -> States], NEW ids \in [Clients -> Nat],
         wake_waiters(count, q, st, ids),
         state' = st, id' = ids, mode' \in [Clients -> Modes],
         poller' \in [Clients -> Wakers \cup {NoTask}],
         Exact(count, BorrowersOf(st, ids, turn), mode'),
         QueueOf(q, st, ids, mode', turn)
  PROVE  IInv'
<1>1. PICK k \in 0..Len(q) :
        /\ Serves(count, q, k)
        /\ borrow_count' = CountServed(count, q, k)
        /\ waiters' = SubSeq(q, k + 1, Len(q))
        /\ turn' = turn + k
        /\ woken' = Wakes(k, ids, st, q)
  BY DEF wake_waiters
<1>2. turn \in Nat /\ Len(q) \in Nat /\ k \in Nat
  BY DEF TypeOK
<1>3. /\ borrow_count' \in Counts
      /\ Exact(borrow_count', BorrowersOf(st, ids, turn'), mode')
  BY <1>1, <1>2, WakeExact DEF Serves
<1>4. Remainder(waiters', q, k) /\ QueueOf(waiters', st, ids, mode', turn')
  <2>1. Remainder(waiters', q, k)
    BY <1>1, PopRemainder
  <2>2. QueueOf(waiters', st, ids, mode', turn + k)
    BY <1>2, <2>1, WakeQueue
  <2> QED BY <1>1, <2>1, <2>2
<1>5. HeadOf(borrow_count', waiters')
  <2> SUFFICES ASSUME Len(waiters') # 0
               PROVE  waiters'[1] # Hole /\ try_add(borrow_count', waiters'[1].mode) = Refused
    BY DEF HeadOf
  <2>1. k < Len(q) /\ waiters'[1] = q[k + 1]
    BY <1>2, <1>4 DEF Remainder
  <2> QED BY <1>1, <2>1, WakeHead
<1>6. woken' \in [Clients -> BOOLEAN]
  BY <1>1 DEF Wakes, TypeOK
<1>7. TypeOK'
  BY <1>1, <1>2, <1>3, <1>4, <1>6 DEF TypeOK, Counts, Entry, States, Remainder
<1> QED BY <1>3, <1>4, <1>5, <1>7 DEF IInv

(* try_borrow and try_borrow_mut keep the invariant: the queue is empty. *)
LEMMA BorrowSyncStep ==
  ASSUME IInv, NEW c \in Clients, NEW m \in Modes, borrow_sync(c, m)
  PROVE  IInv'
<1> DEFINE B == BorrowersOf(state, id, turn)
           B2 == BorrowersOf(state', id', turn')
<1>1. /\ state[c] = "none" /\ waiters = <<>> /\ try_add(borrow_count, m) # Refused
      /\ borrow_count' = try_add(borrow_count, m)
      /\ state' = [state EXCEPT ![c] = "borrow"]
      /\ mode' = [mode EXCEPT ![c] = m]
      /\ UNCHANGED <<waiters, turn, id, poller, woken>>
  BY DEF borrow_sync
<1>2. TypeOK
  BY DEF IInv
<1>3. c \notin B /\ B2 = B \cup {c} /\ \A d \in B : mode'[d] = mode[d]
  BY <1>1, <1>2 DEF BorrowersOf, TypeOK
<1>4. IsFiniteSet(B) /\ Cardinality(B) \in Nat
  BY CellAssumption, FS_Subset, FS_CardinalityType DEF BorrowersOf
<1>5. Exact(borrow_count, B, mode)
  BY DEF IInv
<1>6. mode'[c] = m
  BY <1>1, <1>2 DEF TypeOK
<1>7. borrow_count' \in Counts /\ Exact(borrow_count', B2, mode')
  <2>1. CASE m = "Shared"
    <3>1. borrow_count >= 0 /\ borrow_count' = borrow_count + 1
      BY <1>1, <2>1 DEF try_add
    <3>2. borrow_count = Cardinality(B) /\ \A d \in B : mode[d] = "Shared"
      BY <1>5, <3>1 DEF Exact, ExclusiveCount
    <3>3. Cardinality(B2) = Cardinality(B) + 1
      BY <1>3, <1>4, FS_AddElement
    <3> QED BY <1>3, <1>4, <1>6, <2>1, <3>1, <3>2, <3>3 DEF Exact, Counts
  <2>2. CASE m = "Exclusive"
    <3>1. borrow_count = 0 /\ borrow_count' = ExclusiveCount
      BY <1>1, <2>2 DEF try_add
    <3>2. Cardinality(B) = 0
      BY <1>5, <3>1 DEF Exact, ExclusiveCount
    <3>3. B2 = {c}
      BY <1>3, <1>4, <3>2, FS_EmptySet
    <3> QED BY <1>6, <2>2, <3>1, <3>3 DEF Exact, Counts
  <2> QED BY <2>1, <2>2 DEF Modes
<1>8. QueueOf(waiters', state', id', mode', turn')
  <2>1. \A d \in Clients : QueuedOf(d, state', id', turn') <=> QueuedOf(d, state, id, turn)
    BY <1>1, <1>2 DEF QueuedOf, TypeOK
  <2>2. \A d \in Clients : QueuedOf(d, state, id, turn) => mode'[d] = mode[d]
    BY <1>1, <1>2 DEF QueuedOf, TypeOK
  <2>3. QueueOf(waiters, state, id, mode, turn)
    BY DEF IInv
  <2> QED BY <1>1, <2>1, <2>2, <2>3 DEF QueueOf
<1>9. HeadOf(borrow_count', waiters')
  BY <1>1 DEF HeadOf
<1>10. TypeOK'
  BY <1>1, <1>2, <1>7 DEF TypeOK, Counts
<1> QED BY <1>7, <1>8, <1>9, <1>10 DEF IInv

(* borrow and borrow_mut keep the invariant: the new ticket is the last one. *)
LEMMA CreateWaiterStep ==
  ASSUME IInv, NEW c \in Clients, NEW m \in Modes, create_waiter(c, m)
  PROVE  IInv'
<1> DEFINE q == Append(waiters, [mode |-> m, waker |-> NoTask])
           st == [state EXCEPT ![c] = "future"]
           ids == [id EXCEPT ![c] = turn + Len(waiters)]
           md == [mode EXCEPT ![c] = m]
<1>1. /\ state[c] = "none" /\ state' = st /\ id' = ids /\ mode' = md
      /\ poller' = poller
  BY DEF create_waiter
<1>2. TypeOK /\ turn \in Nat /\ Len(waiters) \in Nat /\ waiters \in Seq(Entry)
  BY DEF IInv, TypeOK, Entry
<1>3. /\ st \in [Clients -> States] /\ ids \in [Clients -> Nat]
      /\ md \in [Clients -> Modes]
      /\ [mode |-> m, waker |-> NoTask] \in Waiter
  BY <1>2 DEF TypeOK, States, Waiter
<1>4. [mode |-> m, waker |-> NoTask] # Hole
  BY DEF Hole, Modes
<1>5. /\ q \in Seq(Entry) /\ Len(q) = Len(waiters) + 1
      /\ \A i \in 1..Len(waiters) : q[i] = waiters[i]
      /\ q[Len(waiters) + 1] = [mode |-> m, waker |-> NoTask]
  BY <1>2, <1>3, AppendProperties DEF Entry
<1>6. /\ st[c] = "future" /\ ids[c] = turn + Len(waiters) /\ md[c] = m
      /\ \A d \in Clients \ {c} : st[d] = state[d] /\ ids[d] = id[d] /\ md[d] = mode[d]
  BY <1>2 DEF TypeOK
<1>7. QueueOf(waiters, state, id, mode, turn)
  BY DEF IInv
<1> HIDE DEF q, st, ids, md
<1>8. BorrowersOf(st, ids, turn) = BorrowersOf(state, id, turn)
  BY <1>1, <1>2, <1>6 DEF BorrowersOf
<1>9. Exact(borrow_count, BorrowersOf(st, ids, turn), md)
  <2>1. \A d \in BorrowersOf(state, id, turn) : md[d] = mode[d]
    BY <1>1, <1>6 DEF BorrowersOf
  <2> QED BY <1>8, <2>1 DEF IInv, Exact
<1>10. QueueOf(q, st, ids, md, turn)
  <2>1. \A d \in Clients \ {c} :
          QueuedOf(d, st, ids, turn) <=> QueuedOf(d, state, id, turn)
    BY <1>6 DEF QueuedOf
  <2>2. QueuedOf(c, st, ids, turn) /\ ids[c] - turn + 1 = Len(waiters) + 1
    BY <1>2, <1>6 DEF QueuedOf
  <2>3. ASSUME NEW d \in Clients \ {c}, QueuedOf(d, state, id, turn)
        PROVE  /\ id[d] \in Nat /\ id[d] - turn + 1 \in 1..Len(waiters)
               /\ waiters[id[d] - turn + 1] # Hole
               /\ waiters[id[d] - turn + 1].mode = mode[d]
    BY <1>2, <1>7, <2>3 DEF QueueOf, TypeOK
  <2>4. ASSUME NEW d \in Clients, QueuedOf(d, st, ids, turn)
        PROVE  /\ ids[d] - turn + 1 \in 1..Len(q)
               /\ q[ids[d] - turn + 1] # Hole
               /\ q[ids[d] - turn + 1].mode = md[d]
    <3>1. CASE d = c
      BY <1>2, <1>4, <1>5, <1>6, <2>2, <3>1
    <3>2. CASE d # c
      BY <1>2, <1>5, <1>6, <2>1, <2>3, <2>4, <3>2
    <3> QED BY <3>1, <3>2
  <2>5. ASSUME NEW i \in 1..Len(q), q[i] # Hole
        PROVE  \E d \in Clients : QueuedOf(d, st, ids, turn) /\ ids[d] - turn + 1 = i
    <3>1. CASE i = Len(waiters) + 1
      BY <2>2, <3>1
    <3>2. CASE i \in 1..Len(waiters)
      <4>1. waiters[i] # Hole
        BY <1>5, <2>5, <3>2
      <4>2. PICK d \in Clients : QueuedOf(d, state, id, turn) /\ id[d] - turn + 1 = i
        BY <1>7, <3>2, <4>1 DEF QueueOf
      <4>3. d # c
        BY <1>1, <4>2 DEF QueuedOf
      <4> QED BY <1>6, <2>1, <4>2, <4>3
    <3> QED BY <1>2, <1>5, <3>1, <3>2
  <2>6. ASSUME NEW d \in Clients, NEW e \in Clients,
               QueuedOf(d, st, ids, turn), QueuedOf(e, st, ids, turn), ids[d] = ids[e]
        PROVE  d = e
    <3>1. CASE d # c /\ e # c
      BY <1>6, <1>7, <2>1, <2>6, <3>1 DEF QueueOf
    <3>2. CASE d = c /\ e # c
      BY <1>2, <1>6, <2>1, <2>3, <2>6, <3>2
    <3>3. CASE d # c /\ e = c
      BY <1>2, <1>6, <2>1, <2>3, <2>6, <3>3
    <3> QED BY <3>1, <3>2, <3>3
  <2> QED BY <2>4, <2>5, <2>6 DEF QueueOf
<1>11. CASE Len(waiters) = 0
  <2>1. wake_waiters(borrow_count, q, st, ids)
    BY <1>11 DEF create_waiter, q, st, ids
  <2>2. borrow_count \in Counts /\ poller' \in [Clients -> Wakers \cup {NoTask}]
    BY <1>1, <1>2 DEF TypeOK, Counts
  <2>3. Exact(borrow_count, BorrowersOf(st, ids, turn), mode') /\ QueueOf(q, st, ids, mode', turn)
    BY <1>1, <1>9, <1>10
  <2>4. mode' \in [Clients -> Modes]
    BY <1>1, <1>3
  <2> QED BY <1>1, <1>2, <1>3, <1>5, <2>1, <2>2, <2>3, <2>4, WakeStep
<1>12. CASE Len(waiters) # 0
  <2>1. waiters' = q /\ UNCHANGED <<borrow_count, turn, woken>>
    BY <1>12 DEF create_waiter, q
  <2>2. HeadOf(borrow_count', waiters')
    <3>1. q[1] = waiters[1] /\ Len(q) # 0
      BY <1>2, <1>5, <1>12
    <3> QED BY <1>12, <2>1, <3>1 DEF IInv, HeadOf
  <2>3. TypeOK'
    BY <1>1, <1>2, <1>3, <1>5, <2>1 DEF TypeOK, Entry, States
  <2> QED BY <1>1, <1>9, <1>10, <2>1, <2>2, <2>3 DEF IInv
<1> QED BY <1>11, <1>12

(* Giving a borrow or a reservation back, by whoever had it. *)
LEMMA ReleaseStep ==
  ASSUME IInv, NEW c \in Clients, c \in BorrowersOf(state, id, turn),
         state' = [state EXCEPT ![c] = "none"], mode' = mode, id' = id,
         poller' \in [Clients -> Wakers \cup {NoTask}],
         release(mode[c], [state EXCEPT ![c] = "none"])
  PROVE  IInv'
<1> DEFINE B == BorrowersOf(state, id, turn)
           B2 == BorrowersOf(state', id, turn)
           count == try_remove(borrow_count, mode[c])
<1>1. TypeOK /\ turn \in Nat /\ waiters \in Seq(Entry)
  BY DEF IInv, TypeOK, Entry
<1>2. B2 = B \ {c} /\ c \in B
  BY <1>1 DEF BorrowersOf, TypeOK
<1>3. IsFiniteSet(B) /\ Cardinality(B) \in Nat
  BY CellAssumption, FS_Subset, FS_CardinalityType DEF BorrowersOf
<1>4. Exact(borrow_count, B, mode)
  BY DEF IInv
<1>5. /\ count \in Counts /\ Exact(count, B2, mode)
      /\ count # 0 => count >= 1 /\ borrow_count >= 0
  <2>1. CASE borrow_count = Cardinality(B) /\ \A d \in B : mode[d] = "Shared"
    <3>1. Cardinality(B2) = Cardinality(B) - 1 /\ Cardinality(B2) \in Nat
      BY <1>2, <1>3, FS_RemoveElement, FS_CardinalityType
    <3>2. mode[c] = "Shared" /\ borrow_count > 0
      BY <1>2, <1>3, <2>1, <3>1
    <3>3. count = Cardinality(B) - 1
      BY <2>1, <3>2 DEF try_remove
    <3> HIDE DEF B, B2, count
    <3> QED BY <1>2, <1>3, <2>1, <3>1, <3>3 DEF Exact, Counts
  <2>2. CASE borrow_count = ExclusiveCount /\ \E d \in B : B = {d} /\ mode[d] = "Exclusive"
    <3>1. mode[c] = "Exclusive" /\ B2 = {}
      BY <1>2, <2>2
    <3>2. count = 0
      BY <2>2, <3>1 DEF try_remove
    <3>3. Cardinality(B2) = 0
      BY <3>1, FS_EmptySet
    <3> HIDE DEF B, B2, count
    <3> QED BY <3>1, <3>2, <3>3 DEF Exact, Counts
  <2> QED BY <1>4, <2>1, <2>2 DEF Exact
<1>6. QueueOf(waiters, state', id, mode, turn)
  <2>1. \A d \in Clients : QueuedOf(d, state', id, turn) <=> QueuedOf(d, state, id, turn)
    BY <1>1, <1>2 DEF QueuedOf, BorrowersOf, TypeOK
  <2>2. QueueOf(waiters, state, id, mode, turn)
    BY DEF IInv
  <2> QED BY <2>1, <2>2 DEF QueueOf
<1>7. state' \in [Clients -> States] /\ id \in [Clients -> Nat] /\ mode' \in [Clients -> Modes]
  BY <1>1 DEF TypeOK, States
<1> HIDE DEF B, B2
<1>8. CASE count = 0
  <2>1. wake_waiters(count, waiters, state', id)
    BY <1>8 DEF release
  <2>2. /\ Exact(count, BorrowersOf(state', id, turn), mode')
        /\ QueueOf(waiters, state', id, mode', turn)
    BY <1>5, <1>6 DEF B2
  <2> HIDE DEF count
  <2> QED BY <1>1, <1>5, <1>7, <2>1, <2>2, WakeStep
<1>9. CASE count # 0
  <2>1. borrow_count' = count /\ UNCHANGED <<waiters, turn, woken>>
    BY <1>9 DEF release
  <2> HIDE DEF count
  <2>2. HeadOf(count, waiters)
    <3> SUFFICES ASSUME Len(waiters) # 0
                 PROVE  waiters[1] # Hole /\ try_add(count, waiters[1].mode) = Refused
      BY DEF HeadOf
    <3>1. waiters[1] # Hole /\ try_add(borrow_count, waiters[1].mode) = Refused
      BY DEF IInv, HeadOf
    <3>2. borrow_count >= 0 /\ count >= 1 /\ borrow_count \in Counts /\ count \in Counts
      BY <1>1, <1>5, <1>9 DEF TypeOK, Counts
    <3>3. waiters[1].mode # "Shared"
      BY <3>1, <3>2 DEF try_add, Refused, Counts, ExclusiveCount
    <3> QED BY <3>1, <3>2, <3>3 DEF try_add
  <2>3. Exact(borrow_count', BorrowersOf(state', id', turn'), mode')
    BY <1>5, <2>1 DEF B2
  <2>4. QueueOf(waiters', state', id', mode', turn')
    BY <1>6, <2>1
  <2>5. TypeOK'
    BY <1>1, <1>5, <1>7, <2>1 DEF TypeOK, Counts, States
  <2> QED BY <2>1, <2>2, <2>3, <2>4, <2>5 DEF IInv
<1> QED BY <1>8, <1>9

(* Dropping a borrow keeps the invariant. *)
LEMMA DropBorrowStep ==
  ASSUME IInv, NEW c \in Clients, drop_borrow(c)
  PROVE  IInv'
<1>1. /\ state[c] = "borrow" /\ state' = [state EXCEPT ![c] = "none"]
      /\ mode' = mode /\ id' = id /\ poller' = poller
      /\ release(mode[c], [state EXCEPT ![c] = "none"])
  BY DEF drop_borrow, Holding
<1>2. c \in BorrowersOf(state, id, turn) /\ poller' \in [Clients -> Wakers \cup {NoTask}]
  BY <1>1 DEF BorrowersOf, IInv, TypeOK
<1> QED BY <1>1, <1>2, ReleaseStep

(* The hole a dropped future leaves takes it, and it alone, off the queue. *)
LEMMA HoleQueue ==
  ASSUME NEW q \in Seq(Entry), NEW holed \in Seq(Entry), NEW st, NEW st2,
         NEW ids \in [Clients -> Nat], NEW md, NEW t \in Nat, NEW c \in Clients,
         QueueOf(q, st, ids, md, t), QueuedOf(c, st, ids, t),
         Len(holed) = Len(q), holed[ids[c] - t + 1] = Hole,
         \A j \in 1..Len(q) : j # ids[c] - t + 1 => holed[j] = q[j],
         \A d \in Clients : QueuedOf(d, st2, ids, t) <=> d # c /\ QueuedOf(d, st, ids, t)
  PROVE  QueueOf(holed, st2, ids, md, t)
<1>0. Len(q) \in Nat /\ \A d \in Clients : ids[d] \in Nat
  OBVIOUS
<1>1. ASSUME NEW d \in Clients, QueuedOf(d, st2, ids, t)
      PROVE  /\ ids[d] - t + 1 \in 1..Len(holed)
             /\ holed[ids[d] - t + 1] # Hole
             /\ holed[ids[d] - t + 1].mode = md[d]
  <2>1. d # c /\ QueuedOf(d, st, ids, t)
    BY <1>1
  <2>2. /\ ids[d] - t + 1 \in 1..Len(q)
        /\ q[ids[d] - t + 1] # Hole /\ q[ids[d] - t + 1].mode = md[d]
    BY <2>1 DEF QueueOf
  <2>3. ids[d] # ids[c]
    BY <2>1 DEF QueueOf
  <2>4. ids[d] - t + 1 # ids[c] - t + 1
    BY <1>0, <2>3
  <2>5. holed[ids[d] - t + 1] = q[ids[d] - t + 1]
    BY <2>2, <2>4
  <2> QED BY <2>2, <2>5
<1>2. ASSUME NEW j \in 1..Len(holed), holed[j] # Hole
      PROVE  \E d \in Clients : QueuedOf(d, st2, ids, t) /\ ids[d] - t + 1 = j
  <2>1. j \in 1..Len(q) /\ j # ids[c] - t + 1 /\ q[j] # Hole
    BY <1>2
  <2>2. PICK d \in Clients : QueuedOf(d, st, ids, t) /\ ids[d] - t + 1 = j
    BY <2>1 DEF QueueOf
  <2>3. d # c
    BY <2>1, <2>2
  <2> QED BY <2>2, <2>3
<1>3. ASSUME NEW d \in Clients, NEW e \in Clients,
             QueuedOf(d, st2, ids, t), QueuedOf(e, st2, ids, t), ids[d] = ids[e]
      PROVE  d = e
  BY <1>3 DEF QueueOf
<1> QED BY <1>1, <1>2, <1>3 DEF QueueOf

(* Dropping a future keeps the invariant: reserved, at the head or behind it. *)
LEMMA DropWaiterStep ==
  ASSUME IInv, NEW c \in Clients, drop_waiter(c)
  PROVE  IInv'
<1> DEFINE st == [state EXCEPT ![c] = "none"]
           i == id[c] - turn + 1
           holed == [waiters EXCEPT ![i] = Hole]
<1>1. /\ state[c] = "future" /\ state' = st /\ mode' = mode /\ id' = id
      /\ poller' = [poller EXCEPT ![c] = NoTask]
  BY DEF drop_waiter, Waiting
<1>2. TypeOK /\ turn \in Nat /\ waiters \in Seq(Entry) /\ id[c] \in Nat /\ Len(waiters) \in Nat
  BY DEF IInv, TypeOK, Entry
<1>3. poller' \in [Clients -> Wakers \cup {NoTask}]
  BY <1>1, <1>2 DEF TypeOK
<1>4. CASE id[c] < turn
  <2>1. release(mode[c], st)
    BY <1>2, <1>4 DEF drop_waiter
  <2>2. c \in BorrowersOf(state, id, turn)
    BY <1>1, <1>4 DEF BorrowersOf
  <2> QED BY <1>1, <1>3, <2>1, <2>2, ReleaseStep
<1>5. CASE id[c] >= turn
  <2>1. QueueOf(waiters, state, id, mode, turn)
    BY DEF IInv
  <2>2. QueuedOf(c, state, id, turn) /\ i \in 1..Len(waiters)
    BY <1>1, <1>5, <2>1 DEF QueueOf, QueuedOf
  <2>3. /\ holed \in Seq(Entry) /\ Len(holed) = Len(waiters) /\ holed[i] = Hole
        /\ \A j \in 1..Len(waiters) : j # i => holed[j] = waiters[j]
    BY <1>2, <2>2 DEF Entry
  <2>4. /\ st \in [Clients -> States]
        /\ \A d \in Clients : QueuedOf(d, st, id, turn) <=> d # c /\ QueuedOf(d, state, id, turn)
    BY <1>2 DEF QueuedOf, TypeOK, States
  <2>5. BorrowersOf(st, id, turn) = BorrowersOf(state, id, turn)
    BY <1>1, <1>2, <1>5 DEF BorrowersOf, TypeOK
  <2>6. borrow_count \in Counts /\ id \in [Clients -> Nat] /\ mode' \in [Clients -> Modes]
    BY <1>1, <1>2 DEF TypeOK, Counts
  <2>7. Exact(borrow_count, BorrowersOf(st, id, turn), mode')
    BY <1>1, <2>5 DEF IInv
  <2>8. QueueOf(holed, st, id, mode, turn)
    <3>1. /\ holed[id[c] - turn + 1] = Hole
          /\ \A j \in 1..Len(waiters) : j # id[c] - turn + 1 => holed[j] = waiters[j]
      BY <2>3
    <3> HIDE DEF holed, st, i
    <3> QED BY <1>2, <2>1, <2>2, <2>3, <2>4, <2>6, <3>1, HoleQueue
  <2>9. CASE id[c] = turn
    <3>1. wake_waiters(borrow_count, holed, st, id)
      BY <1>2, <2>9 DEF drop_waiter
    <3> HIDE DEF st, holed, i
    <3>2. QueueOf(holed, st, id, mode', turn)
      BY <1>1, <2>8
    <3> QED BY <1>1, <1>2, <1>3, <2>3, <2>4, <2>6, <2>7, <3>1, <3>2, WakeStep
  <2>10. CASE id[c] # turn
    <3>1. waiters' = holed /\ UNCHANGED <<borrow_count, turn, woken>>
      BY <1>2, <1>5, <2>10 DEF drop_waiter
    <3>2. i # 1
      BY <1>2, <2>10
    <3> HIDE DEF st, holed, i
    <3>3. QueueOf(holed, st, id, mode', turn)
      BY <1>1, <2>8
    <3>4. HeadOf(borrow_count, holed)
      <4>1. 1 \in 1..Len(waiters) /\ holed[1] = waiters[1] /\ Len(waiters) # 0
        BY <1>2, <2>2, <2>3, <3>2
      <4> QED BY <2>3, <4>1 DEF IInv, HeadOf
    <3>5. TypeOK'
      BY <1>1, <1>2, <1>3, <2>3, <2>4, <2>6, <3>1 DEF TypeOK, Entry, States
    <3> QED BY <1>1, <2>7, <3>1, <3>3, <3>4, <3>5 DEF IInv
  <2> QED BY <2>9, <2>10
<1> QED BY <1>2, <1>4, <1>5

(* Polling a future keeps the invariant: only a waker changes, or its owner. *)
LEMMA PollWaiterStep ==
  ASSUME IInv, NEW c \in Clients, NEW w \in Wakers, poll_waiter(c, w)
  PROVE  IInv'
<1>1. TypeOK /\ turn \in Nat /\ waiters \in Seq(Entry) /\ id[c] \in Nat
      /\ QueueOf(waiters, state, id, mode, turn)
  BY DEF IInv, TypeOK, Entry
<1>2. CASE Reserved(c)
  <2>1. /\ state[c] = "future" /\ id[c] < turn
        /\ state' = [state EXCEPT ![c] = "borrow"]
        /\ poller' = [poller EXCEPT ![c] = NoTask]
        /\ woken' = [woken EXCEPT ![c] = FALSE]
        /\ UNCHANGED <<borrow_count, waiters, turn, mode, id>>
    BY <1>2 DEF poll_waiter, Reserved, Waiting
  <2>2. BorrowersOf(state', id', turn') = BorrowersOf(state, id, turn)
    BY <1>1, <2>1 DEF BorrowersOf, TypeOK
  <2>3. \A d \in Clients : QueuedOf(d, state', id', turn') <=> QueuedOf(d, state, id, turn)
    BY <1>1, <2>1 DEF QueuedOf, TypeOK
  <2>4. QueueOf(waiters', state', id', mode', turn')
    BY <1>1, <2>1, <2>3 DEF QueueOf
  <2>5. TypeOK'
    BY <1>1, <2>1 DEF TypeOK
  <2> QED BY <2>1, <2>2, <2>4, <2>5 DEF IInv
<1>3. CASE ~Reserved(c)
  <2> DEFINE i == id[c] - turn + 1
             r == [waiters EXCEPT ![i].waker = w]
  <2>1. /\ state[c] = "future" /\ id[c] >= turn /\ waiters' = r
        /\ poller' = [poller EXCEPT ![c] = w]
        /\ woken' = [woken EXCEPT ![c] = FALSE]
        /\ UNCHANGED <<borrow_count, turn, state, mode, id>>
    BY <1>3 DEF poll_waiter, Queued, Waiting
  <2>2. i \in 1..Len(waiters) /\ waiters[i] # Hole
    BY <1>1, <2>1 DEF QueueOf, QueuedOf
  <2>3. waiters[i] \in Waiter
    BY <1>1, <2>2 DEF Entry
  <2>4. /\ [waiters[i] EXCEPT !.waker = w] \in Waiter
        /\ [waiters[i] EXCEPT !.waker = w].mode = waiters[i].mode
    BY <2>3 DEF Waiter
  <2>5. \A e \in Waiter : e # Hole
    BY DEF Waiter, Hole, Modes
  <2>6. /\ r \in Seq(Entry) /\ Len(r) = Len(waiters)
        /\ r[i] = [waiters[i] EXCEPT !.waker = w]
        /\ \A j \in 1..Len(waiters) : j # i => r[j] = waiters[j]
    BY <1>1, <2>2, <2>4 DEF Entry
  <2>7. \A j \in 1..Len(waiters) : (r[j] # Hole <=> waiters[j] # Hole) /\ r[j].mode = waiters[j].mode
    BY <2>2, <2>4, <2>5, <2>6
  <2> HIDE DEF i, r
  <2>8. QueueOf(r, state, id, mode, turn)
    BY <1>1, <2>6, <2>7 DEF QueueOf
  <2>9. HeadOf(borrow_count, r)
    <3> SUFFICES ASSUME Len(r) # 0
                 PROVE  r[1] # Hole /\ try_add(borrow_count, r[1].mode) = Refused
      BY DEF HeadOf
    <3>1. waiters[1] # Hole /\ try_add(borrow_count, waiters[1].mode) = Refused
      BY <2>6 DEF IInv, HeadOf
    <3>2. 1 \in 1..Len(waiters)
      BY <1>1, <2>6
    <3> QED BY <2>7, <3>1, <3>2
  <2>10. TypeOK'
    BY <1>1, <2>1, <2>6 DEF TypeOK, Entry
  <2> QED BY <2>1, <2>8, <2>9, <2>10 DEF IInv
<1> QED BY <1>2, <1>3

----------------------------------------------------------------------------
(* The invariant is inductive. *)

(* A new cell satisfies the invariant. *)
LEMMA InitEstablishes == Init => IInv
<1> SUFFICES ASSUME Init PROVE IInv
  OBVIOUS
<1>1. TypeOK
  BY DEF Init, TypeOK, Modes
<1>2. BorrowersOf(state, id, turn) = {}
  BY DEF Init, BorrowersOf
<1>3. Exact(borrow_count, BorrowersOf(state, id, turn), mode)
  BY <1>2, FS_EmptySet DEF Init, Exact
<1>4. QueueOf(waiters, state, id, mode, turn) /\ HeadOf(borrow_count, waiters)
  BY DEF Init, QueueOf, QueuedOf, HeadOf
<1> QED BY <1>1, <1>3, <1>4 DEF IInv

(* Every call keeps the invariant. *)
LEMMA StepPreserves == IInv /\ [Next]_vars => IInv'
<1> SUFFICES ASSUME IInv, [Next]_vars PROVE IInv'
  OBVIOUS
<1>1. ASSUME NEW c \in Clients, NEW m \in Modes, borrow_sync(c, m) PROVE IInv'
  BY <1>1, BorrowSyncStep
<1>2. ASSUME NEW c \in Clients, NEW m \in Modes, create_waiter(c, m) PROVE IInv'
  BY <1>2, CreateWaiterStep
<1>3. ASSUME NEW c \in Clients, NEW w \in Wakers, poll_waiter(c, w) PROVE IInv'
  BY <1>3, PollWaiterStep
<1>4. ASSUME NEW c \in Clients, drop_borrow(c) PROVE IInv'
  BY <1>4, DropBorrowStep
<1>5. ASSUME NEW c \in Clients, drop_waiter(c) PROVE IInv'
  BY <1>5, DropWaiterStep
<1>6. CASE UNCHANGED vars
  BY <1>6 DEF vars, IInv, TypeOK, Exact, BorrowersOf, QueueOf, QueuedOf, HeadOf
<1> QED BY <1>1, <1>2, <1>3, <1>4, <1>5, <1>6 DEF Next

(* The invariant holds in every reachable state, for any finite set of     *)
(* clients, any set of tasks and any number of tickets.                    *)
THEOREM Invariance == Spec => []IInv
  BY InitEstablishes, StepPreserves, PTL DEF Spec

(* The cell and its futures keep their types; in particular no call ever   *)
(* stores the refused count, the unwrap of a None in poll_waiter.          *)
THEOREM TypeCorrect == Spec => []TypeOK
<1>1. IInv => TypeOK
  BY DEF IInv
<1> QED BY <1>1, Invariance, PTL

(* The borrow count of async_cell.rs is always exactly what the borrows    *)
(* and the reservations amount to, and an exclusive borrow is alone.       *)
THEOREM BorrowsAreExact == Spec => []BorrowsExact
<1>1. IInv => BorrowsExact
  <2>1. Borrowers = BorrowersOf(state, id, turn)
    BY DEF Borrowers, Holding, Reserved, Waiting, BorrowersOf
  <2> QED BY <2>1 DEF IInv, Exact, BorrowsExact
<1> QED BY <1>1, Invariance, PTL

(* When every client is done the cell is free and its queue is empty,      *)
(* whatever was borrowed, awaited and dropped before.                      *)
LEMMA CellIsFreed == IInv => FreedInTheEnd
<1> SUFFICES ASSUME IInv, \A c \in Clients : state[c] = "none"
             PROVE  borrow_count = 0 /\ waiters = <<>>
  BY DEF FreedInTheEnd
<1>1. BorrowersOf(state, id, turn) = {}
  BY DEF BorrowersOf
<1>2. borrow_count = 0
  BY <1>1, FS_EmptySet DEF IInv, Exact
<1>3. Len(waiters) = 0
  <2> SUFFICES ASSUME Len(waiters) # 0 PROVE FALSE
    OBVIOUS
  <2>1. waiters \in Seq(Entry) /\ waiters[1] # Hole /\ QueueOf(waiters, state, id, mode, turn)
    BY DEF IInv, TypeOK, HeadOf, Entry
  <2>2. 1 \in 1..Len(waiters)
    BY <2>1
  <2> QED BY <2>1, <2>2 DEF QueueOf, QueuedOf
<1>4. waiters = <<>>
  BY <1>3, EmptySeq DEF IInv, TypeOK
<1> QED BY <1>2, <1>4

(* No call of async_cell.rs panics: what it unwraps and asserts holds,     *)
(* nobody waits for a borrow it could have, and the cell is free once      *)
(* every client is done.                                                   *)
THEOREM NoCallPanics == Spec => []AssertionsHold
<1>1. IInv => AssertionsHold
  <2> SUFFICES ASSUME IInv, NEW c \in Clients
               PROVE  /\ (Reserved(c) \/ Holding(c)) => try_remove(borrow_count, mode[c]) # Refused
                      /\ Queued(c) => /\ id[c] < turn + Len(waiters)
                                      /\ waiters[id[c] - turn + 1].mode = mode[c]
                      /\ FirstInLine(c) => try_add(borrow_count, mode[c]) = Refused
    BY CellIsFreed DEF AssertionsHold
  <2> DEFINE B == BorrowersOf(state, id, turn)
  <2>1. /\ TypeOK /\ turn \in Nat /\ Len(waiters) \in Nat /\ \A d \in Clients : id[d] \in Nat
        /\ QueueOf(waiters, state, id, mode, turn) /\ HeadOf(borrow_count, waiters)
    BY DEF IInv, TypeOK
  <2>2. ASSUME Reserved(c) \/ Holding(c) PROVE try_remove(borrow_count, mode[c]) # Refused
    <3>1. c \in B
      BY <2>2 DEF BorrowersOf, Reserved, Holding, Waiting
    <3>2. IsFiniteSet(B) /\ Cardinality(B) \in Nat /\ Cardinality(B) # 0
      BY <3>1, CellAssumption, FS_Subset, FS_CardinalityType, FS_EmptySet DEF BorrowersOf
    <3>3. Exact(borrow_count, B, mode)
      BY DEF IInv
    <3> HIDE DEF B
    <3> QED BY <3>1, <3>2, <3>3 DEF Exact, try_remove, Refused, ExclusiveCount
  <2>3. ASSUME Queued(c)
        PROVE  /\ id[c] < turn + Len(waiters)
               /\ waiters[id[c] - turn + 1].mode = mode[c]
               /\ Len(waiters) # 0
    <3>1. QueuedOf(c, state, id, turn)
      BY <2>3 DEF Queued, Waiting, QueuedOf
    <3> QED BY <2>1, <3>1 DEF QueueOf
  <2>4. ASSUME FirstInLine(c) PROVE try_add(borrow_count, mode[c]) = Refused
    <3>1. Queued(c) /\ id[c] >= turn
      BY <2>4 DEF FirstInLine, Queued
    <3>2. 1 \in 1..Len(waiters) /\ waiters[1] # Hole
          /\ try_add(borrow_count, waiters[1].mode) = Refused
      BY <2>1, <2>3, <3>1 DEF HeadOf
    <3>3. PICK d \in Clients : QueuedOf(d, state, id, turn) /\ id[d] - turn + 1 = 1
      BY <2>1, <3>2 DEF QueueOf
    <3>4. id[c] <= id[d]
      BY <2>4, <3>3 DEF FirstInLine, Queued, Waiting, QueuedOf
    <3>5. id[c] - turn + 1 = 1
      BY <2>1, <3>1, <3>3, <3>4
    <3> QED BY <2>3, <3>1, <3>2, <3>5
  <2> QED BY <2>2, <2>3, <2>4
<1> QED BY <1>1, Invariance, PTL

(* A borrow is handed out past a queued future by nobody: neither by a     *)
(* synchronous borrow, nor by a new future, nor by wake_waiters.           *)
THEOREM ServedInOrder == Spec => FirstComeFirstServed
<1>1. IInv /\ [Next]_vars =>
        [\A c, d \in Clients :
           Queued(c) /\ Queued(c)' /\ id'[c] = id[c]
           /\ ~(Holding(d) \/ Reserved(d)) /\ (Holding(d)' \/ Reserved(d)')
           => Queued(d) /\ id[d] < id[c]]_vars
  <2> SUFFICES ASSUME IInv, Next, NEW c \in Clients, NEW d \in Clients,
                      Queued(c), Queued(c)', id'[c] = id[c],
                      ~(Holding(d) \/ Reserved(d)), Holding(d)' \/ Reserved(d)'
               PROVE  Queued(d) /\ id[d] < id[c]
    OBVIOUS
  <2>1. /\ TypeOK /\ TypeOK' /\ turn \in Nat /\ turn' \in Nat /\ Len(waiters) \in Nat
        /\ id[c] \in Nat /\ id[d] \in Nat
    BY StepPreserves DEF IInv, TypeOK
  <2>2. id[c] \in turn..(turn + Len(waiters) - 1) /\ id[c] >= turn' /\ state[c] = "future"
    <3>1. QueuedOf(c, state, id, turn)
      BY DEF Queued, Waiting, QueuedOf
    <3>2. id[c] - turn + 1 \in 1..Len(waiters)
      BY <3>1 DEF IInv, QueueOf
    <3>3. id[c] >= turn' /\ id[c] >= turn
      BY DEF Queued
    <3> QED BY <2>1, <3>1, <3>2, <3>3 DEF QueuedOf
  <2>3. ASSUME state[d] = "future", id'[d] = id[d], state'[d] = "future"
        PROVE  Queued(d) /\ id[d] < id[c]
    <3>1. id[d] >= turn
      BY <2>1, <2>3 DEF Reserved, Waiting
    <3>2. id[d] < turn'
      BY <2>3 DEF Reserved, Holding
    <3> QED BY <2>1, <2>2, <2>3, <3>1, <3>2 DEF Queued, Waiting
  <2>4. /\ state[d] \in {"none", "future"} /\ state'[d] \in {"future", "borrow"}
        /\ state[d] = "future" => id[d] >= turn
        /\ state'[d] = "future" => id'[d] < turn'
    BY <2>1 DEF TypeOK, Holding, Reserved, Waiting
  <2>5. ASSUME NEW e \in Clients, NEW m \in Modes, borrow_sync(e, m) PROVE FALSE
    <3>1. waiters = <<>>
      BY <2>5 DEF borrow_sync
    <3>2. Len(waiters) = 0
      BY <3>1
    <3> QED BY <2>1, <2>2, <3>2
  <2>6. ASSUME NEW e \in Clients, NEW m \in Modes, create_waiter(e, m)
        PROVE  Queued(d) /\ id[d] < id[c]
    <3>1. /\ state[e] = "none" /\ state' = [state EXCEPT ![e] = "future"]
          /\ id' = [id EXCEPT ![e] = turn + Len(waiters)]
      BY <2>6 DEF create_waiter
    <3>2. CASE d = e
      <4>1. state'[d] = "future" /\ id'[d] = turn + Len(waiters)
        BY <2>1, <3>1, <3>2 DEF TypeOK
      <4> QED BY <2>1, <2>2, <2>4, <4>1
    <3>3. CASE d # e
      BY <2>1, <2>3, <2>4, <3>1, <3>3 DEF TypeOK
    <3> QED BY <3>2, <3>3
  <2>7. ASSUME NEW e \in Clients, NEW w \in Wakers, poll_waiter(e, w)
        PROVE  Queued(d) /\ id[d] < id[c]
    <3>1. CASE Reserved(e)
      <4>1. state' = [state EXCEPT ![e] = "borrow"] /\ id' = id /\ d # e
        BY <2>7, <3>1 DEF poll_waiter
      <4> QED BY <2>1, <2>3, <2>4, <4>1 DEF TypeOK
    <3>2. CASE ~Reserved(e)
      <4>1. state' = state /\ id' = id
        BY <2>7, <3>2 DEF poll_waiter
      <4> QED BY <2>1, <2>3, <2>4, <4>1 DEF TypeOK
    <3> QED BY <3>1, <3>2
  <2>8. ASSUME NEW e \in Clients, drop_borrow(e) \/ drop_waiter(e)
        PROVE  Queued(d) /\ id[d] < id[c]
    <3>1. state' = [state EXCEPT ![e] = "none"] /\ id' = id
      BY <2>8 DEF drop_borrow, drop_waiter
    <3> QED BY <2>1, <2>3, <2>4, <3>1 DEF TypeOK
  <2> QED BY <2>5, <2>6, <2>7, <2>8 DEF Next
<1> QED BY <1>1, Invariance, PTL DEF Spec, FirstComeFirstServed

(***************************************************************************)
(* Resources: the transfers of op_read_all and op_write_all.  RsIInv adds  *)
(* to TransfersComplete what a transfer under way maintains: the cursor    *)
(* counts the bytes handed to the reader, which the buffer holds in front  *)
(* of it, there is room behind it, and what the sink got followed by what  *)
(* the writer's view still holds is the writer's input.                    *)
(***************************************************************************)
(* What a reader's record says, with the bytes handed to it and the number *)
(* of bytes the stream has given to anyone.                                *)
ReaderOK(x, got, handed) ==
  /\ x.pc = "idle" => got = <<>>
  /\ x.pc = "reading" =>
       /\ x.grow > 0 /\ x.cursor = Len(got) /\ x.cursor < Len(x.buf) /\ x.cursor <= handed
       /\ \A i \in 1 .. x.cursor : x.buf[i] = got[i]
  /\ x.pc = "done" => x.buf = got /\ handed = RsBytes

WriterOK ==
  /\ rsWriter.view \in Seq(1 .. RsWriteLen) /\ rsSink \in Seq(1 .. RsWriteLen)
  /\ rsWriter.pc = "done" => rsWriter.view = <<>>
  /\ WriteAllOnce

RsIInv ==
  /\ RsTypeOK /\ WriterOK
  /\ \A r \in Readers : ReaderOK(rsReader[r], rsGot[r], rsRead)

LEMMA IsAList ==
  ASSUME NEW S, NEW n \in Nat, NEW f \in [1 .. n -> S]
  PROVE  f \in Seq(S) /\ Len(f) = n
<1>1. f \in Seq(S)
  BY SeqDef
<1>2. Len(f) \in Nat /\ DOMAIN f = 1 .. Len(f) /\ DOMAIN f = 1 .. n
  BY <1>1, LenProperties
<1> QED BY <1>1, <1>2

(* Concatenation, kept closed where only its associativity matters. *)
Joined(x, y) == x \o y

LEMMA JoinedAssociates ==
  ASSUME NEW S, NEW x \in Seq(S), NEW y \in Seq(S), NEW z \in Seq(S)
  PROVE  Joined(Joined(x, y), z) = Joined(x, Joined(y, z))
BY DEF Joined

LEMMA PrefixOf ==
  ASSUME NEW S, NEW s \in Seq(S), NEW n \in Nat, n <= Len(s)
  PROVE  /\ SubSeq(s, 1, n) \in Seq(S) /\ Len(SubSeq(s, 1, n)) = n
         /\ \A i \in 1 .. n : SubSeq(s, 1, n)[i] = s[i]
OBVIOUS

LEMMA RsSizes ==
  /\ RsBytes \in Nat \ {0} /\ RsWriteLen \in Nat \ {0} /\ MaxGrow \in Nat
  /\ \A hint \in RsHints : expected_remaining(hint) \in Nat \cup {Unbounded}
<1>1. {RsBytes, MaxGrow, RsWriteLen} \subseteq Nat \ {0} /\ RsHints \subseteq Nat \X (Nat \cup {NoMax})
  BY ResourcesAssumption
<1>2. \A hint \in RsHints : hint[2] \in Nat \cup {NoMax}
  BY <1>1
<1> QED BY <1>1, <1>2 DEF expected_remaining, Unbounded, NoMax

(* The first buffer is never empty: no read is offered a view of no bytes. *)
LEMMA BufferSizes == \A hint \in RsHints : initial_buffer_size(hint) \in Nat \ {0}
<1> SUFFICES ASSUME NEW hint \in RsHints PROVE initial_buffer_size(hint) \in Nat \ {0}
  OBVIOUS
<1> DEFINE min == hint[1]
           max == hint[2]
           asked == CASE min = 0 /\ max = NoMax -> StandardSize
                      [] min = 0 /\ max = 0 -> 0
                      [] min # 0 /\ min = max -> next_power_of_two(min)
                      [] min # 0 /\ min # max -> Larger(StandardSize, next_power_of_two(min))
                      [] OTHER -> Smaller(StandardSize, next_power_of_two(max))
<1>1. /\ TinySize \in Nat /\ StandardSize \in Nat /\ TinySize > 0
      /\ min \in Nat /\ max \in Nat \cup {NoMax} /\ hint = <<min, max>>
  BY ResourcesAssumption
<1>2. next_power_of_two(min) \in Nat /\ (max # NoMax => next_power_of_two(max) \in Nat)
  <2>1. min # NoMax
    BY <1>1 DEF NoMax
  <2> QED BY <2>1, PowersAssumption
<1>3. asked \in Nat
  <2>1. CASE min = 0 /\ max = NoMax
    BY <1>1, <2>1 DEF NoMax
  <2>2. CASE min = 0 /\ max = 0
    BY <2>2 DEF NoMax
  <2>3. CASE min # 0
    BY <1>1, <1>2, <2>3 DEF Larger
  <2>4. CASE min = 0 /\ max # NoMax /\ max # 0
    BY <1>1, <1>2, <2>4 DEF Smaller
  <2> QED BY <2>1, <2>2, <2>3, <2>4
<1>4. initial_buffer_size(hint) = Larger(TinySize, asked)
  BY DEF initial_buffer_size
<1> HIDE DEF asked
<1> QED BY <1>1, <1>3, <1>4 DEF Larger

(* Setting one field of a reader's record. *)
LEMMA ReaderFields ==
  ASSUME NEW x \in ReaderType
  PROVE  /\ x.pc \in {"idle", "reading", "done", "failed"} /\ x.buf \in Seq(0 .. RsBytes)
         /\ x.cursor \in 0 .. RsBytes /\ x.grow \in Nat /\ x.expected \in Nat \cup {Unbounded}
         /\ x.cursor \in Nat /\ Len(x.buf) \in Nat
<1>1. RsBytes \in Nat
  BY RsSizes
<1>2. /\ x.pc \in {"idle", "reading", "done", "failed"} /\ x.buf \in Seq(0 .. RsBytes)
      /\ x.cursor \in 0 .. RsBytes /\ x.grow \in Nat /\ x.expected \in Nat \cup {Unbounded}
  BY DEF ReaderType
<1> QED BY <1>1, <1>2

LEMMA SetPc ==
  ASSUME NEW x \in ReaderType, NEW v \in {"idle", "reading", "done", "failed"},
         NEW y, y = [x EXCEPT !.pc = v]
  PROVE  /\ y \in ReaderType /\ y.pc = v /\ y.buf = x.buf /\ y.cursor = x.cursor
         /\ y.grow = x.grow /\ y.expected = x.expected
BY DEF ReaderType

LEMMA SetBuf ==
  ASSUME NEW x \in ReaderType, NEW v \in Seq(0 .. RsBytes), NEW y, y = [x EXCEPT !.buf = v]
  PROVE  /\ y \in ReaderType /\ y.pc = x.pc /\ y.buf = v /\ y.cursor = x.cursor
         /\ y.grow = x.grow /\ y.expected = x.expected
BY DEF ReaderType

LEMMA SetCursor ==
  ASSUME NEW x \in ReaderType, NEW v \in 0 .. RsBytes, NEW y, y = [x EXCEPT !.cursor = v]
  PROVE  /\ y \in ReaderType /\ y.pc = x.pc /\ y.buf = x.buf /\ y.cursor = v
         /\ y.grow = x.grow /\ y.expected = x.expected
BY DEF ReaderType

LEMMA SetGrow ==
  ASSUME NEW x \in ReaderType, NEW v \in Nat, NEW y, y = [x EXCEPT !.grow = v]
  PROVE  /\ y \in ReaderType /\ y.pc = x.pc /\ y.buf = x.buf /\ y.cursor = x.cursor
         /\ y.grow = v /\ y.expected = x.expected
BY DEF ReaderType

LEMMA SetExpected ==
  ASSUME NEW x \in ReaderType, NEW v \in Nat \cup {Unbounded}, NEW y, y = [x EXCEPT !.expected = v]
  PROVE  /\ y \in ReaderType /\ y.pc = x.pc /\ y.buf = x.buf /\ y.cursor = x.cursor
         /\ y.grow = x.grow /\ y.expected = v
BY DEF ReaderType

LEMMA NoReadFails ==
  ASSUME NEW y, y = [NoRead EXCEPT !.pc = "failed"]
  PROVE  y \in ReaderType /\ y.pc = "failed"
<1>1. <<>> \in Seq(0 .. RsBytes) /\ 0 \in 0 .. RsBytes /\ 0 \in Nat
  BY RsSizes
<1>2. NoRead \in ReaderType
  BY <1>1 DEF NoRead, ReaderType
<1> QED BY <1>2, SetPc

(* maybe_grow leaves room behind the cursor and the bytes where they are. *)
LEMMA GrowKeeps ==
  ASSUME NEW x \in ReaderType, x.grow > 0, NEW y, y = maybe_grow(x)
  PROVE  /\ y \in ReaderType /\ y.pc = x.pc /\ y.cursor = x.cursor /\ y.grow = x.grow
         /\ y.cursor < Len(y.buf) /\ Len(x.buf) <= Len(y.buf)
         /\ \A i \in 1 .. Len(x.buf) : y.buf[i] = x.buf[i]
<1> DEFINE target == x.grow + x.cursor
           m == Len(x.buf)
           k == IF target > m THEN target - m ELSE 0
           z == Zeroed(k)
           nb == x.buf \o z
<1>0. /\ x.cursor \in Nat /\ m \in Nat /\ x.grow \in Nat /\ target \in Nat /\ RsBytes \in Nat
      /\ x.buf \in Seq(0 .. RsBytes)
  BY ReaderFields, RsSizes
<1>1. k \in Nat /\ m + k > x.cursor
  BY <1>0
<1>2. y = [x EXCEPT !.buf = nb]
  BY DEF maybe_grow
<1> HIDE DEF k, m
<1>3. z \in Seq(0 .. RsBytes) /\ Len(z) = k
  <2>1. z \in [1 .. k -> 0 .. RsBytes]
    BY <1>0 DEF Zeroed
  <2> HIDE DEF z
  <2> QED BY <1>1, <2>1, IsAList
<1> HIDE DEF z
<1>4. /\ nb \in Seq(0 .. RsBytes) /\ Len(nb) = m + k
      /\ \A i \in 1 .. m : nb[i] = x.buf[i]
  <2>1. \A i \in 1 .. m + k : (x.buf \o z)[i] = IF i <= m THEN x.buf[i] ELSE z[i - m]
    BY <1>0, <1>3, ConcatProperties DEF m
  <2>2. x.buf \o z \in Seq(0 .. RsBytes) /\ Len(x.buf \o z) = m + k
    BY <1>0, <1>3, ConcatProperties DEF m
  <2>3. \A i \in 1 .. m : i \in 1 .. m + k /\ i <= m
    BY <1>0, <1>1
  <2> QED BY <2>1, <2>2, <2>3
<1> HIDE DEF nb
<1>5. /\ y \in ReaderType /\ y.pc = x.pc /\ y.cursor = x.cursor /\ y.grow = x.grow
      /\ y.buf = nb
  BY <1>2, <1>4, SetBuf
<1>6. y.cursor < Len(y.buf) /\ m <= Len(y.buf)
  BY <1>0, <1>1, <1>4, <1>5
<1> QED BY <1>4, <1>5, <1>6 DEF m

LEMMA NotifyKeeps ==
  ASSUME NEW x \in ReaderType, x.grow > 0, NEW n \in Nat, NEW y, y = NotifyRead(x, n)
  PROVE  /\ y \in ReaderType /\ y.pc = x.pc /\ y.cursor = x.cursor /\ y.buf = x.buf /\ y.grow > 0
<1> DEFINE left == saturating_sub(x.expected, n)
           x1 == [x EXCEPT !.expected = left]
           g == IF n >= x1.grow /\ x1.grow < MaxGrow /\ left # 0 THEN 2 * x1.grow ELSE x1.grow
<1>0. x.expected \in Nat \cup {Unbounded} /\ x.grow \in Nat /\ MaxGrow \in Nat
  BY ReaderFields, RsSizes
<1>1. left \in Nat \cup {Unbounded}
  <2>1. CASE x.expected = Unbounded
    BY <2>1 DEF saturating_sub
  <2>2. CASE x.expected # Unbounded
    BY <1>0, <2>2 DEF saturating_sub
  <2> QED BY <2>1, <2>2
<1>2. y = [x1 EXCEPT !.grow = g]
  BY DEF NotifyRead
<1> HIDE DEF left
<1>3. /\ x1 \in ReaderType /\ x1.pc = x.pc /\ x1.buf = x.buf /\ x1.cursor = x.cursor
      /\ x1.grow = x.grow
  BY <1>1, SetExpected
<1> HIDE DEF x1
<1>4. g \in Nat /\ g > 0
  BY <1>0, <1>3
<1> HIDE DEF g
<1> QED BY <1>2, <1>3, <1>4, SetGrow

(* The bytes of a read come behind those that were there. *)
FilledAs(x, bytes, y) ==
  /\ y.pc = x.pc /\ y.grow = x.grow
  /\ y.cursor = x.cursor + Len(bytes) /\ Len(y.buf) = Len(x.buf)
  /\ \A i \in 1 .. x.cursor : y.buf[i] = x.buf[i]
  /\ \A i \in x.cursor + 1 .. x.cursor + Len(bytes) : y.buf[i] = bytes[i - x.cursor]

LEMMA FilledKeeps ==
  ASSUME NEW x \in ReaderType, NEW bytes \in Seq(1 .. RsBytes),
         x.cursor + Len(bytes) <= Len(x.buf), x.cursor + Len(bytes) <= RsBytes,
         NEW y, y = Filled(x, bytes)
  PROVE  y \in ReaderType /\ FilledAs(x, bytes, y)
<1> DEFINE c == x.cursor
           l == Len(bytes)
           m == Len(x.buf)
           b == [i \in 1 .. m |-> IF i \in c + 1 .. c + l THEN bytes[i - c] ELSE x.buf[i]]
           x1 == [x EXCEPT !.buf = b]
<1>0. /\ c \in Nat /\ m \in Nat /\ l \in Nat /\ RsBytes \in Nat /\ c + l <= m /\ c + l <= RsBytes
      /\ x.buf \in Seq(0 .. RsBytes)
      /\ \A i \in 1 .. m : x.buf[i] \in 0 .. RsBytes
      /\ \A i \in 1 .. l : bytes[i] \in 0 .. RsBytes
  BY ReaderFields, RsSizes
<1>1. y = [x1 EXCEPT !.cursor = x1.cursor + l]
  BY DEF Filled
<1> HIDE DEF c, l, m
<1>2. \A i \in 1 .. m : b[i] \in 0 .. RsBytes
  <2> TAKE i \in 1 .. m
  <2>1. CASE i \in c + 1 .. c + l
    <3>1. i - c \in 1 .. l
      BY <1>0, <2>1
    <3>2. b[i] = bytes[i - c]
      BY <2>1
    <3> HIDE DEF b
    <3> QED BY <1>0, <3>1, <3>2
  <2>2. CASE i \notin c + 1 .. c + l
    BY <1>0, <2>2
  <2> QED BY <2>1, <2>2
<1>3. b \in Seq(0 .. RsBytes) /\ Len(b) = m
  <2>1. b \in [1 .. m -> 0 .. RsBytes]
    BY <1>2
  <2> HIDE DEF b
  <2> QED BY <1>0, <2>1, IsAList
<1>4. /\ \A i \in 1 .. c : b[i] = x.buf[i]
      /\ \A i \in c + 1 .. c + l : b[i] = bytes[i - c]
  BY <1>0
<1> HIDE DEF b
<1>5. /\ x1 \in ReaderType /\ x1.pc = x.pc /\ x1.buf = b /\ x1.cursor = c /\ x1.grow = x.grow
  BY <1>3, SetBuf DEF c
<1> HIDE DEF x1
<1>6. c + l \in 0 .. RsBytes
  BY <1>0
<1>7. y \in ReaderType /\ y.pc = x.pc /\ y.buf = b /\ y.cursor = c + l /\ y.grow = x.grow
  BY <1>1, <1>5, <1>6, SetCursor
<1> QED BY <1>3, <1>4, <1>7 DEF c, l, m, FilledAs

(* The stream has handed out more: what was said of a reader stays true. *)
LEMMA ReaderLater ==
  ASSUME NEW x \in ReaderType, NEW got, NEW h \in 0 .. RsBytes, NEW k \in 0 .. RsBytes, h <= k,
         ReaderOK(x, got, h)
  PROVE  ReaderOK(x, got, k)
<1>1. RsBytes \in Nat /\ x.cursor \in Nat
  BY RsSizes, ReaderFields
<1>2. x.cursor <= h => x.cursor <= k
  BY <1>1
<1>3. h = RsBytes => k = RsBytes
  BY <1>1
<1> QED BY <1>2, <1>3 DEF ReaderOK

(* The parts of the state an op of one reader leaves alone keep their type. *)
RestSame == UNCHANGED <<rsTable, rsWriter, rsSink, rsFeed, rsWasm>>

LEMMA ReaderStep ==
  ASSUME RsIInv, NEW r \in Readers, NEW y \in ReaderType, NEW g \in Seq(1 .. RsBytes),
         rsReader' = [rsReader EXCEPT ![r] = y], rsGot' = [rsGot EXCEPT ![r] = g],
         rsRead' \in 0 .. RsBytes, rsRead <= rsRead', ReaderOK(y, g, rsRead'), RestSame
  PROVE  RsIInv'
<1>1. /\ rsReader \in [Readers -> ReaderType] /\ rsGot \in [Readers -> Seq(1 .. RsBytes)]
      /\ rsRead \in 0 .. RsBytes
  BY DEF RsIInv, RsTypeOK
<1>2. RsTypeOK'
  BY <1>1 DEF RsIInv, RsTypeOK, RestSame
<1>3. WriterOK'
  BY DEF RsIInv, WriterOK, WriteAllOnce, RestSame
<1>4. ASSUME NEW q \in Readers PROVE ReaderOK(rsReader[q], rsGot[q], rsRead)'
  <2>1. CASE q = r
    <3>1. rsReader'[q] = y /\ rsGot'[q] = g
      BY <1>1, <2>1
    <3> QED BY <3>1 DEF ReaderOK
  <2>2. CASE q # r
    <3>1. rsReader'[q] = rsReader[q] /\ rsGot'[q] = rsGot[q] /\ rsReader[q] \in ReaderType
      BY <1>1, <2>2
    <3>2. ReaderOK(rsReader[q], rsGot[q], rsRead)
      BY DEF RsIInv
    <3>3. ReaderOK(rsReader[q], rsGot[q], rsRead')
      BY <1>1, <3>1, <3>2, ReaderLater
    <3> QED BY <3>1, <3>3 DEF ReaderOK
  <2> QED BY <2>1, <2>2
<1> QED BY <1>2, <1>3, <1>4 DEF RsIInv

LEMMA StartReadAllKeeps ==
  ASSUME RsIInv, NEW r \in Readers, NEW hint \in RsHints, StartReadAll(r, hint)
  PROVE  RsIInv'
<1> DEFINE grow == initial_buffer_size(hint)
           failed == [NoRead EXCEPT !.pc = "failed"]
           fresh == [pc |-> "reading", buf |-> Zeroed(grow), cursor |-> 0, grow |-> grow,
                     expected |-> expected_remaining(hint)]
           y == IF "stream" \notin rsTable THEN failed ELSE maybe_grow(fresh)
<1>0. /\ rsReader[r].pc = "idle" /\ rsReader' = [rsReader EXCEPT ![r] = y]
      /\ UNCHANGED <<rsTable, rsRead, rsGot, rsWriter, rsSink, rsFeed, rsWasm>>
  BY DEF StartReadAll, new_from_hint
<1>1. /\ grow \in Nat \ {0} /\ expected_remaining(hint) \in Nat \cup {Unbounded} /\ RsBytes \in Nat
  BY BufferSizes, RsSizes
<1> HIDE DEF grow
<1>2. rsGot[r] = <<>> /\ rsGot \in [Readers -> Seq(1 .. RsBytes)] /\ rsRead \in 0 .. RsBytes
  BY <1>0 DEF RsIInv, ReaderOK, RsTypeOK
<1>3. y \in ReaderType /\ ReaderOK(y, <<>>, rsRead)
  <2>1. CASE "stream" \notin rsTable
    <3>2. failed \in ReaderType /\ failed.pc = "failed"
      BY NoReadFails
    <3> HIDE DEF failed
    <3>3. y = failed
      BY <2>1
    <3> HIDE DEF y
    <3> QED BY <3>2, <3>3 DEF ReaderOK
  <2>2. CASE "stream" \in rsTable
    <3>1. Zeroed(grow) \in Seq(0 .. RsBytes)
      <4>1. Zeroed(grow) \in [1 .. grow -> 0 .. RsBytes]
        BY <1>1 DEF Zeroed
      <4> QED BY <1>1, <4>1, IsAList
    <3>2. /\ fresh \in ReaderType /\ fresh.pc = "reading" /\ fresh.cursor = 0 /\ fresh.grow > 0
      BY <1>1, <3>1 DEF ReaderType
    <3> HIDE DEF fresh
    <3>3. y = maybe_grow(fresh)
      BY <2>2
    <3> HIDE DEF y
    <3>4. /\ y \in ReaderType /\ y.pc = "reading" /\ y.cursor = 0 /\ y.grow > 0
          /\ y.cursor < Len(y.buf)
      BY <3>2, <3>3, GrowKeeps
    <3>5. 0 <= rsRead /\ Len(<<>>) = 0
      BY <1>1, <1>2
    <3> QED BY <3>4, <3>5 DEF ReaderOK
  <2> QED BY <2>1, <2>2
<1> HIDE DEF y
<1>4. /\ rsGot' = [rsGot EXCEPT ![r] = <<>>] /\ rsRead' = rsRead /\ RestSame
      /\ rsRead' \in 0 .. RsBytes /\ rsRead <= rsRead' /\ ReaderOK(y, <<>>, rsRead')
      /\ <<>> \in Seq(1 .. RsBytes)
  BY <1>0, <1>1, <1>2, <1>3 DEF RestSame
<1> QED BY <1>0, <1>3, <1>4, ReaderStep

LEMMA ReadFailsKeeps ==
  ASSUME RsIInv, NEW r \in Readers, ReadFails(r)
  PROVE  RsIInv'
<1> DEFINE y == [NoRead EXCEPT !.pc = "failed"]
<1>0. /\ rsReader' = [rsReader EXCEPT ![r] = y]
      /\ UNCHANGED <<rsTable, rsRead, rsGot, rsWriter, rsSink, rsFeed, rsWasm>>
  BY DEF ReadFails
<1>1. /\ rsGot \in [Readers -> Seq(1 .. RsBytes)] /\ rsRead \in 0 .. RsBytes /\ RsBytes \in Nat
  BY RsSizes DEF RsIInv, RsTypeOK
<1>3. y \in ReaderType /\ y.pc = "failed"
  BY NoReadFails
<1> HIDE DEF y
<1>4. /\ rsGot' = [rsGot EXCEPT ![r] = rsGot[r]] /\ rsGot[r] \in Seq(1 .. RsBytes) /\ RestSame
      /\ rsRead' \in 0 .. RsBytes /\ rsRead <= rsRead' /\ ReaderOK(y, rsGot[r], rsRead')
  BY <1>0, <1>1, <1>3 DEF RestSame, ReaderOK
<1> QED BY <1>0, <1>3, <1>4, ReaderStep

LEMMA ReadReturnsKeeps ==
  ASSUME RsIInv, NEW r \in Readers, NEW n \in 0 .. RsBytes, ReadReturns(r, n)
  PROVE  RsIInv'
<1> DEFINE x == rsReader[r]
           got == rsGot[r]
           bytes == Handed(n)
           g == got \o bytes
           read == Filled(x, bytes)
           y == IF n = 0 THEN Unwrapped(read) ELSE maybe_grow(NotifyRead(read, n))
<1>0. /\ x.pc = "reading" /\ Fits(ViewLen(x), n) /\ rsReader' = [rsReader EXCEPT ![r] = y]
      /\ rsRead' = rsRead + n /\ rsGot' = [rsGot EXCEPT ![r] = g] /\ RestSame
  BY DEF ReadReturns, RestSame
<1>1. /\ x \in ReaderType /\ got \in Seq(1 .. RsBytes) /\ rsRead \in 0 .. RsBytes
      /\ RsBytes \in Nat /\ n \in Nat /\ x.cursor \in Nat /\ Len(x.buf) \in Nat /\ rsRead \in Nat
  BY ReaderFields, RsSizes DEF RsIInv, RsTypeOK
<1>2. /\ x.grow > 0 /\ x.cursor = Len(got) /\ x.cursor < Len(x.buf) /\ x.cursor <= rsRead
      /\ \A i \in 1 .. x.cursor : x.buf[i] = got[i]
  BY <1>0 DEF RsIInv, ReaderOK
<1>3. n <= Len(x.buf) - x.cursor /\ n <= RsBytes - rsRead /\ (n = 0 => rsRead = RsBytes)
  BY <1>0, <1>1, <1>2 DEF Fits, ViewLen
<1>4. bytes \in Seq(1 .. RsBytes) /\ Len(bytes) = n
  <2>1. bytes \in [1 .. n -> 1 .. RsBytes]
    BY <1>1, <1>3 DEF Handed
  <2> HIDE DEF bytes
  <2> QED BY <1>1, <2>1, IsAList
<1> HIDE DEF x, got, bytes
<1>5. /\ g \in Seq(1 .. RsBytes) /\ Len(g) = x.cursor + n
      /\ \A i \in 1 .. x.cursor : g[i] = got[i]
      /\ \A i \in x.cursor + 1 .. x.cursor + n : g[i] = bytes[i - x.cursor]
  <2>1. /\ g \in Seq(1 .. RsBytes) /\ Len(g) = Len(got) + n
        /\ \A i \in 1 .. Len(got) + n : g[i] = IF i <= Len(got) THEN got[i] ELSE bytes[i - Len(got)]
    BY <1>1, <1>4, ConcatProperties
  <2> HIDE DEF g
  <2>2. \A i \in 1 .. x.cursor : i \in 1 .. x.cursor + n /\ i <= x.cursor
    BY <1>1
  <2>3. \A i \in x.cursor + 1 .. x.cursor + n : i \in 1 .. x.cursor + n /\ ~(i <= x.cursor)
    BY <1>1
  <2> QED BY <1>2, <2>1, <2>2, <2>3
<1>6. /\ read \in ReaderType /\ read.pc = "reading" /\ read.grow > 0
      /\ read.cursor = x.cursor + n /\ Len(read.buf) = Len(x.buf)
      /\ \A i \in 1 .. x.cursor : read.buf[i] = x.buf[i]
      /\ \A i \in x.cursor + 1 .. x.cursor + n : read.buf[i] = bytes[i - x.cursor]
  <2>1. x.cursor + Len(bytes) <= Len(x.buf) /\ x.cursor + Len(bytes) <= RsBytes
    BY <1>1, <1>2, <1>3, <1>4
  <2>2. read = Filled(x, bytes)
    OBVIOUS
  <2> HIDE DEF read
  <2>3. /\ read \in ReaderType /\ read.pc = x.pc /\ read.grow = x.grow
        /\ read.cursor = x.cursor + Len(bytes) /\ Len(read.buf) = Len(x.buf)
        /\ \A i \in 1 .. x.cursor : read.buf[i] = x.buf[i]
        /\ \A i \in x.cursor + 1 .. x.cursor + Len(bytes) : read.buf[i] = bytes[i - x.cursor]
    <3>1. x \in ReaderType /\ bytes \in Seq(1 .. RsBytes)
      BY <1>1, <1>4
    <3>2. read \in ReaderType /\ FilledAs(x, bytes, read)
      BY <2>1, <2>2, <3>1, FilledKeeps
    <3> QED BY <3>2 DEF FilledAs
  <2> QED BY <1>0, <1>2, <1>4, <2>3
<1> HIDE DEF g, read
<1>7. /\ \A i \in 1 .. read.cursor : read.buf[i] = g[i] /\ i \in 1 .. Len(read.buf)
      /\ read.cursor = Len(g) /\ read.cursor <= Len(read.buf) /\ read.cursor \in Nat
  <2>1. \A i \in 1 .. x.cursor + n : i \in 1 .. x.cursor \/ i \in x.cursor + 1 .. x.cursor + n
    BY <1>1
  <2>2. x.cursor + n <= Len(x.buf)
    BY <1>1, <1>3
  <2>3. \A i \in 1 .. x.cursor : read.buf[i] = g[i]
    BY <1>2, <1>5, <1>6
  <2>4. \A i \in x.cursor + 1 .. x.cursor + n : read.buf[i] = g[i]
    BY <1>5, <1>6
  <2>5. \A i \in 1 .. x.cursor + n : read.buf[i] = g[i] /\ i \in 1 .. Len(x.buf)
    BY <1>1, <2>1, <2>2, <2>3, <2>4
  <2> QED BY <1>1, <1>5, <1>6, <2>2, <2>5
<1>8. rsRead' \in 0 .. RsBytes /\ rsRead <= rsRead' /\ read.cursor <= rsRead'
  BY <1>0, <1>1, <1>2, <1>3, <1>6
<1>9. y \in ReaderType /\ ReaderOK(y, g, rsRead')
  <2>1. CASE n = 0
    <3> DEFINE b == SubSeq(read.buf, 1, read.cursor)
               y1 == [read EXCEPT !.pc = "done"]
               y2 == [y1 EXCEPT !.buf = SubSeq(y1.buf, 1, read.cursor)]
    <3>1. y = [y2 EXCEPT !.cursor = 0]
      BY <2>1 DEF Unwrapped
    <3>2. y1 \in ReaderType /\ y1.pc = "done" /\ y1.buf = read.buf
      BY <1>6, SetPc
    <3>3. read.buf \in Seq(0 .. RsBytes) /\ Len(read.buf) \in Nat
      BY <1>6, ReaderFields
    <3>4. b \in Seq(0 .. RsBytes) /\ Len(b) = read.cursor /\ \A i \in 1 .. read.cursor : b[i] = read.buf[i]
      BY <1>7, <3>3, PrefixOf
    <3> HIDE DEF b, y1
    <3>5. y2 = [y1 EXCEPT !.buf = b]
      BY <3>2 DEF b
    <3> HIDE DEF y2
    <3>6. y2 \in ReaderType /\ y2.pc = "done" /\ y2.buf = b
      BY <3>2, <3>4, <3>5, SetBuf
    <3>7. 0 \in 0 .. RsBytes
      BY <1>1
    <3>8. y \in ReaderType /\ y.pc = "done" /\ y.buf = b
      BY <3>1, <3>6, <3>7, SetCursor
    <3>9. b = g
      <4>1. g \in Seq(0 .. RsBytes)
        <5>1. \A i \in 1 .. Len(g) : g[i] \in 0 .. RsBytes
          BY <1>1, <1>5
        <5>2. g \in [1 .. Len(g) -> 0 .. RsBytes] /\ Len(g) \in Nat
          BY <1>5, <5>1, LenProperties
        <5> QED BY <5>2, IsAList
      <4> QED BY <1>7, <3>4, <4>1, SeqEqual
    <3>10. rsRead' = RsBytes
      BY <1>0, <1>1, <1>3, <2>1
    <3> QED BY <3>8, <3>9, <3>10 DEF ReaderOK
  <2>2. CASE n # 0
    <3> DEFINE z == NotifyRead(read, n)
    <3>1. y = maybe_grow(z)
      BY <2>2
    <3>2. z \in ReaderType /\ z.pc = "reading" /\ z.cursor = read.cursor /\ z.buf = read.buf /\ z.grow > 0
      <4>1. z = NotifyRead(read, n)
        OBVIOUS
      <4> HIDE DEF z
      <4>2. read \in ReaderType /\ read.grow > 0 /\ read.pc = "reading" /\ n \in Nat
        BY <1>1, <1>6
      <4> QED BY <4>1, <4>2, NotifyKeeps
    <3> HIDE DEF y, z
    <3>3. /\ y \in ReaderType /\ y.pc = "reading" /\ y.cursor = read.cursor /\ y.grow > 0
          /\ y.cursor < Len(y.buf) /\ \A i \in 1 .. Len(read.buf) : y.buf[i] = read.buf[i]
      BY <3>1, <3>2, GrowKeeps
    <3> QED BY <1>7, <1>8, <3>3 DEF ReaderOK
  <2> QED BY <2>1, <2>2
<1> HIDE DEF y
<1> QED BY <1>0, <1>5, <1>8, <1>9, ReaderStep DEF x, got

(* Steps that leave the readers' records alone. *)
LEMMA OtherStep ==
  ASSUME RsIInv, UNCHANGED <<rsReader, rsGot>>, rsRead' \in 0 .. RsBytes, rsRead <= rsRead',
         rsTable' \subseteq Rids, WriterOK',
         rsWriter'.pc \in {"idle", "writing", "done", "failed"},
         rsFeed' \in {"no", "reading", "done", "failed"}, rsWasm' \in {"open", "finished", "panic"}
  PROVE  RsIInv'
<1>1. /\ rsReader \in [Readers -> ReaderType] /\ rsRead \in 0 .. RsBytes
      /\ rsGot \in [Readers -> Seq(1 .. RsBytes)]
  BY DEF RsIInv, RsTypeOK
<1>2. RsTypeOK'
  BY <1>1 DEF RsTypeOK
<1>3. ASSUME NEW q \in Readers PROVE ReaderOK(rsReader[q], rsGot[q], rsRead)'
  <2>1. rsReader[q] \in ReaderType /\ ReaderOK(rsReader[q], rsGot[q], rsRead)
    BY <1>1 DEF RsIInv
  <2>2. ReaderOK(rsReader[q], rsGot[q], rsRead')
    BY <1>1, <2>1, ReaderLater
  <2> QED BY <2>2 DEF ReaderOK
<1> QED BY <1>2, <1>3 DEF RsIInv

LEMMA SinkAndView ==
  ASSUME NEW S, NEW s \in Seq(S), NEW v \in Seq(S), NEW n \in 0 .. Len(v)
  PROVE  /\ s \o SubSeq(v, 1, n) \in Seq(S) /\ SubSeq(v, n + 1, Len(v)) \in Seq(S)
         /\ (s \o SubSeq(v, 1, n)) \o SubSeq(v, n + 1, Len(v)) = s \o v
<1> DEFINE a == SubSeq(v, 1, n)
           b == SubSeq(v, n + 1, Len(v))
           l == Len(v)
<1>0. l \in Nat /\ n \in Nat /\ n <= l
  OBVIOUS
<1>1. a \in Seq(S) /\ Len(a) = n /\ \A i \in 1 .. n : a[i] = v[i]
  BY <1>0, PrefixOf
<1>2. b \in Seq(S) /\ Len(b) = l - n /\ \A i \in 1 .. l - n : b[i] = v[n + i]
  OBVIOUS
<1> HIDE DEF a, b
<1>3. a \o b = v
  <2>1. /\ a \o b \in Seq(S) /\ Len(a \o b) = n + (l - n)
        /\ \A i \in 1 .. n + (l - n) : (a \o b)[i] = IF i <= n THEN a[i] ELSE b[i - n]
    <3>1. a \in Seq(S) /\ b \in Seq(S)
      BY <1>1, <1>2
    <3>2. /\ a \o b \in Seq(S) /\ Len(a \o b) = Len(a) + Len(b)
          /\ \A i \in 1 .. Len(a) + Len(b) :
               (a \o b)[i] = IF i <= Len(a) THEN a[i] ELSE b[i - Len(a)]
      BY <3>1, ConcatProperties
    <3> QED BY <1>1, <1>2, <3>2
  <2>2. Len(a \o b) = Len(v)
    BY <1>0, <2>1
  <2>3. ASSUME NEW i \in 1 .. Len(a \o b) PROVE (a \o b)[i] = v[i]
    <3>0. i \in 1 .. l
      BY <2>2
    <3>1. CASE i <= n
      BY <1>0, <1>1, <2>1, <3>0, <3>1
    <3>2. CASE ~(i <= n)
      <4>1. i - n \in 1 .. l - n /\ n + (i - n) = i /\ i \in 1 .. n + (l - n)
        BY <1>0, <3>0, <3>2
      <4> QED BY <1>2, <2>1, <3>2, <4>1
    <3> QED BY <3>1, <3>2
  <2> QED BY <2>1, <2>2, <2>3, SeqEqual
<1>4. Joined(Joined(s, a), b) = Joined(s, v)
  <2>1. a \in Seq(S) /\ b \in Seq(S) /\ Joined(a, b) = v
    BY <1>1, <1>2, <1>3 DEF Joined
  <2> QED BY <2>1, JoinedAssociates
<1>5. s \o a \in Seq(S)
  BY <1>1, ConcatProperties
<1> QED BY <1>2, <1>4, <1>5 DEF a, b, Joined

LEMMA WriteReturnsKeeps ==
  ASSUME RsIInv, NEW n \in 0 .. RsWriteLen, WriteReturns(n)
  PROVE  RsIInv'
<1> DEFINE v == rsWriter.view
           rest == SubSeq(v, n + 1, Len(v))
           sink == rsSink \o SubSeq(v, 1, n)
           all == [i \in 1 .. RsWriteLen |-> i]
<1>0. /\ n \in 0 .. Len(v) /\ rsSink' = sink
      /\ rsWriter' = [pc |-> IF rest = <<>> THEN "done" ELSE "writing", view |-> rest]
      /\ UNCHANGED <<rsTable, rsRead, rsReader, rsGot, rsFeed, rsWasm>>
  BY DEF WriteReturns, Advanced
<1>1. /\ v \in Seq(1 .. RsWriteLen) /\ rsSink \in Seq(1 .. RsWriteLen) /\ rsSink \o v = all
  BY DEF RsIInv, WriterOK, WriteAllOnce
<1>2. /\ sink \in Seq(1 .. RsWriteLen) /\ rest \in Seq(1 .. RsWriteLen) /\ sink \o rest = all
  <2>1. n \in 0 .. Len(v)
    BY <1>0
  <2>2. v \in Seq(1 .. RsWriteLen) /\ rsSink \in Seq(1 .. RsWriteLen)
    BY <1>1
  <2> HIDE DEF v, all
  <2>3. sink \in Seq(1 .. RsWriteLen) /\ rest \in Seq(1 .. RsWriteLen) /\ sink \o rest = rsSink \o v
    <3>1. ASSUME NEW S, v \in Seq(S), rsSink \in Seq(S)
          PROVE  sink \in Seq(S) /\ rest \in Seq(S) /\ sink \o rest = rsSink \o v
      BY <2>1, <3>1, SinkAndView
    <3> QED BY <2>2, <3>1
  <2> QED BY <1>1, <2>3
<1> HIDE DEF v, rest, sink, all
<1>3. /\ rsWriter'.view = rest /\ (rsWriter'.pc = "done" => rest = <<>>)
      /\ rsWriter'.pc \in {"idle", "writing", "done", "failed"}
  BY <1>0
<1>4. rest = <<>> => Len(sink) = RsWriteLen
  <2>1. RsWriteLen \in Nat /\ all \in [1 .. RsWriteLen -> 1 .. RsWriteLen]
    BY RsSizes DEF all
  <2>2. Len(all) = RsWriteLen
    BY <2>1, IsAList
  <2>3. rest = <<>> => sink = all
    BY <1>2, ConcatEmptySeq
  <2> QED BY <2>2, <2>3
<1>5. WriterOK'
  BY <1>0, <1>2, <1>3, <1>4 DEF WriterOK, WriteAllOnce, all
<1>6. /\ rsRead' \in 0 .. RsBytes /\ rsRead <= rsRead' /\ rsTable' \subseteq Rids
      /\ rsFeed' \in {"no", "reading", "done", "failed"} /\ rsWasm' \in {"open", "finished", "panic"}
  BY <1>0, RsSizes DEF RsIInv, RsTypeOK
<1> QED BY <1>0, <1>3, <1>5, <1>6, OtherStep

LEMMA RsStep ==
  ASSUME RsIInv, [RsNext]_rsVars
  PROVE  RsIInv'
<1>0. /\ RsTypeOK /\ WriterOK /\ rsRead \in 0 .. RsBytes /\ RsBytes \in Nat /\ rsTable \subseteq Rids
      /\ rsFeed \in {"no", "reading", "done", "failed"} /\ rsWasm \in {"open", "finished", "panic"}
      /\ rsWriter.pc \in {"idle", "writing", "done", "failed"} /\ rsRead <= rsRead
  BY RsSizes DEF RsIInv, RsTypeOK
<1>1. CASE UNCHANGED rsVars
  BY <1>1 DEF rsVars, RsIInv, RsTypeOK, WriterOK, WriteAllOnce, ReaderOK
<1>2. ASSUME NEW r \in Readers,
             \/ \E hint \in RsHints : StartReadAll(r, hint)
             \/ \E n \in 0 .. RsBytes : ReadReturns(r, n)
             \/ ReadFails(r)
      PROVE  RsIInv'
  BY <1>2, StartReadAllKeeps, ReadReturnsKeeps, ReadFailsKeeps
<1>3. CASE StartWriteAll
  <2> DEFINE c == IF "sink" \in rsTable THEN "writing" ELSE "failed"
  <2>1. /\ rsWriter' = [rsWriter EXCEPT !.pc = c] /\ rsWriter.pc = "idle"
        /\ UNCHANGED <<rsTable, rsRead, rsReader, rsGot, rsSink, rsFeed, rsWasm>>
    BY <1>3 DEF StartWriteAll
  <2>2. c \in {"writing", "failed"}
    OBVIOUS
  <2> HIDE DEF c
  <2>3. rsWriter'.pc = c /\ rsWriter'.view = rsWriter.view
    BY <2>1, <1>0 DEF WriterOK
  <2>4. WriterOK'
    BY <1>0, <2>1, <2>2, <2>3 DEF WriterOK, WriteAllOnce
  <2> QED BY <1>0, <2>1, <2>2, <2>3, <2>4, OtherStep
<1>4. ASSUME NEW n \in 0 .. RsWriteLen, WriteReturns(n) PROVE RsIInv'
  BY <1>4, WriteReturnsKeeps
<1>5. CASE StartFeed
  <2>1. /\ rsFeed' \in {"reading", "failed"}
        /\ UNCHANGED <<rsTable, rsRead, rsReader, rsGot, rsWriter, rsSink, rsWasm>>
    BY <1>5 DEF StartFeed
  <2>2. WriterOK'
    BY <1>0, <2>1 DEF WriterOK, WriteAllOnce
  <2> QED BY <1>0, <2>1, <2>2, OtherStep
<1>6. ASSUME NEW n \in 0 .. RsBytes, NEW auto_close \in BOOLEAN, FeedReads(n, auto_close)
      PROVE  RsIInv'
  <2>1. /\ rsRead' = rsRead + n /\ n <= RsBytes - rsRead /\ rsFeed' \in {"done", "failed", "reading"}
        /\ rsTable' \subseteq rsTable /\ UNCHANGED <<rsReader, rsGot, rsWriter, rsSink, rsWasm>>
    BY <1>6 DEF FeedReads, Fits
  <2>2. WriterOK'
    BY <1>0, <2>1 DEF WriterOK, WriteAllOnce
  <2>3. rsRead' \in 0 .. RsBytes /\ rsRead <= rsRead'
    BY <1>0, <2>1
  <2> QED BY <1>0, <2>1, <2>2, <2>3, OtherStep
<1>7. ASSUME NEW rid \in Rids, Close(rid) PROVE RsIInv'
  <2>1. /\ rsTable' \subseteq rsTable /\ rsWasm' \in {rsWasm, "finished", "panic"}
        /\ UNCHANGED <<rsRead, rsReader, rsGot, rsWriter, rsSink, rsFeed>>
    BY <1>7 DEF Close
  <2>2. WriterOK'
    BY <1>0, <2>1 DEF WriterOK, WriteAllOnce
  <2> QED BY <1>0, <2>1, <2>2, OtherStep
<1>8. CASE WriteFails
  <2>1. /\ rsWriter' = [rsWriter EXCEPT !.pc = "failed"]
        /\ UNCHANGED <<rsTable, rsRead, rsReader, rsGot, rsSink, rsFeed, rsWasm>>
    BY <1>8 DEF WriteFails
  <2>2. rsWriter'.pc = "failed" /\ rsWriter'.view = rsWriter.view
    BY <2>1, <1>0 DEF WriterOK
  <2>3. WriterOK'
    BY <1>0, <2>1, <2>2 DEF WriterOK, WriteAllOnce
  <2> QED BY <1>0, <2>1, <2>2, <2>3, OtherStep
<1>9. CASE FeedFails
  <2>1. /\ rsFeed' = "failed"
        /\ UNCHANGED <<rsTable, rsRead, rsReader, rsGot, rsWriter, rsSink, rsWasm>>
    BY <1>9 DEF FeedFails
  <2>2. WriterOK'
    BY <1>0, <2>1 DEF WriterOK, WriteAllOnce
  <2> QED BY <1>0, <2>1, <2>2, OtherStep
<1> QED BY <1>1, <1>2, <1>3, <1>4, <1>5, <1>6, <1>7, <1>8, <1>9 DEF RsNext

LEMMA RsInitially ==
  ASSUME RsInit PROVE RsIInv
<1> DEFINE all == [i \in 1 .. RsWriteLen |-> i]
<1>1. NoRead \in ReaderType /\ NoRead.pc = "idle"
  <2>1. <<>> \in Seq(0 .. RsBytes) /\ 0 \in 0 .. RsBytes /\ 0 \in Nat
    BY RsSizes
  <2> QED BY <2>1 DEF NoRead, ReaderType
<1>2. /\ rsReader = [r \in Readers |-> NoRead] /\ rsGot = [r \in Readers |-> <<>>]
      /\ rsTable = Rids /\ rsRead = 0 /\ rsFeed = "no" /\ rsWasm = "open"
      /\ rsWriter = [pc |-> "idle", view |-> all] /\ rsSink = <<>>
  BY DEF RsInit
<1>3. /\ rsRead \in 0 .. RsBytes /\ <<>> \in Seq(1 .. RsBytes) /\ RsWriteLen \in Nat
  BY <1>2, RsSizes
<1>4. all \in Seq(1 .. RsWriteLen) /\ <<>> \o all = all
  <2>1. all \in [1 .. RsWriteLen -> 1 .. RsWriteLen]
    BY <1>3
  <2> HIDE DEF all
  <2>2. all \in Seq(1 .. RsWriteLen)
    BY <1>3, <2>1, IsAList
  <2> QED BY <2>2, ConcatEmptySeq
<1>5. rsWriter.pc = "idle" /\ rsWriter.view = all
  BY <1>2
<1>6. RsTypeOK
  BY <1>1, <1>2, <1>3, <1>5 DEF RsTypeOK
<1>7. WriterOK
  BY <1>2, <1>4, <1>5 DEF WriterOK, WriteAllOnce
<1>8. \A r \in Readers : ReaderOK(rsReader[r], rsGot[r], rsRead)
  BY <1>1, <1>2 DEF ReaderOK
<1> QED BY <1>6, <1>7, <1>8 DEF RsIInv

(* op_read_all returns exactly the bytes the stream handed to it and only  *)
(* when the stream is exhausted, and op_write_all gives the sink every     *)
(* byte once and in order (TransfersComplete): for any readers, stream and *)
(* buffer lengths, size hints and growth limits, however the transfers are *)
(* cut and whatever is closed meanwhile.                                   *)
THEOREM TransfersAreComplete == RsSpec => []TransfersComplete
<1>1. RsInit => RsIInv
  BY RsInitially
<1>2. RsIInv /\ [RsNext]_rsVars => RsIInv'
  BY RsStep
<1>3. RsIInv => TransfersComplete
  BY DEF RsIInv, TransfersComplete, ReadAllComplete, ReaderOK, WriterOK
<1> QED BY <1>1, <1>2, <1>3, PTL DEF RsSpec
============================================================================
