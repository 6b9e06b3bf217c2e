------------------------------- MODULE Arena -------------------------------
(***************************************************************************)
(* The arenas of core/arena: RawArena with its high-water mark and its     *)
(* list of vacant entries, and what is built on it: ArenaUnique (boxes),   *)
(* ArenaShared (counted pointers) and ArenaSharedAtomic (counted pointers  *)
(* of several threads, a spin lock around the raw arena).  The owner may   *)
(* drop the arena while pointers into it are alive.  FutureArena, which    *)
(* holds the futures of ops, is an ArenaUnique used through reservations.  *)
(*                                                                         *)
(* A value's own Drop is taken not to use the arena: recycle() runs it     *)
(* with the atomic arena's lock held, and would wait for that lock.  The   *)
(* atomic counts are modelled as sequentially consistent; their Relaxed    *)
(* decrements are not.                                                     *)
(***************************************************************************)
EXTENDS Naturals, FiniteSets

CONSTANTS
  ArenaKinds,      \* among "unique", "shared", "atomic"
  ArenaCapacity,
  MaxObjects,      \* bound: allocations
  MaxRefs,         \* bound: extra references to one object
  SpillKinds,      \* kinds whose users allocate() beyond the capacity
  AskKinds         \* kinds whose users ask for space when there is none

ASSUME ArenaAssumption ==
  /\ ArenaKinds \subseteq {"unique", "shared", "atomic"}
  /\ ArenaCapacity \in Nat /\ MaxObjects \in Nat /\ MaxRefs \in Nat

Objects == 1 .. MaxObjects
Entries == 1 .. ArenaCapacity
PastEnd == ArenaCapacity + 1
Heap == 0          \* an entry outside the arena
NoEntry == "none"

VARIABLES
  arena_kind,
  raw,             \* RawArena: next, max, link (the next of a vacant entry), allocated
  obj,             \* the objects: state, entry, refs (ref_count), drops (of the value)
  data_refs,       \* ref_count of the shared arenas' data
  arena,           \* "alive", "dropped" (its data lives on), "freed"
  locked,          \* the mutex is held and its holder has returned
  after_free       \* the data were used after they were freed

arenaVars == <<arena_kind, raw, obj, data_refs, arena, locked, after_free>>

ArenaInit ==
  /\ arena_kind \in ArenaKinds
  /\ raw = [next |-> 1, max |-> 1, link |-> [e \in Entries |-> PastEnd], allocated |-> 0]
  /\ obj = [o \in Objects |-> [state |-> "unused", entry |-> NoEntry, refs |-> 0, drops |-> 0]]
  /\ data_refs = 0 /\ arena = "alive" /\ locked = FALSE /\ after_free = FALSE

(***************************************************************************)
(* RawArena.                                                               *)
(***************************************************************************)
IsFull(r) == r.max = r.next /\ r.max = PastEnd

(* allocate_if_space, when there is space. *)
Extended(r) ==
  [next |-> IF r.max = r.next THEN r.max + 1 ELSE r.link[r.next],
   max |-> IF r.max = r.next THEN r.max + 1 ELSE r.max,
   link |-> r.link, allocated |-> r.allocated + 1]

(* Faulty variants of definitions below. *)
RecyclesUnlinked(r, e) == IF e = Heap THEN r ELSE [r EXCEPT !.next = e, !.allocated = @ - 1]
(* recycle: an entry of the arena goes to the head of the list. *)
Recycled(r, e) ==
  IF e = Heap THEN r
  ELSE [next |-> e, max |-> r.max, link |-> [r.link EXCEPT ![e] = r.next],
        allocated |-> r.allocated - 1]
Emptied(r, e) == e # Heap /\ r.allocated = 1

(* The entries that clear_allocated takes for vacant, those on the way     *)
(* from `next` to `max`: what every set has in common that holds the first *)
(* of them and, with an entry, the one it links to.                        *)
VacantIn(r, S) == r.next \in S /\ \A e \in S \ {r.max, PastEnd} : r.link[e] \in S

Vacant(r) ==
  {e \in (1 .. PastEnd) \ {r.max} : \A S \in SUBSET (1 .. PastEnd) : VacantIn(r, S) => e \in S}

(* Drop of RawArena: clear_allocated drops what it takes for occupied. *)
Cleared(os) ==
  [o \in Objects |->
     IF os[o].entry \in (1 .. raw.max - 1) \ Vacant(raw)
        /\ os[o].state \in {"live", "deleting"} /\ raw.allocated > 0
     THEN [os[o] EXCEPT !.drops = @ + 1] ELSE os[o]]

(***************************************************************************)
(* The arenas.                                                             *)
(***************************************************************************)
Shares == arena_kind \in {"shared", "atomic"}
MayEnter == arena = "alive" /\ ~locked

Take(o, entry, state) ==
  /\ obj' = [obj EXCEPT ![o] = [state |-> state, entry |-> entry, refs |-> 0, drops |-> 0]]
  /\ data_refs' = IF Shares THEN data_refs + 1 ELSE data_refs

(* allocate: an entry, or one from the system's allocator. *)
Allocate(o) ==
  /\ MayEnter /\ obj[o].state = "unused"
  /\ IF IsFull(raw)
     THEN arena_kind \in SpillKinds /\ Take(o, Heap, "live") /\ UNCHANGED raw
     ELSE Take(o, raw.next, "live") /\ raw' = Extended(raw)
  /\ UNCHANGED <<arena_kind, arena, locked, after_free>>

(* reserve_space, allocate_if_space: None when full.  The atomic arena     *)
(* returns then without unlocking.                                         *)
Reserve(o) ==
  /\ MayEnter /\ obj[o].state = "unused"
  /\ IF IsFull(raw)
     THEN /\ arena_kind \in AskKinds /\ locked' = (arena_kind = "atomic")
          /\ UNCHANGED <<raw, obj, data_refs>>
     ELSE /\ Take(o, raw.next, "reserved") /\ raw' = Extended(raw)
          /\ UNCHANGED locked
  /\ UNCHANGED <<arena_kind, arena, after_free>>

CompleteReservation(o) ==
  /\ obj[o].state = "reserved" /\ arena = "alive"
  /\ obj' = [obj EXCEPT ![o].state = "live"]
  /\ UNCHANGED <<arena_kind, raw, data_refs, arena, locked, after_free>>

ForgetReservation(o) ==
  /\ MayEnter /\ obj[o].state = "reserved"
  /\ obj' = [obj EXCEPT ![o].state = "gone"]
  /\ raw' = Recycled(raw, obj[o].entry)
  /\ data_refs' = IF Shares THEN data_refs - 1 ELSE data_refs
  /\ UNCHANGED <<arena_kind, arena, locked, after_free>>

(* clone of an ArenaRc or ArenaArc, raw or not. *)
CloneRef(o) ==
  /\ Shares /\ obj[o].state = "live" /\ obj[o].refs < MaxRefs
  /\ obj' = [obj EXCEPT ![o].refs = @ + 1]
  /\ UNCHANGED <<arena_kind, raw, data_refs, arena, locked, after_free>>

DropRef(o) ==
  /\ obj[o].state = "live" /\ obj[o].refs > 0
  /\ obj' = [obj EXCEPT ![o].refs = @ - 1]
  /\ UNCHANGED <<arena_kind, raw, data_refs, arena, locked, after_free>>

(* The last reference is dropped: fetch_sub finds 0.  In the atomic arena  *)
(* the lock is taken after that.                                           *)
DropLast(o) ==
  /\ arena_kind = "atomic" /\ obj[o].state = "live" /\ obj[o].refs = 0
  /\ obj' = [obj EXCEPT ![o].state = "deleting"]
  /\ UNCHANGED <<arena_kind, raw, data_refs, arena, locked, after_free>>

LastPointerGone(o) ==
  IF Shares THEN data_refs = 0 ELSE Emptied(raw, obj[o].entry) /\ arena # "alive"

(* delete: the value is dropped and the entry recycled; the last one frees *)
(* the data of a dropped arena.                                            *)
Delete(o) ==
  /\ IF arena_kind = "atomic" THEN obj[o].state = "deleting" /\ ~locked
     ELSE obj[o].state = "live" /\ obj[o].refs = 0
  /\ obj' = [obj EXCEPT ![o] = [state |-> "gone", entry |-> obj[o].entry, refs |-> 0,
                                drops |-> obj[o].drops + 1]]
  /\ IF arena = "freed"
     THEN after_free' = TRUE /\ UNCHANGED <<raw, data_refs, arena>>
     ELSE /\ raw' = Recycled(raw, obj[o].entry)
          /\ data_refs' = IF Shares /\ data_refs > 0 THEN data_refs - 1 ELSE data_refs
          /\ arena' = IF LastPointerGone(o) THEN "freed" ELSE arena
          /\ UNCHANGED after_free
  /\ UNCHANGED <<arena_kind, locked>>

FreesAtDrop == IF Shares THEN data_refs = 0 ELSE raw.allocated = 0

(* Drop of the arena.  A reservation borrows it, so none is outstanding.   *)
DropArena ==
  /\ MayEnter /\ \A o \in Objects : obj[o].state # "reserved"
  /\ arena' = IF FreesAtDrop THEN "freed" ELSE "dropped"
  /\ obj' = IF FreesAtDrop THEN Cleared(obj) ELSE obj
  /\ data_refs' = IF Shares /\ ~FreesAtDrop THEN data_refs - 1 ELSE data_refs
  /\ UNCHANGED <<arena_kind, raw, locked, after_free>>

ArenaNext ==
  \/ DropArena
  \/ \E o \in Objects :
       \/ Allocate(o) \/ Reserve(o) \/ CompleteReservation(o) \/ ForgetReservation(o)
       \/ CloneRef(o) \/ DropRef(o) \/ DropLast(o) \/ Delete(o)

ArenaSpec == ArenaInit /\ [][ArenaNext]_arenaVars

(***************************************************************************)
(* Properties.                                                             *)
(***************************************************************************)
(* Whoever starts at the head and follows the links comes to the mark. *)
LeadsToMark(r) == \A S \in SUBSET (1 .. PastEnd) : VacantIn(r, S) => r.max \in S

Occupied == {obj[o].entry : o \in {p \in Objects : obj[p].state \in {"reserved", "live", "deleting"}}}

(* The vacant list, the high-water mark and the count describe the same    *)
(* set: the list leads to the mark without a cycle, holds exactly the      *)
(* entries no object occupies, and no entry is handed out twice.           *)
FreeListExact ==
  arena # "freed" =>
    /\ LeadsToMark(raw)
    /\ Vacant(raw) = (1 .. raw.max - 1) \ Occupied
    /\ raw.allocated = Cardinality(Occupied \ {Heap})
    /\ \A o, p \in Objects :
         o # p /\ {obj[o].state, obj[p].state} \subseteq {"reserved", "live", "deleting"}
           => obj[o].entry # obj[p].entry \/ obj[o].entry = Heap

(* The data of an arena outlive every pointer into it, in whatever order   *)
(* the arena and its pointers are dropped and by whatever threads; they    *)
(* are freed with the last of them, and every value is dropped once.       *)
ArenaOutlivesPointers ==
  /\ ~after_free
  /\ arena = "freed" <=>
       /\ \A o \in Objects : obj[o].state \in {"unused", "gone"}
       /\ arena # "alive"
  /\ \A o \in Objects : obj[o].drops <= 1 /\ (obj[o].state # "gone" => obj[o].drops = 0)

(* No entry is used by two objects and none after the arena's data are     *)
(* gone.                                                                   *)
ArenaSound == FreeListExact /\ ArenaOutlivesPointers

(* A call that finds the arena full returns and leaves it usable. (It does *)
(* not hold for ArenaSharedAtomic: the call that finds it full returns     *)
(* with the lock held.)                                                    *)
LockIsReleased == ~locked
=============================================================================
