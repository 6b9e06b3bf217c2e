---------------------------- MODULE AsyncRefCell ----------------------------
(***************************************************************************)
(* core/async_cell.rs: a RefCell whose borrows may be awaited.  A cell     *)
(* keeps a borrow count, a queue of waiters and the ticket ("turn") of the *)
(* waiter at the head of the queue.  A borrow future takes a ticket when   *)
(* it is created.  wake_waiters serves the head of the queue for as long   *)
(* as it can: it adds the waiter's borrow to the count, RESERVING it,      *)
(* drops the waiter from the queue and wakes it; the future picks its      *)
(* reservation up when it is next polled, and must give it back when it is *)
(* dropped instead.  A future dropped while queued leaves a hole.          *)
(*                                                                         *)
(* A client is one user of the cell: it owns at most one borrow future or  *)
(* borrow at a time, and may drop either whenever it likes (ops do, on     *)
(* cancellation).  The cell is single threaded (Rc), so each call is one   *)
(* step.  Wakers only schedule their task: wake() does not run it.         *)
(***************************************************************************)
EXTENDS Integers, Sequences, FiniteSets

CONSTANTS
  Clients,   \* the users of the cell
  Wakers,    \* the tasks a future may be polled from
  MaxTicket  \* how many tickets a run hands out

ASSUME CellAssumption ==
  /\ IsFiniteSet(Clients)
  /\ "none" \notin Wakers
  /\ MaxTicket \in Nat

VARIABLES
  borrow_count, \* BorrowCount: n for Shared(n), ExclusiveCount for Exclusive
  waiters,      \* VecDeque<Option<Waiter>>: the queue, Hole for None
  turn,         \* ticket of waiters[1]
  state,        \* [Clients -> what the client owns]
  mode,         \* [Clients -> BorrowMode of what it owns]
  id,           \* [Clients -> ticket of its future]
  poller,       \* [Clients -> task that polled its future last]
  woken         \* [Clients -> that task has been woken since it polled]

vars == <<borrow_count, waiters, turn, state, mode, id, poller, woken>>

Modes == {"Shared", "Exclusive"}
ExclusiveCount == -1
Refused == -2                       \* the None of try_add and try_remove
Hole == [mode |-> "Hole", waker |-> "none"]
NoTask == "none"
Waiter == [mode : Modes, waker : Wakers \cup {NoTask}]

(* What a client may own: nothing, a future that is not resolved, a borrow. *)
Waiting(c) == state[c] = "future"
Holding(c) == state[c] = "borrow"

(* A future whose ticket is past has its borrow reserved. *)
Reserved(c) == Waiting(c) /\ id[c] < turn
Queued(c) == Waiting(c) /\ id[c] >= turn

----------------------------------------------------------------------------
(* BorrowCount *)

try_add(count, m) ==
  CASE m = "Shared" /\ count >= 0 -> count + 1
    [] m = "Exclusive" /\ count = 0 -> ExclusiveCount
    [] OTHER -> Refused

try_remove(count, m) ==
  CASE m = "Shared" /\ count > 0 -> count - 1
    [] m = "Exclusive" /\ count = ExclusiveCount -> 0
    [] OTHER -> Refused

----------------------------------------------------------------------------
(* wake_waiters.  The loop pops entries off the front while each is a hole *)
(* or can be added to the count.  Shared waiters join a shared count; an   *)
(* exclusive one joins an empty count only, and then only holes follow.    *)

Live(q, k) == {i \in 1..k : q[i] # Hole}

CanServe(count, q, k) ==
  \/ Live(q, k) = {}
  \/ count >= 0 /\ \A i \in Live(q, k) : q[i].mode = "Shared"
  \/ count = 0 /\ \E i \in Live(q, k) :
       Live(q, k) = {i} /\ q[i].mode = "Exclusive"

CountServed(count, q, k) ==
  CASE Live(q, k) = {} -> count
    [] \E i \in Live(q, k) : q[i].mode = "Exclusive" -> ExclusiveCount
    [] OTHER -> count + Cardinality(Live(q, k))

(* The loop pops k entries: as many as it can. *)
Serves(count, q, k) ==
  CanServe(count, q, k) /\ (k < Len(q) => ~CanServe(count, q, k + 1))

(* The entries served are woken.  The waker that fires is the one stored   *)
(* in the waiter; it reaches the future if its task is the last poller.    *)
WakesLeftOut(k, ids, states, q) == woken

Wakes(k, ids, states, q) ==
  [c \in Clients |->
     IF /\ states[c] = "future"
        /\ ids[c] \in turn..(turn + k - 1)
        /\ q[ids[c] - turn + 1].waker # NoTask
     THEN q[ids[c] - turn + 1].waker = poller[c]
     ELSE woken[c]]

(* count, q, states, ids: the cell and its futures when wake_waiters is called. *)
wake_waiters(count, q, states, ids) ==
  \E k \in 0..Len(q) :
    /\ Serves(count, q, k)
    /\ borrow_count' = CountServed(count, q, k)
    /\ waiters' = SubSeq(q, k + 1, Len(q))
    /\ turn' = turn + k
    /\ woken' = Wakes(k, ids, states, q)

----------------------------------------------------------------------------
(* The calls *)

(* try_borrow, try_borrow_mut: a synchronous borrow never cuts in line. *)
BorrowSyncCutsIn(c, m) ==
  /\ state[c] = "none"
  /\ try_add(borrow_count, m) # Refused
  /\ borrow_count' = try_add(borrow_count, m)
  /\ state' = [state EXCEPT ![c] = "borrow"]
  /\ mode' = [mode EXCEPT ![c] = m]
  /\ UNCHANGED <<waiters, turn, id, poller, woken>>

borrow_sync(c, m) ==
  /\ state[c] = "none"
  /\ waiters = <<>>
  /\ try_add(borrow_count, m) # Refused
  /\ borrow_count' = try_add(borrow_count, m)
  /\ state' = [state EXCEPT ![c] = "borrow"]
  /\ mode' = [mode EXCEPT ![c] = m]
  /\ UNCHANGED <<waiters, turn, id, poller, woken>>

(* borrow, borrow_mut: the future takes a ticket, and may be served at once. *)
create_waiter(c, m) ==
  LET index == Len(waiters)
      q == Append(waiters, [mode |-> m, waker |-> NoTask])
      states == [state EXCEPT ![c] = "future"]
      ids == [id EXCEPT ![c] = turn + index] IN
  /\ state[c] = "none"
  /\ turn + index < MaxTicket
  /\ state' = states
  /\ mode' = [mode EXCEPT ![c] = m]
  /\ id' = ids
  /\ IF index = 0
     THEN wake_waiters(borrow_count, q, states, ids)
     ELSE waiters' = q /\ UNCHANGED <<borrow_count, turn, woken>>
  /\ UNCHANGED poller

(* Polling a future: it resolves to its reserved borrow, or stores the     *)
(* waker of the task that polls it, replacing another task's.  The calls   *)
(* of poll_waiter that panic are AssertionsHold.                           *)
poll_waiter(c, w) ==
  IF Reserved(c)
  THEN /\ state' = [state EXCEPT ![c] = "borrow"]
       /\ poller' = [poller EXCEPT ![c] = NoTask]
       /\ woken' = [woken EXCEPT ![c] = FALSE]
       /\ UNCHANGED <<borrow_count, waiters, turn, mode, id>>
  ELSE /\ Queued(c)
       /\ waiters' = [waiters EXCEPT ![id[c] - turn + 1].waker = w]
       /\ poller' = [poller EXCEPT ![c] = w]
       /\ woken' = [woken EXCEPT ![c] = FALSE]
       /\ UNCHANGED <<borrow_count, turn, state, mode, id>>

(* Giving back a borrow or a reservation; `states` is without it. *)
release(m, states) ==
  LET count == try_remove(borrow_count, m) IN
  IF count = 0
  THEN wake_waiters(count, waiters, states, id)
  ELSE borrow_count' = count /\ UNCHANGED <<waiters, turn, woken>>

drop_borrow(c) ==
  LET states == [state EXCEPT ![c] = "none"] IN
  /\ Holding(c)
  /\ state' = states
  /\ release(mode[c], states)
  /\ UNCHANGED <<mode, id, poller>>

(* Dropping a future before it resolved: its reservation is given back, or *)
(* it leaves a hole, and a hole at the head has the queue reprocessed.     *)
ReservationNotReturned(c) ==
  LET states == [state EXCEPT ![c] = "none"]
      holed == [waiters EXCEPT ![id[c] - turn + 1] = Hole] IN
  /\ Waiting(c)
  /\ state' = states
  /\ poller' = [poller EXCEPT ![c] = NoTask]
  /\ UNCHANGED <<mode, id>>
  /\ CASE id[c] < turn -> UNCHANGED <<borrow_count, waiters, turn, woken>>
       [] id[c] = turn -> wake_waiters(borrow_count, holed, states, id)
       [] OTHER -> waiters' = holed /\ UNCHANGED <<borrow_count, turn, woken>>

HeadNotReprocessed(c) ==
  LET states == [state EXCEPT ![c] = "none"]
      holed == [waiters EXCEPT ![id[c] - turn + 1] = Hole] IN
  /\ Waiting(c)
  /\ state' = states
  /\ poller' = [poller EXCEPT ![c] = NoTask]
  /\ UNCHANGED <<mode, id>>
  /\ IF id[c] < turn THEN release(mode[c], states)
     ELSE waiters' = holed /\ UNCHANGED <<borrow_count, turn, woken>>

drop_waiter(c) ==
  LET states == [state EXCEPT ![c] = "none"]
      holed == [waiters EXCEPT ![id[c] - turn + 1] = Hole] IN
  /\ Waiting(c)
  /\ state' = states
  /\ poller' = [poller EXCEPT ![c] = NoTask]
  /\ UNCHANGED <<mode, id>>
  /\ CASE id[c] < turn -> release(mode[c], states)
       [] id[c] = turn -> wake_waiters(borrow_count, holed, states, id)
       [] OTHER -> waiters' = holed /\ UNCHANGED <<borrow_count, turn, woken>>

----------------------------------------------------------------------------
Init ==
  /\ borrow_count = 0
  /\ waiters = <<>>
  /\ turn = 0
  /\ state = [c \in Clients |-> "none"]
  /\ mode = [c \in Clients |-> "Shared"]
  /\ id = [c \in Clients |-> 0]
  /\ poller = [c \in Clients |-> NoTask]
  /\ woken = [c \in Clients |-> FALSE]

Next ==
  \E c \in Clients :
    \/ \E m \in Modes : borrow_sync(c, m) \/ create_waiter(c, m)
    \/ \E w \in Wakers : poll_waiter(c, w)
    \/ drop_borrow(c)
    \/ drop_waiter(c)

Spec == Init /\ [][Next]_vars

(* A task polls the futures it was just given, and polls again when it is  *)
(* woken; a borrow is not kept for ever.                                   *)
TaskRuns(c) ==
  /\ poller[c] = NoTask \/ woken[c]
  /\ \E w \in Wakers : poll_waiter(c, w)

Fairness ==
  \A c \in Clients : WF_vars(TaskRuns(c)) /\ WF_vars(drop_borrow(c))

FairSpec == Spec /\ Fairness

----------------------------------------------------------------------------
(* The types of the cell and its futures. *)
TypeOK ==
  /\ borrow_count \in Nat \cup {ExclusiveCount}
  /\ waiters \in Seq(Waiter \cup {Hole})
  /\ turn \in Nat
  /\ state \in [Clients -> {"none", "future", "borrow"}]
  /\ mode \in [Clients -> Modes]
  /\ id \in [Clients -> Nat]
  /\ poller \in [Clients -> Wakers \cup {NoTask}]
  /\ woken \in [Clients -> BOOLEAN]

Borrowers == {c \in Clients : Holding(c) \/ Reserved(c)}

(* The borrow count is what the borrows and the reservations amount to,    *)
(* and an exclusive one of either kind is alone: the unsafe dereference of *)
(* AsyncBorrowImpl never aliases.                                          *)
BorrowsExact ==
  \/ /\ borrow_count = Cardinality(Borrowers)
     /\ \A c \in Borrowers : mode[c] = "Shared"
  \/ /\ borrow_count = ExclusiveCount
     /\ \E c \in Borrowers : Borrowers = {c} /\ mode[c] = "Exclusive"

(* The first future in line, past any holes. *)
FirstInLine(c) == Queued(c) /\ \A d \in Clients : Queued(d) => id[c] <= id[d]

(* When nobody holds or awaits a borrow the cell is free. *)
FreedInTheEnd ==
  (\A c \in Clients : state[c] = "none") => borrow_count = 0 /\ waiters = <<>>

(* No future can be polled or dropped into a panic: a reserved borrow can  *)
(* be taken off the count, a queued ticket finds its own waiter, and the   *)
(* first in line cannot be added to the current borrow.  That says more    *)
(* than poll_waiter asserts of the head: nobody, also behind the hole a    *)
(* cancelled future left, waits for a borrow it could have.  And once      *)
(* every client is done no reservation, hole or waiter is left behind,     *)
(* whatever was dropped and in which order, so that into_inner's assertion *)
(* holds and try_borrow_mut succeeds.                                      *)
AssertionsHold ==
  /\ \A c \in Clients :
       /\ (Reserved(c) \/ Holding(c)) => try_remove(borrow_count, mode[c]) # Refused
       /\ Queued(c) => /\ id[c] < turn + Len(waiters)
                       /\ waiters[id[c] - turn + 1].mode = mode[c]
       /\ FirstInLine(c) => try_add(borrow_count, mode[c]) = Refused
  /\ FreedInTheEnd

(* First come, first served: a step hands nobody a borrow, reserved or     *)
(* synchronous, past a future that was queued before and still is.         *)
FirstComeFirstServed ==
  [][\A c, d \in Clients :
       Queued(c) /\ Queued(c)' /\ id'[c] = id[c]
       /\ ~(Holding(d) \/ Reserved(d)) /\ (Holding(d)' \/ Reserved(d)')
       => Queued(d) /\ id[d] < id[c]]_vars

(* Every borrow future is resolved or dropped in the end: nobody starves,  *)
(* readers cannot overtake a waiting writer for ever.                      *)
EventuallyServed == \A c \in Clients : Waiting(c) ~> ~Waiting(c)
=============================================================================
