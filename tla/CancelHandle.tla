---------------------------- MODULE CancelHandle ----------------------------
(***************************************************************************)
(* CancelHandle and Cancelable of async_cancel.rs.  Handles and futures    *)
(* are nodes of an intrusive ring: the node lives inside the future or the *)
(* handle, and links itself, unlinks itself when dropped, and is walked by *)
(* cancel().  A future holds a counted reference to its handle only until  *)
(* its first poll, so a handle may go before its futures.                  *)
(***************************************************************************)
EXTENDS Naturals

CONSTANTS
  Futures,      \* Cancelable, TryCancelable and Abortable futures
  CancelTasks   \* tasks that may poll them

HandleNode == "handle"
ASSUME CancelAssumption == HandleNode \notin Futures
Nodes == Futures \cup {HandleNode}
NoPoller == "nobody"

VARIABLES
  node,     \* NodeInner of each node: state, prev, next
  fut,      \* "none", "will_register", "registered", "ok", "canceled", "dropped"
  item_waker,    \* the task whose waker a linked item stores
  polled_by,     \* the task that polled the future last, before it was done
  woke,     \* history: the task cancel() woke for the future
  returned, \* Abortable futures that have ended well and are still there
  owned,    \* the embedder holds the handle
  unreachable  \* a branch of the code marked unreachable!() was taken

cancelVars == <<node, fut, item_waker, polled_by, woke, returned, owned, unreachable>>

Unlinked == [state |-> "unlinked"]
Linked(p, n) == [state |-> "linked", prev |-> p, next |-> n]
CanceledNode == [state |-> "canceled"]
IsLinked(nd, x) == nd[x].state = "linked"

CancelInit ==
  /\ node = [x \in Nodes |-> Unlinked] /\ fut = [f \in Futures |-> "none"]
  /\ item_waker = [f \in Futures |-> NoPoller] /\ polled_by = [f \in Futures |-> NoPoller]
  /\ woke = [f \in Futures |-> NoPoller] /\ returned = {}
  /\ owned = TRUE /\ unreachable = FALSE

(* The handle is kept alive by its owner and by futures not yet polled. *)
HandleAlive == owned \/ \E f \in Futures : fut[f] = "will_register"

NewCancelable(f) ==
  /\ owned /\ fut[f] = "none"
  /\ fut' = [fut EXCEPT ![f] = "will_register"]
  /\ UNCHANGED <<node, item_waker, polled_by, woke, returned, owned, unreachable>>

(* Faulty variants of definitions below. *)
KeepsFirstWaker(f, t) == IF item_waker[f] = NoPoller THEN t ELSE item_waker[f]
(* NodeInner::link: a new last item, or the first one. *)
Link(nd, f) ==
  IF IsLinked(nd, HandleNode)
  THEN LET last == nd[HandleNode].prev IN
       [nd EXCEPT ![HandleNode].prev = f, ![last].next = f, ![f] = Linked(last, HandleNode)]
  ELSE [nd EXCEPT ![HandleNode] = Linked(f, f), ![f] = Linked(HandleNode, HandleNode)]

(* NodeInner::unlink: of two nodes the other one is unlinked as well. *)
Unlink(nd, x) ==
  LET p == nd[x].prev
      n == nd[x].next
  IN IF ~IsLinked(nd, x) THEN [nd EXCEPT ![x] = Unlinked]
     ELSE IF p = n THEN [nd EXCEPT ![x] = Unlinked, ![p] = Unlinked]
     ELSE IF ~IsLinked(nd, p) \/ ~IsLinked(nd, n) THEN [nd EXCEPT ![x] = Unlinked]
     ELSE LET q == [nd EXCEPT ![x] = Unlinked, ![p].next = n] IN [q EXCEPT ![n].prev = p]

UnlinkPanics(nd, x) ==
  /\ IsLinked(nd, x) /\ nd[x].prev # nd[x].next
  /\ ~IsLinked(nd, nd[x].prev) \/ ~IsLinked(nd, nd[x].next)

(* The items cancel() visits, from the head round to the head: what every  *)
(* set has in common that holds the head's successor and, with an item of  *)
(* the ring, its successor.                                                *)
VisitedIn(nd, S) ==
  /\ nd[HandleNode].next \in S
  /\ \A x \in S \ {HandleNode} : IsLinked(nd, x) => nd[x].next \in S

Visited(nd) ==
  IF IsLinked(nd, HandleNode)
  THEN {x \in Futures : \A S \in SUBSET Nodes : VisitedIn(nd, S) => x \in S}
  ELSE {}

CanceledAll(nd) == [x \in Nodes |-> IF x \in Visited(nd) \cup {HandleNode} THEN CanceledNode ELSE nd[x]]
WokenBy(nd) == [f \in Futures |-> IF f \in Visited(nd) THEN item_waker[f] ELSE woke[f]]
CancelPanics(nd) == \E x \in Visited(nd) : ~IsLinked(nd, x)

(* CancelHandle::cancel, also Resource::close of a handle. *)
Cancel ==
  /\ owned
  /\ node' = CanceledAll(node) /\ woke' = WokenBy(node)
  /\ unreachable' = (unreachable \/ CancelPanics(node))
  /\ UNCHANGED <<fut, item_waker, polled_by, returned, owned>>

(* The handle's node goes with the last reference to it. *)
LastReference(nd, o, ft) ==
  IF o \/ \E f \in Futures : ft[f] = "will_register" THEN nd ELSE Unlink(nd, HandleNode)

UpdateWaker(f, t) == t

IsCanceled(f) ==
  IF fut[f] = "will_register" THEN node[HandleNode].state = "canceled"
  ELSE node[f].state = "canceled"

(* The future is fused or dropped: its node unlinks itself, or it lets go  *)
(* of the handle.                                                          *)
Ends(f, how) ==
  /\ fut' = [fut EXCEPT ![f] = how] /\ node' = LastReference(Unlink(node, f), owned, fut')
  /\ unreachable' = (unreachable \/ UnlinkPanics(node, f))

Pending(f) == fut[f] \in {"will_register", "registered"} /\ f \notin returned

(* poll_pending: the check comes before the inner future is polled; *)
PollCanceled(f, t) ==
  /\ Pending(f) /\ IsCanceled(f)
  /\ Ends(f, "canceled") /\ polled_by' = [polled_by EXCEPT ![f] = t]
  /\ UNCHANGED <<item_waker, woke, returned, owned>>

PollReady(f, t) ==
  /\ Pending(f) /\ ~IsCanceled(f)
  /\ Ends(f, "ok") /\ polled_by' = [polled_by EXCEPT ![f] = t]
  /\ UNCHANGED <<item_waker, woke, returned, owned>>

(* Abortable does not fuse: until it is dropped its node stays linked, or  *)
(* it keeps its reference to the handle.                                   *)
AbortableReady(f) ==
  /\ Pending(f) /\ ~IsCanceled(f) /\ returned' = returned \cup {f}
  /\ UNCHANGED <<node, fut, item_waker, polled_by, woke, owned, unreachable>>

(* ... then the inner future is pending: the node is linked, or its waker  *)
(* brought up to date.                                                     *)
PollPending(f, t) ==
  /\ Pending(f) /\ ~IsCanceled(f)
  /\ fut' = [fut EXCEPT ![f] = "registered"] /\ polled_by' = [polled_by EXCEPT ![f] = t]
  /\ node' = IF fut[f] = "will_register" THEN LastReference(Link(node, f), owned, fut')
             ELSE node
  /\ item_waker' = [item_waker EXCEPT ![f] = UpdateWaker(f, t)]
  /\ UNCHANGED <<woke, returned, owned, unreachable>>

(* The inner future cancels the handle it runs under, and is pending:      *)
(* register fails and the poll ends with Canceled after all.               *)
PollCancelsItself(f, t) ==
  /\ Pending(f) /\ ~IsCanceled(f) /\ owned
  /\ LET nd == CanceledAll(node) IN
     \/ /\ fut[f] = "will_register" \/ nd[f].state = "canceled"
        /\ node' = Unlink(nd, f) /\ fut' = [fut EXCEPT ![f] = "canceled"]
        /\ UNCHANGED item_waker
     \/ /\ fut[f] = "registered" /\ nd[f].state # "canceled"
        /\ node' = nd /\ item_waker' = [item_waker EXCEPT ![f] = UpdateWaker(f, t)] /\ UNCHANGED fut
  /\ woke' = WokenBy(node) /\ polled_by' = [polled_by EXCEPT ![f] = t]
  /\ unreachable' = (unreachable \/ CancelPanics(node))
  /\ UNCHANGED <<returned, owned>>

DropFuture(f) ==
  /\ fut[f] \in {"will_register", "registered"} /\ Ends(f, "dropped")
  /\ UNCHANGED <<item_waker, polled_by, woke, returned, owned>>

(* The embedder lets go of the handle. *)
DropHandle ==
  /\ owned /\ owned' = FALSE
  /\ node' = LastReference(node, FALSE, fut)
  /\ unreachable' = (unreachable \/ (~IsLinked(node', HandleNode) /\ UnlinkPanics(node, HandleNode)))
  /\ UNCHANGED <<fut, item_waker, polled_by, woke, returned>>

CancelNext ==
  \/ Cancel \/ DropHandle
  \/ \E f \in Futures :
       \/ NewCancelable(f) \/ DropFuture(f) \/ AbortableReady(f)
       \/ \E t \in CancelTasks :
            PollCanceled(f, t) \/ PollReady(f, t) \/ PollPending(f, t) \/ PollCancelsItself(f, t)

CancelSpec == CancelInit /\ [][CancelNext]_cancelVars

(***************************************************************************)
(* Properties.                                                             *)
(***************************************************************************)
Alive(x) == IF x = HandleNode THEN HandleAlive ELSE fut[x] = "registered"

(* The links form one closed ring of live nodes, both ways round, and no   *)
(* branch marked unreachable is taken: no node of a dropped future or      *)
(* handle is left in it (a dangling pointer), with the handle or without.  *)
RingIntact ==
  /\ ~unreachable
  /\ \A x \in Nodes : IsLinked(node, x) =>
       /\ IsLinked(node, node[x].prev) /\ node[node[x].prev].next = x
       /\ IsLinked(node, node[x].next) /\ node[node[x].next].prev = x
       /\ node[x].next # x
       /\ Alive(x)
  /\ IsLinked(node, HandleNode) =>
       {f \in Futures : fut[f] = "registered"} = Visited(node)

(* cancel() reaches every future bound to the handle: one that was polled  *)
(* is woken by the waker of its latest poll, so it will be polled again,   *)
(* and then ends with Canceled without its inner future being polled.      *)
CancelReachesAll ==
  node[HandleNode].state = "canceled" =>
    \A f \in Futures : fut[f] = "registered" => IsCanceled(f) /\ woke[f] = polled_by[f]

(* The ring is sound and complete: its raw pointers are valid and cancel() *)
(* misses nobody, in whatever order futures and handle are polled,         *)
(* cancelled and dropped.                                                  *)
CancelSound == RingIntact /\ CancelReachesAll
=============================================================================
