---------------------------- MODULE Cells_proofs ----------------------------
(***************************************************************************)
(* Proofs about CancelHandle, for any set of futures and tasks, and about  *)
(* Arena, for any capacity and any number of objects.                      *)
(***************************************************************************)
EXTENDS CancelHandle, Arena, TLAPS, FiniteSetTheorems

(***************************************************************************)
(* CancelHandle.  The walk of cancel() is the least set closed under       *)
(* `next`, so what it reaches is shown by exhibiting closed sets and needs *)
(* no induction.                                                           *)
(***************************************************************************)

LinkedNodes == [state : {"linked"}, prev : Nodes, next : Nodes]
NodeType == [Nodes -> {Unlinked, CanceledNode} \cup LinkedNodes]
FutStates == {"none", "will_register", "registered", "ok", "canceled", "dropped"}
Pollers == CancelTasks \cup {NoPoller}

(* Both neighbours of a linked node are linked, and point back. *)
Rings(nd) ==
  \A x \in Nodes : IsLinked(nd, x) =>
    /\ IsLinked(nd, nd[x].prev) /\ nd[nd[x].prev].next = x
    /\ IsLinked(nd, nd[x].next) /\ nd[nd[x].next].prev = x
    /\ nd[x].next # x

LinkedFutures(nd) == {f \in Futures : IsLinked(nd, f)}

(* With the handle in it there is one ring only. *)
OneRing(nd) == IsLinked(nd, HandleNode) => LinkedFutures(nd) \subseteq Visited(nd)

KeptAlive(o, ft) == o \/ \E f \in Futures : ft[f] = "will_register"

(* The node of every future and of the handle is where the future's state  *)
(* and the handle's references say.                                        *)
Placed(nd, o, ft) ==
  /\ \A f \in Futures : ft[f] # "registered" => nd[f] = Unlinked
  /\ ~KeptAlive(o, ft) => nd[HandleNode] = Unlinked
  /\ KeptAlive(o, ft) =>
       \A f \in Futures : ft[f] = "registered" =>
         \/ IsLinked(nd, f) /\ IsLinked(nd, HandleNode)
         \/ nd[f] = CanceledNode /\ nd[HandleNode] = CanceledNode

(* A linked item stores the waker of its latest poll, and a cancelled one  *)
(* was woken by it.                                                        *)
WakersFresh ==
  \A f \in Futures : fut[f] = "registered" =>
    /\ item_waker[f] = polled_by[f]
    /\ node[f] = CanceledNode => woke[f] = polled_by[f]

CancelIInv ==
  /\ node \in NodeType /\ fut \in [Futures -> FutStates]
  /\ item_waker \in [Futures -> Pollers] /\ polled_by \in [Futures -> Pollers]
  /\ woke \in [Futures -> Pollers] /\ owned \in BOOLEAN /\ unreachable = FALSE
  /\ Rings(node) /\ OneRing(node) /\ Placed(node, owned, fut) /\ WakersFresh

----------------------------------------------------------------------------
(* The three values of a node are distinct, and a linked one has both      *)
(* neighbours among the nodes.                                             *)
LEMMA NodeShapes ==
  ASSUME NEW nd \in NodeType, NEW x \in Nodes
  PROVE  /\ IsLinked(nd, x) => nd[x].prev \in Nodes /\ nd[x].next \in Nodes
                               /\ nd[x] # Unlinked /\ nd[x] # CanceledNode
                               /\ nd[x] = Linked(nd[x].prev, nd[x].next)
         /\ ~IsLinked(nd, x) => nd[x] \in {Unlinked, CanceledNode}
BY DEF NodeType, LinkedNodes, IsLinked, Unlinked, CanceledNode, Linked

(* Unlinked and cancelled nodes are not linked, linked ones are. *)
LEMMA NodeStates ==
  /\ Unlinked.state = "unlinked" /\ CanceledNode.state = "canceled"
  /\ Unlinked # CanceledNode
  /\ \A p, n : Linked(p, n).state = "linked" /\ Linked(p, n).prev = p /\ Linked(p, n).next = n
BY DEF Unlinked, CanceledNode, Linked

(* Whatever cancel() visits is linked: none of its branches panics. *)
LEMMA VisitedAreLinked ==
  ASSUME NEW nd \in NodeType, Rings(nd)
  PROVE  Visited(nd) \subseteq LinkedFutures(nd)
<1> SUFFICES ASSUME IsLinked(nd, HandleNode), NEW x \in Visited(nd)
             PROVE  x \in LinkedFutures(nd)
  BY DEF Visited
<1> DEFINE S == {y \in Nodes : IsLinked(nd, y)}
<1>1. VisitedIn(nd, S)
  BY NodeShapes DEF VisitedIn, Rings, Nodes
<1>2. x \in Futures /\ x \in S
  BY <1>1 DEF Visited
<1> QED BY <1>2 DEF LinkedFutures

(* What Link writes. *)
LEMMA LinkWrites ==
  ASSUME NEW nd \in NodeType, Rings(nd), NEW f \in Futures, ~IsLinked(nd, f)
  PROVE  /\ IsLinked(nd, HandleNode) =>
              LET last == nd[HandleNode].prev IN
              /\ last \in Nodes \ {f, HandleNode}
              /\ Link(nd, f) = [x \in Nodes |->
                   IF x = f THEN Linked(last, HandleNode)
                   ELSE IF x = HandleNode THEN Linked(f, nd[x].next)
                   ELSE IF x = last THEN Linked(nd[x].prev, f)
                   ELSE nd[x]]
         /\ ~IsLinked(nd, HandleNode) =>
              Link(nd, f) = [x \in Nodes |->
                IF x = f THEN Linked(HandleNode, HandleNode)
                ELSE IF x = HandleNode THEN Linked(f, f) ELSE nd[x]]
<1>0. HandleNode \in Nodes /\ f \in Nodes /\ f # HandleNode
  BY CancelAssumption DEF Nodes
<1>1. CASE IsLinked(nd, HandleNode)
  <2> DEFINE last == nd[HandleNode].prev
  <2>1. last \in Nodes /\ IsLinked(nd, last) /\ nd[last].next = HandleNode /\ last # HandleNode
    BY <1>0, <1>1, NodeShapes DEF Rings
  <2>2. /\ nd[HandleNode] = Linked(last, nd[HandleNode].next)
        /\ nd[last] = Linked(nd[last].prev, nd[last].next)
    BY <1>0, <1>1, <2>1, NodeShapes
  <2>3. Link(nd, f) = [nd EXCEPT ![HandleNode].prev = f, ![last].next = f,
                                 ![f] = Linked(last, HandleNode)]
    BY <1>1 DEF Link
  <2>4. [nd[HandleNode] EXCEPT !.prev = f] = Linked(f, nd[HandleNode].next)
    BY <2>2 DEF Linked
  <2>5. [nd[last] EXCEPT !.next = f] = Linked(nd[last].prev, f)
    BY <2>2 DEF Linked
  <2>6. last # f
    BY <2>1
  <2>7. Link(nd, f) = [x \in Nodes |->
                   IF x = f THEN Linked(last, HandleNode)
                   ELSE IF x = HandleNode THEN Linked(f, nd[x].next)
                   ELSE IF x = last THEN Linked(nd[x].prev, f)
                   ELSE nd[x]]
    BY <1>0, <2>1, <2>3, <2>4, <2>5, <2>6 DEF NodeType
  <2> QED BY <1>0, <1>1, <2>1, <2>6, <2>7
<1>2. CASE ~IsLinked(nd, HandleNode)
  BY <1>0, <1>2 DEF Link, NodeType
<1> QED BY <1>1, <1>2

(* A new item goes between the last one and the handle: rings stay rings,  *)
(* exactly the item and the handle become linked, and cancel() will reach  *)
(* the item and whatever it reached before.                                *)
LEMMA LinkKeepsRing ==
  ASSUME NEW nd \in NodeType, Rings(nd), OneRing(nd), NEW f \in Futures, ~IsLinked(nd, f),
         IsLinked(nd, HandleNode) \/ LinkedFutures(nd) = {}
  PROVE  /\ Link(nd, f) \in NodeType /\ Rings(Link(nd, f)) /\ OneRing(Link(nd, f))
         /\ \A x \in Nodes : IsLinked(Link(nd, f), x) <=> IsLinked(nd, x) \/ x \in {f, HandleNode}
         /\ \A x \in Nodes : ~IsLinked(nd, x) /\ x \notin {f, HandleNode} => Link(nd, f)[x] = nd[x]
<1> DEFINE q == Link(nd, f)
<1>0. HandleNode \in Nodes /\ f \in Nodes /\ f # HandleNode
  BY CancelAssumption DEF Nodes
<1>1. CASE IsLinked(nd, HandleNode)
  <2> DEFINE last == nd[HandleNode].prev
             first == nd[HandleNode].next
  <2>1. /\ last \in Nodes \ {f, HandleNode}
        /\ q = [x \in Nodes |->
                   IF x = f THEN Linked(last, HandleNode)
                   ELSE IF x = HandleNode THEN Linked(f, nd[x].next)
                   ELSE IF x = last THEN Linked(nd[x].prev, f)
                   ELSE nd[x]]
    BY <1>1, LinkWrites
  <2>2. /\ IsLinked(nd, last) /\ nd[last].next = HandleNode /\ last \in Futures
        /\ first \in Nodes \ {HandleNode, f} /\ IsLinked(nd, first) /\ nd[first].prev = HandleNode
    BY <1>0, <1>1, <2>1, NodeShapes DEF Rings, Nodes
  <2>3. q \in NodeType
    <3>1. \A x \in Nodes : q[x] \in {Unlinked, CanceledNode} \cup LinkedNodes
      <4> TAKE x \in Nodes
      <4>1. \A p, n \in Nodes : Linked(p, n) \in LinkedNodes
        BY DEF Linked, LinkedNodes
      <4>2. IsLinked(nd, x) => nd[x].prev \in Nodes /\ nd[x].next \in Nodes
        BY NodeShapes
      <4> QED BY <1>0, <1>1, <2>1, <2>2, <4>1, <4>2 DEF NodeType
    <3> QED BY <2>1, <3>1 DEF NodeType
  <2>4. /\ \A x \in Nodes : IsLinked(q, x) <=> IsLinked(nd, x) \/ x \in {f, HandleNode}
        /\ \A x \in Nodes : ~IsLinked(nd, x) /\ x \notin {f, HandleNode} => q[x] = nd[x]
    BY <1>1, <2>1, <2>2, NodeStates DEF IsLinked
  <2>5. \A x \in Nodes :
          /\ q[x].next = IF x = f THEN HandleNode ELSE IF x = last THEN f ELSE nd[x].next
          /\ q[x].prev = IF x = f THEN last ELSE IF x = HandleNode THEN f ELSE nd[x].prev
    BY <1>0, <2>1, NodeStates
  <2>6. Rings(q)
    <3> SUFFICES ASSUME NEW x \in Nodes, IsLinked(q, x)
                 PROVE  /\ IsLinked(q, q[x].prev) /\ q[q[x].prev].next = x
                        /\ IsLinked(q, q[x].next) /\ q[q[x].next].prev = x
                        /\ q[x].next # x
      BY DEF Rings
    <3>1. CASE x = f
      BY <1>0, <2>1, <2>2, <2>4, <2>5, <3>1
    <3>2. CASE x = HandleNode
      BY <1>0, <2>1, <2>2, <2>4, <2>5, <3>2
    <3>3. CASE x = last
      <4>1. /\ nd[x].prev \in Nodes /\ IsLinked(nd, nd[x].prev) /\ nd[nd[x].prev].next = x
        BY <2>2, <3>3, NodeShapes DEF Rings
      <4>2. nd[x].prev # f /\ nd[x].prev # last
        BY <2>1, <2>2, <3>3, <4>1
      <4>3. q[x].prev = nd[x].prev /\ q[x].next = f /\ q[f].prev = x
        BY <1>0, <2>1, <2>5, <3>3
      <4>4. q[nd[x].prev].next = x /\ IsLinked(q, nd[x].prev) /\ IsLinked(q, f)
        BY <1>0, <2>4, <2>5, <4>1, <4>2
      <4> QED BY <2>1, <3>3, <4>3, <4>4
    <3>4. CASE x \notin {f, HandleNode, last}
      <4>1. IsLinked(nd, x)
        BY <2>4, <3>4
      <4>2. /\ nd[x].prev \in Nodes /\ IsLinked(nd, nd[x].prev) /\ nd[nd[x].prev].next = x
            /\ nd[x].next \in Nodes /\ IsLinked(nd, nd[x].next) /\ nd[nd[x].next].prev = x
            /\ nd[x].next # x
        BY <4>1, NodeShapes DEF Rings
      <4>3. nd[x].prev # f /\ nd[x].next # f /\ nd[x].prev # last /\ nd[x].next # HandleNode
        BY <2>2, <3>4, <4>2
      <4> QED BY <2>4, <2>5, <3>4, <4>2, <4>3
    <3> QED BY <3>1, <3>2, <3>3, <3>4
  <2>7. OneRing(q)
    <3> SUFFICES ASSUME NEW x \in LinkedFutures(q), NEW S \in SUBSET Nodes, VisitedIn(q, S)
                 PROVE  x \in S
      BY DEF OneRing, Visited, LinkedFutures
    <3>1. VisitedIn(nd, S \cup {HandleNode})
      BY <1>0, <2>1, <2>2, <2>4, <2>5 DEF VisitedIn
    <3>2. \A y \in LinkedFutures(nd) : y \in S
      <4> TAKE y \in LinkedFutures(nd)
      <4>1. y \in Visited(nd) /\ y # HandleNode
        BY <1>1, CancelAssumption DEF OneRing, LinkedFutures
      <4>2. S \cup {HandleNode} \in SUBSET Nodes
        BY <1>0
      <4> QED BY <1>1, <3>1, <4>1, <4>2 DEF Visited
    <3>3. CASE x # f
      BY <2>4, <3>2, <3>3, CancelAssumption DEF LinkedFutures, Nodes
    <3>4. CASE x = f
      <4>1. last \in S
        BY <2>2, <3>2 DEF LinkedFutures
      <4> QED BY <2>1, <2>2, <2>4, <2>5, <3>4, <4>1 DEF VisitedIn
    <3> QED BY <3>3, <3>4
  <2> QED BY <2>3, <2>4, <2>6, <2>7
<1>2. CASE ~IsLinked(nd, HandleNode)
  <2>1. q = [x \in Nodes |-> IF x = f THEN Linked(HandleNode, HandleNode)
                             ELSE IF x = HandleNode THEN Linked(f, f) ELSE nd[x]]
    BY <1>2, LinkWrites
  <2>2. \A x \in Nodes : ~IsLinked(nd, x)
    BY <1>2 DEF LinkedFutures, Nodes
  <2>3. q \in NodeType
    <3>1. Linked(HandleNode, HandleNode) \in LinkedNodes /\ Linked(f, f) \in LinkedNodes
      BY <1>0 DEF Linked, LinkedNodes
    <3> QED BY <2>1, <3>1 DEF NodeType
  <2>4. /\ \A x \in Nodes : IsLinked(q, x) <=> IsLinked(nd, x) \/ x \in {f, HandleNode}
        /\ \A x \in Nodes : ~IsLinked(nd, x) /\ x \notin {f, HandleNode} => q[x] = nd[x]
    BY <2>1, <2>2, NodeStates DEF IsLinked
  <2>5. /\ q[f].next = HandleNode /\ q[f].prev = HandleNode
        /\ q[HandleNode].next = f /\ q[HandleNode].prev = f
    BY <1>0, <2>1, NodeStates
  <2>6. Rings(q)
    BY <1>0, <2>2, <2>4, <2>5 DEF Rings
  <2>7. OneRing(q)
    <3>1. \A x \in LinkedFutures(q) : x = f
      BY <2>2, <2>4, CancelAssumption DEF LinkedFutures, Nodes
    <3> QED BY <2>5, <3>1 DEF OneRing, Visited, VisitedIn, LinkedFutures
  <2> QED BY <2>3, <2>4, <2>6, <2>7
<1> QED BY <1>1, <1>2

(* What Unlink writes: the node, and its neighbours if it has any. *)
LEMMA UnlinkWrites ==
  ASSUME NEW nd \in NodeType, Rings(nd), NEW x \in Nodes
  PROVE  LET p == nd[x].prev
             n == nd[x].next
         IN /\ ~UnlinkPanics(nd, x)
            /\ ~IsLinked(nd, x) =>
                 Unlink(nd, x) = [y \in Nodes |-> IF y = x THEN Unlinked ELSE nd[y]]
            /\ IsLinked(nd, x) /\ p = n =>
                 Unlink(nd, x) = [y \in Nodes |-> IF y \in {x, p} THEN Unlinked ELSE nd[y]]
            /\ IsLinked(nd, x) /\ p # n =>
                 Unlink(nd, x) = [y \in Nodes |->
                   IF y = x THEN Unlinked
                   ELSE IF y = p THEN Linked(nd[p].prev, n)
                   ELSE IF y = n THEN Linked(p, nd[n].next) ELSE nd[y]]
<1> DEFINE p == nd[x].prev
           n == nd[x].next
<1>1. CASE ~IsLinked(nd, x)
  BY <1>1 DEF Unlink, UnlinkPanics, NodeType
<1>2. CASE IsLinked(nd, x)
  <2>1. /\ p \in Nodes /\ n \in Nodes /\ IsLinked(nd, p) /\ IsLinked(nd, n)
        /\ p # x /\ n # x
    BY <1>2, NodeShapes DEF Rings
  <2>2. ~UnlinkPanics(nd, x)
    BY <2>1 DEF UnlinkPanics
  <2>3. CASE p = n
    BY <1>2, <2>1, <2>2, <2>3 DEF Unlink, NodeType
  <2>4. CASE p # n
    <3>1. Unlink(nd, x) = LET q == [nd EXCEPT ![x] = Unlinked, ![p].next = n]
                          IN [q EXCEPT ![n].prev = p]
      BY <1>2, <2>1, <2>4 DEF Unlink
    <3>2. /\ [nd[p] EXCEPT !.next = n] = Linked(nd[p].prev, n)
          /\ [nd[n] EXCEPT !.prev = p] = Linked(p, nd[n].next)
      <4>1. nd[p] = Linked(nd[p].prev, nd[p].next) /\ nd[n] = Linked(nd[n].prev, nd[n].next)
        BY <2>1, NodeShapes
      <4> QED BY <4>1 DEF Linked
    <3>3. [nd EXCEPT ![x] = Unlinked, ![p].next = n] =
            [y \in Nodes |-> IF y = x THEN Unlinked
                             ELSE IF y = p THEN Linked(nd[p].prev, n) ELSE nd[y]]
      BY <2>1, <3>2 DEF NodeType
    <3> DEFINE q == [nd EXCEPT ![x] = Unlinked, ![p].next = n]
    <3>4. q[n] = nd[n] /\ [q EXCEPT ![n].prev = p] = [q EXCEPT ![n] = Linked(p, nd[n].next)]
      BY <2>1, <2>4, <3>2, <3>3
    <3>5. [q EXCEPT ![n] = Linked(p, nd[n].next)] =
            [y \in Nodes |->
                   IF y = x THEN Unlinked
                   ELSE IF y = p THEN Linked(nd[p].prev, n)
                   ELSE IF y = n THEN Linked(p, nd[n].next) ELSE nd[y]]
      BY <2>1, <2>4, <3>3
    <3>6. Unlink(nd, x) = [q EXCEPT ![n].prev = p]
      BY <3>1
    <3>7. Unlink(nd, x) =
            [y \in Nodes |->
                   IF y = x THEN Unlinked
                   ELSE IF y = p THEN Linked(nd[p].prev, n)
                   ELSE IF y = n THEN Linked(p, nd[n].next) ELSE nd[y]]
      BY <3>4, <3>5, <3>6
    <3> HIDE DEF q
    <3> QED BY <1>2, <2>2, <2>4, <3>7
  <2> QED BY <2>3, <2>4
<1> QED BY <1>1, <1>2

(* Unlinking closes the gap: rings stay rings, the only other node that    *)
(* changes its state is the last one left, and cancel() still reaches      *)
(* everybody who stays.                                                    *)
LEMMA UnlinkKeepsRing ==
  ASSUME NEW nd \in NodeType, Rings(nd), OneRing(nd), NEW x \in Nodes
  PROVE  LET q == Unlink(nd, x) IN
         /\ q \in NodeType /\ Rings(q) /\ OneRing(q) /\ q[x] = Unlinked
         /\ \A y \in Nodes \ {x} : ~IsLinked(nd, y) => q[y] = nd[y]
         /\ \A y \in Nodes \ {x} : IsLinked(nd, y) =>
              IsLinked(q, y) \/ (q[y] = Unlinked /\ IsLinked(nd, x) /\ nd[x].next = y /\ nd[x].prev = y)
<1> DEFINE q == Unlink(nd, x)
           p == nd[x].prev
           n == nd[x].next
<1>0. HandleNode \in Nodes /\ \A f \in Futures : f \in Nodes /\ f # HandleNode
  BY CancelAssumption DEF Nodes
<1>1. CASE ~IsLinked(nd, x)
  <2>1. q = [y \in Nodes |-> IF y = x THEN Unlinked ELSE nd[y]]
    BY <1>1, UnlinkWrites
  <2>2. q \in NodeType /\ q[x] = Unlinked
    BY <2>1 DEF NodeType
  <2>3. \A y \in Nodes : (IsLinked(q, y) <=> IsLinked(nd, y)) /\ (y # x => q[y] = nd[y])
    BY <1>1, <2>1, NodeStates DEF IsLinked
  <2>4. Rings(q)
    <3> SUFFICES ASSUME NEW y \in Nodes, IsLinked(nd, y)
                 PROVE  /\ IsLinked(q, q[y].prev) /\ q[q[y].prev].next = y
                        /\ IsLinked(q, q[y].next) /\ q[q[y].next].prev = y
                        /\ q[y].next # y
      BY <2>3 DEF Rings
    <3>1. /\ nd[y].prev \in Nodes /\ nd[y].next \in Nodes
          /\ IsLinked(nd, nd[y].prev) /\ nd[nd[y].prev].next = y
          /\ IsLinked(nd, nd[y].next) /\ nd[nd[y].next].prev = y
          /\ nd[y].next # y
      BY NodeShapes DEF Rings
    <3> QED BY <1>1, <2>3, <3>1
  <2>5. OneRing(q)
    <3> SUFFICES ASSUME IsLinked(q, HandleNode), NEW y \in LinkedFutures(q),
                        NEW S \in SUBSET Nodes, VisitedIn(q, S)
                 PROVE  y \in S
      BY DEF OneRing, Visited, LinkedFutures
    <3>1. VisitedIn(nd, S)
      BY <1>0, <1>1, <2>3 DEF VisitedIn
    <3>2. y \in Visited(nd) /\ IsLinked(nd, HandleNode)
      BY <1>0, <2>3 DEF OneRing, LinkedFutures
    <3> QED BY <3>1, <3>2 DEF Visited
  <2> QED BY <1>1, <2>2, <2>3, <2>4, <2>5
<1>2. CASE IsLinked(nd, x)
  <2>1. /\ p \in Nodes /\ n \in Nodes /\ IsLinked(nd, p) /\ IsLinked(nd, n)
        /\ nd[p].next = x /\ nd[n].prev = x /\ p # x /\ n # x
    BY <1>2, NodeShapes DEF Rings
  <2>2. \A y \in Nodes : IsLinked(nd, y) =>
          /\ nd[y].prev \in Nodes /\ IsLinked(nd, nd[y].prev) /\ nd[nd[y].prev].next = y
          /\ nd[y].next \in Nodes /\ IsLinked(nd, nd[y].next) /\ nd[nd[y].next].prev = y
          /\ nd[y].next # y
    BY NodeShapes DEF Rings
  <2>3. CASE p = n
    <3>1. q = [y \in Nodes |-> IF y \in {x, p} THEN Unlinked ELSE nd[y]]
      BY <1>2, <2>3, UnlinkWrites
    <3>2. q \in NodeType /\ q[x] = Unlinked /\ q[p] = Unlinked
      BY <2>1, <3>1 DEF NodeType
    <3>3. \A y \in Nodes : (IsLinked(q, y) <=> IsLinked(nd, y) /\ y \notin {x, p})
                           /\ (y \notin {x, p} => q[y] = nd[y])
      BY <3>1, NodeStates DEF IsLinked
    <3>4. \A y \in Nodes \ {x, p} : IsLinked(nd, y) => nd[y].prev \notin {x, p} /\ nd[y].next \notin {x, p}
      BY <2>1, <2>2, <2>3
    <3>5. Rings(q)
      BY <2>2, <3>3, <3>4 DEF Rings
    <3>6. OneRing(q)
      <4> SUFFICES ASSUME IsLinked(q, HandleNode), NEW y \in LinkedFutures(q),
                          NEW S \in SUBSET Nodes, VisitedIn(q, S)
                   PROVE  y \in S
        BY DEF OneRing, Visited, LinkedFutures
      <4>1. VisitedIn(nd, S \ {x, p})
        BY <1>0, <3>3, <3>4 DEF VisitedIn
      <4>2. y \in Visited(nd) /\ IsLinked(nd, HandleNode)
        BY <1>0, <3>3 DEF OneRing, LinkedFutures
      <4> QED BY <4>1, <4>2 DEF Visited
    <3> QED BY <1>2, <2>1, <2>3, <3>2, <3>3, <3>5, <3>6
  <2>4. CASE p # n
    <3>1. q = [y \in Nodes |->
                   IF y = x THEN Unlinked
                   ELSE IF y = p THEN Linked(nd[p].prev, n)
                   ELSE IF y = n THEN Linked(p, nd[n].next) ELSE nd[y]]
      BY <1>2, <2>4, UnlinkWrites
    <3>2. q \in NodeType /\ q[x] = Unlinked
      <4>1. Linked(nd[p].prev, n) \in LinkedNodes /\ Linked(p, nd[n].next) \in LinkedNodes
        BY <2>1, <2>2 DEF Linked, LinkedNodes
      <4> QED BY <3>1, <4>1 DEF NodeType
    <3>3. \A y \in Nodes : IsLinked(q, y) <=> IsLinked(nd, y) /\ y # x
      BY <2>1, <3>1, NodeStates DEF IsLinked
    <3>4. \A y \in Nodes : ~IsLinked(nd, y) => q[y] = nd[y]
      BY <1>2, <2>1, <3>1
    <3>5. \A y \in Nodes \ {x} :
            /\ q[y].next = IF y = p THEN n ELSE nd[y].next
            /\ q[y].prev = IF y = n THEN p ELSE nd[y].prev
      <4> TAKE y \in Nodes \ {x}
      <4>1. CASE y = p
        BY <2>1, <2>4, <3>1, <4>1, NodeStates
      <4>2. CASE y = n
        BY <2>1, <2>4, <3>1, <4>2, NodeStates
      <4>3. CASE y \notin {p, n}
        BY <3>1, <4>3
      <4> QED BY <4>1, <4>2, <4>3
    <3>6. \A y \in Nodes \ {x} : IsLinked(nd, y) =>
            /\ y # p => nd[y].next # x
            /\ y # n => nd[y].prev # x
      BY <2>1, <2>2
    <3>7. Rings(q)
      <4> SUFFICES ASSUME NEW y \in Nodes \ {x}, IsLinked(nd, y)
                   PROVE  /\ IsLinked(q, q[y].prev) /\ q[q[y].prev].next = y
                          /\ IsLinked(q, q[y].next) /\ q[q[y].next].prev = y
                          /\ q[y].next # y
        BY <3>3 DEF Rings
      <4>1. IsLinked(q, q[y].prev) /\ q[q[y].prev].next = y
        <5>1. CASE y = n
          BY <2>1, <3>3, <3>5, <5>1
        <5>2. CASE y # n
          <6>1. nd[y].prev \in Nodes \ {x} /\ nd[y].prev # p /\ q[y].prev = nd[y].prev
            BY <2>1, <2>2, <3>5, <3>6, <5>2
          <6> QED BY <2>2, <3>3, <3>5, <6>1
        <5> QED BY <5>1, <5>2
      <4>2. IsLinked(q, q[y].next) /\ q[q[y].next].prev = y
        <5>1. CASE y = p
          BY <2>1, <3>3, <3>5, <5>1
        <5>2. CASE y # p
          <6>1. nd[y].next \in Nodes \ {x} /\ nd[y].next # n /\ q[y].next = nd[y].next
            BY <2>1, <2>2, <3>5, <3>6, <5>2
          <6> QED BY <2>2, <3>3, <3>5, <6>1
        <5> QED BY <5>1, <5>2
      <4>3. q[y].next # y
        BY <2>2, <2>4, <3>5
      <4> QED BY <4>1, <4>2, <4>3
    <3>8. OneRing(q)
      <4> SUFFICES ASSUME IsLinked(q, HandleNode), NEW y \in LinkedFutures(q),
                          NEW S \in SUBSET Nodes, VisitedIn(q, S)
                   PROVE  y \in S
        BY DEF OneRing, Visited, LinkedFutures
      <4> DEFINE T == (S \ {x}) \cup (IF p \in S \cup {HandleNode} THEN {x} ELSE {})
      <4>1. nd[HandleNode].next \in T
        BY <1>0, <2>1, <3>3, <3>5, <3>6 DEF VisitedIn
      <4>2. ASSUME NEW z \in T \ {HandleNode}, IsLinked(nd, z) PROVE nd[z].next \in T
        <5>1. CASE z = x
          <6>1. p \in S \cup {HandleNode}
            BY <5>1
          <6>2. q[p].next = n /\ IsLinked(q, p)
            BY <2>1, <3>3, <3>5
          <6>3. n \in S
            BY <6>1, <6>2 DEF VisitedIn
          <6> QED BY <2>1, <5>1, <6>3
        <5>2. CASE z = p
          BY <2>1, <4>2, <5>2
        <5>3. CASE z \notin {x, p}
          <6>1. z \in S /\ z \in Nodes
            BY <4>2, <5>3
          <6>2. q[z].next = nd[z].next /\ IsLinked(q, z) /\ nd[z].next # x
            BY <3>3, <3>5, <3>6, <4>2, <5>3, <6>1
          <6>3. nd[z].next \in S
            BY <4>2, <6>1, <6>2 DEF VisitedIn
          <6> QED BY <6>2, <6>3
        <5> QED BY <5>1, <5>2, <5>3
      <4>3. VisitedIn(nd, T) /\ T \in SUBSET Nodes
        BY <4>1, <4>2 DEF VisitedIn
      <4>4. y \in Visited(nd) /\ IsLinked(nd, HandleNode) /\ y # x
        BY <1>0, <3>3 DEF OneRing, LinkedFutures
      <4>5. y \in T
        BY <4>3, <4>4 DEF Visited
      <4> QED BY <4>4, <4>5
    <3>9. \A y \in Nodes \ {x} : IsLinked(nd, y) => IsLinked(q, y)
      BY <3>3
    <3> QED BY <3>2, <3>4, <3>7, <3>8, <3>9
  <2> QED BY <2>3, <2>4
<1> QED BY <1>1, <1>2

(* A node whose neighbours are the same is one of the only two. *)
LEMMA TwoRing ==
  ASSUME NEW nd \in NodeType, Rings(nd), OneRing(nd), IsLinked(nd, HandleNode),
         NEW x \in Nodes, NEW y \in Nodes, IsLinked(nd, x), nd[x].next = y, nd[x].prev = y
  PROVE  \A z \in Nodes : IsLinked(nd, z) => z \in {x, y}
<1>0. HandleNode \in Nodes /\ \A f \in Futures : f \in Nodes /\ f # HandleNode
  BY CancelAssumption DEF Nodes
<1>1. /\ IsLinked(nd, y) /\ nd[y].next = x /\ nd[y].prev = x /\ x # y
      /\ \A z \in Nodes : IsLinked(nd, z) =>
           nd[z].next \in Nodes /\ nd[nd[z].next].prev = z
  BY NodeShapes DEF Rings
<1>2. CASE HandleNode \in {x, y}
  <2>1. VisitedIn(nd, {x, y}) /\ {x, y} \in SUBSET Nodes
    BY <1>0, <1>1, <1>2 DEF VisitedIn
  <2>2. LinkedFutures(nd) \subseteq {x, y}
    BY <2>1 DEF OneRing, Visited
  <2> QED BY <1>2, <2>2 DEF LinkedFutures, Nodes
<1>3. CASE HandleNode \notin {x, y}
  <2>1. VisitedIn(nd, Nodes \ {x, y})
    BY <1>0, <1>1, <1>3 DEF VisitedIn
  <2>2. x \in LinkedFutures(nd)
    BY <1>3 DEF LinkedFutures, Nodes
  <2>3. x \in Visited(nd)
    BY <2>2 DEF OneRing
  <2>4. x \in Nodes \ {x, y}
    BY <2>1, <2>3 DEF Visited
  <2> QED BY <2>4
<1> QED BY <1>2, <1>3

(* The end of a future, and then perhaps of the handle. *)
LEMMA EndKeeps ==
  ASSUME CancelIInv, NEW f \in Futures, NEW how \in {"ok", "canceled", "dropped"},
         fut[f] \in {"will_register", "registered"}, Ends(f, how)
  PROVE  /\ node' \in NodeType /\ Rings(node') /\ OneRing(node') /\ unreachable' = FALSE
         /\ fut' \in [Futures -> FutStates] /\ Placed(node', owned, fut')
         /\ \A g \in Futures : fut'[g] = "registered" => g # f /\ fut[g] = "registered"
         /\ \A g \in Futures : node'[g] = CanceledNode => node[g] = CanceledNode
<1> DEFINE q == Unlink(node, f)
<1>0. HandleNode \in Nodes /\ \A g \in Futures : g \in Nodes /\ g # HandleNode
  BY CancelAssumption DEF Nodes
<1>1. /\ node \in NodeType /\ Rings(node) /\ OneRing(node) /\ Placed(node, owned, fut)
      /\ fut \in [Futures -> FutStates] /\ unreachable = FALSE
  BY DEF CancelIInv
<1>2. /\ fut' = [fut EXCEPT ![f] = how] /\ fut' \in [Futures -> FutStates]
      /\ node' = IF KeptAlive(owned, fut') THEN q ELSE Unlink(q, HandleNode)
      /\ unreachable' = FALSE
  BY <1>0, <1>1, UnlinkWrites DEF Ends, LastReference, KeptAlive, FutStates
<1>3. /\ \A g \in Futures \ {f} : fut'[g] = fut[g]
      /\ fut'[f] = how /\ how # "registered" /\ how # "will_register"
  BY <1>1, <1>2
<1>4. /\ q \in NodeType /\ Rings(q) /\ OneRing(q) /\ q[f] = Unlinked
      /\ \A y \in Nodes \ {f} : ~IsLinked(node, y) => q[y] = node[y]
      /\ \A y \in Nodes \ {f} : IsLinked(node, y) =>
           \/ IsLinked(q, y)
           \/ q[y] = Unlinked /\ IsLinked(node, f) /\ node[f].next = y /\ node[f].prev = y
  BY <1>0, <1>1, UnlinkKeepsRing
<1>5. \A g \in Futures : fut'[g] # "registered" => q[g] = Unlinked
  BY <1>0, <1>1, <1>3, <1>4, NodeShapes DEF Placed
<1>6. CASE KeptAlive(owned, fut')
  <2>1. KeptAlive(owned, fut)
    BY <1>3, <1>6 DEF KeptAlive
  <2>2. ASSUME NEW g \in Futures, fut'[g] = "registered"
        PROVE  \/ IsLinked(q, g) /\ IsLinked(q, HandleNode)
               \/ q[g] = CanceledNode /\ q[HandleNode] = CanceledNode
    <3>1. g # f /\ fut[g] = "registered"
      BY <1>3, <2>2
    <3>2. CASE IsLinked(node, g) /\ IsLinked(node, HandleNode)
      <4>1. \A y \in Nodes \ {f} :
              IsLinked(node, f) /\ node[f].next = y /\ node[f].prev = y => y = g /\ y = HandleNode
        BY <1>0, <1>1, <3>1, <3>2, TwoRing
      <4>2. f # HandleNode
        BY <1>0
      <4> QED BY <1>0, <1>4, <3>1, <3>2, <4>1, <4>2
    <3>3. CASE node[g] = CanceledNode /\ node[HandleNode] = CanceledNode
      BY <1>0, <1>1, <1>4, <3>1, <3>3, NodeShapes
    <3> QED BY <1>1, <2>1, <3>1, <3>2, <3>3 DEF Placed
  <2>3. Placed(q, owned, fut')
    BY <1>5, <1>6, <2>2 DEF Placed
  <2>4. \A g \in Futures : q[g] = CanceledNode => node[g] = CanceledNode
    BY <1>0, <1>4, NodeShapes, NodeStates
  <2> QED BY <1>2, <1>3, <1>4, <1>6, <2>3, <2>4
<1>7. CASE ~KeptAlive(owned, fut')
  <2> DEFINE r == Unlink(q, HandleNode)
  <2>1. /\ r \in NodeType /\ Rings(r) /\ OneRing(r) /\ r[HandleNode] = Unlinked
        /\ \A y \in Nodes \ {HandleNode} : ~IsLinked(q, y) => r[y] = q[y]
        /\ \A y \in Nodes \ {HandleNode} : IsLinked(q, y) => IsLinked(r, y) \/ r[y] = Unlinked
    BY <1>0, <1>4, UnlinkKeepsRing
  <2>2. Placed(r, owned, fut')
    BY <1>0, <1>4, <1>5, <1>7, <2>1, NodeShapes DEF Placed
  <2>3. \A g \in Futures : r[g] = CanceledNode => q[g] = CanceledNode
    BY <1>0, <1>4, <2>1, NodeShapes, NodeStates
  <2>4. \A g \in Futures : q[g] = CanceledNode => node[g] = CanceledNode
    BY <1>0, <1>1, <1>4, NodeShapes, NodeStates
  <2> QED BY <1>2, <1>3, <1>7, <2>1, <2>2, <2>3, <2>4
<1> QED BY <1>6, <1>7

(* cancel(), from its caller or from inside the future it cancels, leaves  *)
(* no node linked: every future that was polled is cancelled and woken.    *)
LEMMA CancelReaches ==
  ASSUME CancelIInv, owned
  PROVE  LET nd == CanceledAll(node) IN
         /\ ~CancelPanics(node) /\ nd \in NodeType /\ nd[HandleNode] = CanceledNode
         /\ \A x \in Nodes : ~IsLinked(nd, x)
         /\ \A f \in Futures : nd[f] = IF fut[f] = "registered" THEN CanceledNode ELSE Unlinked
         /\ WokenBy(node) \in [Futures -> Pollers]
         /\ \A f \in Futures : fut[f] = "registered" => WokenBy(node)[f] = polled_by[f]
<1> DEFINE nd == CanceledAll(node)
<1>0. HandleNode \in Nodes /\ \A g \in Futures : g \in Nodes /\ g # HandleNode
  BY CancelAssumption DEF Nodes
<1>1. /\ node \in NodeType /\ Rings(node) /\ OneRing(node) /\ Placed(node, owned, fut)
      /\ fut \in [Futures -> FutStates] /\ WakersFresh
      /\ item_waker \in [Futures -> Pollers] /\ woke \in [Futures -> Pollers]
  BY DEF CancelIInv
<1>2. Visited(node) \subseteq LinkedFutures(node)
  BY <1>1, VisitedAreLinked
<1>3. \A f \in Futures : fut[f] # "registered" => node[f] = Unlinked /\ f \notin Visited(node)
  BY <1>0, <1>1, <1>2, NodeShapes DEF Placed, LinkedFutures
<1>4. \A f \in Futures : fut[f] = "registered" => f \in Visited(node) \/ node[f] = CanceledNode
  BY <1>1 DEF Placed, KeptAlive, OneRing, LinkedFutures
<1>5. nd = [x \in Nodes |-> IF x \in Visited(node) \cup {HandleNode} THEN CanceledNode ELSE node[x]]
  BY DEF CanceledAll
<1>6. nd \in NodeType
  BY <1>1, <1>5 DEF NodeType
<1>7. /\ nd[HandleNode] = CanceledNode
      /\ \A f \in Futures : nd[f] = IF fut[f] = "registered" THEN CanceledNode ELSE Unlinked
  BY <1>0, <1>3, <1>4, <1>5
<1>8. \A x \in Nodes : ~IsLinked(nd, x)
  BY <1>7, NodeStates DEF IsLinked, Nodes
<1>9. /\ WokenBy(node) \in [Futures -> Pollers]
      /\ \A f \in Futures : fut[f] = "registered" => WokenBy(node)[f] = polled_by[f]
  BY <1>1, <1>4 DEF WokenBy, WakersFresh
<1>10. ~CancelPanics(node)
  BY <1>2 DEF CancelPanics, LinkedFutures
<1> QED BY <1>6, <1>7, <1>8, <1>9, <1>10

----------------------------------------------------------------------------
(* Nothing is linked, registered or cancelled at the start. *)
LEMMA CancelInitial == CancelInit => CancelIInv
<1> SUFFICES ASSUME CancelInit PROVE CancelIInv
  OBVIOUS
<1>1. \A x \in Nodes : node[x] = Unlinked /\ ~IsLinked(node, x)
  BY NodeStates DEF CancelInit, IsLinked
<1>2. HandleNode \in Nodes /\ Futures \subseteq Nodes
  BY DEF Nodes
<1>3. Rings(node) /\ OneRing(node) /\ Placed(node, owned, fut) /\ WakersFresh
  BY <1>1, <1>2 DEF CancelInit, Rings, OneRing, Placed, KeptAlive, WakersFresh
<1> QED BY <1>3 DEF CancelInit, CancelIInv, NodeType, FutStates, Pollers

(* One step: a poll, a drop or a cancel keeps the ring and the wakers. *)
LEMMA CancelInductive == CancelIInv /\ [CancelNext]_cancelVars => CancelIInv'
<1> SUFFICES ASSUME CancelIInv, [CancelNext]_cancelVars PROVE CancelIInv'
  OBVIOUS
<1>0. HandleNode \in Nodes /\ \A g \in Futures : g \in Nodes /\ g # HandleNode
  BY CancelAssumption DEF Nodes
<1>1. /\ node \in NodeType /\ Rings(node) /\ OneRing(node) /\ Placed(node, owned, fut)
      /\ fut \in [Futures -> FutStates] /\ unreachable = FALSE /\ owned \in BOOLEAN /\ WakersFresh
      /\ item_waker \in [Futures -> Pollers] /\ polled_by \in [Futures -> Pollers]
      /\ woke \in [Futures -> Pollers]
  BY DEF CancelIInv
<1>2. CASE Cancel
  <2> DEFINE nd == CanceledAll(node)
  <2>1. /\ owned /\ node' = nd /\ woke' = WokenBy(node) /\ unreachable' = (unreachable \/ CancelPanics(node))
        /\ UNCHANGED <<fut, item_waker, polled_by, owned>>
    BY <1>2 DEF Cancel
  <2>2. /\ ~CancelPanics(node) /\ nd \in NodeType /\ nd[HandleNode] = CanceledNode
        /\ \A x \in Nodes : ~IsLinked(nd, x)
        /\ \A f \in Futures : nd[f] = IF fut[f] = "registered" THEN CanceledNode ELSE Unlinked
        /\ WokenBy(node) \in [Futures -> Pollers]
        /\ \A f \in Futures : fut[f] = "registered" => WokenBy(node)[f] = polled_by[f]
    BY <2>1, CancelReaches
  <2>3. Rings(node') /\ OneRing(node')
    BY <1>0, <2>1, <2>2 DEF Rings, OneRing
  <2>4. Placed(node', owned', fut')
    BY <2>1, <2>2 DEF Placed, KeptAlive
  <2>5. WakersFresh'
    BY <1>1, <2>1, <2>2 DEF WakersFresh
  <2> QED BY <1>1, <2>1, <2>2, <2>3, <2>4, <2>5 DEF CancelIInv
<1>3. CASE DropHandle
  <2>1. /\ owned /\ owned' = FALSE /\ UNCHANGED <<fut, item_waker, polled_by, woke>>
        /\ node' = IF KeptAlive(FALSE, fut) THEN node ELSE Unlink(node, HandleNode)
        /\ unreachable' = FALSE
    BY <1>0, <1>1, <1>3, UnlinkWrites DEF DropHandle, LastReference, KeptAlive
  <2>2. CASE KeptAlive(FALSE, fut)
    <3>1. Placed(node', owned', fut')
      BY <1>1, <2>1, <2>2 DEF Placed, KeptAlive
    <3> QED BY <1>1, <2>1, <2>2, <3>1 DEF CancelIInv, WakersFresh
  <2>3. CASE ~KeptAlive(FALSE, fut)
    <3> DEFINE r == Unlink(node, HandleNode)
    <3>1. /\ r \in NodeType /\ Rings(r) /\ OneRing(r) /\ r[HandleNode] = Unlinked
          /\ \A y \in Nodes \ {HandleNode} : ~IsLinked(node, y) => r[y] = node[y]
          /\ \A y \in Nodes \ {HandleNode} : IsLinked(node, y) => IsLinked(r, y) \/ r[y] = Unlinked
      BY <1>0, <1>1, UnlinkKeepsRing
    <3>2. \A g \in Futures : r[g] = CanceledNode => node[g] = CanceledNode
      BY <1>0, <1>1, <3>1, NodeShapes, NodeStates
    <3>3. \A g \in Futures : node[g] = Unlinked => r[g] = Unlinked
      BY <1>0, <1>1, <3>1, NodeShapes
    <3>4. Placed(r, FALSE, fut)
      BY <1>1, <2>3, <3>1, <3>3 DEF Placed
    <3> QED BY <1>1, <2>1, <2>3, <3>1, <3>2, <3>4 DEF CancelIInv, WakersFresh
  <2> QED BY <2>2, <2>3
<1>4. ASSUME NEW f \in Futures, NewCancelable(f) PROVE CancelIInv'
  <2>1. /\ owned /\ fut[f] = "none" /\ fut' = [fut EXCEPT ![f] = "will_register"]
        /\ UNCHANGED <<node, item_waker, polled_by, woke, owned, unreachable>>
    BY <1>4 DEF NewCancelable
  <2>2. fut' \in [Futures -> FutStates] /\ \A g \in Futures :
          /\ fut'[g] = "registered" => fut[g] = "registered"
          /\ fut'[g] # "registered" => fut[g] # "registered"
    BY <1>1, <2>1 DEF FutStates
  <2>3. Placed(node', owned', fut')
    BY <1>1, <2>1, <2>2 DEF Placed, KeptAlive
  <2> QED BY <1>1, <2>1, <2>2, <2>3 DEF CancelIInv, WakersFresh
<1>5. ASSUME NEW f \in Futures, DropFuture(f) PROVE CancelIInv'
  <2>1. /\ fut[f] \in {"will_register", "registered"} /\ Ends(f, "dropped")
        /\ UNCHANGED <<item_waker, polled_by, woke, owned>>
    BY <1>5 DEF DropFuture
  <2>2. /\ node' \in NodeType /\ Rings(node') /\ OneRing(node') /\ unreachable' = FALSE
        /\ fut' \in [Futures -> FutStates] /\ Placed(node', owned, fut')
        /\ \A g \in Futures : fut'[g] = "registered" => g # f /\ fut[g] = "registered"
        /\ \A g \in Futures : node'[g] = CanceledNode => node[g] = CanceledNode
    BY <2>1, EndKeeps
  <2> QED BY <1>1, <2>1, <2>2 DEF CancelIInv, WakersFresh
<1>6. ASSUME NEW f \in Futures, NEW t \in CancelTasks, PollCanceled(f, t) \/ PollReady(f, t)
      PROVE  CancelIInv'
  <2>1. /\ fut[f] \in {"will_register", "registered"}
        /\ \E how \in {"ok", "canceled", "dropped"} : Ends(f, how)
        /\ polled_by' = [polled_by EXCEPT ![f] = t]
        /\ UNCHANGED <<item_waker, woke, owned>>
    BY <1>6 DEF PollCanceled, PollReady, Pending
  <2>2. /\ node' \in NodeType /\ Rings(node') /\ OneRing(node') /\ unreachable' = FALSE
        /\ fut' \in [Futures -> FutStates] /\ Placed(node', owned, fut')
        /\ \A g \in Futures : fut'[g] = "registered" => g # f /\ fut[g] = "registered"
        /\ \A g \in Futures : node'[g] = CanceledNode => node[g] = CanceledNode
    BY <2>1, EndKeeps
  <2>3. polled_by' \in [Futures -> Pollers] /\ \A g \in Futures \ {f} : polled_by'[g] = polled_by[g]
    BY <1>1, <2>1 DEF Pollers
  <2> QED BY <1>1, <2>1, <2>2, <2>3 DEF CancelIInv, WakersFresh
<1>7. ASSUME NEW f \in Futures, NEW t \in CancelTasks, PollPending(f, t) PROVE CancelIInv'
  <2>1. /\ fut[f] \in {"will_register", "registered"} /\ ~IsCanceled(f)
        /\ fut' = [fut EXCEPT ![f] = "registered"] /\ polled_by' = [polled_by EXCEPT ![f] = t]
        /\ node' = IF fut[f] = "will_register" THEN LastReference(Link(node, f), owned, fut')
                   ELSE node
        /\ item_waker' = [item_waker EXCEPT ![f] = t]
        /\ UNCHANGED <<woke, owned, unreachable>>
    BY <1>7 DEF PollPending, Pending, UpdateWaker
  <2>2. /\ fut' \in [Futures -> FutStates] /\ fut'[f] = "registered"
        /\ \A g \in Futures \ {f} : fut'[g] = fut[g]
        /\ polled_by' \in [Futures -> Pollers] /\ item_waker' \in [Futures -> Pollers]
        /\ polled_by'[f] = t /\ item_waker'[f] = t
        /\ \A g \in Futures \ {f} : polled_by'[g] = polled_by[g] /\ item_waker'[g] = item_waker[g]
    BY <1>1, <2>1 DEF FutStates, Pollers
  <2>3. CASE fut[f] = "registered"
    <3>1. node' = node /\ fut' = fut /\ node[f] # CanceledNode
      BY <1>1, <2>1, <2>3, NodeStates DEF IsCanceled
    <3>2. WakersFresh'
      BY <1>1, <2>1, <2>2, <3>1 DEF WakersFresh
    <3> QED BY <1>1, <2>1, <2>2, <3>1, <3>2 DEF CancelIInv
  <2>4. CASE fut[f] = "will_register"
    <3> DEFINE q == Link(node, f)
    <3>1. /\ node[HandleNode] # CanceledNode /\ KeptAlive(owned, fut) /\ node[f] = Unlinked
      BY <1>1, <2>1, <2>4, NodeStates DEF IsCanceled, KeptAlive, Placed
    <3>2. ~IsLinked(node, f) /\ \A g \in Futures : IsLinked(node, g) => fut[g] = "registered"
      BY <1>0, <1>1, <3>1, NodeShapes DEF Placed
    <3>3. IsLinked(node, HandleNode) \/ LinkedFutures(node) = {}
      BY <1>1, <3>1, <3>2 DEF Placed, LinkedFutures
    <3>4. /\ q \in NodeType /\ Rings(q) /\ OneRing(q)
          /\ \A x \in Nodes : IsLinked(q, x) <=> IsLinked(node, x) \/ x \in {f, HandleNode}
          /\ \A x \in Nodes : ~IsLinked(node, x) /\ x \notin {f, HandleNode} => q[x] = node[x]
      BY <1>1, <3>2, <3>3, LinkKeepsRing
    <3>5. \A g \in Futures : fut'[g] # "registered" => q[g] = Unlinked
      BY <1>0, <1>1, <2>2, <3>2, <3>4 DEF Placed
    <3>6. \A g \in Futures : fut'[g] = "registered" => IsLinked(q, g) /\ IsLinked(q, HandleNode)
      BY <1>0, <1>1, <2>2, <3>1, <3>4 DEF Placed
    <3>7. \A g \in Futures : q[g] = CanceledNode => fut'[g] # "registered"
      BY <1>0, <3>4, <3>6, NodeShapes
    <3>8. CASE KeptAlive(owned, fut')
      <4>1. node' = q
        BY <2>1, <2>4, <3>8 DEF LastReference, KeptAlive
      <4>2. Placed(q, owned, fut')
        BY <3>5, <3>6, <3>8 DEF Placed
      <4>3. WakersFresh'
        BY <1>1, <2>2, <3>7, <4>1 DEF WakersFresh
      <4> QED BY <1>1, <2>1, <2>2, <3>4, <4>1, <4>2, <4>3 DEF CancelIInv
    <3>9. CASE ~KeptAlive(owned, fut')
      <4> DEFINE r == Unlink(q, HandleNode)
      <4>1. node' = r
        BY <2>1, <2>4, <3>9 DEF LastReference, KeptAlive
      <4>2. /\ r \in NodeType /\ Rings(r) /\ OneRing(r) /\ r[HandleNode] = Unlinked
            /\ \A y \in Nodes \ {HandleNode} : ~IsLinked(q, y) => r[y] = q[y]
            /\ \A y \in Nodes \ {HandleNode} : IsLinked(q, y) => IsLinked(r, y) \/ r[y] = Unlinked
        BY <1>0, <3>4, UnlinkKeepsRing
      <4>3. Placed(r, owned, fut')
        BY <1>0, <3>4, <3>5, <3>9, <4>2, NodeShapes DEF Placed
      <4>4. \A g \in Futures : r[g] = CanceledNode => fut'[g] # "registered"
        BY <1>0, <3>6, <4>2, NodeShapes, NodeStates
      <4>5. WakersFresh'
        BY <1>1, <2>2, <4>1, <4>4 DEF WakersFresh
      <4> QED BY <1>1, <2>1, <2>2, <4>1, <4>2, <4>3, <4>5 DEF CancelIInv
    <3> QED BY <3>8, <3>9
  <2> QED BY <2>1, <2>3, <2>4
<1>8. ASSUME NEW f \in Futures, NEW t \in CancelTasks, PollCancelsItself(f, t) PROVE CancelIInv'
  <2> DEFINE nd == CanceledAll(node)
  <2>1. owned /\ fut[f] \in {"will_register", "registered"}
    BY <1>8 DEF PollCancelsItself, Pending
  <2>2. /\ ~CancelPanics(node) /\ nd \in NodeType /\ nd[HandleNode] = CanceledNode
        /\ \A x \in Nodes : ~IsLinked(nd, x)
        /\ \A g \in Futures : nd[g] = IF fut[g] = "registered" THEN CanceledNode ELSE Unlinked
        /\ WokenBy(node) \in [Futures -> Pollers]
        /\ \A g \in Futures : fut[g] = "registered" => WokenBy(node)[g] = polled_by[g]
    BY <2>1, CancelReaches
  <2>3. fut[f] = "registered" => nd[f].state = "canceled"
    BY <2>2, NodeStates
  <2>4. /\ node' = Unlink(nd, f) /\ fut' = [fut EXCEPT ![f] = "canceled"] /\ UNCHANGED item_waker
        /\ woke' = WokenBy(node) /\ polled_by' = [polled_by EXCEPT ![f] = t]
        /\ unreachable' = FALSE /\ UNCHANGED owned
    BY <1>1, <1>8, <2>1, <2>2, <2>3 DEF PollCancelsItself
  <2>5. /\ fut' \in [Futures -> FutStates] /\ fut'[f] = "canceled"
        /\ \A g \in Futures \ {f} : fut'[g] = fut[g]
        /\ polled_by' \in [Futures -> Pollers]
        /\ \A g \in Futures \ {f} : polled_by'[g] = polled_by[g]
    BY <1>1, <2>4 DEF FutStates, Pollers
  <2>6. node' = [y \in Nodes |-> IF y = f THEN Unlinked ELSE nd[y]]
    <3>1. Rings(nd) /\ ~IsLinked(nd, f)
      BY <1>0, <2>2 DEF Rings
    <3> QED BY <1>0, <2>2, <2>4, <3>1, UnlinkWrites
  <2>7. node' \in NodeType /\ \A x \in Nodes : ~IsLinked(node', x)
    BY <2>2, <2>6, NodeStates DEF NodeType, IsLinked
  <2>8. Rings(node') /\ OneRing(node')
    BY <1>0, <2>7 DEF Rings, OneRing
  <2>9. Placed(node', owned', fut')
    BY <1>0, <2>1, <2>2, <2>4, <2>5, <2>6 DEF Placed, KeptAlive
  <2>10. WakersFresh'
    BY <1>1, <2>2, <2>4, <2>5 DEF WakersFresh
  <2> QED BY <1>1, <2>2, <2>4, <2>5, <2>7, <2>8, <2>9, <2>10 DEF CancelIInv
<1>9. ASSUME NEW f \in Futures, AbortableReady(f) PROVE CancelIInv'
  BY <1>1, <1>9 DEF AbortableReady, CancelIInv, WakersFresh
<1>10. CASE UNCHANGED cancelVars
  BY <1>1, <1>10 DEF cancelVars, CancelIInv, WakersFresh
<1> QED BY <1>2, <1>3, <1>4, <1>5, <1>6, <1>7, <1>8, <1>9, <1>10 DEF CancelNext

(* The invariant says what CancelSound does. *)
LEMMA CancelIInvSound == CancelIInv => CancelSound
<1> SUFFICES ASSUME CancelIInv PROVE CancelSound
  OBVIOUS
<1>0. HandleNode \in Nodes /\ \A g \in Futures : g \in Nodes /\ g # HandleNode
  BY CancelAssumption DEF Nodes
<1>1. /\ node \in NodeType /\ Rings(node) /\ OneRing(node) /\ Placed(node, owned, fut)
      /\ unreachable = FALSE /\ WakersFresh
  BY DEF CancelIInv
<1>2. \A f \in Futures : IsLinked(node, f) => fut[f] = "registered"
  BY <1>0, <1>1, NodeShapes DEF Placed
<1>3. IsLinked(node, HandleNode) => HandleAlive
  BY <1>0, <1>1, NodeShapes DEF Placed, HandleAlive, KeptAlive
<1>4. \A x \in Nodes : IsLinked(node, x) => Alive(x)
  BY <1>2, <1>3 DEF Alive, Nodes
<1>5. IsLinked(node, HandleNode) => {f \in Futures : fut[f] = "registered"} = Visited(node)
  <2> SUFFICES ASSUME IsLinked(node, HandleNode)
               PROVE  {f \in Futures : fut[f] = "registered"} = Visited(node)
    OBVIOUS
  <2>1. Visited(node) \subseteq LinkedFutures(node) /\ LinkedFutures(node) \subseteq Visited(node)
    BY <1>1, VisitedAreLinked DEF OneRing
  <2>2. \A f \in Futures : fut[f] = "registered" => IsLinked(node, f)
    <3>1. KeptAlive(owned, fut) /\ node[HandleNode] # CanceledNode
      BY <1>0, <1>1, <1>3, NodeShapes DEF HandleAlive, KeptAlive
    <3> QED BY <1>1, <3>1 DEF Placed
  <2> QED BY <1>2, <2>1, <2>2 DEF LinkedFutures
<1>6. CancelReachesAll
  <2> SUFFICES ASSUME node[HandleNode].state = "canceled", NEW f \in Futures, fut[f] = "registered"
               PROVE  IsCanceled(f) /\ woke[f] = polled_by[f]
    BY DEF CancelReachesAll
  <2>1. node[HandleNode] # Unlinked /\ ~IsLinked(node, HandleNode)
    BY NodeStates DEF IsLinked
  <2>2. node[f] = CanceledNode
    BY <1>1, <2>1 DEF Placed
  <2> QED BY <1>1, <2>2, NodeStates DEF IsCanceled, WakersFresh
<1> QED BY <1>1, <1>4, <1>5, <1>6 DEF CancelSound, RingIntact, Rings

(* For any futures, tasks and order of polls, cancels and drops: the raw   *)
(* pointers of the ring lead to live nodes only, no unreachable!() is      *)
(* reached, and cancel() wakes every future by the waker of its last poll. *)
THEOREM CancelIsSound == CancelSpec => []CancelSound
<1>1. CancelSpec => []CancelIInv
  BY CancelInitial, CancelInductive, PTL DEF CancelSpec
<1> QED BY <1>1, CancelIInvSound, PTL

(***************************************************************************)
(* Arena.  What makes the free list stay a list is that its links are      *)
(* injective and never lead back to its head.                              *)
(***************************************************************************)

RawType == [next : 1 .. PastEnd, max : 1 .. PastEnd, link : [Entries -> 1 .. PastEnd],
            allocated : Nat]
InUse == {"reserved", "live", "deleting"}
ObjectType ==
  [state : {"unused", "gone"} \cup InUse, entry : Entries \cup {Heap, NoEntry},
   refs : Nat, drops : Nat]

(* The objects with a pointer to them, and the entries they occupy. *)
Pointers(os) == {o \in Objects : os[o].state \in InUse}
Places(os) == {os[o].entry : o \in Pointers(os)} \ {Heap}

(* The list from `next` to `max` holds what is not occupied below the      *)
(* high-water mark.                                                        *)
FreeList(r, occ) ==
  /\ LeadsToMark(r)
  /\ occ \subseteq 1 .. r.max - 1
  /\ Vacant(r) = (1 .. r.max - 1) \ occ
  /\ r.next \in Vacant(r) \cup {r.max}
  /\ \A e \in Vacant(r) : r.link[e] \in (Vacant(r) \cup {r.max}) \ {r.next}
  /\ \A d, e \in Vacant(r) : r.link[d] = r.link[e] => d = e
  /\ r.allocated = Cardinality(occ)

ObjectsApart(os) ==
  /\ \A o \in Pointers(os) : os[o].entry \in Entries \cup {Heap}
  /\ \A o, p \in Pointers(os) : o # p => os[o].entry # os[p].entry \/ os[o].entry = Heap
  /\ \A o \in Objects : os[o].drops <= 1 /\ (os[o].state # "gone" => os[o].drops = 0)

ArenaTypes ==
  /\ arena_kind \in {"unique", "shared", "atomic"} /\ raw \in RawType
  /\ obj \in [Objects -> ObjectType] /\ data_refs \in Int
  /\ arena \in {"alive", "dropped", "freed"}

(* While the data exist the count of the shared arenas is that of the      *)
(* pointers, less one once the arena itself is gone.                       *)
CountsPointers ==
  /\ arena = "freed" => Pointers(obj) = {}
  /\ arena = "dropped" => Pointers(obj) # {}
  /\ arena # "freed" /\ Shares =>
       data_refs = Cardinality(Pointers(obj)) - (IF arena = "dropped" THEN 1 ELSE 0)
  /\ ~Shares => \A o \in Pointers(obj) : obj[o].entry # Heap

ArenaIInv ==
  /\ ArenaTypes /\ after_free = FALSE /\ ObjectsApart(obj)
  /\ arena # "freed" => FreeList(raw, Places(obj))
  /\ CountsPointers

----------------------------------------------------------------------------
(* Capacity and mark as numbers. *)
LEMMA Numbers ==
  /\ PastEnd \in Nat \ {0} /\ Entries = 1 .. PastEnd - 1 /\ Entries \subseteq Nat
  /\ Objects \subseteq Nat /\ Heap \notin Entries /\ IsFiniteSet(Objects) /\ IsFiniteSet(Entries)
  /\ \A r \in RawType : r.max \in Nat /\ r.next \in Nat /\ 1 .. r.max - 1 \subseteq Entries
<1>1. IsFiniteSet(Objects) /\ IsFiniteSet(Entries)
  BY ArenaAssumption, FS_Interval DEF Objects, Entries
<1> QED BY <1>1, ArenaAssumption DEF PastEnd, Entries, Objects, Heap, RawType

(* Taking the head of the list, or raising the mark when it is empty. *)
LEMMA ExtendFreeList ==
  ASSUME NEW r \in RawType, NEW occ, FreeList(r, occ), ~IsFull(r)
  PROVE  /\ Extended(r) \in RawType /\ r.next \in Entries \ occ
         /\ FreeList(Extended(r), occ \cup {r.next})
<1> DEFINE x == Extended(r)
           h == r.next
<1>1. /\ r.max \in 1 .. PastEnd /\ h \in 1 .. PastEnd /\ PastEnd \in Nat /\ r.allocated \in Nat
      /\ r.link \in [Entries -> 1 .. PastEnd] /\ Entries = 1 .. PastEnd - 1
  BY Numbers DEF RawType
<1>2. IsFiniteSet(occ) /\ occ \subseteq Entries
  BY Numbers, FS_Subset DEF FreeList
<1>3. h \notin occ => Cardinality(occ \cup {h}) = r.allocated + 1
  BY <1>2, FS_AddElement DEF FreeList
<1>4. CASE r.max = h
  <2>1. h # PastEnd
    BY <1>4 DEF IsFull
  <2>2. /\ x.next = h + 1 /\ x.max = h + 1 /\ x.link = r.link /\ x.allocated = r.allocated + 1
        /\ x \in RawType
    <3>1. x = [next |-> h + 1, max |-> h + 1, link |-> r.link, allocated |-> r.allocated + 1]
      BY <1>4 DEF Extended
    <3>2. h + 1 \in 1 .. PastEnd /\ r.allocated + 1 \in Nat
      BY <1>1, <2>1
    <3> HIDE DEF x
    <3> QED BY <1>1, <3>1, <3>2 DEF RawType
  <2>3. Vacant(r) = {}
    <3>1. VacantIn(r, {r.max}) /\ {r.max} \in SUBSET (1 .. PastEnd)
      BY <1>1, <1>4 DEF VacantIn
    <3> QED BY <3>1 DEF Vacant
  <2>4. occ = 1 .. h - 1
    BY <1>4, <2>3 DEF FreeList
  <2>5. Vacant(x) = {}
    <3>1. VacantIn(x, {x.max}) /\ {x.max} \in SUBSET (1 .. PastEnd)
      BY <1>1, <2>1, <2>2 DEF VacantIn
    <3> QED BY <3>1 DEF Vacant
  <2>6. occ \cup {h} = 1 .. x.max - 1
    BY <1>1, <2>2, <2>4
  <2>7. LeadsToMark(x)
    BY <2>2 DEF LeadsToMark, VacantIn
  <2> QED BY <1>1, <1>3, <2>1, <2>2, <2>4, <2>5, <2>6, <2>7 DEF FreeList
<1>5. CASE r.max # h
  <2>1. h \in Vacant(r) /\ h \in Entries /\ h \notin occ /\ h <= r.max - 1
    BY <1>1, <1>5, Numbers DEF FreeList
  <2>2. /\ x.next = r.link[h] /\ x.max = r.max /\ x.link = r.link /\ x.allocated = r.allocated + 1
        /\ x \in RawType
    <3>1. x = [next |-> r.link[h], max |-> r.max, link |-> r.link, allocated |-> r.allocated + 1]
      BY <1>5 DEF Extended
    <3>2. r.link[h] \in 1 .. PastEnd /\ r.allocated + 1 \in Nat
      BY <1>1, <2>1
    <3> HIDE DEF x
    <3> QED BY <1>1, <3>1, <3>2 DEF RawType
  <2>3. Vacant(r) \subseteq 1 .. r.max - 1 /\ Vacant(r) \subseteq 1 .. PastEnd
    BY <1>1 DEF FreeList, Vacant
  <2>4. Vacant(x) = Vacant(r) \ {h}
    <3> DEFINE T == (Vacant(r) \ {h}) \cup {r.max}
    <3>1. VacantIn(x, T) /\ T \in SUBSET (1 .. PastEnd)
      <4>1. r.link[h] \in T
        BY <2>1 DEF FreeList
      <4>2. \A e \in Vacant(r) \ {h} : r.link[e] \in T
        BY DEF FreeList
      <4> QED BY <1>1, <2>2, <2>3, <4>1, <4>2 DEF VacantIn
    <3>2. Vacant(x) \subseteq Vacant(r) \ {h}
      BY <2>2, <3>1 DEF Vacant
    <3>3. ASSUME NEW e \in Vacant(r) \ {h}, NEW S \in SUBSET (1 .. PastEnd), VacantIn(x, S)
          PROVE  e \in S
      <4>1. VacantIn(r, S \cup {h}) /\ S \cup {h} \in SUBSET (1 .. PastEnd)
        BY <1>1, <2>2, <3>3 DEF VacantIn
      <4>2. e \in S \cup {h}
        BY <4>1 DEF Vacant
      <4> QED BY <4>2
    <3>4. Vacant(r) \ {h} \subseteq Vacant(x)
      BY <2>2, <3>3 DEF Vacant
    <3> QED BY <3>2, <3>4
  <2>5. x.next \in Vacant(x) \cup {x.max}
    BY <2>1, <2>2, <2>4 DEF FreeList
  <2>6. \A e \in Vacant(x) : x.link[e] \in (Vacant(x) \cup {x.max}) \ {x.next}
    BY <2>1, <2>2, <2>4 DEF FreeList
  <2>7. /\ occ \cup {h} \subseteq 1 .. x.max - 1
        /\ Vacant(x) = (1 .. x.max - 1) \ (occ \cup {h})
        /\ \A d, e \in Vacant(x) : x.link[d] = x.link[e] => d = e
    BY <1>1, <2>1, <2>2, <2>3, <2>4 DEF FreeList
  <2>8. ASSUME NEW S \in SUBSET (1 .. PastEnd), VacantIn(x, S)
        PROVE  r.max \in S
    <3>1. VacantIn(r, S \cup {h}) /\ S \cup {h} \in SUBSET (1 .. PastEnd)
      BY <1>1, <2>2, <2>8 DEF VacantIn
    <3>2. r.max \in S \cup {h}
      BY <3>1 DEF FreeList, LeadsToMark
    <3> QED BY <1>5, <3>2
  <2>9. LeadsToMark(x)
    BY <2>2, <2>8 DEF LeadsToMark
  <2> QED BY <1>3, <2>1, <2>2, <2>5, <2>6, <2>7, <2>9 DEF FreeList
<1> QED BY <1>4, <1>5

(* An entry given back becomes the head of the list. *)
LEMMA RecycleFreeList ==
  ASSUME NEW r \in RawType, NEW occ, FreeList(r, occ), NEW e \in occ
  PROVE  Recycled(r, e) \in RawType /\ FreeList(Recycled(r, e), occ \ {e})
<1> DEFINE x == Recycled(r, e)
           V == Vacant(r)
<1>1. /\ r.max \in 1 .. PastEnd /\ r.next \in 1 .. PastEnd /\ PastEnd \in Nat /\ r.allocated \in Nat
      /\ r.link \in [Entries -> 1 .. PastEnd] /\ Entries = 1 .. PastEnd - 1
  BY Numbers DEF RawType
<1>2. IsFiniteSet(occ) /\ occ \subseteq Entries
  BY Numbers, FS_Subset DEF FreeList
<1>3. e \in Entries /\ e # Heap /\ e \in 1 .. r.max - 1 /\ e \notin V /\ e # r.max /\ e # PastEnd
  BY <1>1, <1>2, Numbers DEF FreeList
<1>4. Cardinality(occ \ {e}) = r.allocated - 1 /\ r.allocated # 0
  BY <1>2, FS_RemoveElement, FS_CardinalityType, FS_EmptySet DEF FreeList
<1>5. /\ x.next = e /\ x.max = r.max /\ x.link = [r.link EXCEPT ![e] = r.next]
      /\ x.allocated = r.allocated - 1 /\ x \in RawType
  <2>1. x = [next |-> e, max |-> r.max, link |-> [r.link EXCEPT ![e] = r.next],
             allocated |-> r.allocated - 1]
    BY <1>3 DEF Recycled
  <2>2. [r.link EXCEPT ![e] = r.next] \in [Entries -> 1 .. PastEnd] /\ r.allocated - 1 \in Nat
    BY <1>1, <1>3, <1>4
  <2>3. e \in 1 .. PastEnd
    BY <1>1, <1>3
  <2> HIDE DEF x
  <2> QED BY <1>1, <2>1, <2>2, <2>3 DEF RawType
<1>6. /\ x.link[e] = r.next /\ \A d \in V : d \in Entries /\ d # e /\ x.link[d] = r.link[d]
  BY <1>1, <1>3, <1>5, Numbers DEF FreeList
<1>7. Vacant(x) = V \cup {e} /\ LeadsToMark(x)
  <2>1. VacantIn(x, V \cup {e, r.max}) /\ V \cup {e, r.max} \in SUBSET (1 .. PastEnd)
    <3>1. V \subseteq 1 .. PastEnd
      BY DEF Vacant
    <3>2. \A d \in (V \cup {e, r.max}) \ {x.max, PastEnd} : x.link[d] \in V \cup {e, r.max}
      BY <1>5, <1>6 DEF FreeList
    <3> QED BY <1>1, <1>3, <1>5, <3>1, <3>2 DEF VacantIn
  <2>2. Vacant(x) \subseteq V \cup {e}
    BY <1>5, <2>1 DEF Vacant
  <2>3. ASSUME NEW S \in SUBSET (1 .. PastEnd), VacantIn(x, S)
        PROVE  V \cup {e} \subseteq S /\ r.max \in S
    <3>1. e \in S /\ r.next \in S
      BY <1>3, <1>5, <1>6, <2>3 DEF VacantIn
    <3>2. VacantIn(r, S \cap (V \cup {r.max}))
      <4>1. r.next \in S \cap (V \cup {r.max})
        BY <3>1 DEF FreeList
      <4>2. ASSUME NEW d \in (S \cap (V \cup {r.max})) \ {r.max, PastEnd}
            PROVE  r.link[d] \in S \cap (V \cup {r.max})
        <5>1. d \in V /\ d \in S
          BY <4>2
        <5>2. r.link[d] \in V \cup {r.max}
          BY <5>1 DEF FreeList
        <5>3. x.link[d] \in S
          BY <1>5, <2>3, <4>2 DEF VacantIn
        <5> QED BY <1>6, <5>1, <5>2, <5>3
      <4> QED BY <4>1, <4>2 DEF VacantIn
    <3>3. S \cap (V \cup {r.max}) \in SUBSET (1 .. PastEnd)
      OBVIOUS
    <3>4. \A d \in V : d \in S \cap (V \cup {r.max})
      BY <3>2, <3>3 DEF Vacant
    <3>5. r.max \in S \cap (V \cup {r.max})
      BY <3>2, <3>3 DEF FreeList, LeadsToMark
    <3> QED BY <3>1, <3>4, <3>5
  <2>4. V \cup {e} \subseteq Vacant(x)
    <3>1. V \cup {e} \subseteq (1 .. PastEnd) \ {x.max}
      BY <1>1, <1>3, <1>5 DEF Vacant
    <3> QED BY <2>3, <3>1 DEF Vacant
  <2>5. LeadsToMark(x)
    BY <1>5, <2>3 DEF LeadsToMark
  <2> QED BY <2>2, <2>4, <2>5
<1>8. /\ occ \ {e} \subseteq 1 .. x.max - 1
      /\ Vacant(x) = (1 .. x.max - 1) \ (occ \ {e})
  BY <1>3, <1>5, <1>7 DEF FreeList
<1>9. \A d \in Vacant(x) : x.link[d] \in (Vacant(x) \cup {x.max}) \ {x.next}
  BY <1>3, <1>5, <1>6, <1>7 DEF FreeList
<1>10. \A c, d \in Vacant(x) : x.link[c] = x.link[d] => c = d
  BY <1>6, <1>7 DEF FreeList
<1> QED BY <1>4, <1>5, <1>7, <1>8, <1>9, <1>10 DEF FreeList

----------------------------------------------------------------------------
(* What a step that writes one object does to the pointers and places. *)
LEMMA OneObject ==
  ASSUME NEW os \in [Objects -> ObjectType], NEW qs \in [Objects -> ObjectType],
         NEW o \in Objects, \A p \in Objects \ {o} : qs[p] = os[p]
  PROVE  /\ qs[o].state \in InUse => Pointers(qs) = Pointers(os) \cup {o}
         /\ qs[o].state \notin InUse => Pointers(qs) = Pointers(os) \ {o}
BY DEF Pointers

LEMMA PointersFinite ==
  ASSUME NEW os
  PROVE  /\ IsFiniteSet(Pointers(os)) /\ Cardinality(Pointers(os)) \in Nat
         /\ Cardinality(Pointers(os)) = 0 <=> Pointers(os) = {}
<1>1. IsFiniteSet(Pointers(os))
  BY Numbers, FS_Subset DEF Pointers
<1> QED BY <1>1, FS_CardinalityType, FS_EmptySet

LEMMA PointerTaken ==
  ASSUME NEW os \in [Objects -> ObjectType], NEW qs \in [Objects -> ObjectType],
         NEW o \in Objects, \A p \in Objects \ {o} : qs[p] = os[p],
         ObjectsApart(os), os[o].state = "unused", qs[o].state \in InUse, qs[o].drops = 0,
         qs[o].entry \in Entries \cup {Heap}, qs[o].entry \notin Places(os)
  PROVE  /\ ObjectsApart(qs)
         /\ Pointers(qs) = Pointers(os) \cup {o}
         /\ Cardinality(Pointers(qs)) = Cardinality(Pointers(os)) + 1
         /\ qs[o].entry # Heap => Places(qs) = Places(os) \cup {qs[o].entry}
         /\ qs[o].entry = Heap => Places(qs) = Places(os)
<1>1. o \notin Pointers(os)
  BY DEF Pointers, InUse
<1>2. /\ Pointers(qs) = Pointers(os) \cup {o}
      /\ Cardinality(Pointers(qs)) = Cardinality(Pointers(os)) + 1
  <2>1. Pointers(qs) = Pointers(os) \cup {o}
    BY OneObject
  <2> QED BY <1>1, <2>1, PointersFinite, FS_AddElement
<1>3. \A p \in Pointers(os) : p \in Objects \ {o} /\ qs[p] = os[p]
  BY <1>1 DEF Pointers
<1>4. \A p \in Pointers(os) : os[p].entry # qs[o].entry \/ qs[o].entry = Heap
  BY DEF Places
<1>5. ObjectsApart(qs)
  <2>1. \A p \in Pointers(qs) : qs[p].entry \in Entries \cup {Heap}
    BY <1>2, <1>3 DEF ObjectsApart
  <2>2. \A p, q \in Pointers(qs) : p # q => qs[p].entry # qs[q].entry \/ qs[p].entry = Heap
    BY <1>2, <1>3, <1>4 DEF ObjectsApart
  <2>3. \A p \in Objects : qs[p].drops <= 1 /\ (qs[p].state # "gone" => qs[p].drops = 0)
    BY DEF ObjectsApart
  <2> QED BY <2>1, <2>2, <2>3 DEF ObjectsApart
<1>6. {qs[p].entry : p \in Pointers(qs)} = {os[p].entry : p \in Pointers(os)} \cup {qs[o].entry}
  BY <1>2, <1>3
<1> QED BY <1>2, <1>5, <1>6 DEF Places

LEMMA PointerGone ==
  ASSUME NEW os \in [Objects -> ObjectType], NEW qs \in [Objects -> ObjectType],
         NEW o \in Pointers(os), \A p \in Objects \ {o} : qs[p] = os[p],
         ObjectsApart(os), qs[o].state = "gone", qs[o].drops \in {0, 1}
  PROVE  /\ ObjectsApart(qs)
         /\ Pointers(qs) = Pointers(os) \ {o}
         /\ Cardinality(Pointers(qs)) = Cardinality(Pointers(os)) - 1
         /\ Places(qs) = Places(os) \ {os[o].entry}
         /\ \A p \in Pointers(qs) : qs[p].entry = os[p].entry
<1>1. o \in Objects /\ o \notin Pointers(qs)
  BY DEF Pointers, InUse
<1>2. Pointers(qs) = Pointers(os) \ {o}
  <2>1. qs[o].state \notin InUse
    BY DEF InUse
  <2> QED BY <1>1, <2>1, OneObject
<1>3. Cardinality(Pointers(qs)) = Cardinality(Pointers(os)) - 1
  BY <1>2, FS_RemoveElement, PointersFinite
<1>4. \A p \in Pointers(qs) : p \in Objects \ {o} /\ qs[p] = os[p] /\ p \in Pointers(os)
  BY <1>1, <1>2 DEF Pointers
<1>5. ObjectsApart(qs)
  <2>1. \A p \in Objects : qs[p].drops <= 1 /\ (qs[p].state # "gone" => qs[p].drops = 0)
    BY <1>1 DEF ObjectsApart
  <2> QED BY <1>4, <2>1 DEF ObjectsApart
<1>6. Places(qs) = Places(os) \ {os[o].entry}
  <2>1. \A p \in Pointers(os) \ {o} : os[p].entry # os[o].entry \/ os[p].entry = Heap
    BY DEF ObjectsApart
  <2>2. {qs[p].entry : p \in Pointers(qs)} = {os[p].entry : p \in Pointers(os) \ {o}}
    BY <1>2, <1>4
  <2> QED BY <2>1, <2>2 DEF Places
<1> QED BY <1>2, <1>3, <1>4, <1>5, <1>6

LEMMA PointerStays ==
  ASSUME NEW os \in [Objects -> ObjectType], NEW qs \in [Objects -> ObjectType],
         NEW o \in Pointers(os), \A p \in Objects \ {o} : qs[p] = os[p],
         ObjectsApart(os), qs[o].state \in InUse, qs[o].drops = os[o].drops,
         qs[o].entry = os[o].entry
  PROVE  /\ ObjectsApart(qs)
         /\ Pointers(qs) = Pointers(os) /\ Places(qs) = Places(os)
         /\ \A p \in Pointers(qs) : qs[p].entry = os[p].entry
<1>1. o \in Objects /\ o \in Pointers(os)
  BY DEF Pointers
<1>2. Pointers(qs) = Pointers(os)
  <2>1. Pointers(qs) = Pointers(os) \cup {o}
    BY <1>1, OneObject
  <2> QED BY <1>1, <2>1
<1>3. \A p \in Objects : qs[p].entry = os[p].entry /\ qs[p].drops = os[p].drops
  BY <1>1
<1>4. \A p \in Objects : qs[p].state # "gone" => os[p].drops = 0
  BY <1>1 DEF ObjectsApart, Pointers, InUse
<1>5. \A p \in Pointers(os) : p \in Objects
  BY DEF Pointers
<1>6. ObjectsApart(qs)
  <2>1. \A p \in Pointers(os) : qs[p].entry \in Entries \cup {Heap}
    BY <1>3, <1>5 DEF ObjectsApart
  <2>2. \A p, q \in Pointers(os) : p # q => qs[p].entry # qs[q].entry \/ qs[p].entry = Heap
    BY <1>3, <1>5 DEF ObjectsApart
  <2>3. \A p \in Objects : qs[p].drops <= 1 /\ (qs[p].state # "gone" => qs[p].drops = 0)
    BY <1>3, <1>4 DEF ObjectsApart
  <2> QED BY <1>2, <2>1, <2>2, <2>3 DEF ObjectsApart
<1>7. {qs[p].entry : p \in Pointers(qs)} = {os[p].entry : p \in Pointers(os)}
  BY <1>2, <1>3, <1>5
<1> QED BY <1>2, <1>3, <1>5, <1>6, <1>7 DEF Places

----------------------------------------------------------------------------
LEMMA ArenaInitial == ArenaInit => ArenaIInv
<1> SUFFICES ASSUME ArenaInit PROVE ArenaIInv
  OBVIOUS
<1>1. ArenaTypes
  <2>1. raw \in RawType
    BY Numbers DEF ArenaInit, RawType
  <2>2. obj \in [Objects -> ObjectType]
    BY DEF ArenaInit, ObjectType
  <2>3. arena_kind \in {"unique", "shared", "atomic"}
    BY ArenaAssumption DEF ArenaInit
  <2>4. data_refs \in Int /\ arena = "alive"
    BY DEF ArenaInit
  <2> QED BY <2>1, <2>2, <2>3, <2>4 DEF ArenaTypes
<1>2. Pointers(obj) = {} /\ Places(obj) = {}
  BY DEF ArenaInit, Pointers, Places, InUse
<1>3. ObjectsApart(obj)
  BY <1>2 DEF ObjectsApart, ArenaInit
<1>4. FreeList(raw, {})
  <2>1. raw.next = 1 /\ raw.max = 1 /\ raw.allocated = 0
    BY DEF ArenaInit
  <2>2. Vacant(raw) = {}
    <3>1. VacantIn(raw, {1}) /\ {1} \in SUBSET (1 .. PastEnd)
      BY <2>1, Numbers DEF VacantIn
    <3> QED BY <2>1, <3>1 DEF Vacant
  <2>3. LeadsToMark(raw)
    BY <2>1 DEF LeadsToMark, VacantIn
  <2> QED BY <2>1, <2>2, <2>3, FS_EmptySet DEF FreeList
<1>5. CountsPointers
  BY <1>2, FS_EmptySet DEF CountsPointers, ArenaInit
<1> QED BY <1>1, <1>2, <1>3, <1>4, <1>5 DEF ArenaIInv, ArenaInit

(* Without boxes on the heap the count of occupied entries tells whether   *)
(* any pointer is left.                                                    *)
LEMMA CountTellsPointers ==
  ASSUME ArenaIInv, ~Shares, arena # "freed"
  PROVE  raw.allocated = 0 <=> Pointers(obj) = {}
<1>1. raw.allocated = Cardinality(Places(obj)) /\ Places(obj) \subseteq Entries
  BY Numbers DEF ArenaIInv, FreeList, ArenaTypes
<1>2. IsFiniteSet(Places(obj))
  BY <1>1, Numbers, FS_Subset
<1>3. raw.allocated = 0 <=> Places(obj) = {}
  BY <1>1, <1>2, FS_EmptySet
<1>4. Places(obj) = {} <=> Pointers(obj) = {}
  BY DEF Places, ArenaIInv, CountsPointers
<1> QED BY <1>3, <1>4

(* A pointer comes into being: allocate and reserve_space. *)
LEMMA TakeKeeps ==
  ASSUME ArenaIInv, NEW o \in Objects, MayEnter, obj[o].state = "unused",
         NEW entry, NEW state \in {"live", "reserved"}, Take(o, entry, state),
         \/ entry = Heap /\ raw' = raw /\ Shares
         \/ ~IsFull(raw) /\ entry = raw.next /\ raw' = Extended(raw),
         arena_kind' = arena_kind, arena' = arena, after_free' = after_free
  PROVE  ArenaIInv'
<1>1. arena = "alive" /\ FreeList(raw, Places(obj)) /\ raw \in RawType /\ Shares' = Shares
  BY DEF MayEnter, ArenaIInv, ArenaTypes, Shares
<1>2. /\ entry # Heap => /\ entry \in Entries \ Places(obj) /\ raw' \in RawType
                         /\ FreeList(raw', Places(obj) \cup {entry})
      /\ entry = Heap => raw' = raw /\ Shares
  BY <1>1, ExtendFreeList, Numbers
<1>3. entry \in Entries \cup {Heap} /\ entry \notin Places(obj) /\ raw' \in RawType
  BY <1>1, <1>2 DEF Places
<1> DEFINE v == [state |-> state, entry |-> entry, refs |-> 0, drops |-> 0]
<1>4. v \in ObjectType /\ v.state = state /\ v.entry = entry /\ v.drops = 0
  BY <1>3 DEF ObjectType, InUse
<1>5. obj' = [obj EXCEPT ![o] = v] /\ data_refs' = IF Shares THEN data_refs + 1 ELSE data_refs
  BY DEF Take
<1> HIDE DEF v
<1>6. /\ obj \in [Objects -> ObjectType] /\ obj' \in [Objects -> ObjectType] /\ obj'[o] = v
      /\ \A p \in Objects \ {o} : obj'[p] = obj[p]
  BY <1>4, <1>5 DEF ArenaIInv, ArenaTypes
<1>7. /\ ObjectsApart(obj') /\ Pointers(obj') = Pointers(obj) \cup {o}
      /\ Cardinality(Pointers(obj')) = Cardinality(Pointers(obj)) + 1
      /\ entry # Heap => Places(obj') = Places(obj) \cup {entry}
      /\ entry = Heap => Places(obj') = Places(obj)
  <2>1. obj'[o].state \in InUse
    BY <1>4, <1>6 DEF InUse
  <2> QED BY <1>3, <1>4, <1>6, <2>1, PointerTaken DEF ArenaIInv
<1>8. FreeList(raw', Places(obj'))
  BY <1>1, <1>2, <1>7
<1>9. ArenaTypes'
  BY <1>3, <1>5, <1>6 DEF ArenaIInv, ArenaTypes
<1>10. CountsPointers'
  <2>1. Cardinality(Pointers(obj)) \in Nat /\ data_refs \in Int
    BY PointersFinite DEF ArenaIInv, ArenaTypes
  <2>2. Shares => data_refs' = Cardinality(Pointers(obj'))
    BY <1>1, <1>5, <1>7, <2>1 DEF ArenaIInv, CountsPointers
  <2>3. ~Shares => \A p \in Pointers(obj') : obj'[p].entry # Heap
    <3> SUFFICES ASSUME ~Shares, NEW p \in Pointers(obj') PROVE obj'[p].entry # Heap
      OBVIOUS
    <3>1. CASE p = o
      BY <1>2, <1>4, <1>6, <3>1
    <3>2. CASE p # o
      <4>1. p \in Pointers(obj) /\ p \in Objects \ {o}
        BY <1>7, <3>2 DEF Pointers
      <4> QED BY <1>6, <4>1 DEF ArenaIInv, CountsPointers
    <3> QED BY <3>1, <3>2
  <2>4. arena' = "alive" /\ (Shares' <=> Shares)
    BY <1>1 DEF Shares
  <2>5. data_refs' = Cardinality(Pointers(obj')) =>
          data_refs' = Cardinality(Pointers(obj')) - (IF arena' = "dropped" THEN 1 ELSE 0)
    BY <1>7, <2>1, <2>4
  <2> QED BY <2>2, <2>3, <2>4, <2>5 DEF CountsPointers
<1> QED BY <1>7, <1>8, <1>9, <1>10 DEF ArenaIInv

(* A step of an object that keeps its pointer. *)
LEMMA StayKeeps ==
  ASSUME ArenaIInv, NEW o \in Objects, obj[o].state \in InUse,
         obj' \in [Objects -> ObjectType], \A p \in Objects \ {o} : obj'[p] = obj[p],
         obj'[o].state \in InUse, obj'[o].entry = obj[o].entry, obj'[o].drops = obj[o].drops,
         UNCHANGED <<arena_kind, raw, data_refs, arena, locked, after_free>>
  PROVE  ArenaIInv'
<1>1. o \in Pointers(obj) /\ obj \in [Objects -> ObjectType] /\ ObjectsApart(obj)
  BY DEF Pointers, ArenaIInv, ArenaTypes
<1>2. /\ ObjectsApart(obj') /\ Pointers(obj') = Pointers(obj) /\ Places(obj') = Places(obj)
      /\ \A p \in Pointers(obj') : obj'[p].entry = obj[p].entry
  BY <1>1, PointerStays
<1>3. ArenaTypes'
  BY DEF ArenaIInv, ArenaTypes
<1>4. CountsPointers'
  BY <1>2 DEF ArenaIInv, CountsPointers, Shares
<1> QED BY <1>2, <1>3, <1>4 DEF ArenaIInv

(* An entry that goes, and what is left to count. *)
LEMMA GoneKeeps ==
  ASSUME ArenaIInv, NEW o \in Objects, obj[o].state \in InUse,
         NEW d \in {0, 1}, obj' \in [Objects -> ObjectType], obj'[o].state = "gone", obj'[o].drops = d,
         \A p \in Objects \ {o} : obj'[p] = obj[p], raw' = Recycled(raw, obj[o].entry)
  PROVE  /\ raw' \in RawType /\ ObjectsApart(obj') /\ FreeList(raw', Places(obj'))
         /\ Pointers(obj') = Pointers(obj) \ {o} /\ o \in Pointers(obj) /\ arena # "freed"
         /\ Cardinality(Pointers(obj')) = Cardinality(Pointers(obj)) - 1
         /\ ~Shares => obj[o].entry # Heap /\ \A p \in Pointers(obj') : obj'[p].entry # Heap
<1>1. o \in Pointers(obj) /\ obj \in [Objects -> ObjectType] /\ ObjectsApart(obj) /\ raw \in RawType
  BY DEF Pointers, ArenaIInv, ArenaTypes
<1>2. /\ ObjectsApart(obj') /\ Pointers(obj') = Pointers(obj) \ {o}
      /\ Places(obj') = Places(obj) \ {obj[o].entry}
      /\ Cardinality(Pointers(obj')) = Cardinality(Pointers(obj)) - 1
      /\ \A p \in Pointers(obj') : obj'[p].entry = obj[p].entry
  BY <1>1, PointerGone
<1>3. arena # "freed" /\ FreeList(raw, Places(obj))
  BY <1>1 DEF ArenaIInv, CountsPointers
<1>4. raw' \in RawType /\ FreeList(raw', Places(obj'))
  <2>1. CASE obj[o].entry = Heap
    <3>1. raw' = raw /\ Places(obj') = Places(obj)
      BY <1>2, <2>1 DEF Recycled, Places
    <3> QED BY <1>1, <1>3, <3>1
  <2>2. CASE obj[o].entry # Heap
    <3>1. obj[o].entry \in Places(obj)
      BY <1>1, <2>2 DEF Places
    <3> QED BY <1>1, <1>2, <1>3, <3>1, RecycleFreeList
  <2> QED BY <2>1, <2>2
<1>5. ~Shares => obj[o].entry # Heap /\ \A p \in Pointers(obj') : obj'[p].entry # Heap
  BY <1>1, <1>2 DEF ArenaIInv, CountsPointers
<1> QED BY <1>1, <1>2, <1>3, <1>4, <1>5

LEMMA ForgetKeeps ==
  ASSUME ArenaIInv, NEW o \in Objects, ForgetReservation(o) PROVE ArenaIInv'
<1>1. /\ arena = "alive" /\ obj[o].state = "reserved" /\ obj \in [Objects -> ObjectType]
      /\ obj[o].drops = 0
  BY DEF ForgetReservation, MayEnter, ArenaIInv, ArenaTypes, ObjectsApart
<1>2. obj' = [obj EXCEPT ![o].state = "gone"]
  BY DEF ForgetReservation
<1>3. /\ obj' \in [Objects -> ObjectType] /\ obj'[o].state = "gone" /\ obj'[o].drops = 0
      /\ \A p \in Objects \ {o} : obj'[p] = obj[p]
  BY <1>1, <1>2 DEF ObjectType
<1>4. /\ raw' \in RawType /\ ObjectsApart(obj') /\ FreeList(raw', Places(obj'))
      /\ Cardinality(Pointers(obj')) = Cardinality(Pointers(obj)) - 1
      /\ ~Shares => \A p \in Pointers(obj') : obj'[p].entry # Heap
  <2>1. obj[o].state \in InUse /\ raw' = Recycled(raw, obj[o].entry)
    BY <1>1 DEF InUse, ForgetReservation
  <2> QED BY <1>3, <2>1, GoneKeeps
<1>5. /\ arena' = "alive" /\ (Shares' <=> Shares) /\ data_refs \in Int
      /\ Shares => data_refs' = data_refs - 1 /\ data_refs = Cardinality(Pointers(obj))
  <2>1. arena' = "alive" /\ (Shares' <=> Shares) /\ data_refs \in Int
    BY <1>1 DEF ForgetReservation, Shares, ArenaIInv, ArenaTypes
  <2>2. Shares => data_refs = Cardinality(Pointers(obj))
    BY <1>1, PointersFinite DEF ArenaIInv, CountsPointers
  <2>3. Shares => data_refs' = data_refs - 1
    BY DEF ForgetReservation
  <2> QED BY <2>1, <2>2, <2>3
<1>6. ArenaTypes' /\ after_free' = FALSE
  <2>1. data_refs' \in Int
    BY <1>5 DEF ForgetReservation
  <2> QED BY <1>3, <1>4, <2>1 DEF ForgetReservation, ArenaIInv, ArenaTypes
<1>7. CountsPointers'
  BY <1>4, <1>5, PointersFinite DEF CountsPointers
<1> QED BY <1>4, <1>6, <1>7 DEF ArenaIInv

LEMMA DeleteKeeps ==
  ASSUME ArenaIInv, NEW o \in Objects, Delete(o) PROVE ArenaIInv'
<1> DEFINE v == [state |-> "gone", entry |-> obj[o].entry, refs |-> 0, drops |-> obj[o].drops + 1]
<1>1. obj[o].state \in {"live", "deleting"} /\ obj \in [Objects -> ObjectType] /\ obj[o].drops = 0
  BY DEF Delete, ArenaIInv, ArenaTypes, ObjectsApart
<1>2. v \in ObjectType /\ v.state = "gone" /\ v.drops = 1 /\ obj' = [obj EXCEPT ![o] = v]
  BY <1>1 DEF ObjectType, Delete
<1> HIDE DEF v
<1>3. /\ obj' \in [Objects -> ObjectType] /\ obj'[o].state = "gone" /\ obj'[o].drops = 1
      /\ \A p \in Objects \ {o} : obj'[p] = obj[p]
  BY <1>1, <1>2
<1>4. obj[o].state \in InUse /\ o \in Pointers(obj) /\ arena # "freed"
  BY <1>1 DEF InUse, Pointers, ArenaIInv, CountsPointers
<1>5. /\ raw' = Recycled(raw, obj[o].entry) /\ after_free' = after_free
      /\ data_refs' = IF Shares /\ data_refs > 0 THEN data_refs - 1 ELSE data_refs
      /\ arena' = IF LastPointerGone(o) THEN "freed" ELSE arena
      /\ (Shares' <=> Shares) /\ arena_kind' = arena_kind
  BY <1>4 DEF Delete, Shares
<1>6. /\ raw' \in RawType /\ ObjectsApart(obj') /\ FreeList(raw', Places(obj'))
      /\ Cardinality(Pointers(obj')) = Cardinality(Pointers(obj)) - 1
      /\ ~Shares => obj[o].entry # Heap /\ \A p \in Pointers(obj') : obj'[p].entry # Heap
  BY <1>3, <1>4, <1>5, GoneKeeps
<1> DEFINE n == Cardinality(Pointers(obj))
<1>7. /\ n \in Nat \ {0} /\ data_refs \in Int
      /\ Pointers(obj') = {} <=> n = 1
  BY <1>4, <1>6, PointersFinite DEF ArenaIInv, ArenaTypes
<1>8. ArenaTypes'
  <2>1. data_refs' \in Int /\ arena' \in {"alive", "dropped", "freed"}
    BY <1>5, <1>7 DEF ArenaIInv, ArenaTypes
  <2> QED BY <1>3, <1>5, <1>6, <2>1 DEF ArenaIInv, ArenaTypes
<1>9. CountsPointers'
  <2>1. CASE Shares
    <3>1. data_refs = n - (IF arena = "dropped" THEN 1 ELSE 0)
      BY <1>4, <2>1 DEF ArenaIInv, CountsPointers
    <3> HIDE DEF n
    <3>2. CASE data_refs = 0
      <4>1. arena' = "freed" /\ n = 1 /\ Pointers(obj') = {}
        BY <1>5, <1>7, <2>1, <3>1, <3>2 DEF LastPointerGone
      <4> QED BY <1>5, <2>1, <4>1 DEF CountsPointers
    <3>3. CASE data_refs # 0
      <4>1. arena' = arena /\ data_refs > 0 /\ data_refs' = data_refs - 1
        BY <1>5, <1>7, <2>1, <3>1, <3>3 DEF LastPointerGone
      <4>2. arena = "dropped" => Pointers(obj') # {}
        BY <1>7, <3>1, <3>3
      <4>3. data_refs' = Cardinality(Pointers(obj')) - (IF arena' = "dropped" THEN 1 ELSE 0)
        BY <1>6, <1>7, <3>1, <4>1 DEF n
      <4> QED BY <1>4, <1>5, <2>1, <4>1, <4>2, <4>3 DEF CountsPointers
    <3> QED BY <3>2, <3>3
  <2>2. CASE ~Shares
    <3>1. raw'.allocated = raw.allocated - 1 /\ raw.allocated \in Nat
      BY <1>5, <1>6, <2>2 DEF Recycled, ArenaIInv, ArenaTypes, RawType
    <3>2. raw'.allocated = Cardinality(Places(obj')) /\ Places(obj') \subseteq Entries
      BY <1>6, Numbers DEF FreeList
    <3>3. IsFiniteSet(Places(obj'))
      BY <3>2, Numbers, FS_Subset
    <3>4. Places(obj') = {} <=> Pointers(obj') = {}
      BY <1>6, <2>2 DEF Places
    <3>5. raw.allocated = 1 <=> Pointers(obj') = {}
      BY <3>1, <3>2, <3>3, <3>4, FS_EmptySet
    <3>6. LastPointerGone(o) <=> Pointers(obj') = {} /\ arena # "alive"
      BY <1>6, <2>2, <3>5 DEF LastPointerGone, Emptied
    <3>7. /\ arena' = "freed" => Pointers(obj') = {}
          /\ arena' = "dropped" => Pointers(obj') # {}
      BY <1>4, <1>5, <3>6 DEF ArenaIInv, ArenaTypes
    <3> QED BY <1>5, <1>6, <2>2, <3>7 DEF CountsPointers
  <2> QED BY <2>1, <2>2
<1> QED BY <1>5, <1>6, <1>8, <1>9 DEF ArenaIInv

LEMMA DropArenaKeeps ==
  ASSUME ArenaIInv, DropArena PROVE ArenaIInv'
<1>1. /\ arena = "alive" /\ FreeList(raw, Places(obj)) /\ UNCHANGED <<arena_kind, raw, after_free>>
      /\ (Shares' <=> Shares) /\ data_refs \in Int
  BY DEF DropArena, MayEnter, ArenaIInv, ArenaTypes, Shares
<1>2. /\ Shares => data_refs = Cardinality(Pointers(obj))
      /\ Cardinality(Pointers(obj)) \in Nat
      /\ Cardinality(Pointers(obj)) = 0 <=> Pointers(obj) = {}
  BY <1>1, PointersFinite DEF ArenaIInv, CountsPointers
<1>3. FreesAtDrop <=> Pointers(obj) = {}
  BY <1>1, <1>2, CountTellsPointers DEF FreesAtDrop
<1>4. obj' = obj
  <2>1. CASE FreesAtDrop
    <3>1. \A o \in Objects : obj[o].state \notin {"live", "deleting"}
      BY <1>3, <2>1 DEF Pointers, InUse
    <3>2. obj' = [o \in Objects |-> obj[o]]
      BY <2>1, <3>1 DEF DropArena, Cleared
    <3> QED BY <3>2 DEF ArenaIInv, ArenaTypes
  <2>2. CASE ~FreesAtDrop
    BY <2>2 DEF DropArena
  <2> QED BY <2>1, <2>2
<1>5. /\ arena' = IF Pointers(obj) = {} THEN "freed" ELSE "dropped"
      /\ data_refs' = IF Shares /\ Pointers(obj) # {} THEN data_refs - 1 ELSE data_refs
  BY <1>3 DEF DropArena
<1>6. ArenaTypes'
  BY <1>1, <1>4, <1>5 DEF ArenaIInv, ArenaTypes
<1>7. CountsPointers'
  BY <1>1, <1>2, <1>4, <1>5 DEF CountsPointers, ArenaIInv
<1> QED BY <1>1, <1>4, <1>6, <1>7 DEF ArenaIInv

LEMMA ArenaInductive ==
  ASSUME "unique" \notin SpillKinds, ArenaIInv, [ArenaNext]_arenaVars
  PROVE  ArenaIInv'
<1>0. obj \in [Objects -> ObjectType]
  BY DEF ArenaIInv, ArenaTypes
<1>1. CASE DropArena
  BY <1>1, DropArenaKeeps
<1>2. ASSUME NEW o \in Objects, Allocate(o) PROVE ArenaIInv'
  <2>1. CASE IsFull(raw)
    <3>1. Shares
      BY <1>2, <2>1 DEF Allocate, Shares, ArenaIInv, ArenaTypes
    <3> QED BY <1>2, <2>1, <3>1, TakeKeeps DEF Allocate
  <2>2. CASE ~IsFull(raw)
    BY <1>2, <2>2, TakeKeeps DEF Allocate
  <2> QED BY <2>1, <2>2
<1>3. ASSUME NEW o \in Objects, Reserve(o) PROVE ArenaIInv'
  <2>1. CASE IsFull(raw)
    <3>1. UNCHANGED <<arena_kind, raw, obj, data_refs, arena, after_free>>
      BY <1>3, <2>1 DEF Reserve
    <3> QED BY <3>1 DEF ArenaIInv, ArenaTypes, CountsPointers, Shares
  <2>2. CASE ~IsFull(raw)
    BY <1>3, <2>2, TakeKeeps DEF Reserve
  <2> QED BY <2>1, <2>2
<1>4. ASSUME NEW o \in Objects, CompleteReservation(o) PROVE ArenaIInv'
  <2>1. obj[o].state = "reserved" /\ obj' = [obj EXCEPT ![o].state = "live"]
    BY <1>4 DEF CompleteReservation
  <2>2. /\ obj' \in [Objects -> ObjectType] /\ obj'[o].state = "live"
        /\ obj'[o].entry = obj[o].entry /\ obj'[o].drops = obj[o].drops
        /\ \A p \in Objects \ {o} : obj'[p] = obj[p]
    BY <1>0, <2>1 DEF ObjectType, InUse
  <2>3. obj[o].state \in InUse /\ obj'[o].state \in InUse
    BY <2>1, <2>2 DEF InUse
  <2> QED BY <1>4, <2>2, <2>3, StayKeeps DEF CompleteReservation
<1>5. ASSUME NEW o \in Objects, ForgetReservation(o) PROVE ArenaIInv'
  BY <1>5, ForgetKeeps
<1>6. ASSUME NEW o \in Objects, CloneRef(o) PROVE ArenaIInv'
  <2>1. obj[o].state = "live" /\ obj' = [obj EXCEPT ![o].refs = @ + 1]
    BY <1>6 DEF CloneRef
  <2>2. /\ obj' \in [Objects -> ObjectType] /\ obj'[o].state = "live"
        /\ obj'[o].entry = obj[o].entry /\ obj'[o].drops = obj[o].drops
        /\ \A p \in Objects \ {o} : obj'[p] = obj[p]
    BY <1>0, <2>1 DEF ObjectType
  <2>3. obj[o].state \in InUse /\ obj'[o].state \in InUse
    BY <2>1, <2>2 DEF InUse
  <2> QED BY <1>6, <2>2, <2>3, StayKeeps DEF CloneRef
<1>7. ASSUME NEW o \in Objects, DropRef(o) PROVE ArenaIInv'
  <2>1. obj[o].state = "live" /\ obj[o].refs > 0 /\ obj' = [obj EXCEPT ![o].refs = @ - 1]
    BY <1>7 DEF DropRef
  <2>2. /\ obj' \in [Objects -> ObjectType] /\ obj'[o].state = "live"
        /\ obj'[o].entry = obj[o].entry /\ obj'[o].drops = obj[o].drops
        /\ \A p \in Objects \ {o} : obj'[p] = obj[p]
    BY <1>0, <2>1 DEF ObjectType
  <2>3. obj[o].state \in InUse /\ obj'[o].state \in InUse
    BY <2>1, <2>2 DEF InUse
  <2> QED BY <1>7, <2>2, <2>3, StayKeeps DEF DropRef
<1>8. ASSUME NEW o \in Objects, DropLast(o) PROVE ArenaIInv'
  <2>1. obj[o].state = "live" /\ obj' = [obj EXCEPT ![o].state = "deleting"]
    BY <1>8 DEF DropLast
  <2>2. /\ obj' \in [Objects -> ObjectType] /\ obj'[o].state = "deleting"
        /\ obj'[o].entry = obj[o].entry /\ obj'[o].drops = obj[o].drops
        /\ \A p \in Objects \ {o} : obj'[p] = obj[p]
    BY <1>0, <2>1 DEF ObjectType, InUse
  <2>3. obj[o].state \in InUse /\ obj'[o].state \in InUse
    BY <2>1, <2>2 DEF InUse
  <2> QED BY <1>8, <2>2, <2>3, StayKeeps DEF DropLast
<1>9. ASSUME NEW o \in Objects, Delete(o) PROVE ArenaIInv'
  BY <1>9, DeleteKeeps
<1>10. CASE UNCHANGED arenaVars
  BY <1>10 DEF arenaVars, ArenaIInv, ArenaTypes, CountsPointers, Shares
<1> QED BY <1>1, <1>2, <1>3, <1>4, <1>5, <1>6, <1>7, <1>8, <1>9, <1>10 DEF ArenaNext

LEMMA ArenaIInvSound == ArenaIInv => ArenaSound
<1> SUFFICES ASSUME ArenaIInv PROVE ArenaSound
  OBVIOUS
<1>1. Occupied = {obj[o].entry : o \in Pointers(obj)}
  BY DEF Occupied, Pointers, InUse
<1>2. FreeListExact
  <2> SUFFICES ASSUME arena # "freed" PROVE FreeListExact
    BY DEF FreeListExact
  <2>1. Places(obj) = Occupied \ {Heap} /\ FreeList(raw, Places(obj)) /\ raw.max \in Nat
    BY <1>1, Numbers DEF Places, ArenaIInv, ArenaTypes
  <2>2. (1 .. raw.max - 1) \ Occupied = (1 .. raw.max - 1) \ Places(obj)
    BY <2>1, Numbers DEF Heap
  <2>3. ASSUME NEW o \in Objects, NEW p \in Objects,
               o # p, {obj[o].state, obj[p].state} \subseteq {"reserved", "live", "deleting"}
        PROVE  obj[o].entry # obj[p].entry \/ obj[o].entry = Heap
    <3>1. o \in Pointers(obj) /\ p \in Pointers(obj)
      BY <2>3 DEF Pointers, InUse
    <3> QED BY <2>3, <3>1 DEF ArenaIInv, ObjectsApart
  <2> QED BY <2>1, <2>2, <2>3 DEF FreeListExact, FreeList
<1>3. ArenaOutlivesPointers
  <2>1. arena = "freed" <=>
          (\A o \in Objects : obj[o].state \in {"unused", "gone"}) /\ arena # "alive"
    <3>1. Pointers(obj) = {} <=> \A o \in Objects : obj[o].state \in {"unused", "gone"}
      BY DEF ArenaIInv, ArenaTypes, ObjectType, Pointers, InUse
    <3> QED BY <3>1 DEF ArenaIInv, ArenaTypes, CountsPointers
  <2> QED BY <2>1 DEF ArenaIInv, ObjectsApart, ArenaOutlivesPointers
<1> QED BY <1>2, <1>3 DEF ArenaSound

(* The free list of core/arena holds exactly what no pointer occupies, no  *)
(* entry is handed out twice, and the data outlive every pointer and are   *)
(* freed with the last one, for arenas of every capacity and any number of *)
(* pointers and threads.  The boxes of ArenaUnique must not spill to the   *)
(* heap: its count does not see those (FutureArena never asks it to).      *)
THEOREM ArenaIsSound ==
  ASSUME "unique" \notin SpillKinds
  PROVE  ArenaSpec => []ArenaSound
<1>1. ArenaIInv /\ [ArenaNext]_arenaVars => ArenaIInv'
  BY ArenaInductive
<1> QED BY <1>1, ArenaInitial, ArenaIInvSound, PTL DEF ArenaSpec
=============================================================================
