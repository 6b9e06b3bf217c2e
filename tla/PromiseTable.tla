---------------------------- MODULE PromiseTable ----------------------------
(***************************************************************************)
(* What the JavaScript side of the op layer promises: each asynchronous op *)
(* call creates one promise, and the completion of an op settles exactly   *)
(* the promise of that call.  Calls are numbered in the order they are     *)
(* made.                                                                   *)
(***************************************************************************)
EXTENDS Naturals

VARIABLES
  calls,    \* number of calls made so far
  open,     \* the calls whose promise is unsettled
  settled   \* pairs <<call whose op completed, call whose promise settled>>

vars == <<calls, open, settled>>

Init == calls = 0 /\ open = {} /\ settled = {}

Call ==
  /\ calls' = calls + 1
  /\ open' = open \cup {calls}
  /\ UNCHANGED settled

Complete(c) ==
  /\ c \in open
  /\ open' = open \ {c}
  /\ settled' = settled \cup {<<c, c>>}
  /\ UNCHANGED calls

Next == Call \/ \E c \in open : Complete(c)

Spec == Init /\ [][Next]_vars
=============================================================================
