------------------------------ MODULE MCTimers ------------------------------
(***************************************************************************)
(* Small instances of the two timer tables of deno_core.  They share no    *)
(* state: `part` says which of them a behaviour is about, and the other    *)
(* one rests in its initial state.                                         *)
(***************************************************************************)
EXTENDS WebTimers, UvLoop

CONSTANTS t1, t2, w1
MCWatcherKind == [w \in Watchers |-> "idle"]

VARIABLE part
allVars == <<vars, uvVars, part>>

TimersInit ==
  /\ part \in {"web", "uv"} /\ Init /\ UvInit
  /\ part = "uv" => external_waker

TimersNext ==
  \/ part = "web" /\ Next /\ UNCHANGED <<uvVars, part>>
  \/ part = "uv" /\ UvNext /\ UNCHANGED <<vars, part>>

(* The fairness of WebTimers!FairSpec. *)
TimersSpec ==
  /\ TimersInit /\ [][TimersNext]_allVars
  /\ WF_allVars(part = "web" /\ LoopStep /\ UNCHANGED <<uvVars, part>>)
  /\ WF_allVars(part = "web" /\ SleepFires /\ UNCHANGED <<uvVars, part>>)
  /\ WF_allVars(part = "web" /\ Advance /\ UNCHANGED <<uvVars, part>>)
=============================================================================
