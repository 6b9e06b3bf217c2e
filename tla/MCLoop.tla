------------------------------- MODULE MCLoop -------------------------------
(***************************************************************************)
(* Small instances of the event loop and of the promise rejections, which  *)
(* EventLoop sees as one source of work and Rejections looks into.  `part` *)
(* says which of them a behaviour is about, and the other rests.           *)
(***************************************************************************)
EXTENDS EventLoop, Rejections

VARIABLE part
allVars == <<vars, rjVars, part>>

LoopInit ==
  /\ part \in {"loop", "rejections"}
  /\ RjInit
  /\ IF part = "loop" THEN Init
     ELSE /\ features = {} /\ pc = "returned" /\ woken = FALSE /\ result = "error" /\ idle = 0
          /\ did_work = FALSE /\ dispatched_ops = FALSE /\ uv_did_io = FALSE /\ work = EmptyWork

LoopNext ==
  /\ \/ part = "loop" /\ Next /\ UNCHANGED rjVars
     \/ part = "rejections" /\ RjNext /\ UNCHANGED vars
     \/ (* nothing need ever reject again *)
        part = "rejections" /\ UNCHANGED <<vars, rjVars>>
  /\ UNCHANGED part

(* The fairness of EventLoop!FairSpec. *)
LoopOnly(A) == part = "loop" /\ A /\ UNCHANGED <<features, rjVars, part>>

LoopSpec ==
  /\ LoopInit /\ [][LoopNext]_allVars
  /\ WF_allVars(LoopOnly(Tick)) /\ WF_allVars(LoopOnly(ExternalDone))
  /\ \A s \in Sources : WF_allVars(LoopOnly(BecomesReady(s)))
=============================================================================
