----------------------------- MODULE MCThreads -----------------------------
(***************************************************************************)
(* Small instances of the two ways in which other threads reach the        *)
(* isolate's thread: the task spawners (one on the event loop's thread,    *)
(* one plain and one blocking cross-thread spawner) and the inspector (one *)
(* debugger, one worker).  They share no state: `part` says which of them  *)
(* a behaviour is about, and the other one rests in an initial state.      *)
(***************************************************************************)
EXTENDS TaskSpawner, Inspector

VARIABLE part
allVars == <<vars, insVars, part>>

ThreadsInit ==
  /\ part \in {"tasks", "inspector"} /\ Init /\ InsInit
  /\ part = "tasks" => ~insThread.waiting

ThreadsNext ==
  \/ part = "tasks" /\ Next /\ UNCHANGED <<insVars, part>>
  \/ part = "inspector" /\ InsNext /\ UNCHANGED <<vars, part>>
  \/ (* the debugger need not do any more *)
     part = "inspector" /\ UNCHANGED allVars

(* The fairness of TaskSpawner!FairSpec. *)
TasksOnly(A) == part = "tasks" /\ A /\ UNCHANGED <<insVars, part>>

ThreadsSpec ==
  /\ ThreadsInit /\ [][ThreadsNext]_allVars
  /\ \A s \in Spawner : WF_allVars(TasksOnly(StoreFlag(s) \/ Wake(s) \/ Rendezvous(s)))
  /\ WF_allVars(TasksOnly(LoopStep))
=============================================================================
