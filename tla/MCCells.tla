------------------------------ MODULE MCCells ------------------------------
(***************************************************************************)
(* Small instances of what ops and resources are built with: AsyncRefCell, *)
(* CancelHandle, the arenas, and the reads and writes of resources.  They  *)
(* share no state: `part` says which of them a behaviour is about, and the *)
(* others rest in an initial state.                                        *)
(***************************************************************************)
EXTENDS AsyncRefCell, CancelHandle, Arena, Resources

(* One hint of every SizeClass. *)
SizeHints == {<<0, NoMax>>, <<0, 0>>, <<2, 2>>, <<1, NoMax>>, <<1, 2>>, <<0, 1>>}

VARIABLE part
allVars == <<vars, cancelVars, arenaVars, rsVars, part>>

CellsInit ==
  /\ part \in {"cell", "cancel", "arena", "resources"}
  /\ Init /\ CancelInit /\ ArenaInit /\ RsInit
  /\ part # "arena" => arena_kind = "unique"

CellsNext ==
  /\ \/ part = "cell" /\ Next /\ UNCHANGED <<cancelVars, arenaVars, rsVars>>
     \/ part = "cancel" /\ CancelNext /\ UNCHANGED <<vars, arenaVars, rsVars>>
     \/ part = "arena" /\ ArenaNext /\ UNCHANGED <<vars, cancelVars, rsVars>>
     \/ part = "resources" /\ RsNext /\ UNCHANGED <<vars, cancelVars, arenaVars>>
     \/ (* all of these come to an end *)
        part # "cell" /\ UNCHANGED <<vars, cancelVars, arenaVars, rsVars>>
  /\ UNCHANGED part

(* The fairness of AsyncRefCell!FairSpec. *)
CellOnly(A) == part = "cell" /\ A /\ UNCHANGED <<cancelVars, arenaVars, rsVars, part>>

CellsSpec ==
  /\ CellsInit /\ [][CellsNext]_allVars
  /\ \A c \in Clients :
       WF_allVars(CellOnly(TaskRuns(c))) /\ WF_allVars(CellOnly(drop_borrow(c)))
=============================================================================
