--------------------------- MODULE MCCoordination ---------------------------
(***************************************************************************)
(* The semaphore and the primitives tasks coordinate with, for TLC.  They  *)
(* share no state, so nothing is learned from interleaving them: a         *)
(* behaviour is about one of them and leaves the others as they were       *)
(* created.                                                                *)
(***************************************************************************)
EXTENDS Semaphore, Notify, Barrier, OnceCell, SetOnce

VARIABLE which  \* the primitive this behaviour is about

allVars == <<which, vars, notifyVars, barrierVars, cellVars, onceVars>>

\* Who polled a future that does not exist yet makes no difference.
Somebody(S) == CHOOSE t \in S : TRUE

CoordinationInit ==
  /\ which \in {"Semaphore", "Notify", "Barrier", "OnceCell", "SetOnce"}
  /\ Init
  /\ notifyTask = [f \in Listeners |-> Somebody(Pollers)] /\ NotifyInit
  /\ threadTask = [f \in Threads |-> Somebody(ThreadTasks)] /\ BarrierInit
  /\ CellInit /\ (which # "OnceCell" => cellValue = NoContent)
  /\ OnceInit /\ (which # "SetOnce" => onceValue = NoValue)

CoordinationNext ==
  \/ /\ which = "Semaphore" /\ Next
     /\ UNCHANGED <<which, notifyVars, barrierVars, cellVars, onceVars>>
  \/ /\ which = "Notify" /\ NotifyNext
     /\ UNCHANGED <<which, vars, barrierVars, cellVars, onceVars>>
  \/ /\ which = "Barrier" /\ BarrierNext
     /\ UNCHANGED <<which, vars, notifyVars, cellVars, onceVars>>
  \/ /\ which = "OnceCell" /\ CellNext
     /\ UNCHANGED <<which, vars, notifyVars, barrierVars, onceVars>>
  \/ /\ which = "SetOnce" /\ OnceNext
     /\ UNCHANGED <<which, vars, notifyVars, barrierVars, cellVars>>

CoordinationSpec == CoordinationInit /\ [][CoordinationNext]_allVars

\* One set of model values serves as Futures, Threads, CellCallers and Callers.
Symmetry == Permutations(Futures)
=============================================================================
