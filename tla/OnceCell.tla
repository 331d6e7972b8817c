------------------------------ MODULE OnceCell ------------------------------
(***************************************************************************)
(* The cell that is initialized at most once (sync/once_cell.rs).  What    *)
(* happens under the state lock is one step; complete writes the value and *)
(* sets the flag before it takes the lock, which makes it two steps.       *)
(*                                                                         *)
(* A poll that stays pending registers its waker anew, so a waker is known *)
(* by the caller whose future it wakes.                                    *)
(***************************************************************************)
EXTENDS Naturals, FiniteSets

CONSTANTS CellCallers,  \* whoever uses the cell
          NoContent     \* the cell is empty

VARIABLES initialized, initializing, cellValue,  \* OnceCell; value is the caller it is from
          cellWaiters,  \* callers whose waker is registered
          cellAt,       \* cellAt[c]: where caller c is in get_or_init
          cellAwake     \* callers whose future is new or was woken

cellVars == <<initialized, initializing, cellValue, cellWaiters, cellAt, cellAwake>>

ASSUME OnceCellAssumption == IsFiniteSet(CellCallers) /\ NoContent \notin CellCallers

Initializers == {c \in CellCallers : cellAt[c] \in {"init", "complete"}}

CellTypeOK ==
  /\ initialized \in BOOLEAN /\ initializing \in BOOLEAN
  /\ cellValue \in CellCallers \cup {NoContent}
  /\ cellWaiters \subseteq CellCallers /\ cellAwake \subseteq CellCallers
  /\ cellAt \in [CellCallers -> {"idle", "acquire", "init", "complete"}]

\* const_new, or a cell created with the value of a caller.
CellInit ==
  /\ cellValue \in CellCallers \cup {NoContent} /\ initialized = (cellValue # NoContent)
  /\ initializing = FALSE /\ cellWaiters = {} /\ cellAwake = {}
  /\ cellAt = [c \in CellCallers |-> "idle"]

\* wake_all; the future of a caller that left is not there to be woken.
WakeCellWaiters ==
  /\ cellAwake' = cellAwake \cup {c \in cellWaiters : cellAt[c] = "acquire"}
  /\ cellWaiters' = {}

\* set; it fails if there is a value or somebody is initializing.
SetCell(c) ==
  /\ cellAt[c] = "idle" /\ ~initialized /\ ~initializing
  /\ cellValue' = c /\ initialized' = TRUE
  /\ WakeCellWaiters
  /\ UNCHANGED <<initializing, cellAt>>

\* get_or_init, get_or_try_init: the future is created.
GetOrInit(c) ==
  /\ cellAt[c] = "idle"
  /\ cellAt' = [cellAt EXCEPT ![c] = "acquire"]
  /\ cellAwake' = cellAwake \cup {c}
  /\ UNCHANGED <<initialized, initializing, cellValue, cellWaiters>>

\* The poll of acquire_initializer and, when it is ready, the look at the value
\* that follows it without an await in between.
Acquire(c) ==
  /\ cellAt[c] = "acquire"
  /\ cellAwake' = cellAwake \ {c}
  /\ \/ /\ initialized
        /\ cellAt' = [cellAt EXCEPT ![c] = "idle"] /\ UNCHANGED <<initializing, cellWaiters>>
     \/ /\ ~initialized /\ ~initializing /\ initializing' = TRUE
        /\ cellAt' = [cellAt EXCEPT ![c] = "init"] /\ UNCHANGED cellWaiters
     \/ /\ ~initialized /\ initializing
        /\ cellWaiters' = cellWaiters \cup {c} /\ UNCHANGED <<initializing, cellAt>>
  /\ UNCHANGED <<initialized, cellValue>>

\* The initializer returned a value; complete stores it.
Store(c) ==
  /\ cellAt[c] = "init"
  /\ cellValue' = c /\ initialized' = TRUE
  /\ cellAt' = [cellAt EXCEPT ![c] = "complete"]
  /\ UNCHANGED <<initializing, cellWaiters, cellAwake>>

\* The rest of complete, under the lock.
Complete(c) ==
  /\ cellAt[c] = "complete"
  /\ initializing' = FALSE /\ WakeCellWaiters
  /\ cellAt' = [cellAt EXCEPT ![c] = "idle"]
  /\ UNCHANGED <<initialized, cellValue>>

\* Mutant: the guard forgets those who wait for the initializer.
GiveUpSilently(c) ==
  /\ cellAt[c] = "init"
  /\ initializing' = FALSE
  /\ cellAt' = [cellAt EXCEPT ![c] = "idle"]
  /\ UNCHANGED <<initialized, cellValue, cellWaiters, cellAwake>>

\* The initializer fails or panics, or the future is dropped while it runs: Drop
\* for InitializerGuard.
GiveUp(c) ==
  /\ cellAt[c] = "init"
  /\ initializing' = FALSE /\ WakeCellWaiters
  /\ cellAt' = [cellAt EXCEPT ![c] = "idle"]
  /\ UNCHANGED <<initialized, cellValue>>

\* A future that waits is dropped; its waker stays registered.
AbandonAcquire(c) ==
  /\ cellAt[c] = "acquire"
  /\ cellAt' = [cellAt EXCEPT ![c] = "idle"]
  /\ cellAwake' = cellAwake \ {c}
  /\ UNCHANGED <<initialized, initializing, cellValue, cellWaiters>>

\* take, which has the cell to itself: no future borrows it.
Take ==
  /\ \A c \in CellCallers : cellAt[c] = "idle"
  /\ initialized' = FALSE /\ cellValue' = NoContent
  /\ UNCHANGED <<initializing, cellWaiters, cellAt, cellAwake>>

CellNext ==
  \/ \E c \in CellCallers :
       \/ SetCell(c) \/ GetOrInit(c) \/ Acquire(c) \/ Store(c) \/ Complete(c)
       \/ GiveUp(c) \/ AbandonAcquire(c)
  \/ Take

CellSpec == CellInit /\ [][CellNext]_cellVars
-----------------------------------------------------------------------------
(* Properties.                                                             *)

\* Nobody replaces a value others may hold a reference to: at most one caller
\* initializes, the flag is set exactly while it does, nobody is left to write
\* once there is a value, and the cell says it is initialized only when it is.
InitializedOnce ==
  /\ CellTypeOK
  /\ Cardinality(Initializers) = (IF initializing THEN 1 ELSE 0)
  /\ initialized => \A c \in CellCallers : cellAt[c] # "init"
  /\ initialized <=> cellValue # NoContent

\* A waiting future that would get the value, or would be the one to initialize
\* now, is awake, unless the initializer is about to wake it: initializers that
\* fail, panic or are dropped leave nobody asleep.
InitializerIsReplaced ==
  \A c \in CellCallers :
    cellAt[c] = "acquire" /\ (initialized \/ ~initializing) =>
      c \in cellAwake \/ \E d \in CellCallers : cellAt[d] = "complete"

\* The cell keeps one value, and nobody waits for it in vain (get_or_try_init,
\* complete, Drop for InitializerGuard).
CellIsSetOnce == InitializedOnce /\ InitializerIsReplaced
=============================================================================
