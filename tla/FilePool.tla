------------------------------ MODULE FilePool ------------------------------
(***************************************************************************)
(* What the file-handle pool of a WIM promises its readers (spec,         *)
(* Scheduling model): a reader acquires a handle of its own, either one   *)
(* the pool holds or one newly opened, and releases it to the pool.  A    *)
(* handle is never given to two readers, and no handle that was opened    *)
(* is lost: it is held by a reader or kept by the pool.                   *)
(***************************************************************************)
EXTENDS FiniteSets, Functions

CONSTANTS
    Threads,  \* the readers
    Fps,      \* the handles the process can have open at once
    Null      \* no handle

VARIABLES
    free,     \* the handles the pool keeps
    held      \* held[t]: the handle reader t owns, or Null

Handles(h) == Range(h) \ {Null}

Init ==
    /\ free = {}
    /\ held = [t \in Threads |-> Null]

\* A reader without a handle takes one the pool keeps, or opens a handle
\* that is neither kept nor held.
Acquire(t) ==
    /\ held[t] = Null
    /\ \E f \in Fps \ Handles(held) :
          /\ free' = free \ {f}
          /\ held' = [held EXCEPT ![t] = f]

\* A reader gives its handle back to the pool.
Release(t) ==
    /\ held[t] # Null
    /\ free' = free \cup {held[t]}
    /\ held' = [held EXCEPT ![t] = Null]

Next == \E t \in Threads : Acquire(t) \/ Release(t)

Spec == Init /\ [][Next]_<<free, held>>

====
