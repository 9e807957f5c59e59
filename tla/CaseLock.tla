------------------------------ MODULE CaseLock ------------------------------
(***************************************************************************)
(* What the lock files of case.cpp promise: a case belongs to at most one  *)
(* session, and passes to another only after its owner released it, or     *)
(* after the owner is gone and the tool was started again (clear_locks).   *)
(***************************************************************************)
CONSTANTS Sessions, Cases, Free, Stale

VARIABLE owner   \* owner[c]: a session, Free, or Stale (locked by nobody)

Init == owner \in [Cases -> {Free, Stale}]

Acquire(s, c) == owner[c] = Free /\ owner' = [owner EXCEPT ![c] = s]
Release(s, c) == owner[c] = s /\ owner' = [owner EXCEPT ![c] = Free]

(* The owners in C fail, or leave, without releasing.                      *)
Abandon(C) ==
    /\ \A c \in C : owner[c] \in Sessions
    /\ owner' = [c \in Cases |-> IF c \in C THEN Stale ELSE owner[c]]

(* A start clears every stale lock; there is no owner to clear one from.   *)
Clear ==
    /\ \A c \in Cases : owner[c] \notin Sessions
    /\ owner' = [c \in Cases |-> Free]

Next ==
    \/ \E s \in Sessions, c \in Cases : Acquire(s, c) \/ Release(s, c)
    \/ \E C \in SUBSET Cases : Abandon(C)
    \/ Clear

Spec == Init /\ [][Next]_owner
=============================================================================
