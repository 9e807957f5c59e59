---------------------------- MODULE CaseOwnership ----------------------------
(***************************************************************************)
(* CaseSessions as an implementation of CaseLock: the owner of a case is   *)
(* the session that holds it, Stale where a lock file is left without a    *)
(* holder, and Free where there is none.                                   *)
(***************************************************************************)
EXTENDS CaseSessions

CONSTANTS Free, Stale   \* no owner: no lock file, or one that nobody holds

ASSUME OwnerAssumption == Free # Stale /\ {Free, Stale} \cap Sessions = {}

(* The session a case belongs to, as the abstract lock sees it.            *)
owner ==
    [c \in Cases |->
        IF c \notin locked THEN Free
        ELSE IF \E s \in Sessions : Holder(s, c)
             THEN CHOOSE s \in Sessions : Holder(s, c)
             ELSE Stale]

Lock == INSTANCE CaseLock

(* The lock protocol implements exclusive ownership when commands do not   *)
(* overlap (case.cpp:103-159, main.cpp:92-96).                             *)
LockIsExclusive == Lock!Spec
=============================================================================
