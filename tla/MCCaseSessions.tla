--------------------------- MODULE MCCaseSessions ---------------------------
(***************************************************************************)
(* A small instance of CaseSessions: one process with a console and one    *)
(* talker.                                                                 *)
(***************************************************************************)
EXTENDS CaseOwnership, TLC

CONSTANTS s1, s2, p1

OneProcess == s1 :> p1 @@ s2 :> p1
=============================================================================
