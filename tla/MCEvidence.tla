----------------------------- MODULE MCEvidence -----------------------------
(***************************************************************************)
(* A small instance of Evidence: the console and a talker of one process,  *)
(* and a second process that is started beside it.                         *)
(***************************************************************************)
EXTENDS Evidence, TLC

CONSTANTS s1, s2, p1

(* Originals differ by nothing but their names.                            *)
EqualOriginals == Permutations(Originals)

SessionsOfOne == s1 :> p1 @@ s2 :> p1
=============================================================================
