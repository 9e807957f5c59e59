------------------------------ MODULE MCHexEdit ------------------------------
(***************************************************************************)
(* A small instance of HexEdit: positions in and behind a file of two      *)
(* bytes, one of them typed in two ways, a byte that is white space and    *)
(* one that looks like the end of the file.                                *)
(***************************************************************************)
EXTENDS HexEdit, TLC

CONSTANTS sp, ff, p1, p1s, p2, p3, vsp, vff

Numbered == p1 :> 1 @@ p1s :> 1 @@ p2 :> 2 @@ p3 :> 3
Valued   == vsp :> sp @@ vff :> ff

SessionSymmetry == Permutations(Sessions)
=============================================================================
