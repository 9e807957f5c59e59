---------------------------- MODULE MCFileSearch ----------------------------
(***************************************************************************)
(* A small instance of FileSearch: two directories and a file below the    *)
(* root.  65 is a letter and 97 the same one small.  In digits 5 is one,   *)
(* 65, 84 and 20 are two each, 193 is eight; 84 and 20 have those of 65    *)
(* between them.                                                           *)
(***************************************************************************)
EXTENDS FileSearch, TLC

SomeNames == {<<97>>, <<65>>, <<5, 97>>}
SomeLines == {<<84, 20, 97>>, <<5, 193, 97>>}
SomeKeys  == {<< <<65>> >>, << <<5>>, <<193, 97>> >>}

(* Only d1 and d2 can change places: the root is a constant of its own.    *)
DirSymmetry == Permutations(Below \cap Dirs)
=============================================================================
