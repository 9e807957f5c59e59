--------------------------- MODULE MCFileNavigator ---------------------------
(***************************************************************************)
(* A small tree, "/", "/a", "/a/b" and "/c", and paths with the redundant  *)
(* slashes a user may enter.  historyMaxSize is 30 in the program; at 3 a  *)
(* few visits fill the history.                                            *)
(***************************************************************************)
EXTENDS FileNavigator

SmallTree  == {<<>>, <<"a">>, <<"a", "b">>, <<"c">>}
SmallTyped == {<<"a">>, <<"a", "">>, <<"", "a", "b">>, <<"x">>, <<"", "">>}
=============================================================================
