----------------------------- MODULE MCFieldSet -----------------------------
(***************************************************************************)
(* Instances of FieldSet for TLC: two path elements, paths of up to three. *)
(***************************************************************************)
EXTENDS FieldSet

Elements == {"x", "y"}
SomePaths == {<<>>, <<"x">>, <<"x", "y">>, <<"y">>, <<"x", "y", "x">>, <<"x", "x", "y">>}
SomeFields == {<<"x">>, <<"y">>, <<"x", "x">>}
=============================================================================
