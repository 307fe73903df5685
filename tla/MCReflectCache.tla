--------------------------- MODULE MCReflectCache ---------------------------
(***************************************************************************)
(* An instance of ReflectCache for TLC: two types that refer to each other *)
(* and a third that refers to one of them.                                 *)
(***************************************************************************)
EXTENDS ReflectCache

Types == {"A", "B", "C"}
Refers == [t \in Types |-> CASE t = "A" -> {"A", "B"}
                             [] t = "B" -> {"A"}
                             [] t = "C" -> {"B"}]
=============================================================================
