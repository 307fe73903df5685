--------------------------- MODULE MCCompareWalk ----------------------------
(***************************************************************************)
(* Small objects for CompareWalk: a map with a map in it that has a list   *)
(* and a scalar, so that paths get as long as 3 and the path buffer, whose *)
(* capacities are 1, 2 and 4, is reallocated twice and then has room.      *)
(***************************************************************************)
EXTENDS CompareWalk, TLC

MCKind ==
    <<>> :> "map" @@ <<"k">> :> "atomic" @@ <<"m">> :> "map" @@ <<"m", "x">> :> "scalar"
    @@ <<"m", "s">> :> "list" @@ <<"m", "s", "p">> :> "scalar" @@ <<"m", "s", "q">> :> "scalar"

EmptyObject == <<>> :> 0

First ==
    EmptyObject @@ <<"k">> :> 1 @@ <<"m">> :> 0 @@ <<"m", "x">> :> 1
    @@ <<"m", "s">> :> 0 @@ <<"m", "s", "p">> :> 2

Second ==
    EmptyObject @@ <<"m">> :> 0 @@ <<"m", "x">> :> 2
    @@ <<"m", "s">> :> 0 @@ <<"m", "s", "p">> :> 1 @@ <<"m", "s", "q">> :> 1

Third ==
    EmptyObject @@ <<"k">> :> 2 @@ <<"m">> :> 0
    @@ <<"m", "s">> :> 0 @@ <<"m", "s", "p">> :> 3

MCPairs ==
    {<<EmptyObject, EmptyObject>>, <<First, Second>>, <<EmptyObject, First>>,
     <<Second, EmptyObject>>, <<Second, Third>>, <<Third, First>>, <<Third, Third>>}
=============================================================================
