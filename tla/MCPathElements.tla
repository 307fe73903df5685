--------------------------- MODULE MCPathElements ---------------------------
(***************************************************************************)
(* Instances of PathElements for TLC.                                      *)
(***************************************************************************)
EXTENDS PathElements

One == <<"int", 1>>
Two == <<"int", 2>>
OneAsFloat == <<"float", 2>>
OneAndAHalf == <<"float", 3>>

Values ==
    {One, Two, OneAsFloat, OneAndAHalf, <<"string", 1>>, <<"string", 2>>,
     <<"bool", FALSE>>, <<"bool", TRUE>>, <<"null", 0>>}
    \cup {<<"list", l>> : l \in {<<>>, <<One>>, <<Two>>, <<OneAsFloat, Two>>}}
    \cup {<<"map", m>> : m \in {<<>>, <<One>>, <<One, Two>>, [k \in {2} |-> One]}}

Keys ==
    { << <<1, One>> >>, << <<1, Two>> >>, << <<2, One>> >>, << <<1, OneAsFloat>>, <<2, One>> >> }

AllElements ==
    {<<"field", 1>>, <<"field", 2>>, <<"index", 0>>, <<"index", 1>>}
    \cup {<<"key", k>> : k \in Keys} \cup {<<"value", v>> : v \in Values}
=============================================================================
