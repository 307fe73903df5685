----------------------------- MODULE MCMapViews -----------------------------
(***************************************************************************)
(* Struct types for MapViews.                                              *)
(***************************************************************************)
EXTENDS MapViews

Plain(n) == [name |-> n, tag |-> "omitempty", type |-> ""]
Always(n) == [name |-> n, tag |-> "", type |-> ""]
Inline(t) == [name |-> "", tag |-> "inline", type |-> t]
LeftOut == [name |-> "", tag |-> "-", type |-> ""]

(* A struct with a struct inlined in it that has another one inlined. *)
Names == <<"a", "b", "c", "d">>
TwoLevels ==
    [Outer |-> <<LeftOut, Always("a"), Inline("Middle")>>,
     Middle |-> <<Plain("b"), Inline("Inner")>>,
     Inner |-> <<Plain("c"), Plain("d")>>]

(* The same with one more struct in between. *)
ThreeLevels ==
    [Outer |-> <<LeftOut, Inline("Middle")>>,
     Middle |-> <<Plain("b"), Inline("Between")>>,
     Between |-> <<Plain("a"), Inline("Inner")>>,
     Inner |-> <<Plain("c"), Plain("d")>>]
=============================================================================
