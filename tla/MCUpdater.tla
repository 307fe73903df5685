----------------------------- MODULE MCUpdater -----------------------------
(***************************************************************************)
(* Instances of Updater for TLC.                                           *)
(***************************************************************************)
EXTENDS Updater

OneVersion == {"v1"}
SameNames == [v \in Version |-> [p \in Path |-> p]]
NothingIgnored == [v \in Version |-> {}]
Digits == {"1", "2"}
Granular == {{}}
NoDups == {}

AllObjects ==
    {o \in UNION {[D -> {Null, Obj} \cup Scalar \cup Dup] : D \in SUBSET Path} :
        IsObject(o)}

-----------------------------------------------------------------------------
(* A list with one item, a map with a key and a value.  The item may be    *)
(* duplicated.                                                             *)
ListPath == {"l", "i", "ik", "iv"}
ListAbove == [p \in ListPath |-> CASE p = "l" -> {}
                                   [] p = "i" -> {"l"}
                                   [] OTHER   -> {"l", "i"}]
ListKind == [p \in ListPath |-> CASE p = "l" -> "list"
                                  [] p = "i" -> "map"
                                  [] OTHER   -> "scalar"]
ListNamed == {"l", "ik", "iv"}
ListDups == {"twice"}
ListObjects ==
    {o \in AllObjects :
        /\ NoEmptyLists(o)
        /\ "ik" \in DOMAIN o => o["ik"] = "1"
        /\ "i" \in DOMAIN o => o["i"] # Null /\ (o["i"] = Obj => "ik" \in DOMAIN o)}
ListConfigs == {o \in ListObjects : \A p \in DOMAIN o : o[p] \notin Dup}
ListSchemas == {{}, {"l"}}
ListUpdates == {<<"u", "v1">>, <<"b", "v1">>}
ListApplies == {<<"a", "v1">>, <<"b", "v1">>}

-----------------------------------------------------------------------------
(* Three versions of which the second has swapped the names of the fields  *)
(* f and g.  Version v2 ignores f.                                         *)
ThreeVersions == {"v1", "v2", "v3"}
FieldPath == {"f", "g"}
FlatAbove == [p \in Path |-> {}]
AllScalars == [p \in Path |-> "scalar"]
SwapInV2 ==
    [v \in Version |->
        [p \in Path |-> IF v = "v2" /\ p \in {"f", "g"}
                        THEN CHOOSE q \in {"f", "g"} : q # p ELSE p]]
IgnoreF == [v \in Version |-> IF v = "v2" THEN {"f"} ELSE {}]
FieldUpdates == {<<"u", "v3">>, <<"b", "v2">>}
FieldApplies == {<<"a", "v1">>, <<"a", "v2">>, <<"b", "v2">>}
FieldObjects == {o \in AllObjects : \A p \in DOMAIN o : o[p] # Null}
=============================================================================
