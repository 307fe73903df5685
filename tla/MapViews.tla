------------------------------ MODULE MapViews ------------------------------
(***************************************************************************)
(* The implementations of value.Map: a Go struct seen through reflection   *)
(* (value/structreflect.go, with the field paths that value/reflectcache.go *)
(* computes for its type), a Go map seen through reflection                *)
(* (value/mapreflect.go) and an unstructured map (value/mapunstructured.go). *)
(* Two objects, x and y, are each kept in all three forms, and whatever is *)
(* done to an object is done to its three forms.                           *)
(*                                                                         *)
(* A field of a struct is found by a path of indexes, through the inline   *)
(* structs it is in.  0 is the zero value of a field, and inline structs   *)
(* are not nil pointers.                                                   *)
(***************************************************************************)
EXTENDS GoSlices, FiniteSets, SequencesExt

CONSTANTS
    FieldsOf,  \* struct types: the sequences of their fields
    Root,      \* the type of the objects
    Name,      \* the keys, in their lexical order
    Values     \* values that are set, none of them the zero value

VARIABLES
    struct, gomap, unstructured,  \* the three forms of the objects
    cache                         \* the field paths of the type, computed once

vars == <<struct, gomap, unstructured, cache>>

Object == {"x", "y"}

View == {"struct", "gomap", "unstructured"}

Absent == -1

-----------------------------------------------------------------------------
(* buildStructCacheEntry.  field.Index is appended to the path for every   *)
(* field, inline ones and others.                                          *)
RECURSIVE BuildStructCacheEntry(_, _, _, _)
BuildStructCacheEntry(st, t, i, fieldPath) ==
    IF i > Len(FieldsOf[t]) THEN st
    ELSE LET f    == FieldsOf[t][i]
             mem  == AppendMem(st.mem, fieldPath, <<i>>)
             path == AppendSlice(st.mem, fieldPath, <<i>>)
             next == CASE f.tag = "-" -> st
                       [] f.tag = "inline" ->
                            BuildStructCacheEntry([st EXCEPT !.mem = mem], f.type, 1, path)
                       [] OTHER ->
                            [mem |-> mem,
                             infos |-> [n \in DOMAIN st.infos \cup {f.name} |->
                                          IF n = f.name
                                          THEN [fieldPath |-> path, isOmitEmpty |-> f.tag = "omitempty"]
                                          ELSE st.infos[n]]]
         IN  BuildStructCacheEntry(next, t, i + 1, fieldPath)

TypeReflectEntryOf ==
    BuildStructCacheEntry([mem |-> <<>>, infos |-> [n \in {} |-> 0]], Root, 1, NilSlice)

Fields == cache.infos

(* The index paths of the fields that are neither inline nor left out. *)
RECURSIVE Locations(_)
Locations(t) ==
    UNION {CASE FieldsOf[t][i].tag = "-" -> {}
             [] FieldsOf[t][i].tag = "inline" ->
                  {<<<<i>>>> \o p : p \in Locations(FieldsOf[t][i].type)}
             [] OTHER -> {<<<<i>>>>} : i \in DOMAIN FieldsOf[t]}

(* FieldCacheEntry.GetFrom *)
Location(n) == Content(cache.mem, Fields[n].fieldPath)

(* Mutant: zero values are omitted without omitempty, too. *)
CanOmitZero(n, v) == v = 0

CanOmit(n, v) == Fields[n].isOmitEmpty /\ v = 0

-----------------------------------------------------------------------------
(* Get, for the keys that Has reports. *)
StructKeys(s) == {n \in DOMAIN Fields : ~CanOmit(n, s[Location(n)])}

Keys(view, o) ==
    CASE view = "struct" -> StructKeys(struct[o])
      [] view = "gomap"  -> DOMAIN gomap[o]
      [] OTHER           -> DOMAIN unstructured[o]

Get(view, o, n) ==
    IF n \notin Keys(view, o) THEN Absent
    ELSE CASE view = "struct" -> struct[o][Location(n)]
           [] view = "gomap"  -> gomap[o][n]
           [] OTHER           -> unstructured[o][n]

Length(view, o) == Cardinality(Keys(view, o))

Call(v, o, w, p, n) == <<n, Get(v, o, n), Get(w, p, n)>>

Calls(v, o, w, p, keys) == [i \in DOMAIN keys |-> Call(v, o, w, p, keys[i])]

(* Keys in lexical order: OrderedFields, sort.Strings. *)
Sorted(keys) == SelectSeq(Name, LAMBDA n : n \in keys)

(* structZip: the fields that are not omitted on both sides. *)
StructZip(o, p) ==
    Calls("struct", o, "struct", p, Sorted(StructKeys(struct[o]) \cup StructKeys(struct[p])))

(* unorderedReflectZip: the entries of the right map, then those of the    *)
(* left one that were not visited.                                         *)
UnorderedReflectZip(o, p) ==
    Calls("gomap", o, "gomap", p,
          SetToSeq(Keys("gomap", p)) \o SetToSeq(Keys("gomap", o) \ Keys("gomap", p)))

(* Mutant: the right map's entries are not looked up in the left one. *)
UnorderedMapZipAll(v, o, w, p) ==
    Calls(v, o, w, p, SetToSeq(Keys(v, o)) \o SetToSeq(Keys(w, p)))

(* unorderedMapZip: the entries of the left map, then those of the right   *)
(* one that the left one does not have.                                    *)
UnorderedMapZip(v, o, w, p) ==
    Calls(v, o, w, p, SetToSeq(Keys(v, o)) \o SetToSeq(Keys(w, p) \ Keys(v, o)))

(* lexicalKeyOrderedMapZip *)
LexicalKeyOrderedMapZip(v, o, w, p) ==
    Calls(v, o, w, p, Sorted(Keys(v, o) \cup Keys(w, p)))

(* The calls that Zip makes. *)
MapZip(v, o, w, p, order) ==
    CASE v = "struct" /\ w = "struct" -> StructZip(o, p)
      [] v = "gomap" /\ w = "gomap" /\ order = "unordered" -> UnorderedReflectZip(o, p)
      [] order = "unordered" -> UnorderedMapZip(v, o, w, p)
      [] OTHER -> LexicalKeyOrderedMapZip(v, o, w, p)

(* MapEquals *)
MapEquals(v, o, w, p) ==
    /\ Length(v, o) = Length(w, p)
    /\ \A c \in ToSet(MapZip(v, o, w, p, "unordered")) :
         c[2] # Absent /\ c[3] # Absent /\ c[2] = c[3]

(* Mutant: the lengths are not compared. *)
EqualsWithoutLength(v, o, w, p) ==
    \A n \in Keys(w, p) : Get(v, o, n) # Absent /\ Get(v, o, n) = Get(w, p, n)

(* The loop over the entries of the other map. *)
EntriesEqual(v, o, w, p) ==
    /\ Length(v, o) = Length(w, p)
    /\ \A n \in Keys(w, p) : Get(v, o, n) # Absent /\ Get(v, o, n) = Get(w, p, n)

(* Equals: MapEquals for structs, the loop for the others. *)
Equals(v, o, w, p) ==
    IF v = "struct" THEN MapEquals(v, o, w, p) ELSE EntriesEqual(v, o, w, p)

-----------------------------------------------------------------------------
(* Set and Delete. *)
With(m, n, v) == [k \in DOMAIN m \cup {n} |-> IF k = n THEN v ELSE m[k]]

Without(m, n) == [k \in DOMAIN m \ {n} |-> m[k]]

(* Mutant: a new struct with only that field set takes the struct's place. *)
UpdateReplaced(s, n, v) == [l \in DOMAIN s |-> IF l = Location(n) THEN v ELSE 0]

(* structReflect.update, for a struct that is settable: its root is a      *)
(* pointer, and it is not an item of a map.                                *)
Update(s, n, v) == [s EXCEPT ![Location(n)] = v]

Set(o, n, v) ==
    /\ struct' = [struct EXCEPT ![o] = Update(@, n, v)]
    /\ gomap' = [gomap EXCEPT ![o] = With(@, n, v)]
    /\ unstructured' = [unstructured EXCEPT ![o] = With(@, n, v)]
    /\ UNCHANGED cache

(* Delete panics for a field of a struct that is not omitted when empty. *)
Delete(o, n) ==
    /\ Fields[n].isOmitEmpty
    /\ struct' = [struct EXCEPT ![o] = Update(@, n, 0)]
    /\ gomap' = [gomap EXCEPT ![o] = Without(@, n)]
    /\ unstructured' = [unstructured EXCEPT ![o] = Without(@, n)]
    /\ UNCHANGED cache

(* structReflect.Unstructured: an unstructured copy of the struct. *)
Unstructured(o) ==
    /\ unstructured' = [unstructured EXCEPT ![o] = [n \in StructKeys(struct[o]) |-> Get("struct", o, n)]]
    /\ UNCHANGED <<struct, gomap, cache>>

Init ==
    /\ cache = TypeReflectEntryOf
    /\ struct = [o \in Object |-> [l \in Locations(Root) |-> 0]]
    /\ gomap = [o \in Object |-> [n \in {m \in DOMAIN Fields : ~Fields[m].isOmitEmpty} |-> 0]]
    /\ unstructured = gomap

Next ==
    \E o \in Object :
      \/ \E n \in DOMAIN Fields : (\E v \in Values : Set(o, n, v)) \/ Delete(o, n)
      \/ Unstructured(o)

Spec == Init /\ [][Next]_vars

-----------------------------------------------------------------------------
(* The three forms of an object are the same map, whatever was set and     *)
(* deleted before.                                                         *)
ViewsAgree ==
    \A o \in Object, v, w \in View :
      /\ Keys(v, o) = Keys(w, o)
      /\ \A n \in Keys(v, o) : Get(v, o, n) = Get(w, o, n)

(* Whatever forms the two maps have, Zip calls back once for every key of  *)
(* either map, with the values of both, and in lexical order when asked.   *)
ZipJoinsMaps ==
    \A v, w \in View : \A order \in {"unordered", "lexical"} :
      LET calls == MapZip(v, "x", w, "y", order)
          keys  == [i \in DOMAIN calls |-> calls[i][1]]
          all   == Keys("unstructured", "x") \cup Keys("unstructured", "y")
      IN  /\ ToSet(calls) = {Call("unstructured", "x", "unstructured", "y", n) : n \in all}
          /\ Len(calls) = Cardinality(all)
          /\ order = "lexical" => keys = Sorted(all)

(* Whatever forms the two maps have, Equals decides whether they have the  *)
(* same keys with the same values.                                         *)
EqualsDecidesEquality ==
    \A v, w \in View : Equals(v, "x", w, "y") <=> unstructured["x"] = unstructured["y"]

Shown(o) == [n \in StructKeys(struct[o]) |-> Get("struct", o, n)]

OneKeyChanged ==
    \A o \in Object : Shown(o)' # Shown(o) =>
      \E n \in DOMAIN Fields :
        \A m \in DOMAIN Fields \ {n} :
          /\ m \in DOMAIN Shown(o) <=> m \in DOMAIN Shown(o)'
          /\ m \in DOMAIN Shown(o) => Shown(o)[m] = Shown(o)'[m]

(* "Set changes or set the value of the given key", and of that key only;  *)
(* likewise Delete.                                                        *)
OneKeyChanges == [][OneKeyChanged]_vars
=============================================================================
