---------------------------- MODULE PathElements ----------------------------
(***************************************************************************)
(* Path elements and the values inside them: how package value and package *)
(* fieldpath order them, compare them and write them as JSON.  The sorted  *)
(* slice of a PathElementSet lives on that order, which binary search      *)
(* relies on (module SortedSet takes the order for granted).               *)
(*                                                                         *)
(* A value is a pair of its kind and its content; strings and names stand  *)
(* as numbers in their order, and the content of a float is its double, so *)
(* that halves are floats too.                                             *)
(***************************************************************************)
EXTENDS Integers, Sequences, FiniteSets, FiniteSetsExt

CONSTANTS
    Elements,    \* path elements that are inserted and looked up
    MaxInserts,  \* bound on the number of elements inserted
    Mantissa     \* bits of the mantissa of a float (53 in Go)

VARIABLES
    members,   \* PathElementSet.members
    inserted   \* what has been inserted

vars == <<members, inserted>>

Kind(v) == v[1]
Content(v) == v[2]

Sign(n) == IF n < 0 THEN -1 ELSE IF n > 0 THEN 1 ELSE 0

(* int64 to float64, up to 2^(Mantissa + 1): nearest, ties to even. *)
Rounded(n) ==
    IF n <= 2^Mantissa \/ n % 2 = 0 THEN n
    ELSE IF (n - 1) % 4 = 0 THEN n - 1 ELSE n + 1

AsFloat(v) == IF Kind(v) = "int" THEN 2 * Rounded(Content(v)) ELSE Content(v)

(* The kinds in the order in which CompareUsing looks at them. *)
Rank(v) ==
    CASE Kind(v) \in {"float", "int"} -> 1
      [] Kind(v) = "string" -> 2
      [] Kind(v) = "bool" -> 3
      [] Kind(v) = "list" -> 4
      [] Kind(v) = "map" -> 5
      [] Kind(v) = "null" -> 6

NumberCompare(l, r) ==
    IF Kind(l) = "int" /\ Kind(r) = "int" THEN Sign(Content(l) - Content(r))
    ELSE Sign(AsFloat(l) - AsFloat(r))

BoolCompare(l, r) == IF l = r THEN 0 ELSE IF l = FALSE THEN -1 ELSE 1

(* Two sequences, whose items compare as in cs, by the first items that    *)
(* differ, or else by length.                                              *)
Lexical(cs, l, r) ==
    LET differs == {k \in DOMAIN cs : cs[k] # 0}
    IN  IF differs = {} THEN Sign(Len(l) - Len(r)) ELSE cs[Min(differs)]

RECURSIVE Compare(_, _)

ListCompare(l, r) ==
    Lexical([k \in DOMAIN l \cap DOMAIN r |-> Compare(l[k], r[k])], l, r)

(* Mutant: the map with more keys is the greater one at a key that only    *)
(* one of them has.                                                        *)
MapCompareBySize(l, r) ==
    LET both == DOMAIN l \cap DOMAIN r
        differs == {k \in DOMAIN l \cup DOMAIN r : k \in both => Compare(l[k], r[k]) # 0}
        first == Min(differs)
    IN  IF differs = {} THEN 0
        ELSE IF first \in both THEN Compare(l[first], r[first])
        ELSE Sign(Cardinality(DOMAIN l) - Cardinality(DOMAIN r))

(* MapCompareUsing zips the maps in the order of their keys and stops at   *)
(* the first difference; i is the position of key k in the zip.            *)
MapCompare(l, r) ==
    LET keys == DOMAIN l \cup DOMAIN r
        At(k) ==
            LET i == Cardinality({j \in keys : j < k})
            IN  IF i = Cardinality(DOMAIN l) THEN -1
                ELSE IF i = Cardinality(DOMAIN r) \/ k \notin DOMAIN l THEN 1
                ELSE IF k \notin DOMAIN r THEN -1
                ELSE Compare(l[k], r[k])
        differs == {k \in keys : At(k) # 0}
    IN  IF differs = {} THEN 0 ELSE At(Min(differs))

Compare(l, r) ==
    IF Rank(l) # Rank(r) THEN Sign(Rank(l) - Rank(r))
    ELSE CASE Rank(l) = 1 -> NumberCompare(l, r)
           [] Rank(l) = 2 -> Sign(Content(l) - Content(r))
           [] Rank(l) = 3 -> BoolCompare(Content(l), Content(r))
           [] Rank(l) = 4 -> ListCompare(Content(l), Content(r))
           [] Rank(l) = 5 -> MapCompare(Content(l), Content(r))
           [] Rank(l) = 6 -> 0

RECURSIVE Equals(_, _)

ListEquals(l, r) == Len(l) = Len(r) /\ \A k \in DOMAIN l : Equals(l[k], r[k])

MapEquals(l, r) == DOMAIN l = DOMAIN r /\ \A k \in DOMAIN l : Equals(l[k], r[k])

(* Mutant: an integer never equals a float. *)
NumberEqualsOfKind(l, r) == Kind(l) = Kind(r) /\ Content(l) = Content(r)

NumberEquals(l, r) ==
    IF Kind(l) = "int" /\ Kind(r) = "int" THEN Content(l) = Content(r)
    ELSE AsFloat(l) = AsFloat(r)

Equals(l, r) ==
    /\ Rank(l) = Rank(r)
    /\ CASE Rank(l) = 1 -> NumberEquals(l, r)
         [] Rank(l) \in {2, 3} -> Content(l) = Content(r)
         [] Rank(l) = 4 -> ListEquals(Content(l), Content(r))
         [] Rank(l) = 5 -> MapEquals(Content(l), Content(r))
         [] Rank(l) = 6 -> TRUE

-----------------------------------------------------------------------------
(* A path element is a field name, a key (a list of names with values, in  *)
(* the order of the names), a value or an index.                           *)
PERank(pe) ==
    CASE pe[1] = "field" -> 1 [] pe[1] = "key" -> 2 [] pe[1] = "value" -> 3 [] pe[1] = "index" -> 4

FieldCompare(f, g) == IF f[1] # g[1] THEN Sign(f[1] - g[1]) ELSE Compare(f[2], g[2])

FieldListCompare(l, r) ==
    Lexical([k \in DOMAIN l \cap DOMAIN r |-> FieldCompare(l[k], r[k])], l, r)

PECompare(x, y) ==
    IF PERank(x) # PERank(y) THEN Sign(PERank(x) - PERank(y))
    ELSE CASE PERank(x) = 2 -> FieldListCompare(x[2], y[2])
           [] PERank(x) = 3 -> Compare(x[2], y[2])
           [] OTHER -> Sign(x[2] - y[2])

FieldListEquals(l, r) ==
    /\ Len(l) = Len(r)
    /\ \A k \in DOMAIN l : l[k][1] = r[k][1] /\ Equals(l[k][2], r[k][2])

PEEquals(x, y) ==
    /\ PERank(x) = PERank(y)
    /\ CASE PERank(x) = 2 -> FieldListEquals(x[2], y[2])
         [] PERank(x) = 3 -> Equals(x[2], y[2])
         [] OTHER -> x[2] = y[2]

Less(x, y) == PECompare(x, y) < 0

(* sort.Search: the index, from 0, of the first item that is not less. *)
RECURSIVE SearchFrom(_, _, _, _)
SearchFrom(q, pe, i, j) ==
    LET h == (i + j) \div 2
    IN  IF i >= j THEN i
        ELSE IF Less(q[h + 1], pe) THEN SearchFrom(q, pe, h + 1, j)
        ELSE SearchFrom(q, pe, i, h)

Search(q, pe) == SearchFrom(q, pe, 0, Len(q))

Has(q, pe) ==
    LET loc == Search(q, pe)
    IN  loc < Len(q) /\ PEEquals(q[loc + 1], pe)

(* Mutant: the element goes after the one that was found. *)
InsertAfter(q, pe) ==
    LET loc == Search(q, pe)
    IN  IF loc < Len(q) /\ PEEquals(q[loc + 1], pe) THEN q
        ELSE IF loc = Len(q) THEN Append(q, pe)
        ELSE SubSeq(q, 1, loc + 1) \o <<pe>> \o SubSeq(q, loc + 2, Len(q))

InsertInto(q, pe) ==
    LET loc == Search(q, pe)
    IN  IF loc < Len(q) /\ PEEquals(q[loc + 1], pe) THEN q
        ELSE SubSeq(q, 1, loc) \o <<pe>> \o SubSeq(q, loc + 1, Len(q))

(* ToJSON and back: every number is read as a float. *)
RECURSIVE ReadBack(_)
ReadBack(v) ==
    CASE Kind(v) = "int"  -> <<"float", AsFloat(v)>>
      [] Kind(v) = "list" -> <<"list", [k \in DOMAIN Content(v) |-> ReadBack(Content(v)[k])]>>
      [] Kind(v) = "map"  -> <<"map", [k \in DOMAIN Content(v) |-> ReadBack(Content(v)[k])]>>
      [] OTHER -> v

Deserialized(pe) ==
    CASE pe[1] = "key"   -> <<"key", [k \in DOMAIN pe[2] |-> <<pe[2][k][1], ReadBack(pe[2][k][2])>>]>>
      [] pe[1] = "value" -> <<"value", ReadBack(pe[2])>>
      [] OTHER -> pe

(* readIterV1 appends what comes in order and inserts the rest. *)
AppendOrInsert(q, pe) ==
    IF q = <<>> \/ Less(q[Len(q)], pe) THEN Append(q, pe) ELSE InsertInto(q, pe)

RECURSIVE Reloaded(_)
Reloaded(q) ==
    IF q = <<>> THEN <<>>
    ELSE AppendOrInsert(Reloaded(SubSeq(q, 1, Len(q) - 1)), Deserialized(q[Len(q)]))

-----------------------------------------------------------------------------
Init == members = <<>> /\ inserted = {}

Insert(pe) ==
    /\ Cardinality(inserted) < MaxInserts
    /\ members' = InsertInto(members, pe)
    /\ inserted' = inserted \cup {pe}

Reload == members' = Reloaded(members) /\ UNCHANGED inserted

Next == (\E pe \in Elements : Insert(pe)) \/ Reload

Spec == Init /\ [][Next]_vars

-----------------------------------------------------------------------------
(* Compare is a total order of path elements that agrees with Equals: it   *)
(* is antisymmetric, transitive, and 0 exactly on equal elements.          *)
CompareIsTotalOrder ==
    \A x, y, z \in inserted :
        /\ PECompare(x, y) = - PECompare(y, x)
        /\ PECompare(x, y) = 0 <=> PEEquals(x, y)
        /\ PECompare(x, y) <= 0 /\ PECompare(y, z) <= 0 => PECompare(x, z) <= 0

(* A set holds what was inserted and nothing else, in whatever order that  *)
(* was, and also when it was written as JSON and read again meanwhile.     *)
FoundIffInserted ==
    \A pe \in Elements :
        Has(members, pe) <=> \E x \in inserted : PEEquals(x, pe)

(* The slice is strictly sorted whichever of the paths built it: binary    *)
(* search, or the shortcut of readIterV1 for elements that come in order.  *)
MembersInOrder ==
    \A k, l \in DOMAIN members : k < l => Less(members[k], members[l])
=============================================================================
