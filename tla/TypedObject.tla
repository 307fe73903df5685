---------------------------- MODULE TypedObject ----------------------------
(***************************************************************************)
(* Typed objects and the operations of package typed on them: Compare,     *)
(* Merge, RemoveItems, ToFieldSet and ReconcileFieldSetWithSchema, with    *)
(* the operations of fieldpath.Set they need.                              *)
(*                                                                         *)
(* An object is flattened: it is a function from the paths it contains to  *)
(* the values found there.  Its domain is closed under prefixes.  A path   *)
(* is a node of the schema's tree and Above[p] is the set of its proper    *)
(* prefixes; the root, whose ownership nobody tracks, is not a path.  A    *)
(* field set is a set of paths (module FieldSet is about the trie).        *)
(***************************************************************************)
EXTENDS Naturals

CONSTANTS
    Path,    \* the paths of the schema, without the root
    Above,   \* Above[p]: the proper prefixes of p
    Kind,    \* Kind[p]: "scalar", "map" or "list"
    Named,   \* the paths that are declared fields of a struct; the others
             \* are list items and keys of maps
    Scalar,  \* values of scalar fields
    Dup      \* what two or more list items with one path element hold

Null == "null"
Obj  == "obj"     \* a map or a list; its contents are the paths below it

ASSUME PathAssumption ==
    /\ Above \in [Path -> SUBSET Path]
    /\ \A p \in Path : p \notin Above[p]
    /\ \A p, q \in Path : q \in Above[p] => Above[q] \subseteq Above[p]
    /\ Kind \in [Path -> {"scalar", "map", "list"}]
    /\ \A p \in Path : \A q \in Above[p] : Kind[q] # "scalar"
    /\ Named \subseteq Path

(* Paths are finite: of some prefixes of a path, one is the shortest. *)
ASSUME PrefixAssumption ==
    \A p \in Path : \A S \in SUBSET Above[p] :
        S # {} => \E q \in S : Above[q] \cap S = {}

(* Prefixes of a path are prefixes of each other, and there are no endless *)
(* branches: the tree has the paths that finitely many objects have.       *)
ASSUME TreeAssumption ==
    /\ \A p \in Path : \A q, r \in Above[p] : q = r \/ q \in Above[r] \/ r \in Above[q]
    /\ \A S \in SUBSET Path : S # {} => \E q \in S : \A r \in S : q \notin Above[r]

ASSUME ValueAssumption ==
    /\ Null \notin Scalar \cup Dup
    /\ Obj \notin Scalar \cup Dup
    /\ Scalar \cap Dup = {}

Below(o, p) == {q \in DOMAIN o : p \in Above[q]}

UpTo(p) == Above[p] \cup {p}

(* An object that the schema admits.  Items with the same path element are *)
(* one path whose value in Dup stands for all of them; they are compared   *)
(* as one leaf, so nothing is recorded below.                              *)
IsObject(o) ==
    /\ DOMAIN o \subseteq Path
    /\ o = [p \in DOMAIN o |-> o[p]]
    /\ \A p \in DOMAIN o :
         /\ Above[p] \subseteq DOMAIN o
         /\ \/ Kind[p] = "scalar" /\ o[p] \in Scalar
            \/ Kind[p] # "scalar" /\ o[p] = Obj
            \/ o[p] = Null
            \/ p \notin Named /\ o[p] \in Dup
         /\ o[p] # Obj => Below(o, p) = {}

EmptyObject == [p \in {} |-> Null]

(* ToFieldSet makes nobody the owner of an empty list. *)
NoEmptyLists(o) ==
    \A p \in DOMAIN o : Kind[p] = "list" /\ o[p] = Obj => Below(o, p) # {}

-----------------------------------------------------------------------------
(* Field sets.  Union, Intersection and Difference are \cup, \cap and \.   *)

(* Drops the members of T and everything below them from S. *)
RecursiveDifference(S, T) == {p \in S : UpTo(p) \cap T = {}}

(* S with the struct fields on the way to its members. *)
EnsureNamedFieldsAreMembers(S) ==
    S \cup {q \in Named : \E p \in S : q \in Above[p]}

-----------------------------------------------------------------------------
(* In what follows, at is the set of the paths that the schema in force    *)
(* marks as atomic.                                                        *)

IsLeaf(at, p) == Kind[p] = "scalar" \/ p \in at

(* The walkers do not descend into atomic maps and lists. *)
Visible(at, S) == {p \in S : Above[p] \cap at = {}}

ToFieldSet(at, o) ==
    {p \in Visible(at, DOMAIN o) :
        \/ IsLeaf(at, p)
        \/ p \notin Named
        \/ o[p] = Null
        \/ Kind[p] = "map" /\ Below(o, p) = {}}

SameValue(l, r, p) ==
    /\ l[p] = r[p]
    /\ Below(l, p) = Below(r, p)
    /\ \A q \in Below(l, p) : l[q] = r[q]

(* Items that are duplicated on one side only. *)
Flipped(at, l, r) ==
    {p \in Visible(at, DOMAIN l \cap DOMAIN r) : (l[p] \in Dup) # (r[p] \in Dup)}

(* A path where both sides are empty is compared as a leaf. *)
Modified(at, l, r) ==
    {p \in Visible(at, DOMAIN l \cap DOMAIN r) :
        /\ IsLeaf(at, p) \/ Below(l, p) \cup Below(r, p) = {}
        /\ ~SameValue(l, r, p)}

Compare(at, l, r) ==
    LET flip == Flipped(at, l, r)
    IN  [removed  |-> Visible(at, DOMAIN l \ DOMAIN r) \cup flip,
         added    |-> Visible(at, DOMAIN r \ DOMAIN l) \cup flip,
         modified |-> Modified(at, l, r) \ flip]

ExcludeFields(cmp, fields) ==
    [removed  |-> RecursiveDifference(cmp.removed, fields),
     added    |-> RecursiveDifference(cmp.added, fields),
     modified |-> RecursiveDifference(cmp.modified, fields)]

(* Mutant: atomic maps and lists are merged like the others. *)
KeptInAtomic(at, l, r) == DOMAIN l

(* What l has and Merge does not drop: an atomic map or list of r replaces *)
(* that of l.                                                              *)
Kept(at, l, r) == {p \in DOMAIN l : Above[p] \cap at \cap DOMAIN r = {}}

(* Mutant: a null of r stays although l has contents to keep there. *)
MergeKeepsNull(at, l, r) ==
    [p \in Kept(at, l, r) \cup DOMAIN r |-> IF p \in DOMAIN r THEN r[p] ELSE l[p]]

(* r wins on leaves; its nulls and empty containers do not erase what l    *)
(* has below them.                                                         *)
Merge(at, l, r) ==
    LET dom == Kept(at, l, r) \cup DOMAIN r
    IN  [p \in dom |-> IF p \notin DOMAIN r THEN l[p]
                       ELSE IF \E q \in dom : p \in Above[q] THEN Obj
                       ELSE r[p]]

(* The walker enters exactly the containers with a member of S below them. *)
(* An atomic one that it enters is emptied, and a container left without   *)
(* contents by the walk becomes null.                                      *)
RemoveItems(at, o, S) ==
    LET walked == {p \in Path : \E s \in S : p \in Above[s]}
        kept   == {p \in DOMAIN o : /\ UpTo(p) \cap S = {}
                                    /\ Above[p] \cap at \cap walked = {}}
    IN  [p \in kept |-> IF /\ p \in walked
                           /\ Kind[p] # "scalar"
                           /\ \A q \in kept : p \notin Above[q]
                        THEN Null
                        ELSE o[p]]

(* Mutant: what became atomic is not looked for. *)
NothingNowAtomic(at, S) == {}

(* The atomic maps and lists that S owns fields below. *)
NowAtomic(at, S) == {a \in Visible(at, at) : \E s \in S : a \in Above[s]}

(* A set that owns fields below what is now atomic owns the atomic field   *)
(* instead.  Sets that own a field that is now granular stay as they are.  *)
ReconcileFieldSetWithSchema(at, S) ==
    RecursiveDifference(S, NowAtomic(at, S)) \cup NowAtomic(at, S)
=============================================================================
