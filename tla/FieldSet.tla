------------------------------ MODULE FieldSet ------------------------------
(***************************************************************************)
(* fieldpath.Set: a trie.  A node has members, the path elements that end  *)
(* a path there, and children, the nodes further down.  The sorted slices  *)
(* of the code are sets and functions here; module SortedSet is about      *)
(* their order.  Two sets a and b are kept, and every operation but Swap   *)
(* replaces a by its result.                                               *)
(*                                                                         *)
(* The nodes of a result may be nodes of the operands.  A place is a set,  *)
(* "a" or "b", with the path to one of its nodes, and same says which      *)
(* places hold the same node, so that what Insert does to a node shows     *)
(* wherever the node is.                                                   *)
(***************************************************************************)
EXTENDS SequencesExt

CONSTANTS
    Elem,   \* path elements
    Inputs, \* paths that are inserted
    Named   \* paths that the schema declares as fields of a struct

ASSUME /\ \A p \in Inputs \cup Named : p \in Seq(Elem)
       /\ <<>> \notin Named

VARIABLES
    a, b,
    same,  \* pairs of different places with one node
    open   \* the sets that are under construction

vars == <<a, b, same, open>>

NoChildren == [e \in {} |-> 0]
NewSet == [members |-> {}, children |-> NoChildren]

RECURSIVE Empty(_)
Empty(s) ==
    /\ s.members = {}
    /\ \A e \in DOMAIN s.children : Empty(s.children[e])

RECURSIVE Has(_, _)
Has(s, p) ==
    /\ Len(p) > 0
    /\ IF Len(p) = 1 THEN p[1] \in s.members
       ELSE p[1] \in DOMAIN s.children /\ Has(s.children[p[1]], Tail(p))

(* The paths that Iterate visits. *)
RECURSIVE Paths(_)
Paths(s) ==
    {<<e>> : e \in s.members} \cup
    UNION {{<<e>> \o p : p \in Paths(s.children[e])} : e \in DOMAIN s.children}

(* Mutant: the children do not count. *)
SizeOfMembers(s) == Cardinality(s.members)

RECURSIVE Size(_)
Size(s) ==
    Cardinality(s.members) + MapThenSumSet(LAMBDA e : Size(s.children[e]), DOMAIN s.children)

Descend(s, e) == IF e \in DOMAIN s.children THEN s.children[e] ELSE NewSet

RECURSIVE InsertPath(_, _)
InsertPath(s, p) ==
    CASE Len(p) = 0 -> s
      [] Len(p) = 1 -> [s EXCEPT !.members = @ \cup {p[1]}]
      [] OTHER -> [s EXCEPT !.children =
                     [e \in DOMAIN s.children \cup {p[1]} |->
                        IF e = p[1] THEN InsertPath(Descend(s, e), Tail(p))
                        ELSE s.children[e]]]

RECURSIVE UnionOf(_, _)
UnionOf(s, t) ==
    [members  |-> s.members \cup t.members,
     children |-> [e \in DOMAIN s.children \cup DOMAIN t.children |->
                     CASE e \notin DOMAIN t.children -> s.children[e]
                       [] e \notin DOMAIN s.children -> t.children[e]
                       [] OTHER -> UnionOf(s.children[e], t.children[e])]]

(* Mutant: nodes with no elements are added. *)
RECURSIVE IntersectionWithEmptyNodes(_, _)
IntersectionWithEmptyNodes(s, t) ==
    [members  |-> s.members \cap t.members,
     children |-> [e \in DOMAIN s.children \cap DOMAIN t.children |->
                     IntersectionWithEmptyNodes(s.children[e], t.children[e])]]

RECURSIVE IntersectionOf(_, _)
IntersectionOf(s, t) ==
    LET both  == DOMAIN s.children \cap DOMAIN t.children
        nodes == [e \in both |-> IntersectionOf(s.children[e], t.children[e])]
    IN  [members  |-> s.members \cap t.members,
         children |-> Restrict(nodes, {e \in both : ~Empty(nodes[e])})]

(* The children of s that t does not have stay as they are; nodes with no  *)
(* elements are not permitted.                                             *)
RECURSIVE DifferenceOf(_, _)
DifferenceOf(s, t) ==
    LET both  == DOMAIN s.children \cap DOMAIN t.children
        nodes == [e \in both |-> DifferenceOf(s.children[e], t.children[e])]
    IN  [members  |-> s.members \ t.members,
         children |-> [e \in {d \in DOMAIN s.children : d \in both => ~Empty(nodes[d])} |->
                         IF e \in both THEN nodes[e] ELSE s.children[e]]]

RECURSIVE RecursiveDifferenceOf(_, _)
RecursiveDifferenceOf(s, t) ==
    LET kept  == DOMAIN s.children \ t.members
        both  == kept \cap DOMAIN t.children
        nodes == [e \in both |-> RecursiveDifferenceOf(s.children[e], t.children[e])]
    IN  [members  |-> s.members \ t.members,
         children |-> [e \in {d \in kept : d \in both => ~Empty(nodes[d])} |->
                         IF e \in both THEN nodes[e] ELSE s.children[e]]]

(* Members that are not also children are leaves. *)
RECURSIVE LeavesOf(_)
LeavesOf(s) ==
    [members  |-> s.members \ DOMAIN s.children,
     children |-> [e \in DOMAIN s.children |-> LeavesOf(s.children[e])]]

(* prefix is the path to s, by which the schema knows the fields of s. *)
RECURSIVE EnsureNamed(_, _)
EnsureNamed(s, prefix) ==
    [members  |-> s.members \cup
                    {e \in DOMAIN s.children : Append(prefix, e) \in Named},
     children |-> [e \in DOMAIN s.children |->
                     EnsureNamed(s.children[e], Append(prefix, e))]]

-----------------------------------------------------------------------------
(* Serialization.  A JSON object is a field "." that is there or not, and  *)
(* an object per path element.                                             *)

RECURSIVE EmitContentsV1(_, _)
EmitContentsV1(s, includeSelf) ==
    [dot  |-> includeSelf /\ ~(s.members = {} /\ DOMAIN s.children = {}),
     keys |-> [e \in s.members \cup DOMAIN s.children |->
                 IF e \in DOMAIN s.children
                 THEN EmitContentsV1(s.children[e], e \in s.members)
                 ELSE [dot |-> FALSE, keys |-> NoChildren]]]

(* The second result of readIterV1: the object is also, or only, a member. *)
IsMember(json) == json.dot \/ DOMAIN json.keys = {}

(* Its first result; a nil set is a NewSet that the caller leaves out. *)
RECURSIVE ReadIterV1(_)
ReadIterV1(json) ==
    [members  |-> {e \in DOMAIN json.keys : IsMember(json.keys[e])},
     children |-> [e \in {k \in DOMAIN json.keys : DOMAIN json.keys[k].keys # {}} |->
                     ReadIterV1(json.keys[e])]]

-----------------------------------------------------------------------------
(* Nodes and who has them. *)

RECURSIVE Nodes(_)
Nodes(s) ==
    {<<>>} \cup UNION {{<<e>> \o p : p \in Nodes(s.children[e])} : e \in DOMAIN s.children}

Fresh == <<"new", <<>>>>

(* The places that have one node after a step, from where the nodes at the *)
(* places come from.                                                       *)
SameAfter(places, Origin) ==
    {<<x, y>> \in places \X places :
       /\ x # y /\ Origin[x] # Fresh /\ Origin[y] # Fresh
       /\ Origin[x] = Origin[y] \/ <<Origin[x], Origin[y]>> \in same}

(* a becomes r, whose nodes come from the places that from gives. *)
Become(r, from) ==
    LET mine   == {<<"a", p>> : p \in Nodes(r)}
        others == {<<"b", p>> : p \in Nodes(b)}
    IN  /\ a' = r
        /\ same' = SameAfter(mine \cup others,
                             [x \in mine \cup others |-> IF x[1] = "a" THEN from[x[2]] ELSE x])
        /\ UNCHANGED b

AllNew(r) == [p \in Nodes(r) |-> Fresh]

(* Nodes that both operands have are made anew. *)
Shared(r) ==
    [p \in Nodes(r) |->
       IF p \in Nodes(a) \cap Nodes(b) THEN Fresh
       ELSE IF p \in Nodes(a) THEN <<"a", p>> ELSE <<"b", p>>]

RECURSIVE InsertBelow(_, _, _)
InsertBelow(s, q, p) ==
    IF q = <<>> THEN InsertPath(s, p)
    ELSE [s EXCEPT !.children[q[1]] = InsertBelow(@, Tail(q), p)]

(* What becomes of the set t when p is inserted into a: the last node on   *)
(* the way of p that is there already is changed, wherever it is.          *)
AfterInsert(t, s, p) ==
    LET k == CHOOSE n \in 0 .. Len(p) - 1 :
               /\ SubSeq(p, 1, n) \in Nodes(a)
               /\ \A m \in n + 1 .. Len(p) - 1 : SubSeq(p, 1, m) \notin Nodes(a)
        here == <<"a", SubSeq(p, 1, k)>>
        there == {q \in Nodes(s) : <<t, q>> = here \/ <<here, <<t, q>>>> \in same}
    IN  FoldSet(LAMBDA q, r : InsertBelow(r, q, SubSeq(p, k + 1, Len(p))), s, there)

-----------------------------------------------------------------------------
Init == a = NewSet /\ b = NewSet /\ same = {} /\ open = {"a", "b"}

(* NewSet() *)
New == Become(NewSet, AllNew(NewSet)) /\ open' = open \cup {"a"}

(* Mutant: paths are inserted into any set. *)
AnySet == TRUE

(* The code inserts paths into sets that it has made and not used yet: the *)
(* walkers of package typed, NewSet and readIterV1.                        *)
UnderConstruction == "a" \in open

Insert(p) ==
    /\ UnderConstruction
    /\ IF p = <<>> THEN UNCHANGED <<a, b>>
       ELSE a' = AfterInsert("a", a, p) /\ b' = AfterInsert("b", b, p)
    /\ UNCHANGED <<same, open>>

Union == Become(UnionOf(a, b), Shared(UnionOf(a, b))) /\ open' = {}

Intersection ==
    Become(IntersectionOf(a, b), AllNew(IntersectionOf(a, b))) /\ open' = {}

Difference == Become(DifferenceOf(a, b), Shared(DifferenceOf(a, b))) /\ open' = {}

RecursiveDifference ==
    Become(RecursiveDifferenceOf(a, b), Shared(RecursiveDifferenceOf(a, b))) /\ open' = {}

Leaves == Become(LeavesOf(a), AllNew(LeavesOf(a))) /\ open' = open \ {"a"}

EnsureNamedFieldsAreMembers ==
    Become(EnsureNamed(a, <<>>), AllNew(EnsureNamed(a, <<>>))) /\ open' = open \ {"a"}

(* The result is the child itself. *)
WithPrefix(e) ==
    /\ Become(Descend(a, e),
              [p \in Nodes(Descend(a, e)) |->
                 IF e \in DOMAIN a.children THEN <<"a", <<e>> \o p>> ELSE Fresh])
    /\ open' = open \ {"a"}

(* The set is written and read again. *)
Reloaded(s) == ReadIterV1(EmitContentsV1(s, FALSE))

Reload == Become(Reloaded(a), AllNew(Reloaded(a))) /\ open' = open \ {"a"}

(* One set object under both names. *)
Assign ==
    /\ b' = a
    /\ LET here == {<<"a", p>> : p \in Nodes(a)} \cup {<<"b", p>> : p \in Nodes(a)}
       IN  same' = SameAfter(here, [x \in here |-> <<"a", x[2]>>])
    /\ open' = {}
    /\ UNCHANGED a

Other(x) == <<IF x[1] = "a" THEN "b" ELSE "a", x[2]>>

Swap ==
    /\ a' = b /\ b' = a
    /\ same' = {<<Other(pair[1]), Other(pair[2])>> : pair \in same}
    /\ open' = {IF x = "a" THEN "b" ELSE "a" : x \in open}

Next ==
    \/ New
    \/ \E p \in Inputs : Insert(p)
    \/ Union
    \/ Intersection
    \/ Difference
    \/ RecursiveDifference
    \/ Leaves
    \/ EnsureNamedFieldsAreMembers
    \/ \E e \in Elem : WithPrefix(e)
    \/ Reload
    \/ Assign
    \/ Swap

Spec == Init /\ [][Next]_vars

-----------------------------------------------------------------------------
(* Sets with the same members are the same trie: Equals, which compares    *)
(* the structure, decides whether two sets have the same members.          *)
EqualIffSameMembers == Paths(a) = Paths(b) => a = b

(* Empty, Size and Has agree with the members that Iterate visits, which   *)
(* are never the path of the whole object.                                 *)
ObserversAgree ==
    /\ Empty(a) <=> Paths(a) = {}
    /\ Size(a) = Cardinality(Paths(a))
    /\ \A p \in Inputs \cup Named : Has(a, p) <=> p \in Paths(a)
    /\ <<>> \notin Paths(a)

Abstract == INSTANCE PathSets WITH A <- Paths(a), B <- Paths(b)

(* Every operation does to the members what the abstract sets promise, and *)
(* to the members of no other set anything, though sets share nodes.  A    *)
(* set that is written and read again has the same members.                *)
ImplementsPathSets == Abstract!Spec
=============================================================================
