----------------------------- MODULE SortedSet -----------------------------
(***************************************************************************)
(* fieldpath.PathElementSet: a set kept as a sorted slice.  Insert finds   *)
(* the place by binary search; Union, Intersection and Difference walk two *)
(* slices at once.  SetNodeMap, whose members are the nodes of the trie,   *)
(* has the same loops.  Path elements are integers here: all that the code *)
(* uses of them is that Less is a total order.                             *)
(***************************************************************************)
EXTENDS Integers, Sequences

CONSTANT Elem

ASSUME ElemAssumption == Elem \subseteq Int

VARIABLES
    s, t,  \* the receiver and the argument; s is replaced by the result
    op,    \* the operation whose loop is running, or "none"
    i, j,  \* how many elements of s and t the loop is past
    out    \* its result so far

vars == <<s, t, op, i, j, out>>

Ops == {"union", "intersection", "difference"}

(* e is one of the first n elements of q. *)
Among(q, n, e) == \E k \in 1 .. n : q[k] = e

Members(q) == {e \in Elem : Among(q, Len(q), e)}

Sorted(q) == \A k, l \in 1 .. Len(q) : k < l => q[k] < q[l]

(* sort.Search: loc is the number of elements of q that are Less than e. *)
IsLocation(q, e, loc) ==
    /\ \A k \in 1 .. loc : q[k] < e
    /\ \A k \in loc + 1 .. Len(q) : ~(q[k] < e)

Init ==
    /\ s = <<>>
    /\ t = <<>>
    /\ op = "none"
    /\ i = 0
    /\ j = 0
    /\ out = <<>>

(* Mutant: an element that is already there is added again. *)
InsertTwice(e) ==
    /\ op = "none"
    /\ \E loc \in 0 .. Len(s) :
         /\ IsLocation(s, e, loc)
         /\ s' = SubSeq(s, 1, loc) \o <<e>> \o SubSeq(s, loc + 1, Len(s))
    /\ UNCHANGED <<t, op, i, j, out>>

Insert(e) ==
    /\ op = "none"
    /\ \E loc \in 0 .. Len(s) :
         /\ IsLocation(s, e, loc)
         /\ s' = IF loc < Len(s) /\ s[loc + 1] = e THEN s
                 ELSE SubSeq(s, 1, loc) \o <<e>> \o SubSeq(s, loc + 1, Len(s))
    /\ UNCHANGED <<t, op, i, j, out>>

Swap ==
    /\ op = "none"
    /\ s' = t
    /\ t' = s
    /\ UNCHANGED <<op, i, j, out>>

Begin(o) ==
    /\ op = "none"
    /\ op' = o
    /\ i' = 0
    /\ j' = 0
    /\ out' = <<>>
    /\ UNCHANGED <<s, t>>

InLoop == i < Len(s) /\ j < Len(t)

UnionStep ==
    /\ op = "union"
    /\ InLoop
    /\ IF s[i + 1] < t[j + 1]
       THEN out' = Append(out, s[i + 1]) /\ i' = i + 1 /\ j' = j
       ELSE /\ out' = Append(out, t[j + 1])
            /\ i' = IF t[j + 1] < s[i + 1] THEN i ELSE i + 1
            /\ j' = j + 1
    /\ UNCHANGED <<s, t, op>>

(* Mutant: a match is not stepped over. *)
IntersectionStopsAtMatch ==
    /\ op = "intersection"
    /\ InLoop
    /\ i' = IF s[i + 1] < t[j + 1] THEN i + 1 ELSE i
    /\ j' = IF t[j + 1] < s[i + 1] THEN j + 1 ELSE j
    /\ UNCHANGED <<s, t, op, out>>

IntersectionStep ==
    /\ op = "intersection"
    /\ InLoop
    /\ IF s[i + 1] < t[j + 1]
       THEN out' = out /\ i' = i + 1 /\ j' = j
       ELSE /\ IF t[j + 1] < s[i + 1]
               THEN out' = out /\ i' = i
               ELSE out' = Append(out, s[i + 1]) /\ i' = i + 1
            /\ j' = j + 1
    /\ UNCHANGED <<s, t, op>>

(* Mutant: s does not move on past an element that t has, too. *)
DifferenceStaysBehind ==
    /\ op = "difference"
    /\ InLoop
    /\ IF s[i + 1] < t[j + 1]
       THEN out' = Append(out, s[i + 1]) /\ i' = i + 1 /\ j' = j
       ELSE out' = out /\ i' = i /\ j' = j + 1
    /\ UNCHANGED <<s, t, op>>

DifferenceStep ==
    /\ op = "difference"
    /\ InLoop
    /\ IF s[i + 1] < t[j + 1]
       THEN out' = Append(out, s[i + 1]) /\ i' = i + 1 /\ j' = j
       ELSE /\ out' = out
            /\ i' = IF t[j + 1] < s[i + 1] THEN i ELSE i + 1
            /\ j' = j + 1
    /\ UNCHANGED <<s, t, op>>

Rest(q, n) == SubSeq(q, n + 1, Len(q))

(* After the loop what is left of s, and for a union of t, is appended. *)
Finish ==
    /\ op # "none"
    /\ ~InLoop
    /\ \/ op = "union" /\ s' = out \o Rest(s, i) \o Rest(t, j)
       \/ op = "difference" /\ s' = out \o Rest(s, i)
       \/ op = "intersection" /\ s' = out
    /\ op' = "none"
    /\ i' = 0
    /\ j' = 0
    /\ out' = <<>>
    /\ UNCHANGED t

Step == UnionStep \/ IntersectionStep \/ DifferenceStep

Next ==
    \/ \E e \in Elem : Insert(e)
    \/ Swap
    \/ \E o \in Ops : Begin(o)
    \/ Step
    \/ Finish

Spec == Init /\ [][Next]_vars /\ WF_vars(Step) /\ WF_vars(Finish)

-----------------------------------------------------------------------------
TypeOK ==
    /\ s \in Seq(Elem) /\ t \in Seq(Elem) /\ out \in Seq(Elem)
    /\ op \in Ops \cup {"none"}
    /\ i \in 0 .. Len(s) /\ j \in 0 .. Len(t)

(* The slices stay sorted and without duplicates, which the binary search  *)
(* of Insert, Has, Get and Descend relies on.                              *)
SlicesSorted == Sorted(s) /\ Sorted(t)

(* e is in what the operation o makes of the first m elements of s and the *)
(* first n of t.                                                           *)
Selected(o, m, n, e) ==
    \/ o = "union" /\ (Among(s, m, e) \/ Among(t, n, e))
    \/ o = "intersection" /\ Among(s, m, e) /\ Among(t, n, e)
    \/ o = "difference" /\ Among(s, m, e) /\ ~Among(t, n, e)

ResultIsRight ==
    Finish => \A e \in Elem : Among(s', Len(s'), e) <=> Selected(op, Len(s), Len(t), e)

(* The loops compute the union, the intersection and the difference.       *)
LoopsComputeSets == [][ResultIsRight]_vars

(* The loops terminate.                                                    *)
LoopsTerminate == op # "none" ~> op = "none"
=============================================================================
