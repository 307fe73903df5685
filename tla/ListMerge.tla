------------------------------ MODULE ListMerge ------------------------------
(***************************************************************************)
(* visitListItems of typed/merge.go: how the items of two associative      *)
(* lists are interleaved when the right one is merged into the left one.   *)
(* An item is known by its path element.  The left list may have duplicate *)
(* path elements, the right one may not.                                   *)
(***************************************************************************)
EXTENDS Naturals, Sequences

CONSTANTS
    PE,      \* path elements
    MaxLen   \* bound on the length of a list

VARIABLES
    lhs, rhs,  \* the path elements of the two lists: lhsPEs, rhsPEs
    lI, rI,    \* the next item of each
    shared,    \* where in rhs nextShared, if not nil, and sharedOrder point to
    merged,    \* mergedRHS
    items      \* out: the items put out: their path element and where they are from

mergeVars == <<lhs, rhs, lI, rI, shared, merged, items>>

Occurrences(l, pe) == {k \in DOMAIN l : l[k] = pe}

(* Lists in which indexListPathElements finds no duplicates. *)
NoDuplicates(l) == \A k1, k2 \in DOMAIN l : l[k1] = l[k2] => k1 = k2

(* What indexListPathElements observes for pe: its index, or 0 if pe is    *)
(* absent or, the value then being null, if it is duplicated.              *)
Observed(l, pe) ==
    IF \E k \in DOMAIN l : Occurrences(l, pe) = {k}
    THEN CHOOSE k \in DOMAIN l : l[k] = pe ELSE 0

(* Where in r the path elements are that l has too.  The code has pointers *)
(* to them in the order of r.                                              *)
SharedOrder(l, r) == {k \in DOMAIN r : Occurrences(l, r[k]) # {}}

Lists == UNION {[1 .. n -> PE] : n \in 0 .. MaxLen}

MergeInit ==
    /\ lhs \in Lists
    /\ rhs \in {r \in Lists : NoDuplicates(r)}
    /\ <<lhs, rhs>> # << <<>>, <<>> >>
    /\ lI = 1 /\ rI = 1
    /\ shared = SharedOrder(lhs, rhs)
    /\ merged = {}
    /\ items = <<>>

InBoth == lI \in DOMAIN lhs /\ rI \in DOMAIN rhs

SameItem == InBoth /\ lhs[lI] = rhs[rI]

(* nextShared, and what is left after it. *)
NextShared == CHOOSE k \in shared : \A m \in shared : k <= m
LaterShared == {k \in shared : k # NextShared}

(* Mutant: a shared item is skipped even when it is the next one wanted. *)
AnyShared ==
    /\ InBoth
    /\ lhs[lI] # rhs[rI]
    /\ Occurrences(rhs, lhs[lI]) # {}

(* A shared item, but not the one wanted in this round. *)
NotNextShared ==
    /\ InBoth
    /\ lhs[lI] # rhs[rI]
    /\ Occurrences(rhs, lhs[lI]) # {}
    /\ shared # {}
    /\ rhs[NextShared] # lhs[lI]

Item(pe, l, r) == [pe |-> pe, l |-> l, r |-> r]

(* Mutant: the right item is not consumed. *)
MergeLeftOnly ==
    /\ SameItem
    /\ merged' = merged \cup {lhs[lI]}
    /\ items' = Append(items, Item(lhs[lI], Observed(lhs, lhs[lI]), Observed(rhs, lhs[lI])))
    /\ lI' = lI + 1
    /\ shared' = LaterShared
    /\ UNCHANGED <<lhs, rhs, rI>>

MergeItems ==
    /\ SameItem
    /\ merged' = merged \cup {lhs[lI]}
    /\ items' = Append(items, Item(lhs[lI], Observed(lhs, lhs[lI]), Observed(rhs, lhs[lI])))
    /\ lI' = lI + 1
    /\ rI' = rI + 1
    /\ shared' = LaterShared
    /\ UNCHANGED <<lhs, rhs>>

SkipLHS ==
    /\ NotNextShared
    /\ lI' = lI + 1
    /\ UNCHANGED <<lhs, rhs, rI, shared, merged, items>>

TakeLHS ==
    /\ lI \in DOMAIN lhs
    /\ Occurrences(rhs, lhs[lI]) = {}
    /\ items' = Append(items, Item(lhs[lI], lI, 0))
    /\ lI' = lI + 1
    /\ UNCHANGED <<lhs, rhs, rI, shared, merged>>

(* A left item that waits for the right one, or was merged with it. *)
Waiting == lI \in DOMAIN lhs => Occurrences(rhs, lhs[lI]) # {}

(* Mutant: a left item that is merged already is not passed over. *)
PassNothing == lI

PassMerged == IF lI \in DOMAIN lhs /\ lhs[lI] \in merged THEN lI + 1 ELSE lI

(* The rest of an iteration: the left item is passed over if it is merged  *)
(* already, and the right item is taken if there is one.                   *)
TakeRHS ==
    /\ lI \in DOMAIN lhs \/ rI \in DOMAIN rhs
    /\ ~ SameItem
    /\ ~ NotNextShared
    /\ Waiting
    /\ lI' = PassMerged
    /\ \/ /\ rI \in DOMAIN rhs
          /\ merged' = merged \cup {rhs[rI]}
          /\ items' = Append(items, Item(rhs[rI], Observed(lhs, rhs[rI]), Observed(rhs, rhs[rI])))
          /\ rI' = rI + 1
          /\ shared' = IF shared # {} /\ rhs[NextShared] = rhs[rI] THEN LaterShared ELSE shared
       \/ /\ rI \notin DOMAIN rhs
          /\ UNCHANGED <<merged, items, rI, shared>>
    /\ UNCHANGED <<lhs, rhs>>

MergeNext == MergeItems \/ SkipLHS \/ TakeLHS \/ TakeRHS

MergeSpec == MergeInit /\ [][MergeNext]_mergeVars /\ WF_mergeVars(MergeNext)

-----------------------------------------------------------------------------
Finished == lI \notin DOMAIN lhs /\ rI \notin DOMAIN rhs

(* The items put out that are in the right list, and the others. *)
FromRight == {i \in DOMAIN items : items[i].r # 0}
FromLeft == DOMAIN items \ FromRight

(* The items of the left list that the right one lacks. *)
OnlyLeft == {k \in DOMAIN lhs : Occurrences(rhs, lhs[k]) = {}}

(* Merging two lists drops and repeats nothing: the items of the right     *)
(* list are all there once and in their order, and so are those items of   *)
(* the left list, its duplicates included, that the right one lacks.       *)
EveryItemOnce ==
    Finished =>
        /\ {items[i].r : i \in FromRight} = DOMAIN rhs
        /\ {items[i].l : i \in FromLeft} = OnlyLeft
        /\ \A i, j \in FromRight : i < j => items[i].r < items[j].r
        /\ \A i, j \in FromLeft : i < j => items[i].l < items[j].l

(* No two items that the lists share are in opposite orders in them. *)
SameOrder ==
    \A k1, k2 \in DOMAIN lhs, m1, m2 \in DOMAIN rhs :
        lhs[k1] = rhs[m1] /\ lhs[k2] = rhs[m2] /\ k1 < k2 => m1 < m2

(* When the lists agree on the order of the items that they share, the     *)
(* order of the left list survives as well: its items never move past      *)
(* each other, however the new items are placed.                           *)
OrderOfLHSKept ==
    Finished /\ NoDuplicates(lhs) /\ SameOrder =>
        \A i, j \in DOMAIN items, k1, k2 \in DOMAIN lhs :
            items[i].pe = lhs[k1] /\ items[j].pe = lhs[k2] /\ k1 < k2 => i < j

(* The loop, some of whose rounds put out nothing, comes to its end. *)
MergeTerminates == <>Finished
=============================================================================
