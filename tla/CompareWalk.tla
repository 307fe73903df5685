---------------------------- MODULE CompareWalk -----------------------------
(***************************************************************************)
(* How TypedValue.Compare walks two objects (typed/compare.go): the        *)
(* walkers of one call append to one path buffer, finished walkers are     *)
(* kept for the next descent, the values of map entries come from a list   *)
(* of freed values (value/allocator.go), and the root walker, with its     *)
(* buffer, its spare walkers and its allocator, goes back to a pool that   *)
(* all goroutines share (typed/typed.go).  What the two objects differ in  *)
(* must not depend on any of this.                                         *)
(*                                                                         *)
(* A node is the sequence of the names from the root to it.  An object is  *)
(* a function from its nodes to values: the value of a scalar, how often a *)
(* list of scalars has an item, 0 for maps and lists.  Objects are valid   *)
(* for their schema, Kind, so the walks meet no errors.                    *)
(***************************************************************************)
EXTENDS GoSlices, Functions

CONSTANTS
    Goroutines,
    Kind,             \* the nodes of the schema: "map", "list", "atomic", "scalar"
    Pairs,            \* the pairs of objects that are compared
    NumWalkers,       \* how many root walkers are made
    FreelistMaxSize,
    MaxCalls          \* bound on the calls of Compare

Front(s) == SubSeq(s, 1, Len(s) - 1)

Last(s) == s[Len(s)]

(* A cell without a value; no node is named like it. *)
Nothing == <<"nothing">>

(* Nodes form a tree, and lists are sets of scalars. *)
ASSUME WalkAssumption ==
    /\ FreelistMaxSize \in Nat /\ NumWalkers \in Nat /\ MaxCalls \in Nat
    /\ \A n \in DOMAIN Kind :
         /\ n \in Seq(STRING) /\ n # Nothing
         /\ n # <<>> /\ Kind[Front(n)] = "list" => Kind[n] = "scalar"
    /\ \A pair \in Pairs : \A o \in {pair[1], pair[2]} :
         /\ <<>> \in DOMAIN o /\ DOMAIN o \subseteq DOMAIN Kind
         /\ \A n \in DOMAIN o : \A k \in 0 .. Len(n) : SubSeq(n, 1, k) \in DOMAIN o
         /\ \A n \in DOMAIN o \ {<<>>} : Kind[Front(n)] = "list" => o[n] \in Nat \ {0}

VARIABLES
    walker,           \* root walkers: what each one keeps from call to call
    pool,             \* cmpwPool: the root walkers in it
    stack,            \* per goroutine: the walkers of its call, root first
    call,             \* per goroutine: the call it is in
    returned,         \* the comparisons handed to callers
    calls             \* how many calls were made

vars == <<walker, pool, stack, call, returned, calls>>

-----------------------------------------------------------------------------
(* Values.  A cell is a Value object and holds the node whose value it     *)
(* gives access to, or nothing; 0 is a nil Value.                          *)

Children(o, n) == {q \in DOMAIN o : Len(q) = Len(n) + 1 /\ SubSeq(q, 1, Len(n)) = n}

NewWalker ==
    [path |-> NilSlice, inLeaf |-> FALSE, spares |-> <<>>,
     mem |-> <<>>, cells |-> <<>>, free |-> <<>>]

(* A value that is not taken from the freelist: List.At, NewValueInterface. *)
NewCell(W, n) == [W EXCEPT !.cells = Append(@, n)]

(* freelist.allocate: the value freed last, or a new one. *)
Allocated(W) == IF W.free = <<>> THEN Len(W.cells) + 1 ELSE Last(W.free)

Allocate(W) ==
    IF W.free = <<>> THEN NewCell(W, Nothing)
    ELSE [W EXCEPT !.free = Front(@)]

(* freelistAllocator.Free: the value is cleared, and kept unless there are *)
(* enough of them.  Free(nil) does nothing.                                *)
Free(W, c) ==
    IF c = 0 THEN W
    ELSE [W EXCEPT !.cells[c] = Nothing,
                   !.free = IF Len(@) < FreelistMaxSize THEN Append(@, c) ELSE @]

(* valueUnstructured.reuse *)
Reuse(W, c, n) == IF c = 0 THEN W ELSE [W EXCEPT !.cells[c] = n]

-----------------------------------------------------------------------------
(* Path elements.  The element of a map entry holds its key, that of an    *)
(* item of a set holds a pointer to the item's value                       *)
(* (setItemToPathElement), which is read whenever the element is.          *)

FieldName(n) == <<"field", Last(n)>>

ItemValue(w, c) == <<"value", w, c>>

NameOf(pe) ==
    IF pe[1] = "field" THEN pe[2]
    ELSE LET n == walker[pe[2]].cells[pe[3]] IN IF n = Nothing THEN "?" ELSE Last(n)

(* The node a path stands for when it is read now. *)
NodeOf(path) == [i \in DOMAIN path |-> NameOf(path[i])]

-----------------------------------------------------------------------------
(* A comparison is three sets of paths.  Set.Insert ignores the empty path. *)

EmptyComparison == [removed |-> {}, modified |-> {}, added |-> {}]

Insert(cmp, which, path) ==
    IF path = <<>> THEN cmp ELSE [cmp EXCEPT ![which] = @ \cup {path}]

(* What compare adds at the end for a node that is on one side only. *)
InsertMissing(cmp, f, path) ==
    IF f.inLeaf \/ (f.lhs # 0 /\ f.rhs # 0) THEN cmp
    ELSE Insert(cmp, IF f.lhs = 0 THEN "added" ELSE "removed", path)

-----------------------------------------------------------------------------
(* The walkers of a call.                                                  *)

Idle == [w |-> 0]

Top(g) == Last(stack[g])

W(g) == walker[call[g].w]

PathOf(g) == Content(W(g).mem, Top(g).path)

Walker(n, path, inLeaf, lhs, rhs) ==
    [node |-> n, path |-> path, inLeaf |-> inLeaf, lhs |-> lhs, rhs |-> rhs,
     entry |-> 0, other |-> 0, phase |-> "compare", todo |-> {}, duplicate |-> "no"]

(* prepareDescent: a spare walker or a new one becomes a copy of this one  *)
(* with the path one longer.                                               *)
TakeSpare(V) == IF V.spares = <<>> THEN V ELSE [V EXCEPT !.spares = Front(@)]

PrepareDescent(V, f, pe, n, lhs, rhs) ==
    Walker(n, AppendSlice(V.mem, f.path, pe), f.inLeaf, lhs, rhs)

Descend(g, V, f, pe, n, lhs, rhs) ==
    /\ walker' = [walker EXCEPT ![call[g].w] =
                    TakeSpare([V EXCEPT !.mem = AppendMem(@, f.path, pe)])]
    /\ stack' = [stack EXCEPT ![g] =
                   Front(@) \o <<f, PrepareDescent(V, f, pe, n, lhs, rhs)>>]
    /\ UNCHANGED <<pool, call, returned, calls>>

(* Mutant: the element the descent appended stays. *)
FinishDescentUncut(f, f2) == [f EXCEPT !.path = f2.path]

(* finishDescent: this walker goes on with the buffer the descent ended    *)
(* with, and the other walker becomes a spare one.                         *)
FinishDescent(f, f2) == [f EXCEPT !.path = WithoutLast(f2.path)]

KeepSpare(V, f2) ==
    [V EXCEPT !.spares = Append(@, [path |-> f2.path, inLeaf |-> f2.inLeaf])]

-----------------------------------------------------------------------------
(* TypedValue.Compare: a root walker from the pool, or a new one: the pool *)
(* may be empty, and the runtime may drop what is in it.                   *)
Unused(w) ==
    /\ walker[w] = NewWalker
    /\ \A v \in 1 .. (w - 1) : walker[v] # NewWalker

Compare(g, l, r) ==
    /\ call[g] = Idle
    /\ calls < MaxCalls
    /\ \E w \in 1 .. NumWalkers :
         /\ w \in pool \/ Unused(w)
         /\ LET V == walker[w]
                n == Len(V.cells)
            IN  /\ walker' = [walker EXCEPT ![w] = NewCell(NewCell(V, <<>>), <<>>)]
                /\ stack' = [stack EXCEPT ![g] =
                               <<Walker(<<>>, V.path, V.inLeaf, n + 1, n + 2)>>]
                /\ call' = [call EXCEPT ![g] =
                              [w |-> w, l |-> l, r |-> r, cmp |-> EmptyComparison]]
         /\ pool' = pool \ {w}
    /\ calls' = calls + 1
    /\ UNCHANGED returned

(* What is below the node on a side; nothing when the side has no such node. *)
Below(g, side) ==
    LET f == Top(g)
    IN  IF side = "l" THEN (IF f.lhs = 0 THEN {} ELSE Children(call[g].l, f.node))
        ELSE (IF f.rhs = 0 THEN {} ELSE Children(call[g].r, f.node))

IsLeaf(g) ==
    \/ Kind[Top(g).node] \in {"scalar", "atomic"}
    \/ Below(g, "l") = {} /\ Below(g, "r") = {}

(* doLeaf, for scalars, atomic maps and lists, and what is empty on both   *)
(* sides.  EqualsUsing gives back every value it takes from the freelist.  *)
LeafComparison(g) ==
    LET f == Top(g)
    IN  IF f.inLeaf THEN call[g].cmp
        ELSE IF f.lhs = 0 THEN Insert(call[g].cmp, "added", PathOf(g))
        ELSE IF f.rhs = 0 THEN Insert(call[g].cmp, "removed", PathOf(g))
        ELSE IF call[g].l[W(g).cells[f.lhs]] # call[g].r[W(g).cells[f.rhs]]
          THEN Insert(call[g].cmp, "modified", PathOf(g))
        ELSE call[g].cmp

DoLeaf(g) ==
    /\ call[g] # Idle /\ Top(g).phase = "compare" /\ IsLeaf(g)
    /\ call' = [call EXCEPT ![g].cmp = LeafComparison(g)]
    /\ stack' = [stack EXCEPT ![g] =
                   Front(@) \o <<[Top(g) EXCEPT !.inLeaf = TRUE, !.phase = "end"]>>]
    /\ UNCHANGED <<walker, pool, returned, calls>>

-----------------------------------------------------------------------------
(* doMap.  unorderedMapZip iterates over the left map and then over the    *)
(* right one; an iteration takes one value from the freelist, reuses it    *)
(* for every entry and frees it at the end.  Over an empty map it does not *)
(* start.  With no left map, MapZipUsing iterates over the right one only. *)

(* The iteration of a phase begins. *)
Iterate(V, f, phase, keys, size) ==
    [walker |-> IF size = {} THEN V ELSE Allocate(V),
     frame  |-> [f EXCEPT !.phase = phase, !.todo = keys,
                          !.entry = IF size = {} THEN 0 ELSE Allocated(V)]]

DoMap(g) ==
    /\ call[g] # Idle /\ Top(g).phase = "compare"
    /\ ~IsLeaf(g) /\ Kind[Top(g).node] = "map"
    /\ LET i == Iterate(W(g), Top(g), "left", Below(g, "l"), Below(g, "l"))
       IN  /\ walker' = [walker EXCEPT ![call[g].w] = i.walker]
           /\ stack' = [stack EXCEPT ![g] = Front(@) \o <<i.frame>>]
    /\ UNCHANGED <<pool, call, returned, calls>>

(* The left iteration ends: its value is freed.  The right one calls back  *)
(* for the keys the left map does not have.                                *)
SecondMap(g) ==
    /\ call[g] # Idle /\ Top(g).phase = "left" /\ Top(g).todo = {}
    /\ LET i == Iterate(Free(W(g), Top(g).entry), Top(g), "right",
                        Below(g, "r") \ Below(g, "l"), Below(g, "r"))
       IN  /\ walker' = [walker EXCEPT ![call[g].w] = i.walker]
           /\ stack' = [stack EXCEPT ![g] = Front(@) \o <<i.frame>>]
    /\ UNCHANGED <<pool, call, returned, calls>>

EndMap(g) ==
    /\ call[g] # Idle /\ Top(g).phase = "right" /\ Top(g).todo = {}
    /\ walker' = [walker EXCEPT ![call[g].w] = Free(@, Top(g).entry)]
    /\ stack' = [stack EXCEPT ![g] = Front(@) \o <<[Top(g) EXCEPT !.entry = 0, !.phase = "end"]>>]
    /\ UNCHANGED <<pool, call, returned, calls>>

(* An entry: GetUsing takes a value for the other side when it has the key *)
(* (freed when visitMapItem is back), and visitMapItem descends.           *)
OtherSide(V, has) == IF has THEN Allocated(V) ELSE 0

(* Mutant: the value is freed before the entry is visited. *)
WithOtherFreedEarly(V, has) == IF has THEN Free(Allocate(V), Allocated(V)) ELSE V

WithOther(V, has) == IF has THEN Allocate(V) ELSE V

VisitMapItem(g) ==
    /\ call[g] # Idle /\ Top(g).phase \in {"left", "right"}
    /\ \E n \in Top(g).todo :
         LET f == Top(g)
             V == Reuse(W(g), f.entry, n)
             both == f.phase = "left" /\ n \in Below(g, "r")
             c == OtherSide(V, both)
             lhs == IF f.phase = "left" THEN f.entry ELSE 0
             rhs == IF f.phase = "left" THEN c ELSE f.entry
         IN  Descend(g, Reuse(WithOther(V, both), c, n),
                     [f EXCEPT !.todo = @ \ {n}, !.other = c], FieldName(n), n, lhs, rhs)

-----------------------------------------------------------------------------
(* doList and visitListItems, for a set of scalars.  The values of the     *)
(* items are not from the freelist: their path elements keep them.         *)
DoList(g) ==
    /\ call[g] # Idle /\ Top(g).phase = "compare"
    /\ ~IsLeaf(g) /\ Kind[Top(g).node] = "list"
    /\ stack' = [stack EXCEPT ![g] = Front(@) \o
                   <<[Top(g) EXCEPT !.phase = "items", !.todo = Below(g, "l") \cup Below(g, "r")]>>]
    /\ UNCHANGED <<walker, pool, call, returned, calls>>

(* How often a side has an item. *)
Count(g, side, n) ==
    IF n \notin Below(g, side) THEN 0 ELSE call[g][side][n]

(* The values List.At returned for an item, first the left one.  The path  *)
(* element is made from the first.                                         *)
ItemCells(V, n, l, r) ==
    IF l > 0 /\ r > 0 THEN NewCell(NewCell(V, n), n) ELSE NewCell(V, n)

(* Items that occur once are compared; one that is a duplicate on one side *)
(* is compared with nothing there, and then reported on that side.         *)
CompareListItem(g) ==
    /\ call[g] # Idle /\ Top(g).phase = "items"
    /\ \E n \in Top(g).todo :
         LET f == Top(g)
             l == Count(g, "l", n)
             r == Count(g, "r", n)
             V == ItemCells(W(g), n, l, r)
             first == Len(W(g).cells) + 1
         IN  /\ l = 1 \/ r = 1
             /\ Descend(g, V,
                        [f EXCEPT !.todo = @ \ {n},
                                  !.duplicate = IF l > 1 THEN "removed"
                                                ELSE IF r > 1 THEN "added" ELSE "no"],
                        ItemValue(call[g].w, first), n,
                        IF l = 1 THEN first ELSE 0, IF r = 1 THEN Len(V.cells) ELSE 0)

(* Duplicates that are not compared with anything.  append(w.path, pe)     *)
(* writes behind the walker's path.                                        *)
CompareDuplicates(g) ==
    /\ call[g] # Idle /\ Top(g).phase = "items"
    /\ \E n \in Top(g).todo :
         LET f == Top(g)
             l == Count(g, "l", n)
             r == Count(g, "r", n)
             V == ItemCells(W(g), n, l, r)
             pe == ItemValue(call[g].w, Len(W(g).cells) + 1)
             equal == l > 1 /\ l = r
             mem == IF equal THEN V.mem ELSE AppendMem(V.mem, f.path, pe)
             path == Content(mem, AppendSlice(V.mem, f.path, pe))
         IN  /\ l # 1 /\ r # 1
             /\ walker' = [walker EXCEPT ![call[g].w] = [V EXCEPT !.mem = mem]]
             /\ stack' = [stack EXCEPT ![g] = Front(@) \o <<[f EXCEPT !.todo = @ \ {n}]>>]
             /\ call' = [call EXCEPT ![g].cmp =
                           IF equal THEN @
                           ELSE Insert(@, IF l = 0 THEN "added"
                                          ELSE IF r = 0 THEN "removed" ELSE "modified", path)]
    /\ UNCHANGED <<pool, returned, calls>>

EndList(g) ==
    /\ call[g] # Idle /\ Top(g).phase = "items" /\ Top(g).todo = {}
    /\ stack' = [stack EXCEPT ![g] = Front(@) \o <<[Top(g) EXCEPT !.phase = "end"]>>]
    /\ UNCHANGED <<walker, pool, call, returned, calls>>

-----------------------------------------------------------------------------
(* compare ends and its caller, visitMapItem or compareListItem, with it.  *)
Ascend(g) ==
    /\ call[g] # Idle /\ Top(g).phase = "end" /\ Len(stack[g]) > 1
    /\ LET f2 == Top(g)
           rest == Front(stack[g])
           f == Last(rest)
           cmp == InsertMissing(call[g].cmp, f2, PathOf(g))
       IN  /\ call' = [call EXCEPT ![g].cmp =
                         IF f.duplicate = "no" THEN cmp ELSE Insert(cmp, f.duplicate, PathOf(g))]
           /\ walker' = [walker EXCEPT ![call[g].w] = Free(KeepSpare(@, f2), f.other)]
           /\ stack' = [stack EXCEPT ![g] = Front(rest) \o
                          <<[FinishDescent(f, f2) EXCEPT !.other = 0, !.duplicate = "no"]>>]
    /\ UNCHANGED <<pool, returned, calls>>

(* Mutant: inLeaf is not reset. *)
ResetButInLeaf(V, f) == [V EXCEPT !.path = f.path, !.inLeaf = f.inLeaf]

(* Compare returns: the root walker is reset and put back. *)
Reset(V, f) == [V EXCEPT !.path = f.path, !.inLeaf = FALSE]

Return(g) ==
    /\ call[g] # Idle /\ Top(g).phase = "end" /\ Len(stack[g]) = 1
    /\ returned' = returned \cup {[l |-> call[g].l, r |-> call[g].r,
                                   cmp |-> InsertMissing(call[g].cmp, Top(g), PathOf(g))]}
    /\ walker' = [walker EXCEPT ![call[g].w] = Reset(@, Top(g))]
    /\ pool' = pool \cup {call[g].w}
    /\ call' = [call EXCEPT ![g] = Idle]
    /\ stack' = [stack EXCEPT ![g] = <<>>]
    /\ UNCHANGED calls

Walk(g) ==
    \/ DoLeaf(g) \/ DoMap(g) \/ SecondMap(g) \/ EndMap(g) \/ VisitMapItem(g)
    \/ DoList(g) \/ CompareListItem(g) \/ CompareDuplicates(g) \/ EndList(g)
    \/ Ascend(g) \/ Return(g)

Init ==
    /\ walker = [w \in 1 .. NumWalkers |-> NewWalker]
    /\ pool = {}
    /\ stack = [g \in Goroutines |-> <<>>]
    /\ call = [g \in Goroutines |-> Idle]
    /\ returned = {}
    /\ calls = 0

Next ==
    \E g \in Goroutines : Walk(g) \/ \E pair \in Pairs : Compare(g, pair[1], pair[2])

Spec == Init /\ [][Next]_vars

-----------------------------------------------------------------------------
(* The walker of every descent is where it should be: its path reads as    *)
(* its node, and its values are those of its node and nobody else's.       *)
WalkersAtTheirNodes ==
    \A g \in Goroutines : \A i \in DOMAIN stack[g] :
      LET f == stack[g][i]
      IN  /\ NodeOf(Content(W(g).mem, f.path)) = f.node
          /\ f.lhs # 0 => W(g).cells[f.lhs] = f.node
          /\ f.rhs # 0 => W(g).cells[f.rhs] = f.node

(* A freed value is free once, and nobody who walks holds it: neither a    *)
(* walker nor an iteration over a map nor a path that was reported.        *)
FreeValuesAreNotInUse ==
    \A w \in 1 .. NumWalkers :
      LET used == UNION {UNION {{stack[g][i].lhs, stack[g][i].rhs, stack[g][i].entry, stack[g][i].other} :
                                  i \in DOMAIN stack[g]} : g \in {h \in Goroutines : call[h].w = w}}
      IN  /\ IsInjective(walker[w].free)
          /\ Len(walker[w].free) <= FreelistMaxSize
          /\ Range(walker[w].free) \cap used = {}

(* What Comparison promises (typed/compare.go, Comparison): the fields     *)
(* removed, modified and added from the left object to the right one, down *)
(* to the leaves.                                                          *)
LeafIn(l, r, n) ==
    \/ Kind[n] \in {"scalar", "atomic"}
    \/ Children(l, n) = {} /\ Children(r, n) = {}

Compared(l, r) ==
    {n \in (DOMAIN l \cup DOMAIN r) \ {<<>>} :
       \A i \in 0 .. (Len(n) - 1) : ~LeafIn(l, r, SubSeq(n, 1, i))}

Item(n) == Kind[Front(n)] = "list"

Difference(l, r) ==
    LET both == {n \in Compared(l, r) : n \in DOMAIN l \cap DOMAIN r}
        split == {n \in both : Item(n) /\ (l[n] = 1) # (r[n] = 1)}
    IN  [removed  |-> {n \in Compared(l, r) : n \notin DOMAIN r} \cup split,
         modified |-> {n \in both \ split : LeafIn(l, r, n) /\ l[n] # r[n]},
         added    |-> {n \in Compared(l, r) : n \notin DOMAIN l} \cup split]

(* Every comparison that was returned says what the two objects differ in, *)
(* however it is read later, while other calls reuse the walker, its path  *)
(* buffer and its values.                                                  *)
ComparisonsAreRight ==
    \A c \in returned :
      [s \in DOMAIN c.cmp |-> {NodeOf(p) : p \in c.cmp[s]}] = Difference(c.l, c.r)
=============================================================================
