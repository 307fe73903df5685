-------------------------- MODULE ComparisonProofs --------------------------
(***************************************************************************)
(* Every comparison that Compare returns is the difference of its two      *)
(* objects, whatever other goroutines do with pooled walkers in between    *)
(* and afterwards, for every schema, number of goroutines and walkers.     *)
(***************************************************************************)
EXTENDS CompareWalkProofs, ReportProofs

(* The value c of the root walker w keeps its node whatever the calls do. *)
ForEver(w, c) ==
    /\ c \in DOMAIN walker[w].cells \ Range(walker[w].free)
    /\ \A g \in Goroutines : call[g].w = w => Settled(walker[w], stack[g], c)

ReadsForEver(pe, name) ==
    \/ pe = <<"field", name>>
    \/ \E w \in 1 .. NumWalkers : \E c \in DOMAIN walker[w].cells :
         /\ pe = ItemValue(w, c) /\ ForEver(w, c)
         /\ walker[w].cells[c] # Nothing
         /\ Last(walker[w].cells[c]) = name

PathReadsForEver(p, n) ==
    Len(p) = Len(n) /\ \A k \in 1 .. Len(n) : ReadsForEver(p[k], n[k])

(* The comparison c says what its objects differ in. *)
Right(c) ==
    \A x \in Sides :
      /\ \A p \in c.cmp[x] : \E n \in Difference(c.l, c.r)[x] : PathReadsForEver(p, n)
      /\ \A n \in Difference(c.l, c.r)[x] : \E p \in c.cmp[x] : PathReadsForEver(p, n)

(* What the call of the goroutine g has reported is right so far. *)
Reported(g) == Report(call[g].w, W(g), stack[g], call[g].l, call[g].r, call[g].cmp)

ReportInv ==
    /\ \A g \in Goroutines : Active(g) => Reported(g)
    /\ \A c \in returned : Right(c)

-----------------------------------------------------------------------------
(* It is after a step of the call. *)
ReportedNext(g) ==
    Report(call[g].w, walker'[call[g].w], stack'[g], call[g].l, call[g].r, call'[g].cmp)

(* What a step of a call changes. *)
LEMMA CallStepFacts ==
    ASSUME WalkInv, NEW g \in Goroutines, CallStep(g)
    PROVE  /\ Active(g) /\ walker'[call[g].w] \in Walkers /\ stack'[g] \in Seq(Frames)
           /\ call'[g].w = call[g].w /\ call'[g].l = call[g].l /\ call'[g].r = call[g].r
           /\ CallInv(call[g].w, walker'[call[g].w], stack'[g])
           /\ Stays(W(g), stack[g], walker'[call[g].w], stack'[g])
           /\ \A h \in Goroutines : h # g => stack'[h] = stack[h] /\ call'[h] = call[h]
           /\ \A v \in 1 .. NumWalkers : v # call[g].w => walker'[v] = walker[v]
           /\ returned' = returned
  <1>1. PICK V2 \in Walkers, t \in Seq(Frames), cmp \in Comparisons :
          /\ Does(g, V2, t, cmp)
          /\ CallInv(call[g].w, V2, t)
          /\ Stays(W(g), stack[g], V2, t)
    BY Zenon DEF CallStep
  <1>2. Active(g) /\ call[g] \in Calls /\ call[g].w \in 1 .. NumWalkers
    BY Zenon, TopFacts DEF CallStep
  <1>3. /\ walker \in [1 .. NumWalkers -> Walkers] /\ stack \in [Goroutines -> Seq(Frames)]
        /\ call \in [Goroutines -> Calls \cup {Idle}]
    BY Zenon DEF WalkInv, TypeInv
  <1> DEFINE c == [call[g] EXCEPT !.cmp = cmp]
  <1>4. /\ walker' = [walker EXCEPT ![call[g].w] = V2] /\ stack' = [stack EXCEPT ![g] = t]
        /\ call' = [call EXCEPT ![g] = c] /\ returned' = returned
    BY Zenon, <1>1, <1>3 DEF Does
  <1>5. c.w = call[g].w /\ c.l = call[g].l /\ c.r = call[g].r
    BY Zenon, <1>2 DEF Calls
  <1> HIDE DEF c
  <1>6. /\ walker'[call[g].w] = V2 /\ stack'[g] = t /\ call'[g] = c
        /\ \A h \in Goroutines : h # g => stack'[h] = stack[h] /\ call'[h] = call[h]
        /\ \A v \in 1 .. NumWalkers : v # call[g].w => walker'[v] = walker[v]
    BY Zenon, <1>2, <1>3, <1>4
  <1> QED  BY <1>1, <1>2, <1>4, <1>5, <1>6, Zenon

(* The walker on top in a comparison. *)
LEMMA TopReported ==
    ASSUME WalkInv, NEW g \in Goroutines, Active(g), Reported(g)
    PROVE  /\ FrameInv(call[g].l, call[g].r, Top(g)) /\ Top(g).duplicate = "no"
           /\ Top(g).node # <<>> => Len(stack[g]) > 1
           /\ Top(g).node \in Nodes
           /\ PathReads(call[g].w, W(g), stack[g], PathOf(g), Top(g).node)
           /\ Kind[Top(g).node] # "scalar" =>
                /\ Below(g, "l") = Children(call[g].l, Top(g).node)
                /\ Below(g, "r") = Children(call[g].r, Top(g).node)
           /\ IsLeaf(g) <=> LeafIn(call[g].l, call[g].r, Top(g).node)
  <1> DEFINE f == Top(g)
             l == call[g].l
             r == call[g].r
  <1>1. /\ l \in Objects /\ r \in Objects /\ f = stack[g][Len(stack[g])] /\ f \in Frames
        /\ Len(stack[g]) \in DOMAIN stack[g] /\ Len(f.node) = Len(stack[g]) - 1
        /\ PathInv(call[g].w, W(g), stack[g], f.path, f.node)
        /\ Len(stack[g]) \in Nat \ {0}
    BY TopFacts
  <1>2. FrameInv(l, r, f) /\ f.duplicate = "no"
    BY Zenon, <1>1 DEF Reported, Report, ProgressInv
  <1>3. f.node \in Nodes /\ f.node \in Seq(STRING)
    BY Zenon, <1>1, NodeFacts DEF Frames
  <1>4. f.node # <<>> => Len(stack[g]) > 1
    BY <1>1, <1>3
  <1>5. PathReads(call[g].w, W(g), stack[g], PathOf(g), f.node)
    BY Zenon, <1>1, ComparisonFacts DEF PathReads, PathInv
  <1>6. /\ f.lhs = 0 <=> ~OnSide(l, f.node)
        /\ f.rhs = 0 <=> ~OnSide(r, f.node)
    BY Zenon, <1>2 DEF FrameInv
  <1>7. Kind[f.node] # "scalar" =>
          Below(g, "l") = Children(l, f.node) /\ Below(g, "r") = Children(r, f.node)
    BY Zenon, <1>1, <1>3, <1>6, SideChildren DEF Below
  <1>8. IsLeaf(g) <=> LeafIn(l, r, f.node)
    BY Zenon, <1>7 DEF IsLeaf, LeafIn
  <1> QED  BY <1>2, <1>3, <1>4, <1>5, <1>7, <1>8

(* A step of the walker on top that reports nothing. *)
LEMMA QuietNext ==
    ASSUME WalkInv, NEW g \in Goroutines, CallStep(g), Reported(g), NEW f \in Frames,
           stack'[g] = Front(stack[g]) \o <<f>>, call'[g].cmp = call[g].cmp,
           SameSides(Top(g), f), f.duplicate = Top(g).duplicate,
           FrameInv(call[g].l, call[g].r, f),
           Rest(call[g].l, call[g].r, Top(g)) \subseteq Rest(call[g].l, call[g].r, f)
    PROVE  ReportedNext(g)
  <1> DEFINE t == stack'[g]
  <1>1. Active(g) /\ t \in Seq(Frames) /\ Stays(W(g), stack[g], walker'[call[g].w], t)
    BY Zenon, CallStepFacts
  <1>2. /\ stack[g] \in Seq(Frames) /\ stack[g] # <<>> /\ Top(g) = stack[g][Len(stack[g])]
    BY Zenon, <1>1, TopFacts
  <1>3. TopReplaced(stack[g], t, f)
    BY Zenon, <1>2, TopReplacedFacts
  <1> HIDE DEF t
  <1>4. /\ f.node = Top(g).node /\ f.inLeaf = Top(g).inLeaf /\ f.duplicate = "no"
        /\ f.node # <<>> => Len(stack[g]) > 1
    BY Zenon, <1>1, TopReported DEF SameSides
  <1>5. Report(call[g].w, walker'[call[g].w], t, call[g].l, call[g].r, call[g].cmp)
    BY Zenon, <1>1, <1>2, <1>3, <1>4, QuietReports DEF Reported
  <1> QED  BY <1>5 DEF ReportedNext, t

(* doList reports nothing by itself. *)
LEMMA DoListReports ==
    ASSUME WalkInv, NEW g \in Goroutines, DoList(g), Reported(g)
    PROVE  ReportedNext(g)
  <1> DEFINE f == [Top(g) EXCEPT !.phase = "items", !.todo = Below(g, "l") \cup Below(g, "r")]
             l == call[g].l
             r == call[g].r
  <1>1. Active(g) /\ CallStep(g)
    BY Zenon, DoListSteps DEF DoList, Active
  <1>2. /\ FrameInv(l, r, Top(g)) /\ Kind[Top(g).node] = "list" /\ Top(g).phase = "compare"
        /\ ~LeafIn(l, r, Top(g).node)
        /\ Below(g, "l") = Children(l, Top(g).node) /\ Below(g, "r") = Children(r, Top(g).node)
    BY Zenon, <1>1, TopReported DEF DoList
  <1>3. Top(g) \in Frames /\ Below(g, "l") \cup Below(g, "r") \in SUBSET Nodes
    BY Zenon, <1>1, TopFacts, BelowFacts
  <1>4. /\ f \in Frames /\ SameSides(Top(g), f) /\ f.duplicate = Top(g).duplicate
        /\ f.phase = "items" /\ f.todo = Below(g, "l") \cup Below(g, "r")
    BY Zenon, <1>3 DEF Frames, Phases, SameSides
  <1>5. stack'[g] = Front(stack[g]) \o <<f>> /\ call'[g].cmp = call[g].cmp
    BY Zenon DEF DoList, WalkInv, TypeInv
  <1> HIDE DEF f
  <1>6. FrameInv(l, r, f) /\ Rest(l, r, Top(g)) \subseteq Rest(l, r, f)
    BY Zenon, <1>2, <1>4, ListBegins
  <1> QED  BY <1>1, <1>4, <1>5, <1>6, QuietNext

(* The end of doList. *)
LEMMA EndListReports ==
    ASSUME WalkInv, NEW g \in Goroutines, EndList(g), Reported(g)
    PROVE  ReportedNext(g)
  <1> DEFINE f == [Top(g) EXCEPT !.phase = "end"]
             l == call[g].l
             r == call[g].r
  <1>1. Active(g) /\ CallStep(g)
    BY Zenon, EndListSteps DEF EndList, Active
  <1>2. FrameInv(l, r, Top(g)) /\ Top(g).phase = "items" /\ Top(g).todo = {} /\ Top(g) \in Frames
    BY Zenon, <1>1, TopReported, TopFacts DEF EndList
  <1>3. /\ f \in Frames /\ SameSides(Top(g), f) /\ f.duplicate = Top(g).duplicate /\ f.phase = "end"
    BY Zenon, <1>2 DEF Frames, Phases, SameSides
  <1>4. stack'[g] = Front(stack[g]) \o <<f>> /\ call'[g].cmp = call[g].cmp
    BY Zenon DEF EndList, WalkInv, TypeInv
  <1> HIDE DEF f
  <1>5. FrameInv(l, r, f) /\ Rest(l, r, Top(g)) \subseteq Rest(l, r, f)
    BY Zenon, <1>2, <1>3, FrameEnds
  <1> QED  BY <1>1, <1>3, <1>4, <1>5, QuietNext

(* The end of doMap. *)
LEMMA EndMapReports ==
    ASSUME WalkInv, NEW g \in Goroutines, EndMap(g), Reported(g)
    PROVE  ReportedNext(g)
  <1> DEFINE f == [Top(g) EXCEPT !.entry = 0, !.phase = "end"]
             l == call[g].l
             r == call[g].r
  <1>1. Active(g) /\ CallStep(g)
    BY Zenon, EndMapSteps DEF EndMap, Active
  <1>2. FrameInv(l, r, Top(g)) /\ Top(g).phase = "right" /\ Top(g).todo = {} /\ Top(g) \in Frames
    BY Zenon, <1>1, TopReported, TopFacts DEF EndMap
  <1>3. /\ f \in Frames /\ SameSides(Top(g), f) /\ f.duplicate = Top(g).duplicate /\ f.phase = "end"
    BY Zenon, <1>2 DEF Frames, Phases, SameSides
  <1>4. stack'[g] = Front(stack[g]) \o <<f>> /\ call'[g].cmp = call[g].cmp
    BY Zenon DEF EndMap, WalkInv, TypeInv
  <1> HIDE DEF f
  <1>5. FrameInv(l, r, f) /\ Rest(l, r, Top(g)) \subseteq Rest(l, r, f)
    BY Zenon, <1>2, <1>3, FrameEnds
  <1> QED  BY Zenon, <1>1, <1>3, <1>4, <1>5, QuietNext

(* The walker f begins to iterate over size, and visits keys. *)
Iterates(f, f2, phase, keys, size) ==
    /\ SameSides(f, f2) /\ f2.duplicate = f.duplicate
    /\ f2.phase = phase /\ f2.todo = keys
    /\ size # {} => f2.entry # 0

(* It does. *)
LEMMA IterateFrame ==
    ASSUME NEW V \in Walkers, NEW f \in Frames, NEW H, HeldInv(V, H),
           NEW phase, NEW keys, NEW size
    PROVE  Iterates(f, Iterate(V, f, phase, keys, size).frame, phase, keys, size)
  <1> DEFINE e == IF size = {} THEN 0 ELSE Allocated(V)
             f2 == [f EXCEPT !.phase = phase, !.todo = keys, !.entry = e]
  <1>1. Iterate(V, f, phase, keys, size).frame = f2
    BY Zenon DEF Iterate
  <1>2. size # {} => e # 0
    <2>1. Allocated(V) # 0
      BY Zenon, AllocateKeeps
    <2> QED  BY Zenon, <2>1
  <1> HIDE DEF e
  <1>3. /\ SameSides(f, f2) /\ f2.duplicate = f.duplicate
        /\ f2.phase = phase /\ f2.todo = keys /\ f2.entry = e
    BY Zenon DEF Frames, SameSides
  <1> HIDE DEF f2
  <1> QED  BY <1>1, <1>2, <1>3 DEF Iterates

(* doMap reports nothing by itself. *)
LEMMA DoMapReports ==
    ASSUME WalkInv, NEW g \in Goroutines, DoMap(g), Reported(g)
    PROVE  ReportedNext(g)
  <1> DEFINE keys == Below(g, "l")
             f == Iterate(W(g), Top(g), "left", keys, keys).frame
             l == call[g].l
             r == call[g].r
  <1>1. Active(g) /\ CallStep(g)
    BY Zenon, DoMapSteps DEF DoMap, Active
  <1>2. /\ FrameInv(l, r, Top(g)) /\ Kind[Top(g).node] = "map" /\ Top(g).phase = "compare"
        /\ ~LeafIn(l, r, Top(g).node) /\ keys = Children(l, Top(g).node)
    BY Zenon, <1>1, TopReported DEF DoMap
  <1>3. Top(g) \in Frames /\ W(g) \in Walkers /\ HeldInv(W(g), Held(Top(g)))
    BY Zenon, <1>1, TopFacts
  <1>4. /\ SameSides(Top(g), f) /\ f.duplicate = Top(g).duplicate
        /\ f.phase = "left" /\ f.todo = keys /\ (keys # {} => f.entry # 0)
    <2>1. Iterates(Top(g), f, "left", keys, keys)
      BY Zenon, <1>3, IterateFrame
    <2> QED  BY Zenon, <2>1 DEF Iterates
  <1>5. stack'[g] = Front(stack[g]) \o <<f>> /\ call'[g].cmp = call[g].cmp
    BY Zenon DEF DoMap, WalkInv, TypeInv
  <1>6. f \in Frames
    <2>1. stack'[g] \in Seq(Frames) /\ stack[g] \in Seq(Frames) /\ stack[g] # <<>>
      BY Zenon, <1>1, CallStepFacts, TopFacts
    <2> HIDE DEF f
    <2> QED  BY <1>5, <2>1, FrontFacts
  <1> HIDE DEF f
  <1>7. FrameInv(l, r, f) /\ Rest(l, r, Top(g)) \subseteq Rest(l, r, f)
    BY Zenon, <1>2, <1>4, MapBegins
  <1> QED  BY Zenon, <1>1, <1>4, <1>5, <1>6, <1>7, QuietNext

(* The second iteration of doMap. *)
LEMMA SecondMapReports ==
    ASSUME WalkInv, NEW g \in Goroutines, SecondMap(g), Reported(g)
    PROVE  ReportedNext(g)
  <1> DEFINE keys == Below(g, "r") \ Below(g, "l")
             V == Free(W(g), Top(g).entry)
             f == Iterate(V, Top(g), "right", keys, Below(g, "r")).frame
             l == call[g].l
             r == call[g].r
  <1>1. Active(g) /\ CallStep(g)
    BY Zenon, SecondMapSteps DEF SecondMap, Active
  <1>2. /\ FrameInv(l, r, Top(g)) /\ Top(g).phase = "left" /\ Top(g).todo = {}
    BY Zenon, <1>1, TopReported DEF SecondMap
  <1>3. Kind[Top(g).node] = "map"
    BY Zenon, <1>2 DEF FrameInv
  <1>4. /\ keys = Children(r, Top(g).node) \ Children(l, Top(g).node)
        /\ keys \subseteq Below(g, "r")
    BY Zenon, <1>1, <1>3, TopReported
  <1>5. Top(g) \in Frames /\ V \in Walkers /\ HeldInv(V, {Top(g).other} \ {0})
    BY Zenon, <1>1, TopFacts, EntryFreed
  <1>6. stack'[g] = Front(stack[g]) \o <<f>> /\ call'[g].cmp = call[g].cmp
    BY Zenon DEF SecondMap, WalkInv, TypeInv
  <1> HIDE DEF V, keys
  <1>7. /\ SameSides(Top(g), f) /\ f.duplicate = Top(g).duplicate
        /\ f.phase = "right" /\ f.todo = keys /\ (keys # {} => f.entry # 0)
    <2>1. Iterates(Top(g), f, "right", keys, Below(g, "r"))
      BY Zenon, <1>5, IterateFrame
    <2> HIDE DEF f
    <2> QED  BY Zenon, <1>4, <2>1 DEF Iterates
  <1> HIDE DEF f
  <1>8. f \in Frames
    <2>1. stack'[g] \in Seq(Frames) /\ stack[g] \in Seq(Frames) /\ stack[g] # <<>>
      BY Zenon, <1>1, CallStepFacts, TopFacts
    <2> QED  BY <1>6, <2>1, FrontFacts
  <1>9. FrameInv(l, r, f) /\ Rest(l, r, Top(g)) \subseteq Rest(l, r, f)
    BY Zenon, <1>2, <1>4, <1>7, MapTurns
  <1> QED  BY <1>1, <1>6, <1>7, <1>8, <1>9, QuietNext

(* doLeaf reports what differs. *)
LEMMA DoLeafReports ==
    ASSUME WalkInv, NEW g \in Goroutines, DoLeaf(g), Reported(g)
    PROVE  ReportedNext(g)
  <1> DEFINE f == [Top(g) EXCEPT !.inLeaf = TRUE, !.phase = "end"]
             l == call[g].l
             r == call[g].r
             w == call[g].w
             cmp2 == LeafReport(l, r, call[g].cmp, Top(g), PathOf(g))
             V2 == walker'[w]
             t == stack'[g]
  <1>1. Active(g) /\ CallStep(g)
    BY Zenon, DoLeafSteps DEF DoLeaf, Active
  <1>2. /\ FrameInv(l, r, Top(g)) /\ Top(g).phase = "compare" /\ LeafIn(l, r, Top(g).node)
        /\ Top(g).node # <<>> => Len(stack[g]) > 1
        /\ PathReads(w, W(g), stack[g], PathOf(g), Top(g).node) /\ Top(g).duplicate = "no"
    BY Zenon, <1>1, TopReported DEF DoLeaf
  <1>3. /\ Top(g) \in Frames /\ l \in Objects /\ r \in Objects /\ call[g].cmp \in Comparisons
        /\ stack[g] \in Seq(Frames) /\ stack[g] # <<>> /\ Top(g) = stack[g][Len(stack[g])]
        /\ Len(stack[g]) \in DOMAIN stack[g]
        /\ CellsInv(W(g), stack[g]) /\ call[g] \in Calls
    BY <1>1, TopFacts DEF CallInv
  <1>4. PathOf(g) \in Seq(Elements)
    BY Zenon, <1>1, ComparisonFacts
  <1>5. t \in Seq(Frames) /\ Stays(W(g), stack[g], V2, t)
    BY Zenon, <1>1, CallStepFacts
  <1>6. PathReads(w, V2, t, PathOf(g), Top(g).node)
    BY <1>2, <1>5, PathReadsStays
  <1>7. /\ f \in Frames /\ f.node = Top(g).node /\ f.lhs = Top(g).lhs /\ f.rhs = Top(g).rhs
        /\ f.inLeaf = TRUE /\ f.phase = "end" /\ f.duplicate = "no"
    BY Zenon, <1>2, <1>3 DEF Frames, Phases
  <1>8. t = Front(stack[g]) \o <<f>> /\ call'[g].cmp = LeafComparison(g)
    BY Zenon, <1>3 DEF DoLeaf, WalkInv, TypeInv, Calls
  <1>9. LeafComparison(g) = cmp2
    <2>1. ~Top(g).inLeaf
      BY Zenon, <1>2 DEF FrameInv
    <2>2. /\ Top(g).lhs # 0 => W(g).cells[Top(g).lhs] = Top(g).node
          /\ Top(g).rhs # 0 => W(g).cells[Top(g).rhs] = Top(g).node
      BY Zenon, <1>3 DEF CellsInv, SideInv
    <2> QED  BY Zenon, <2>1, <2>2 DEF LeafComparison, LeafReport
  <1>10. TopReplaced(stack[g], t, f)
    BY Zenon, <1>3, <1>7, <1>8, TopReplacedFacts
  <1> HIDE DEF f, t, V2
  <1>11. FrameInv(l, r, f)
    BY Zenon, <1>2, <1>7 DEF FrameInv
  <1>12. Adds(w, V2, t, l, r, call[g].cmp, cmp2) /\ TopCloses(w, V2, t, l, r, cmp2, Top(g), f)
    BY <1>2, <1>3, <1>4, <1>6, <1>7, LeafCloses
  <1> HIDE DEF cmp2
  <1>13. <<>> \notin Compared(l, r)
    BY Zenon DEF Compared
  <1>14. Report(w, V2, t, l, r, cmp2)
    BY <1>2, <1>3, <1>5, <1>7, <1>10, <1>11, <1>12, <1>13, TopReports DEF Reported
  <1> QED  BY <1>8, <1>9, <1>14 DEF ReportedNext, t, V2

(* The walkers of a descent are walkers. *)
LEMMA LastOfTwo ==
    ASSUME NEW S, NEW s \in Seq(S), s # <<>>, NEW x, NEW y, Front(s) \o <<x, y>> \in Seq(S)
    PROVE  y \in S
  <1> DEFINE T == S \cup {x, y}
             v == Front(s) \o <<x>>
  <1>1. s \in Seq(T) /\ x \in T /\ y \in T
    OBVIOUS
  <1> HIDE DEF T
  <1>2. v \in Seq(T)
    BY Zenon, <1>1, ReplaceTop
  <1>3. Front(s) \o <<x, y>> = Append(v, y)
    BY Zenon, <1>1, PushIsAppend
  <1> HIDE DEF v
  <1>4. Append(v, y) \in Seq(S)
    BY Zenon, <1>3
  <1>5. Len(v) + 1 \in 1 .. Len(Append(v, y)) /\ Append(v, y)[Len(v) + 1] = y
    BY <1>2
  <1> QED  BY <1>4, <1>5

(* A descent to a child reports nothing. *)
LEMMA DescendNext ==
    ASSUME WalkInv, NEW g \in Goroutines, CallStep(g), Reported(g),
           NEW V, NEW f \in Frames, NEW pe, NEW n \in Nodes, NEW lhs, NEW rhs,
           Descend(g, V, f, pe, n, lhs, rhs), ~f.inLeaf,
           SameSides(Top(g), f), FrameInv(call[g].l, call[g].r, f),
           FrameInv(call[g].l, call[g].r, PrepareDescent(V, f, pe, n, lhs, rhs)),
           f.duplicate = Duplicate(call[g].l, call[g].r, n),
           Rest(call[g].l, call[g].r, Top(g)) \subseteq Rest(call[g].l, call[g].r, f) \cup {n}
    PROVE  ReportedNext(g)
  <1> DEFINE t == stack'[g]
             f2 == PrepareDescent(V, f, pe, n, lhs, rhs)
             l == call[g].l
             r == call[g].r
  <1>1. Active(g) /\ t \in Seq(Frames) /\ Stays(W(g), stack[g], walker'[call[g].w], t)
    BY Zenon, CallStepFacts
  <1>2. /\ stack[g] \in Seq(Frames) /\ stack[g] # <<>> /\ Top(g) = stack[g][Len(stack[g])]
        /\ l \in Objects /\ r \in Objects
    BY Zenon, <1>1, TopFacts
  <1>3. t = Front(stack[g]) \o <<f, f2>> /\ call'[g].cmp = call[g].cmp
    BY Zenon DEF Descend, WalkInv, TypeInv
  <1>4. f2.node = n /\ ~f2.inLeaf /\ f2.phase = "compare" /\ f2.duplicate = "no"
    BY Zenon DEF PrepareDescent, Walker
  <1>5. f.node = Top(g).node /\ f.inLeaf = Top(g).inLeaf
    BY Zenon DEF SameSides
  <1> HIDE DEF f2
  <1>6. f2 \in Frames
    BY <1>1, <1>2, <1>3, LastOfTwo
  <1>7. Descended(stack[g], t, f, f2)
    BY Zenon, <1>2, <1>3, <1>6, DescendedFacts
  <1> HIDE DEF t
  <1>8. Report(call[g].w, walker'[call[g].w], t, l, r, call[g].cmp)
    BY <1>1, <1>2, <1>4, <1>5, <1>7, DescentReports DEF Reported, f2
  <1> QED  BY <1>3, <1>8 DEF ReportedNext, t

(* visitMapItem. *)
LEMMA VisitMapItemReports ==
    ASSUME WalkInv, NEW g \in Goroutines, VisitMapItem(g), Reported(g)
    PROVE  ReportedNext(g)
  <1> DEFINE f == Top(g)
             l == call[g].l
             r == call[g].r
             V1(n) == Reuse(W(g), f.entry, n)
             both(n) == f.phase = "left" /\ n \in Below(g, "r")
             c(n) == OtherSide(V1(n), both(n))
             V(n) == Reuse(WithOther(V1(n), both(n)), c(n), n)
             lhs == IF f.phase = "left" THEN f.entry ELSE 0
             rhs(n) == IF f.phase = "left" THEN c(n) ELSE f.entry
             f1(n) == [f EXCEPT !.todo = @ \ {n}, !.other = c(n)]
  <1>1. Active(g) /\ CallStep(g) /\ f.phase \in {"left", "right"}
    BY Zenon, VisitMapItemSteps DEF VisitMapItem, Active
  <1>2. PICK n \in f.todo : Descend(g, V(n), f1(n), FieldName(n), n, lhs, rhs(n))
    BY Zenon DEF VisitMapItem
  <1>3. /\ W(g) \in Walkers /\ f \in Frames /\ HeldInv(W(g), Held(f)) /\ l \in Objects /\ r \in Objects
    BY Zenon, <1>1, TopFacts
  <1>4. FrameInv(l, r, f)
    BY Zenon, <1>1, TopReported
  <1>5. n \in Nodes /\ f.entry \in Nat /\ (f.entry # 0 => f.entry \in Held(f)) /\ ~f.inLeaf
        /\ Kind[f.node] = "map"
    <2>1. n \in Nodes /\ f.entry \in Nat /\ (f.entry # 0 => f.entry \in Held(f))
      BY Zenon, <1>3 DEF Frames, Held
    <2>2. ~f.inLeaf /\ Kind[f.node] = "map"
      BY Zenon, <1>1, <1>4 DEF FrameInv
    <2> QED  BY Zenon, <2>1, <2>2
  <1>6. Below(g, "r") = Children(r, f.node)
    BY Zenon, <1>1, <1>5, TopReported
  <1> HIDE DEF f
  <1>7. c(n) \in Nat /\ (c(n) # 0 <=> both(n))
    <2>1. V1(n) \in Walkers /\ HeldInv(V1(n), Held(f))
      BY Zenon, <1>3, <1>5, ReuseKeeps
    <2> HIDE DEF V1
    <2>2. Allocated(V1(n)) \in Nat \ {0}
      BY Zenon, <2>1, AllocateKeeps
    <2> QED  BY Zenon, <2>2 DEF OtherSide
  <1> HIDE DEF V1, c, V
  <1>8. /\ f1(n) \in Frames /\ SameSides(f, f1(n)) /\ f1(n).phase = f.phase
        /\ f1(n).entry = f.entry /\ f1(n).todo = f.todo \ {n} /\ f1(n).duplicate = f.duplicate
    BY Zenon, <1>3, <1>7 DEF Frames, SameSides
  <1> HIDE DEF f1
  <1>9. FrameInv(l, r, f1(n)) /\ Rest(l, r, f) \subseteq Rest(l, r, f1(n)) \cup {n}
    BY <1>1, <1>4, <1>8, ChildTaken
  <1> DEFINE f2 == PrepareDescent(V(n), f1(n), FieldName(n), n, lhs, rhs(n))
  <1>10. /\ f2.node = n /\ f2.phase = "compare" /\ ~f2.inLeaf /\ f2.lhs = lhs /\ f2.rhs = rhs(n)
    BY Zenon, <1>5, <1>8 DEF PrepareDescent, Walker, SameSides
  <1> HIDE DEF f2
  <1>11. FrameInv(l, r, f2) /\ Duplicate(l, r, n) = "no"
    <2>1. f.phase = "left" => f2.lhs = f.entry /\ (f2.rhs # 0 <=> n \in Children(r, f.node))
      BY Zenon, <1>6, <1>7, <1>10
    <2>2. f.phase = "right" => f2.lhs = 0 /\ f2.rhs = f.entry
      BY Zenon, <1>10
    <2> QED  BY Zenon, <1>1, <1>3, <1>4, <1>10, <2>1, <2>2, EntryFrame
  <1>12. f1(n).duplicate = Duplicate(l, r, n) /\ ~f1(n).inLeaf
    BY Zenon, <1>1, <1>5, <1>8, <1>11, TopReported DEF f, SameSides
  <1> HIDE DEF lhs, rhs
  <1> QED  BY <1>1, <1>2, <1>5, <1>8, <1>9, <1>11, <1>12, DescendNext DEF f, f2

(* How often the two sides have an item that is taken. *)
LEMMA CountFacts ==
    ASSUME WalkInv, NEW g \in Goroutines, Active(g), Reported(g), Top(g).phase = "items",
           NEW n \in Top(g).todo
    PROVE  /\ n \in Nodes /\ n # <<>> /\ Item(n)
           /\ Count(g, "l", n) = Times(call[g].l, n) /\ Count(g, "r", n) = Times(call[g].r, n)
           /\ Times(call[g].l, n) \in Nat /\ Times(call[g].r, n) \in Nat
           /\ Times(call[g].l, n) # 0 \/ Times(call[g].r, n) # 0
  <1> DEFINE f == Top(g)
             l == call[g].l
             r == call[g].r
  <1>1. /\ FrameInv(l, r, f) /\ f \in Frames /\ l \in Objects /\ r \in Objects
    BY Zenon, TopReported, TopFacts
  <1>2. Kind[f.node] = "list"
    BY Zenon, <1>1 DEF FrameInv
  <1>3. Below(g, "l") = Children(l, f.node) /\ Below(g, "r") = Children(r, f.node)
    BY Zenon, <1>2, TopReported
  <1>4. /\ n \in Compared(l, r) /\ n \in Nodes /\ Front(n) = f.node
        /\ n \in DOMAIN l <=> n \in Children(l, f.node)
        /\ n \in DOMAIN r <=> n \in Children(r, f.node)
        /\ n \in DOMAIN l \cup DOMAIN r
    BY Zenon, <1>1, TakenFacts
  <1>5. n # <<>> /\ Item(n)
    BY Zenon, <1>2, <1>4 DEF Item, Compared
  <1>6. Count(g, "l", n) = Times(l, n) /\ Count(g, "r", n) = Times(r, n)
    BY Zenon, <1>3, <1>4 DEF Count, Times
  <1>7. /\ Times(l, n) \in Nat /\ (Times(l, n) = 0 <=> n \notin DOMAIN l)
        /\ Times(r, n) \in Nat /\ (Times(r, n) = 0 <=> n \notin DOMAIN r)
    BY Zenon, <1>1, <1>4, <1>5, TimesFacts
  <1> QED  BY <1>4, <1>5, <1>6, <1>7

(* compareListItem. *)
LEMMA CompareListItemReports ==
    ASSUME WalkInv, NEW g \in Goroutines, CompareListItem(g), Reported(g)
    PROVE  ReportedNext(g)
  <1> DEFINE f == Top(g)
             l == call[g].l
             r == call[g].r
             V(n) == ItemCells(W(g), n, Count(g, "l", n), Count(g, "r", n))
             first == Len(W(g).cells) + 1
             pe == ItemValue(call[g].w, first)
             lhs(n) == IF Count(g, "l", n) = 1 THEN first ELSE 0
             rhs(n) == IF Count(g, "r", n) = 1 THEN Len(V(n).cells) ELSE 0
             duplicate(n) == IF Count(g, "l", n) > 1 THEN "removed"
                             ELSE IF Count(g, "r", n) > 1 THEN "added" ELSE "no"
             f1(n) == [f EXCEPT !.todo = @ \ {n}, !.duplicate = duplicate(n)]
  <1>1. Active(g) /\ CallStep(g) /\ f.phase = "items"
    BY Zenon, CompareListItemSteps DEF CompareListItem, Active
  <1>2. PICK n \in f.todo : /\ Count(g, "l", n) = 1 \/ Count(g, "r", n) = 1
                            /\ Descend(g, V(n), f1(n), pe, n, lhs(n), rhs(n))
    BY Zenon DEF CompareListItem
  <1>3. /\ W(g) \in Walkers /\ f \in Frames /\ HeldInv(W(g), Held(f)) /\ l \in Objects /\ r \in Objects
    BY Zenon, <1>1, TopFacts
  <1>4. FrameInv(l, r, f)
    BY Zenon, <1>1, TopReported
  <1>5. ~f.inLeaf
    BY Zenon, <1>1, <1>4 DEF FrameInv
  <1>6. /\ n \in Nodes /\ Count(g, "l", n) = Times(l, n) /\ Count(g, "r", n) = Times(r, n)
    BY Zenon, <1>1, CountFacts
  <1> HIDE DEF f
  <1>7. first # 0 /\ Len(V(n).cells) # 0
    <2>1. NewValue(W(g), Held(f), V(n), first, n) /\ NewValue(W(g), Held(f), V(n), Len(V(n).cells), n)
      BY Zenon, <1>3, <1>6, ItemFacts
    <2> QED  BY Zenon, <2>1 DEF NewValue
  <1> HIDE DEF V, first
  <1>8. duplicate(n) \in {"no", "removed", "added"}
    BY Zenon
  <1>9. /\ lhs(n) # 0 <=> Times(l, n) = 1
        /\ rhs(n) # 0 <=> Times(r, n) = 1
        /\ Times(l, n) = 1 \/ Times(r, n) = 1
        /\ duplicate(n) = IF Times(l, n) > 1 THEN "removed"
                          ELSE IF Times(r, n) > 1 THEN "added" ELSE "no"
    BY Zenon, <1>2, <1>6, <1>7
  <1> HIDE DEF lhs, rhs, duplicate
  <1>10. /\ f1(n) \in Frames /\ SameSides(f, f1(n)) /\ f1(n).phase = f.phase
         /\ f1(n).entry = f.entry /\ f1(n).todo = f.todo \ {n} /\ f1(n).duplicate = duplicate(n)
    BY Zenon, <1>3, <1>8 DEF Frames, SameSides
  <1> DEFINE f2 == PrepareDescent(V(n), f1(n), pe, n, lhs(n), rhs(n))
  <1> HIDE DEF f1
  <1>11. FrameInv(l, r, f1(n)) /\ Rest(l, r, f) \subseteq Rest(l, r, f1(n)) \cup {n}
    BY <1>1, <1>4, <1>10, ChildTaken
  <1>12. /\ f2.node = n /\ f2.phase = "compare" /\ ~f2.inLeaf /\ f2.lhs = lhs(n) /\ f2.rhs = rhs(n)
    BY Zenon, <1>5, <1>10 DEF PrepareDescent, Walker, SameSides
  <1> HIDE DEF f2
  <1>13. /\ FrameInv(l, r, f2)
         /\ Duplicate(l, r, n) = IF Times(l, n) > 1 THEN "removed"
                                 ELSE IF Times(r, n) > 1 THEN "added" ELSE "no"
    BY <1>1, <1>3, <1>4, <1>9, <1>12, ItemFrame
  <1>14. f1(n).duplicate = Duplicate(l, r, n) /\ ~f1(n).inLeaf
    BY Zenon, <1>5, <1>9, <1>10, <1>13 DEF SameSides
  <1> QED  BY <1>1, <1>2, <1>6, <1>10, <1>11, <1>13, <1>14, DescendNext DEF f, f2

(* The element of a new value reads as the value's node. *)
LEMMA NewValueReads ==
    ASSUME NEW w, NEW V, NEW s \in Seq(Frames), s # <<>>, CellsInv(V, s),
           NEW V2, NEW t \in Seq(Frames), NEW f, TopReplaced(s, t, f), Held(f) = Held(s[Len(s)]),
           NEW H, NEW c, NEW n \in Nodes, NewValue(V, H, V2, c, n)
    PROVE  Reads(w, V2, t, ItemValue(w, c), Last(n))
  <1>1. /\ c \in DOMAIN V2.cells \ Range(V2.free) /\ c \notin DOMAIN V.cells /\ V2.cells[c] = n
    BY Zenon DEF NewValue
  <1>2. n # Nothing
    BY Zenon, WalkAssumption DEF Nodes
  <1>3. ASSUME NEW i \in DOMAIN t PROVE c \notin Held(t[i])
    <2>1. \A j \in DOMAIN s : Held(s[j]) \subseteq DOMAIN V.cells
      BY Zenon DEF CellsInv
    <2>2. i \in DOMAIN s /\ Len(s) \in DOMAIN s /\ (t[i] = s[i] \/ t[i] = f)
      BY DEF TopReplaced
    <2> QED  BY Zenon, <1>1, <2>1, <2>2
  <1> QED  BY <1>1, <1>2, <1>3 DEF Reads, Settled

(* A slice whose elements read as a node. *)
LEMMA SliceReads ==
    ASSUME NEW w, NEW V \in Walkers, NEW s, NEW p \in Slices, NEW n, PathInv(w, V, s, p, n)
    PROVE  PathReads(w, V, s, Content(V.mem, p), n) /\ Content(V.mem, p) \in Seq(Elements)
  <1>1. V.mem \in Seq(Seq(Elements)) /\ SliceInv(V.mem, p) /\ p.len = Len(n)
    BY Zenon DEF Walkers, PathInv
  <1>2. /\ Content(V.mem, p) \in Seq(Elements) /\ Len(Content(V.mem, p)) = p.len
        /\ \A j \in 1 .. p.len : Content(V.mem, p)[j] = V.mem[p.array][j]
    BY Zenon, <1>1, ContentFacts
  <1> QED  BY Zenon, <1>1, <1>2 DEF PathReads, PathInv

(* The path that is reported for duplicates reads as the item. *)
LEMMA DuplicatePath ==
    ASSUME NEW w \in 1 .. NumWalkers, NEW V \in Walkers, NEW s \in Seq(Frames), s # <<>>, CallInv(w, V, s),
           NEW V2 \in Walkers, NEW t \in Seq(Frames), NEW f, TopReplaced(s, t, f),
           Held(f) = Held(s[Len(s)]), Stays(V, s, V2, t),
           NEW n \in s[Len(s)].todo, NEW H, NEW c, NewValue(V, H, V2, c, n),
           V2.mem = AppendMem(V.mem, s[Len(s)].path, ItemValue(w, c))
    PROVE  LET path == Content(V2.mem, AppendSlice(V.mem, s[Len(s)].path, ItemValue(w, c)))
           IN  PathReads(w, V2, t, path, n) /\ path \in Seq(Elements)
  <1> DEFINE pe == ItemValue(w, c)
             p == s[Len(s)].path
             p2 == AppendSlice(V.mem, p, pe)
             q == s[Len(s)].node
  <1>1. Len(s) \in DOMAIN s /\ p \in Slices /\ q \in Nodes
    <2>1. Len(s) \in DOMAIN s /\ s[Len(s)] \in Frames
      OBVIOUS
    <2> QED  BY Zenon, <2>1 DEF Frames
  <1>2. PathInv(w, V, s, p, q) /\ n \in ChildrenOf(q)
    BY Zenon, <1>1 DEF CallInv, PathsInv
  <1>3. n \in Nodes /\ pe \in Elements
    BY Zenon, <1>2, ElementFacts DEF ChildrenOf, NewValue
  <1>4. Reads(w, V2, t, pe, Last(n))
    BY Zenon, <1>3, NewValueReads DEF CallInv
  <1>5. p2 \in Slices
    BY Zenon, <1>1, <1>2, <1>3, ElementAppended DEF PathInv
  <1> HIDE DEF pe, p, q
  <1>6. V2.mem = AppendMem(V.mem, p, pe)
    BY Zenon DEF pe, p
  <1>7. PathInv(w, V2, t, p2, n)
    BY Zenon, <1>1, <1>2, <1>3, <1>4, <1>6, AppendedPath
  <1> HIDE DEF p2
  <1>8. PathReads(w, V2, t, Content(V2.mem, p2), n) /\ Content(V2.mem, p2) \in Seq(Elements)
    BY Zenon, <1>5, <1>7, SliceReads
  <1> QED  BY <1>8 DEF p2, p, pe

(* Duplicates that are not compared. *)
LEMMA CompareDuplicatesReports ==
    ASSUME WalkInv, NEW g \in Goroutines, CompareDuplicates(g), Reported(g)
    PROVE  ReportedNext(g)
  <1> DEFINE f == Top(g)
             l == call[g].l
             r == call[g].r
             w == call[g].w
             V(n) == ItemCells(W(g), n, Count(g, "l", n), Count(g, "r", n))
             first == Len(W(g).cells) + 1
             pe == ItemValue(w, first)
             equal(n) == Count(g, "l", n) > 1 /\ Count(g, "l", n) = Count(g, "r", n)
             mem(n) == IF equal(n) THEN V(n).mem ELSE AppendMem(V(n).mem, f.path, pe)
             path(n) == Content(mem(n), AppendSlice(V(n).mem, f.path, pe))
             f1(n) == [f EXCEPT !.todo = @ \ {n}]
             which(n) == IF Count(g, "l", n) = 0 THEN "added"
                         ELSE IF Count(g, "r", n) = 0 THEN "removed" ELSE "modified"
             V2 == walker'[w]
             t == stack'[g]
  <1>1. Active(g) /\ CallStep(g) /\ f.phase = "items"
    BY Zenon, CompareDuplicatesSteps DEF CompareDuplicates, Active
  <1>2. PICK n \in f.todo :
          /\ Count(g, "l", n) # 1 /\ Count(g, "r", n) # 1
          /\ walker' = [walker EXCEPT ![w] = [V(n) EXCEPT !.mem = mem(n)]]
          /\ stack' = [stack EXCEPT ![g] = Front(@) \o <<f1(n)>>]
          /\ call' = [call EXCEPT ![g].cmp = IF equal(n) THEN @ ELSE Insert(@, which(n), path(n))]
    BY Zenon DEF CompareDuplicates
  <1>3. /\ W(g) \in Walkers /\ f \in Frames /\ HeldInv(W(g), Held(f)) /\ l \in Objects /\ r \in Objects
        /\ stack[g] \in Seq(Frames) /\ stack[g] # <<>> /\ f = stack[g][Len(stack[g])]
        /\ CallInv(w, W(g), stack[g]) /\ w \in 1 .. NumWalkers /\ call[g] \in Calls
        /\ call[g].cmp \in Comparisons
    BY Zenon, <1>1, TopFacts
  <1>4. /\ FrameInv(l, r, f) /\ f.duplicate = "no" /\ (f.node # <<>> => Len(stack[g]) > 1)
    BY Zenon, <1>1, TopReported
  <1>5. /\ n \in Nodes /\ Count(g, "l", n) = Times(l, n) /\ Count(g, "r", n) = Times(r, n)
        /\ Times(l, n) \in Nat /\ Times(r, n) \in Nat /\ (Times(l, n) # 0 \/ Times(r, n) # 0)
    BY Zenon, <1>1, CountFacts
  <1>6. V2 \in Walkers /\ t \in Seq(Frames) /\ Stays(W(g), stack[g], V2, t)
    BY Zenon, <1>1, CallStepFacts
  <1>7. /\ t = Front(stack[g]) \o <<f1(n)>>
        /\ call'[g].cmp = IF equal(n) THEN call[g].cmp ELSE Insert(call[g].cmp, which(n), path(n))
    BY Zenon, <1>2, <1>3 DEF WalkInv, TypeInv, Calls
  <1> HIDE DEF f
  <1>8. /\ V(n) \in Walkers /\ SameButCells(W(g), V(n)) /\ NewValue(W(g), Held(f), V(n), first, n)
    BY Zenon, <1>3, <1>5, ItemFacts
  <1>9. V2 = [V(n) EXCEPT !.mem = mem(n)]
    BY Zenon, <1>2, <1>3 DEF WalkInv, TypeInv
  <1>10. V(n).mem = W(g).mem
    BY Zenon, <1>8 DEF SameButCells
  <1> HIDE DEF V, first
  <1>11. equal(n) <=> Times(l, n) = Times(r, n)
    BY <1>2, <1>5
  <1>12. call'[g].cmp = ItemReport(l, r, call[g].cmp, n, path(n))
    BY Zenon, <1>5, <1>7, <1>11 DEF ItemReport
  <1> HIDE DEF equal, which
  <1>13. /\ V2.cells = V(n).cells /\ V2.free = V(n).free /\ V2.mem = mem(n)
    BY Zenon, <1>8, <1>9 DEF Walkers
  <1>14. NewValue(W(g), Held(f), V2, first, n)
    BY Zenon, <1>8, <1>13 DEF NewValue
  <1>15. /\ f1(n) \in Frames /\ SameSides(f, f1(n)) /\ f1(n).phase = f.phase
         /\ f1(n).entry = f.entry /\ f1(n).other = f.other
         /\ f1(n).todo = f.todo \ {n} /\ f1(n).duplicate = f.duplicate
    BY <1>3, Zenon DEF Frames, SameSides
  <1> HIDE DEF f1, V2
  <1>16. TopReplaced(stack[g], t, f1(n)) /\ Held(f1(n)) = Held(f)
    BY Zenon, <1>3, <1>7, <1>15, TopReplacedFacts DEF Held
  <1> HIDE DEF t
  <1>17. FrameInv(l, r, f1(n))
    BY Zenon, <1>1, <1>4, <1>15, ChildTaken
  <1>18. ~equal(n) => PathReads(w, V2, t, path(n), n) /\ path(n) \in Seq(Elements)
    <2> SUFFICES ASSUME ~equal(n)
                 PROVE  PathReads(w, V2, t, path(n), n) /\ path(n) \in Seq(Elements)
      BY Zenon
    <2>1. /\ V2.mem = AppendMem(W(g).mem, f.path, pe)
          /\ path(n) = Content(V2.mem, AppendSlice(W(g).mem, f.path, pe))
      BY Zenon, <1>10, <1>13
    <2> HIDE DEF path
    <2> QED  BY <1>3, <1>6, <1>14, <1>16, <2>1, DuplicatePath
  <1> HIDE DEF path
  <1> DEFINE p == IF equal(n) THEN <<>> ELSE path(n)
             cmp2 == ItemReport(l, r, call[g].cmp, n, p)
  <1>19. call'[g].cmp = cmp2
    BY Zenon, <1>11, <1>12 DEF ItemReport
  <1>20. p \in Seq(Elements) /\ (Times(l, n) # Times(r, n) => PathReads(w, V2, t, p, n))
    BY <1>11, <1>18
  <1> HIDE DEF p
  <1>21. Adds(w, V2, t, l, r, call[g].cmp, cmp2) /\ TopCloses(w, V2, t, l, r, cmp2, f, f1(n))
    <2>1. Times(l, n) # 1 /\ Times(r, n) # 1
      BY Zenon, <1>2, <1>5
    <2> QED  BY Zenon, <1>1, <1>3, <1>4, <1>15, <1>20, <2>1, DuplicatesClose
  <1> HIDE DEF cmp2
  <1>22. <<>> \notin Compared(l, r)
    BY Zenon DEF Compared
  <1>23. /\ f1(n).node = f.node /\ f1(n).inLeaf = f.inLeaf /\ f1(n).duplicate = "no"
         /\ f1(n).node # <<>> => Len(stack[g]) > 1
    BY Zenon, <1>4, <1>15 DEF SameSides
  <1>24. Report(w, V2, t, l, r, cmp2)
    BY Zenon, <1>3, <1>6, <1>16, <1>17, <1>21, <1>22, <1>23, TopReports DEF Reported
  <1> QED  BY <1>19, <1>24 DEF ReportedNext, t, V2

(* The end of compare and of its caller. *)
LEMMA AscendReports ==
    ASSUME WalkInv, NEW g \in Goroutines, Ascend(g), Reported(g)
    PROVE  ReportedNext(g)
  <1> DEFINE l == call[g].l
             r == call[g].r
             w == call[g].w
             s == stack[g]
             m == Len(s)
             f2 == Top(g)
             f == Last(Front(s))
             f3 == [FinishDescent(f, f2) EXCEPT !.other = 0, !.duplicate = "no"]
             cmp2 == EndReport(call[g].cmp, f, f2, PathOf(g))
             V2 == walker'[w]
             t == stack'[g]
  <1>1. Active(g) /\ CallStep(g) /\ f2.phase = "end" /\ m > 1
    BY Zenon, AscendSteps DEF Ascend, Active
  <1>2. /\ W(g) \in Walkers /\ f2 \in Frames /\ l \in Objects /\ r \in Objects
        /\ s \in Seq(Frames) /\ s # <<>> /\ f2 = s[m] /\ m \in Nat /\ m \in DOMAIN s
        /\ CallInv(w, W(g), s) /\ call[g] \in Calls /\ call[g].cmp \in Comparisons
        /\ Len(f2.node) = m - 1
    BY <1>1, TopFacts
  <1>3. /\ FrameInv(l, r, f2) /\ PathReads(w, W(g), s, PathOf(g), f2.node)
    BY Zenon, <1>1, TopReported
  <1>4. PathOf(g) \in Seq(Elements)
    BY Zenon, <1>1, ComparisonFacts
  <1>5. V2 \in Walkers /\ t \in Seq(Frames) /\ Stays(W(g), s, V2, t)
    BY Zenon, <1>1, CallStepFacts
  <1>6. t = Front(Front(s)) \o <<f3>> /\ call'[g].cmp = cmp2
    BY Zenon, <1>2 DEF Ascend, EndReport, WalkInv, TypeInv, Calls
  <1>7. m - 1 \in DOMAIN s /\ m - 1 \in 1 .. m /\ f = s[m - 1] /\ f \in Frames
    <2>1. Front(s) \in Seq(Frames) /\ Len(Front(s)) = m - 1 /\ \A i \in 1 .. (m - 1) : Front(s)[i] = s[i]
      BY Zenon, <1>2, FrontFacts
    <2>2. m - 1 \in 1 .. (m - 1) /\ m - 1 \in 1 .. m /\ DOMAIN s = 1 .. m
      BY <1>1, <1>2
    <2>3. f = Front(s)[m - 1] /\ m - 1 \in DOMAIN s
      BY Zenon, <2>1, <2>2 DEF Last
    <2> QED  BY <1>2, <2>1, <2>2, <2>3
  <1>8. f2.node # <<>>
    BY <1>1, <1>2
  <1> HIDE DEF f, f2, t, V2
  <1>9. FrameInv(l, r, f) /\ f.duplicate = Duplicate(l, r, f2.node)
    <2>1. /\ \A i \in DOMAIN s : FrameInv(l, r, s[i])
          /\ \A i \in DOMAIN s : i > 1 => s[i - 1].duplicate = Duplicate(l, r, s[i].node)
      BY Zenon DEF Reported, Report, ProgressInv
    <2> QED  BY Zenon, <1>1, <1>2, <1>7, <2>1
  <1>10. WithoutLast(f2.path) \in Slices
    <2>1. WithoutLast(Last(s).path) \in Slices
      BY Zenon, <1>1, <1>2, WalkerPopped
    <2> QED  BY Zenon, <2>1 DEF f2, Top
  <1>11. /\ f3 \in Frames /\ SameSides(f, f3) /\ f3.phase = f.phase /\ f3.todo = f.todo
         /\ f3.entry = f.entry /\ f3.duplicate = "no"
    BY Zenon, <1>7, <1>10 DEF Frames, FinishDescent, SameSides
  <1> HIDE DEF f3
  <1>12. Ascended(s, t, f3)
    BY Zenon, <1>1, <1>2, <1>6, <1>11, AscendedFacts
  <1>13. FrameInv(l, r, f3) /\ Rest(l, r, f3) = Rest(l, r, f) /\ f3.node = f.node /\ f3.inLeaf = f.inLeaf
    BY <1>9, <1>11 DEF FrameInv, Rest, SameSides
  <1>14. PathReads(w, V2, t, PathOf(g), f2.node)
    BY Zenon, <1>3, <1>5, PathReadsStays
  <1>15. Adds(w, V2, t, l, r, call[g].cmp, cmp2) /\ EndCloses(w, V2, t, l, r, cmp2, f, f2)
    BY Zenon, <1>1, <1>2, <1>3, <1>4, <1>8, <1>9, <1>14, EndClosesNode
  <1> HIDE DEF cmp2
  <1>16. Report(w, V2, t, l, r, cmp2)
    BY Zenon, <1>1, <1>2, <1>5, <1>7, <1>11, <1>12, <1>13, <1>15, AscentReports
       DEF Reported
  <1> QED  BY <1>6, <1>16 DEF ReportedNext, t, V2
-----------------------------------------------------------------------------
(* What was returned stays right. *)
ValuesStay ==
    \A w \in 1 .. NumWalkers : \A c :
      ForEver(w, c) => ForEver(w, c)' /\ walker'[w].cells[c] = walker[w].cells[c]

(* So do the paths that were reported. *)
LEMMA RightStays ==
    ASSUME ValuesStay, NEW c, Right(c)
    PROVE  Right(c)'
  <1>1. ASSUME NEW pe, NEW name, ReadsForEver(pe, name)
        PROVE  ReadsForEver(pe, name)'
    <2>1. CASE pe = <<"field", name>>
      BY Zenon, <2>1 DEF ReadsForEver
    <2>2. CASE pe # <<"field", name>>
      <3>1. PICK w \in 1 .. NumWalkers : \E d \in DOMAIN walker[w].cells :
              /\ pe = ItemValue(w, d) /\ ForEver(w, d)
              /\ walker[w].cells[d] # Nothing
              /\ Last(walker[w].cells[d]) = name
        BY Zenon, <1>1, <2>2 DEF ReadsForEver
      <3>2. PICK d \in DOMAIN walker[w].cells :
              /\ pe = ItemValue(w, d) /\ ForEver(w, d)
              /\ walker[w].cells[d] # Nothing
              /\ Last(walker[w].cells[d]) = name
        BY Zenon, <3>1
      <3>3. ForEver(w, d)' /\ walker'[w].cells[d] = walker[w].cells[d]
        BY Zenon, <3>2 DEF ValuesStay
      <3>4. d \in DOMAIN walker'[w].cells
        BY Zenon, <3>3 DEF ForEver
      <3> QED  BY Zenon, <3>2, <3>3, <3>4 DEF ReadsForEver
    <2> QED  BY Zenon, <2>1, <2>2
  <1>2. ASSUME NEW p, NEW n, PathReadsForEver(p, n)
        PROVE  PathReadsForEver(p, n)'
    BY Zenon, <1>1, <1>2 DEF PathReadsForEver
  <1> QED  BY <1>2, Zenon DEF Right

(* A step of a call. *)
LEMMA CallStepValues ==
    ASSUME WalkInv, NEW g \in Goroutines, CallStep(g)
    PROVE  ValuesStay
  <1> SUFFICES ASSUME NEW w \in 1 .. NumWalkers, NEW c, ForEver(w, c)
               PROVE  ForEver(w, c)' /\ walker'[w].cells[c] = walker[w].cells[c]
    BY Zenon DEF ValuesStay
  <1>1. /\ Active(g) /\ call'[g].w = call[g].w
        /\ Stays(W(g), stack[g], walker'[call[g].w], stack'[g])
        /\ \A h \in Goroutines : h # g => stack'[h] = stack[h] /\ call'[h] = call[h]
        /\ \A v \in 1 .. NumWalkers : v # call[g].w => walker'[v] = walker[v]
    BY Zenon, CallStepFacts
  <1>2. \A h \in Goroutines : call[h].w = w => Active(h)
    BY WalkAssumption DEF Active, Idle
  <1>3. /\ c \in DOMAIN walker[w].cells \ Range(walker[w].free)
        /\ \A h \in Goroutines : call[h].w = w => Settled(walker[w], stack[h], c)
    BY Zenon DEF ForEver
  <1>4. CASE w = call[g].w
    <2>1. Settled(walker'[w], stack'[g], c) /\ walker'[w].cells[c] = walker[w].cells[c]
      BY Zenon, <1>1, <1>3, <1>4 DEF Stays, W
    <2>2. \A h \in Goroutines : call'[h].w = w => h = g
      BY <1>1, <1>2, <1>4 DEF WalkInv, UseInv
    <2> QED  BY Zenon, <2>1, <2>2 DEF ForEver, Settled
  <1>5. CASE w # call[g].w
    <2>1. walker'[w] = walker[w] /\ \A h \in Goroutines : call'[h].w = w => h # g
      BY Zenon, <1>1, <1>5
    <2> QED  BY Zenon, <1>1, <1>3, <2>1 DEF ForEver
  <1> QED  BY <1>4, <1>5

(* A step of a call that reports what is right. *)
LEMMA CallStepReports ==
    ASSUME WalkInv, ReportInv, NEW g \in Goroutines, CallStep(g), ReportedNext(g)
    PROVE  ReportInv'
  <1>1. /\ Active(g) /\ call'[g].w = call[g].w /\ call'[g].l = call[g].l /\ call'[g].r = call[g].r
        /\ \A h \in Goroutines : h # g => stack'[h] = stack[h] /\ call'[h] = call[h]
        /\ \A v \in 1 .. NumWalkers : v # call[g].w => walker'[v] = walker[v]
        /\ returned' = returned
    BY Zenon, CallStepFacts
  <1>2. ValuesStay
    BY Zenon, CallStepValues
  <1>3. \A c \in returned' : Right(c)'
    BY Zenon, <1>1, <1>2, RightStays DEF ReportInv
  <1>4. ASSUME NEW h \in Goroutines, Active(h)'
        PROVE  Reported(h)'
    <2>1. CASE h = g
      BY Zenon, <1>1, <2>1 DEF ReportedNext, Reported, W
    <2>2. CASE h # g
      <3>1. Active(h) /\ call'[h] = call[h] /\ stack'[h] = stack[h]
        BY Zenon, <1>1, <1>4, <2>2 DEF Active
      <3>2. call[h].w \in 1 .. NumWalkers /\ call[h].w # call[g].w
        BY Zenon, <1>1, <2>2, <3>1, TopFacts DEF WalkInv, UseInv
      <3>3. walker'[call[h].w] = walker[call[h].w]
        BY Zenon, <1>1, <3>2
      <3> QED  BY Zenon, <3>1, <3>3 DEF ReportInv, Reported, W
    <2> QED  BY Zenon, <2>1, <2>2
  <1> QED  BY <1>3, <1>4 DEF ReportInv

(* TypedValue.Compare begins: nothing is reported, and no value changes. *)
LEMMA CompareReports ==
    ASSUME WalkInv, ReportInv, NEW g \in Goroutines, NEW pair \in Pairs, Compare(g, pair[1], pair[2])
    PROVE  ReportInv'
  <1> DEFINE l == pair[1]
             r == pair[2]
  <1>1. PICK w \in 1 .. NumWalkers :
          /\ w \in pool \/ Unused(w)
          /\ LET V == walker[w]
                 n == Len(V.cells)
             IN  /\ walker' = [walker EXCEPT ![w] = NewCell(NewCell(V, <<>>), <<>>)]
                 /\ stack' = [stack EXCEPT ![g] = <<Walker(<<>>, V.path, V.inLeaf, n + 1, n + 2)>>]
                 /\ call' = [call EXCEPT ![g] = [w |-> w, l |-> l, r |-> r, cmp |-> EmptyComparison]]
    BY Zenon DEF Compare
  <1> DEFINE V == walker[w]
             V2 == NewCell(NewCell(V, <<>>), <<>>)
             f == Walker(<<>>, V.path, V.inLeaf, Len(V.cells) + 1, Len(V.cells) + 2)
             t == <<f>>
             c == [w |-> w, l |-> l, r |-> r, cmp |-> EmptyComparison]
  <1>2. /\ walker \in [1 .. NumWalkers -> Walkers] /\ stack \in [Goroutines -> Seq(Frames)]
        /\ call \in [Goroutines -> Calls \cup {Idle}]
    BY Zenon DEF WalkInv, TypeInv
  <1>3. (\A h \in Goroutines : call[h].w # w) /\ RestInv(V) /\ V \in Walkers
    BY Zenon, <1>1, <1>2, TakenRests
  <1>4. t \in Seq(Frames) /\ Stays(V, <<>>, V2, t)
    BY Zenon, <1>3, CallBegins, PairFacts
  <1>5. /\ walker' = [walker EXCEPT ![w] = V2] /\ stack' = [stack EXCEPT ![g] = t]
        /\ call' = [call EXCEPT ![g] = c] /\ returned' = returned
        /\ call[g] = Idle
    BY Zenon, <1>1 DEF Compare
  <1>6. /\ f.node = <<>> /\ f.phase = "compare" /\ ~f.inLeaf /\ f.lhs # 0 /\ f.rhs # 0
        /\ f.duplicate = "no"
    <2>1. ~V.inLeaf /\ Len(V.cells) + 1 # 0 /\ Len(V.cells) + 2 # 0
      BY <1>3 DEF RestInv, Walkers
    <2> QED  BY Zenon, <2>1 DEF Walker
  <1> HIDE DEF f
  <1>7. f \in Frames
    <2>1. 1 \in DOMAIN t /\ t[1] = f
      OBVIOUS
    <2> QED  BY <1>4, <2>1
  <1>8. Report(w, V2, t, l, r, EmptyComparison)
    BY Zenon, <1>6, <1>7, PairFacts, ReportBegins
  <1>9. c.w = w /\ c.l = l /\ c.r = r /\ c.cmp = EmptyComparison
    BY Zenon
  <1> HIDE DEF V2, t, c
  <1>10. /\ walker'[w] = V2 /\ stack'[g] = t /\ call'[g] = c
         /\ \A h \in Goroutines : h # g => stack'[h] = stack[h] /\ call'[h] = call[h]
         /\ \A v \in 1 .. NumWalkers : v # w => walker'[v] = walker[v]
    BY Zenon, <1>2, <1>5
  <1>11. ValuesStay
    <2> SUFFICES ASSUME NEW v \in 1 .. NumWalkers, NEW d, ForEver(v, d)
                 PROVE  ForEver(v, d)' /\ walker'[v].cells[d] = walker[v].cells[d]
      BY Zenon DEF ValuesStay
    <2>1. /\ d \in DOMAIN walker[v].cells \ Range(walker[v].free)
          /\ \A h \in Goroutines : call[h].w = v => Settled(walker[v], stack[h], d)
      BY Zenon DEF ForEver
    <2>2. CASE v = w
      <3>1. Settled(V, <<>>, d)
        BY <2>1, <2>2 DEF Settled
      <3>2. Settled(V2, t, d) /\ V2.cells[d] = V.cells[d]
        BY Zenon, <1>4, <2>1, <2>2, <3>1 DEF Stays
      <3>3. \A h \in Goroutines : call'[h].w = w => h = g
        BY Zenon, <1>3, <1>10
      <3> QED  BY Zenon, <1>10, <2>2, <3>2, <3>3 DEF ForEver, Settled
    <2>3. CASE v # w
      <3>1. walker'[v] = walker[v] /\ \A h \in Goroutines : call'[h].w = v => h # g
        BY Zenon, <1>9, <1>10, <2>3
      <3> QED  BY Zenon, <1>10, <2>1, <3>1 DEF ForEver
    <2> QED  BY Zenon, <2>2, <2>3
  <1>12. \A d \in returned' : Right(d)'
    BY Zenon, <1>5, <1>11, RightStays DEF ReportInv
  <1>13. ASSUME NEW h \in Goroutines, Active(h)'
         PROVE  Reported(h)'
    <2>1. CASE h = g
      BY Zenon, <1>8, <1>9, <1>10, <2>1 DEF Reported, W
    <2>2. CASE h # g
      <3>1. Active(h) /\ call'[h] = call[h] /\ stack'[h] = stack[h]
        BY Zenon, <1>10, <1>13, <2>2 DEF Active
      <3>2. call[h].w \in 1 .. NumWalkers /\ call[h].w # w
        BY Zenon, <1>3, <3>1, TopFacts
      <3>3. walker'[call[h].w] = walker[call[h].w]
        BY Zenon, <1>10, <3>2
      <3> QED  BY Zenon, <3>1, <3>3 DEF ReportInv, Reported, W
    <2> QED  BY Zenon, <2>1, <2>2
  <1> QED  BY <1>12, <1>13 DEF ReportInv

(* Return of TypedValue.Compare: what it returns is right, and stays so    *)
(* when the root walker is back in the pool.                               *)
LEMMA ReturnReports ==
    ASSUME WalkInv, ReportInv, NEW g \in Goroutines, Return(g)
    PROVE  ReportInv'
  <1> DEFINE f == Top(g)
             l == call[g].l
             r == call[g].r
             V2 == Reset(W(g), f)
  <1>1. PICK w : w = call[g].w
    BY Zenon
  <1>2. PICK c : c = [l |-> l, r |-> r, cmp |-> InsertMissing(call[g].cmp, f, PathOf(g))]
    BY Zenon
  <1>3. Active(g) /\ Len(stack[g]) = 1 /\ f.phase = "end"
    BY Zenon DEF Return, Active
  <1>4. /\ walker \in [1 .. NumWalkers -> Walkers] /\ stack \in [Goroutines -> Seq(Frames)]
        /\ call \in [Goroutines -> Calls \cup {Idle}] /\ w \in 1 .. NumWalkers
    BY Zenon, <1>3, <1>1, TopFacts DEF WalkInv, TypeInv
  <1>5. /\ W(g) \in Walkers /\ f \in Frames /\ l \in Objects /\ r \in Objects
        /\ stack[g] \in Seq(Frames) /\ f = stack[g][Len(stack[g])] /\ Len(f.node) = Len(stack[g]) - 1
    BY Zenon, <1>3, TopFacts
  <1>6. Reported(g) /\ f.node = <<>> /\ f = stack[g][1]
    <2>1. f.node \in Seq(STRING)
      BY Zenon, <1>5, NodeFacts DEF Frames
    <2> QED  BY <1>3, <1>5, <2>1 DEF ReportInv
  <1>7. f.lhs # 0 /\ f.rhs # 0
    <2>1. FrameInv(l, r, f)
      BY Zenon, <1>3, <1>6, TopReported
    <2> QED  BY Zenon, <1>5, <1>6, <2>1, ObjectFacts DEF FrameInv, OnSide
  <1>8. c = [l |-> l, r |-> r, cmp |-> call[g].cmp]
    BY Zenon, <1>7, <1>2 DEF InsertMissing
  <1>9. V2.cells = W(g).cells /\ V2.free = W(g).free
    BY Zenon, <1>5 DEF Reset, Walkers
  <1>10. /\ walker' = [walker EXCEPT ![w] = V2] /\ stack' = [stack EXCEPT ![g] = <<>>]
        /\ call' = [call EXCEPT ![g] = Idle] /\ returned' = returned \cup {c}
    BY Zenon, <1>4, <1>1, <1>2 DEF Return, W
  <1>11. \A h \in Goroutines : Active(h) /\ h # g => call[h].w # w /\ call[h].w \in 1 .. NumWalkers
    BY Zenon, <1>3, <1>1, TopFacts DEF WalkInv, UseInv
  <1>12. c.l = l /\ c.r = r /\ c.cmp = call[g].cmp
    BY Zenon, <1>8
  <1> HIDE DEF V2, f
  <1>13. /\ walker'[w] = V2 /\ stack'[g] = <<>> /\ call'[g] = Idle
         /\ \A h \in Goroutines : h # g => stack'[h] = stack[h] /\ call'[h] = call[h]
         /\ \A v \in 1 .. NumWalkers : v # w => walker'[v] = walker[v]
    BY Zenon, <1>4, <1>10
  <1>14. \A h \in Goroutines : call'[h].w # w
    <2>1. Idle.w # w
      BY <1>4, WalkAssumption DEF Idle
    <2> QED  BY Zenon, <1>11, <1>13, <2>1 DEF Active
  <1>15. ASSUME NEW d \in DOMAIN W(g).cells, Settled(W(g), stack[g], d)
         PROVE  ForEver(w, d)' /\ walker'[w].cells[d] = W(g).cells[d]
    BY Zenon, <1>9, <1>13, <1>14, <1>15 DEF ForEver, Settled
  <1>16. ValuesStay
    <2> SUFFICES ASSUME NEW v \in 1 .. NumWalkers, NEW d, ForEver(v, d)
                 PROVE  ForEver(v, d)' /\ walker'[v].cells[d] = walker[v].cells[d]
      BY Zenon DEF ValuesStay
    <2>1. /\ d \in DOMAIN walker[v].cells \ Range(walker[v].free)
          /\ \A h \in Goroutines : call[h].w = v => Settled(walker[v], stack[h], d)
      BY Zenon DEF ForEver
    <2>2. CASE v = w
      BY Zenon, <1>3, <1>15, <1>1, <2>1, <2>2 DEF W
    <2>3. CASE v # w
      <3>1. walker'[v] = walker[v] /\ \A h \in Goroutines : call'[h].w = v => h # g
        BY <1>13, <2>3, WalkAssumption DEF Idle
      <3> QED  BY Zenon, <1>13, <2>1, <3>1 DEF ForEver
    <2> QED  BY Zenon, <2>2, <2>3
  <1>17. Right(c)'
    <2>1. ASSUME NEW pe, NEW name, Reads(w, W(g), stack[g], pe, name)
          PROVE  ReadsForEver(pe, name)'
      <3>1. CASE pe = <<"field", name>>
        BY Zenon, <3>1 DEF ReadsForEver
      <3>2. CASE pe # <<"field", name>>
        <4>1. PICK d \in DOMAIN W(g).cells :
                /\ pe = ItemValue(w, d) /\ Settled(W(g), stack[g], d)
                /\ W(g).cells[d] # Nothing /\ Last(W(g).cells[d]) = name
          BY Zenon, <2>1, <3>2 DEF Reads
        <4>2. ForEver(w, d)' /\ walker'[w].cells[d] = W(g).cells[d]
          BY Zenon, <1>15, <4>1
        <4>3. d \in DOMAIN walker'[w].cells
          BY Zenon, <4>2 DEF ForEver
        <4> QED  BY Zenon, <1>4, <4>1, <4>2, <4>3 DEF ReadsForEver
      <3> QED  BY Zenon, <3>1, <3>2
    <2>2. ASSUME NEW p, NEW n, PathReads(w, W(g), stack[g], p, n)
          PROVE  PathReadsForEver(p, n)'
      BY Zenon, <2>1, <2>2 DEF PathReads, PathReadsForEver
    <2>3. ASSUME NEW x \in Sides
          PROVE  /\ \A p \in call[g].cmp[x] : \E n \in Difference(l, r)[x] :
                      PathReads(w, W(g), stack[g], p, n)
                 /\ \A n \in Difference(l, r)[x] : \E p \in call[g].cmp[x] :
                      PathReads(w, W(g), stack[g], p, n)
      BY Zenon, <1>3, <1>5, <1>6, <1>1, ReportEnds DEF Reported
    <2> QED  BY Zenon, <1>12, <2>2, <2>3 DEF Right
  <1>18. \A d \in returned' : Right(d)'
    BY Zenon, <1>10, <1>16, <1>17, RightStays DEF ReportInv
  <1>19. ASSUME NEW h \in Goroutines, Active(h)'
         PROVE  Reported(h)'
    <2>1. Active(h) /\ h # g /\ call'[h] = call[h] /\ stack'[h] = stack[h]
      BY Zenon, <1>13, <1>19 DEF Active
    <2>2. walker'[call[h].w] = walker[call[h].w]
      BY Zenon, <1>11, <1>13, <2>1
    <2> QED  BY Zenon, <2>1, <2>2 DEF ReportInv, Reported, W
  <1> QED  BY <1>18, <1>19 DEF ReportInv

(* Nothing is compared at the beginning. *)
LEMMA InitReports == Init => ReportInv
  BY DEF Init, ReportInv, Active

(* Every step keeps what is reported right. *)
LEMMA NextReports == WalkInv /\ ReportInv /\ [Next]_vars => ReportInv'
  <1> SUFFICES ASSUME WalkInv, ReportInv, [Next]_vars
               PROVE  ReportInv'
    BY Zenon
  <1>1. CASE UNCHANGED vars
    <2>1. ValuesStay
      BY Zenon, <1>1 DEF vars, ValuesStay, ForEver
    <2>2. \A c \in returned' : Right(c)'
      BY Zenon, <1>1, <2>1, RightStays DEF vars, ReportInv
    <2>3. \A g \in Goroutines : Active(g)' => Reported(g)'
      BY Zenon, <1>1 DEF vars, ReportInv, Active, Reported, W
    <2> QED  BY Zenon, <2>2, <2>3 DEF ReportInv
  <1>2. ASSUME NEW g \in Goroutines, Walk(g)
        PROVE  ReportInv'
    <2>1. CASE Return(g)
      BY Zenon, <2>1, ReturnReports
    <2>2. CASE ~Return(g)
      <3>1. CallStep(g)
        BY Zenon, <1>2, <2>2, DoLeafSteps, DoMapSteps, SecondMapSteps,
           EndMapSteps, VisitMapItemSteps, DoListSteps, CompareListItemSteps,
           CompareDuplicatesSteps, EndListSteps, AscendSteps
           DEF Walk
      <3>2. Reported(g)
        BY Zenon, <3>1, CallStepFacts DEF ReportInv
      <3>3. ReportedNext(g)
        BY Zenon, <1>2, <2>2, <3>2, DoLeafReports, DoMapReports,
           SecondMapReports, EndMapReports, VisitMapItemReports, DoListReports,
           CompareListItemReports, CompareDuplicatesReports, EndListReports,
           AscendReports DEF Walk
      <3> QED  BY Zenon, <3>1, <3>3, CallStepReports
    <2> QED  BY Zenon, <2>1, <2>2
  <1>3. ASSUME NEW g \in Goroutines, NEW pair \in Pairs, Compare(g, pair[1], pair[2])
        PROVE  ReportInv'
    BY Zenon, <1>3, CompareReports
  <1> QED  BY <1>1, <1>2, <1>3 DEF Next

(* The invariant of the comparisons: what a call has reported are          *)
(* differences of its objects, every other difference is still to be met   *)
(* by one of its walkers, and what it reported keeps its meaning.          *)
THEOREM ReportInvariant == Spec => []ReportInv
  BY InitReports, NextReports, WalkInvariant, PTL DEF Spec

(* A path that reads as a node for ever reads as it now. *)
LEMMA NodeRead ==
    ASSUME NEW p \in Seq(Elements), NEW n \in Seq(STRING), PathReadsForEver(p, n)
    PROVE  NodeOf(p) = n
  <1>1. \A pe, name : ReadsForEver(pe, name) => NameOf(pe) = name
    BY DEF ReadsForEver, NameOf, ItemValue
  <1>2. DOMAIN p = 1 .. Len(n) /\ \A k \in 1 .. Len(n) : NameOf(p[k]) = n[k]
    BY <1>1 DEF PathReadsForEver
  <1> QED  BY <1>2 DEF NodeOf

(* ComparisonsAreRight, of any number of goroutines that compare any       *)
(* objects: what TypedValue.Compare returned is what the two objects       *)
(* differ in, also after its walker, the buffer its paths were made in and *)
(* its freed values went to other calls.                                   *)
THEOREM ReportsAreRight == Spec => []ComparisonsAreRight
  <1>1. ASSUME WalkInv, ReportInv
        PROVE  ComparisonsAreRight
    <2> SUFFICES ASSUME NEW c \in returned
                 PROVE  [x \in DOMAIN c.cmp |-> {NodeOf(p) : p \in c.cmp[x]}] = Difference(c.l, c.r)
      BY Zenon DEF ComparisonsAreRight
    <2> DEFINE D == Difference(c.l, c.r)
    <2>1. c.cmp \in Comparisons /\ c.l \in Objects /\ c.r \in Objects /\ Right(c)
      BY Zenon, <1>1 DEF WalkInv, TypeInv, ReportInv
    <2>2. DOMAIN c.cmp = Sides /\ \A x \in Sides : c.cmp[x] \in SUBSET Seq(Elements)
      BY Zenon, <2>1 DEF Comparisons, Sides
    <2>3. DOMAIN D = Sides /\ D = [x \in Sides |-> D[x]]
      BY Zenon DEF Difference, Sides
    <2> HIDE DEF D
    <2>4. \A x \in Sides : D[x] \subseteq Seq(STRING)
      BY <2>1, DifferenceFacts, NodeFacts DEF D
    <2>5. ASSUME NEW x \in Sides
          PROVE  {NodeOf(p) : p \in c.cmp[x]} = D[x]
      <3>1. /\ \A p \in c.cmp[x] : \E n \in D[x] : PathReadsForEver(p, n)
            /\ \A n \in D[x] : \E p \in c.cmp[x] : PathReadsForEver(p, n)
        BY Zenon, <2>1 DEF Right, D
      <3>2. \A p \in c.cmp[x], n \in D[x] : PathReadsForEver(p, n) => NodeOf(p) = n
        BY Zenon, <2>2, <2>4, NodeRead
      <3> QED  BY <3>1, <3>2
    <2> QED  BY Zenon, <2>2, <2>3, <2>5 DEF D
  <1> QED  BY <1>1, WalkInvariant, ReportInvariant, PTL
=============================================================================
