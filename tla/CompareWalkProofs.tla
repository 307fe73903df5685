-------------------------- MODULE CompareWalkProofs --------------------------
(***************************************************************************)
(* Proofs about CompareWalk, for every schema, set of pairs of objects,    *)
(* number of goroutines, calls and walkers, and size of the freelist:      *)
(* walkers are at their nodes and free values are not in use.              *)
(*                                                                         *)
(* Every step of a walk changes one call and the root walker it has to     *)
(* itself (CallStep).  That the calls of other goroutines do not notice    *)
(* follows from this alone.                                                *)
(***************************************************************************)
EXTENDS WalkerProofs

-----------------------------------------------------------------------------
(* Steps of the goroutine g in its call. *)

(* g changes what its root walker keeps, its walkers and its comparison. *)
Does(g, V2, t, cmp) ==
    /\ walker' = [walker EXCEPT ![call[g].w] = V2]
    /\ stack' = [stack EXCEPT ![g] = t]
    /\ call' = [call EXCEPT ![g].cmp = cmp]
    /\ pool' = pool /\ returned' = returned

CallStep(g) ==
    /\ Active(g)
    /\ \E V2 \in Walkers, t \in Seq(Frames), cmp \in Comparisons :
         /\ Does(g, V2, t, cmp)
         /\ t # <<>>
         /\ DOMAIN W(g).cells \subseteq DOMAIN V2.cells
         /\ CallInv(call[g].w, V2, t)
         /\ Stays(W(g), stack[g], V2, t)

(* What is known of the call of g and the walker on top. *)
LEMMA TopFacts ==
    ASSUME WalkInv, NEW g \in Goroutines, Active(g)
    PROVE  /\ call[g] \in Calls /\ call[g].w \in 1 .. NumWalkers
           /\ call[g].l \in Objects /\ call[g].r \in Objects /\ call[g].cmp \in Comparisons
           /\ W(g) \in Walkers /\ stack[g] \in Seq(Frames) /\ stack[g] # <<>>
           /\ CallInv(call[g].w, W(g), stack[g])
           /\ Len(stack[g]) \in Nat \ {0}
           /\ Top(g) = stack[g][Len(stack[g])] /\ Top(g) \in Frames
           /\ HeldInv(W(g), Held(Top(g)))
           /\ Top(g).other # 0 => Top(g).entry # Top(g).other
           /\ PathInv(call[g].w, W(g), stack[g], Top(g).path, Top(g).node)
           /\ Top(g).todo \subseteq ChildrenOf(Top(g).node)
           /\ Len(Top(g).node) = Len(stack[g]) - 1
           /\ Top(g).path.len = Len(stack[g]) - 1
  <1>1. call[g] \in Calls
    BY Zenon DEF WalkInv, TypeInv, Active
  <1>2. /\ call[g].w \in 1 .. NumWalkers
        /\ call[g].l \in Objects /\ call[g].r \in Objects /\ call[g].cmp \in Comparisons
    BY Zenon, <1>1 DEF Calls
  <1>3. W(g) \in Walkers /\ stack[g] \in Seq(Frames)
    BY Zenon, <1>2 DEF WalkInv, TypeInv, W
  <1>4. stack[g] # <<>> /\ CallInv(call[g].w, W(g), stack[g])
    BY Zenon DEF WalkInv, UseInv, CallsInv
  <1>5. /\ Len(stack[g]) \in Nat \ {0} /\ Len(stack[g]) \in DOMAIN stack[g]
        /\ Top(g) = stack[g][Len(stack[g])] /\ Top(g) \in Frames
    BY <1>3, <1>4, FrontFacts DEF Top
  <1>6. HeldInv(W(g), Held(Top(g))) /\ (Top(g).other # 0 => Top(g).entry # Top(g).other)
    BY Zenon, <1>4, <1>5 DEF CallInv, CellsInv, HeldInv
  <1>7. /\ PathInv(call[g].w, W(g), stack[g], Top(g).path, Top(g).node)
        /\ Top(g).todo \subseteq ChildrenOf(Top(g).node)
        /\ Len(Top(g).node) = Len(stack[g]) - 1
    BY Zenon, <1>4, <1>5 DEF CallInv, PathsInv
  <1>8. Top(g).path.len = Len(stack[g]) - 1
    BY Zenon, <1>7 DEF PathInv
  <1> QED  BY Zenon, <1>1, <1>2, <1>3, <1>4, <1>5, <1>6, <1>7, <1>8

(* A step of the walker on top. *)
LEMMA TopSteps ==
    ASSUME WalkInv, NEW g \in Goroutines, Active(g),
           NEW V2 \in Walkers, NEW f \in Frames, NEW cmp \in Comparisons,
           Does(g, V2, Front(stack[g]) \o <<f>>, cmp),
           f.node = Top(g).node, f.lhs = Top(g).lhs, f.rhs = Top(g).rhs, f.path = Top(g).path,
           f.other # 0 => f.entry # f.other,
           HeldInv(V2, Held(f)), Keeps(W(g), Held(Top(g)), V2, Held(f)),
           KeepsMem(W(g).mem, V2.mem, Len(stack[g]) - 1),
           f.todo \subseteq ChildrenOf(f.node)
    PROVE  CallStep(g)
  <1> DEFINE t == Front(stack[g]) \o <<f>>
  <1>1. /\ W(g) \in Walkers /\ stack[g] \in Seq(Frames) /\ stack[g] # <<>>
        /\ CallInv(call[g].w, W(g), stack[g]) /\ Top(g) = stack[g][Len(stack[g])]
        /\ PathInv(call[g].w, W(g), stack[g], f.path, f.node)
    BY Zenon, TopFacts
  <1>2. t \in Seq(Frames) /\ t # <<>> /\ CallInv(call[g].w, V2, t) /\ Stays(W(g), stack[g], V2, t)
    BY Zenon, <1>1, StepOfTop
  <1>3. DOMAIN W(g).cells \subseteq DOMAIN V2.cells
    BY Zenon DEF Keeps
  <1> HIDE DEF t
  <1>4. Does(g, V2, t, cmp)
    BY Zenon DEF t
  <1> QED  BY Zenon, <1>2, <1>3, <1>4 DEF CallStep

(* Walkers, walks and comparisons that are not changed. *)
LEMMA SameWalker ==
    ASSUME WalkInv, NEW g \in Goroutines, Active(g)
    PROVE  [walker EXCEPT ![call[g].w] = W(g)] = walker
  BY Zenon, TopFacts DEF WalkInv, TypeInv, W

(* The same for the comparison of the call. *)
LEMMA SameCall ==
    ASSUME WalkInv, NEW g \in Goroutines, Active(g)
    PROVE  [call EXCEPT ![g].cmp = call[g].cmp] = call
  <1>1. call[g] \in Calls /\ call \in [Goroutines -> Calls \cup {Idle}]
    BY Zenon, TopFacts DEF WalkInv, TypeInv
  <1>2. [call[g] EXCEPT !.cmp = call[g].cmp] = call[g]
    BY Zenon, <1>1 DEF Calls
  <1> QED  BY Zenon, <1>1, <1>2

(* A comparison with a path more. *)
LEMMA InsertFacts ==
    ASSUME NEW cmp \in Comparisons, NEW x \in {"removed", "modified", "added"},
           NEW path \in Seq(Elements)
    PROVE  Insert(cmp, x, path) \in Comparisons
  BY Zenon DEF Insert, Comparisons

(* What is below a node of an object. *)
LEMMA BelowFacts ==
    ASSUME WalkInv, NEW g \in Goroutines, Active(g)
    PROVE  /\ Below(g, "l") \subseteq ChildrenOf(Top(g).node)
           /\ Below(g, "r") \subseteq ChildrenOf(Top(g).node)
           /\ ChildrenOf(Top(g).node) \subseteq Nodes
  <1>1. \A o \in Objects : DOMAIN o \subseteq Nodes
    BY Zenon, WalkAssumption DEF Objects, Nodes
  <1>2. \A o \in Objects : \A n : Children(o, n) \subseteq ChildrenOf(n)
    BY Zenon, <1>1 DEF Children, ChildrenOf
  <1> QED  BY <1>2, TopFacts DEF Below, ChildrenOf

(* The comparison of doLeaf, and of the end of compare. *)
LEMMA ComparisonFacts ==
    ASSUME WalkInv, NEW g \in Goroutines, Active(g)
    PROVE  /\ PathOf(g) \in Seq(Elements) /\ Len(PathOf(g)) = Top(g).path.len
           /\ \A k \in 1 .. Top(g).path.len : PathOf(g)[k] = W(g).mem[Top(g).path.array][k]
           /\ LeafComparison(g) \in Comparisons
           /\ InsertMissing(call[g].cmp, Top(g), PathOf(g)) \in Comparisons
  <1>1. /\ call[g].cmp \in Comparisons /\ W(g).mem \in Seq(Seq(Elements))
        /\ Top(g).path \in Slices /\ SliceInv(W(g).mem, Top(g).path)
    BY Zenon, TopFacts DEF Walkers, Frames, PathInv
  <1>2. /\ PathOf(g) \in Seq(Elements) /\ Len(PathOf(g)) = Top(g).path.len
        /\ \A k \in 1 .. Top(g).path.len : PathOf(g)[k] = W(g).mem[Top(g).path.array][k]
    BY Zenon, <1>1, ContentFacts DEF PathOf
  <1>3. \A x \in {"removed", "modified", "added"} : Insert(call[g].cmp, x, PathOf(g)) \in Comparisons
    BY Zenon, <1>1, <1>2, InsertFacts
  <1>4. LeafComparison(g) \in Comparisons
    BY Zenon, <1>1, <1>3 DEF LeafComparison
  <1>5. InsertMissing(call[g].cmp, Top(g), PathOf(g)) \in Comparisons
    BY Zenon, <1>1, <1>3 DEF InsertMissing
  <1> QED  BY Zenon, <1>2, <1>4, <1>5

(* Nothing is held or written by a step that keeps the walker's values. *)
LEMMA NothingTouched ==
    ASSUME NEW V \in Walkers, NEW H, NEW k
    PROVE  Keeps(V, H, V, H) /\ KeepsMem(V.mem, V.mem, k)
  BY Zenon DEF Keeps, KeepsMem

(* A step of the walker on top that leaves the values alone. *)
LEMMA QuietSteps ==
    ASSUME WalkInv, NEW g \in Goroutines, Active(g), NEW f \in Frames, NEW cmp \in Comparisons,
           f.node = Top(g).node, f.lhs = Top(g).lhs, f.rhs = Top(g).rhs, f.path = Top(g).path,
           f.entry = Top(g).entry, f.other = Top(g).other, f.todo \subseteq ChildrenOf(f.node),
           walker' = walker, stack' = [stack EXCEPT ![g] = Front(stack[g]) \o <<f>>],
           call' = [call EXCEPT ![g].cmp = cmp], pool' = pool, returned' = returned
    PROVE  CallStep(g)
  <1>1. Does(g, W(g), Front(stack[g]) \o <<f>>, cmp)
    BY Zenon, SameWalker DEF Does
  <1>2. Held(f) = Held(Top(g))
    BY Zenon DEF Held
  <1>3. W(g) \in Walkers /\ HeldInv(W(g), Held(Top(g))) /\ (f.other # 0 => f.entry # f.other)
    BY Zenon, TopFacts
  <1>4. Keeps(W(g), Held(Top(g)), W(g), Held(f)) /\ KeepsMem(W(g).mem, W(g).mem, Len(stack[g]) - 1)
    BY Zenon, <1>2, <1>3, NothingTouched
  <1> QED  BY Zenon, <1>1, <1>2, <1>3, <1>4, TopSteps

(* doLeaf. *)
LEMMA DoLeafSteps ==
    ASSUME WalkInv, NEW g \in Goroutines, DoLeaf(g)
    PROVE  CallStep(g)
  <1> DEFINE f == [Top(g) EXCEPT !.inLeaf = TRUE, !.phase = "end"]
  <1>1. Active(g)
    BY Zenon DEF DoLeaf, Active
  <1>2. Top(g) \in Frames /\ Top(g).todo \subseteq ChildrenOf(Top(g).node) /\ LeafComparison(g) \in Comparisons
    BY Zenon, <1>1, TopFacts, ComparisonFacts
  <1>3. /\ f \in Frames
        /\ f.node = Top(g).node /\ f.lhs = Top(g).lhs /\ f.rhs = Top(g).rhs /\ f.path = Top(g).path
        /\ f.entry = Top(g).entry /\ f.other = Top(g).other /\ f.todo = Top(g).todo
    BY Zenon, <1>2 DEF Frames, Phases
  <1>4. /\ walker' = walker /\ stack' = [stack EXCEPT ![g] = Front(stack[g]) \o <<f>>]
        /\ call' = [call EXCEPT ![g].cmp = LeafComparison(g)] /\ pool' = pool /\ returned' = returned
    BY Zenon DEF DoLeaf
  <1> HIDE DEF f
  <1> QED  BY Zenon, <1>1, <1>2, <1>3, <1>4, QuietSteps

(* doList. *)
LEMMA DoListSteps ==
    ASSUME WalkInv, NEW g \in Goroutines, DoList(g)
    PROVE  CallStep(g)
  <1> DEFINE keys == Below(g, "l") \cup Below(g, "r")
             f == [Top(g) EXCEPT !.phase = "items", !.todo = keys]
  <1>1. Active(g)
    BY Zenon DEF DoList, Active
  <1>2. Top(g) \in Frames /\ keys \subseteq ChildrenOf(Top(g).node) /\ keys \subseteq Nodes
        /\ call[g].cmp \in Comparisons
    BY Zenon, <1>1, TopFacts, BelowFacts
  <1> HIDE DEF keys
  <1>3. /\ f \in Frames
        /\ f.node = Top(g).node /\ f.lhs = Top(g).lhs /\ f.rhs = Top(g).rhs /\ f.path = Top(g).path
        /\ f.entry = Top(g).entry /\ f.other = Top(g).other /\ f.todo = keys
    BY Zenon, <1>2 DEF Frames, Phases
  <1>4. /\ walker' = walker /\ stack' = [stack EXCEPT ![g] = Front(stack[g]) \o <<f>>]
        /\ call' = call /\ pool' = pool /\ returned' = returned
    BY Zenon DEF DoList, keys
  <1>5. call' = [call EXCEPT ![g].cmp = call[g].cmp]
    BY Zenon, <1>1, <1>4, SameCall
  <1> HIDE DEF f
  <1> QED  BY Zenon, <1>1, <1>2, <1>3, <1>4, <1>5, QuietSteps

(* The end of doList. *)
LEMMA EndListSteps ==
    ASSUME WalkInv, NEW g \in Goroutines, EndList(g)
    PROVE  CallStep(g)
  <1> DEFINE f == [Top(g) EXCEPT !.phase = "end"]
  <1>1. Active(g)
    BY Zenon DEF EndList, Active
  <1>2. Top(g) \in Frames /\ Top(g).todo \subseteq ChildrenOf(Top(g).node) /\ call[g].cmp \in Comparisons
    BY Zenon, <1>1, TopFacts
  <1>3. /\ f \in Frames
        /\ f.node = Top(g).node /\ f.lhs = Top(g).lhs /\ f.rhs = Top(g).rhs /\ f.path = Top(g).path
        /\ f.entry = Top(g).entry /\ f.other = Top(g).other /\ f.todo = Top(g).todo
    BY Zenon, <1>2 DEF Frames, Phases
  <1>4. /\ walker' = walker /\ stack' = [stack EXCEPT ![g] = Front(stack[g]) \o <<f>>]
        /\ call' = call /\ pool' = pool /\ returned' = returned
    BY Zenon DEF EndList
  <1>5. call' = [call EXCEPT ![g].cmp = call[g].cmp]
    BY Zenon, <1>1, <1>4, SameCall
  <1> HIDE DEF f
  <1> QED  BY Zenon, <1>1, <1>2, <1>3, <1>4, <1>5, QuietSteps

(* Values may be given up. *)
LEMMA GivenUp ==
    ASSUME NEW V, NEW H, HeldInv(V, H), NEW H2, H2 \subseteq H
    PROVE  HeldInv(V, H2) /\ Keeps(V, H, V, H2)
  BY Zenon DEF HeldInv, Keeps

(* The iteration of a phase begins: it holds a value if there is something *)
(* to iterate over.                                                        *)
LEMMA IterateFacts ==
    ASSUME NEW V \in Walkers, NEW f \in Frames, HeldInv(V, {f.other} \ {0}),
           NEW phase \in Phases, NEW keys, keys \subseteq Nodes, NEW size
    PROVE  LET i == Iterate(V, f, phase, keys, size)
           IN  /\ i.walker \in Walkers /\ SameButCells(V, i.walker)
               /\ i.frame \in Frames
               /\ i.frame.node = f.node /\ i.frame.lhs = f.lhs /\ i.frame.rhs = f.rhs
               /\ i.frame.path = f.path /\ i.frame.todo = keys
               /\ i.frame.other # 0 => i.frame.entry # i.frame.other
               /\ HeldInv(i.walker, Held(i.frame))
               /\ Keeps(V, {f.other} \ {0}, i.walker, Held(i.frame))
  <1> DEFINE e == IF size = {} THEN 0 ELSE Allocated(V)
             V2 == IF size = {} THEN V ELSE Allocate(V)
             f2 == [f EXCEPT !.phase = phase, !.todo = keys, !.entry = e]
             H == {f.other} \ {0}
  <1>1. /\ V2 \in Walkers /\ SameButCells(V, V2) /\ e \in Nat /\ (e # 0 => e \notin H)
        /\ HeldInv(V2, H \cup ({e} \ {0})) /\ Keeps(V, H, V2, H \cup ({e} \ {0}))
    <2>1. CASE size = {}
      <3>1. V2 = V /\ e = 0
        BY Zenon, <2>1
      <3> QED  BY <3>1 DEF SameButCells, Keeps
    <2>2. CASE size # {}
      <3>1. V2 = Allocate(V) /\ e = Allocated(V)
        BY Zenon, <2>2
      <3>2. /\ V2 \in Walkers /\ SameButCells(V, V2)
            /\ e \in Nat \ {0} /\ e \notin H
            /\ HeldInv(V2, H \cup {e}) /\ Keeps(V, H, V2, H \cup {e})
        BY Zenon, <3>1, AllocateKeeps
      <3>3. {e} \ {0} = {e}
        BY Zenon, <3>2
      <3> QED  BY Zenon, <3>2, <3>3
    <2> QED  BY Zenon, <2>1, <2>2
  <1>2. Iterate(V, f, phase, keys, size) = [walker |-> V2, frame |-> f2]
    BY Zenon DEF Iterate
  <1> HIDE DEF e, V2
  <1>3. /\ f2 \in Frames /\ f2.node = f.node /\ f2.lhs = f.lhs /\ f2.rhs = f.rhs
        /\ f2.path = f.path /\ f2.todo = keys /\ f2.entry = e /\ f2.other = f.other
    BY Zenon, <1>1 DEF Frames
  <1>4. Held(f2) = H \cup ({e} \ {0})
    BY Zenon, <1>3 DEF Held
  <1>5. f2.other # 0 => f2.entry # f2.other
    BY Zenon, <1>1, <1>3
  <1> HIDE DEF f2
  <1> QED  BY <1>1, <1>2, <1>3, <1>4, <1>5

(* A step of the walker on top that leaves the memory of the paths alone. *)
LEMMA ValueSteps ==
    ASSUME WalkInv, NEW g \in Goroutines, Active(g), NEW V2 \in Walkers, NEW f \in Frames,
           SameButCells(W(g), V2),
           f.node = Top(g).node, f.lhs = Top(g).lhs, f.rhs = Top(g).rhs, f.path = Top(g).path,
           f.todo \subseteq ChildrenOf(f.node),
           f.other # 0 => f.entry # f.other,
           HeldInv(V2, Held(f)), Keeps(W(g), Held(Top(g)), V2, Held(f)),
           walker' = [walker EXCEPT ![call[g].w] = V2],
           stack' = [stack EXCEPT ![g] = Front(stack[g]) \o <<f>>],
           call' = call, pool' = pool, returned' = returned
    PROVE  CallStep(g)
  <1>1. call[g].cmp \in Comparisons
    BY Zenon, TopFacts
  <1>2. Does(g, V2, Front(stack[g]) \o <<f>>, call[g].cmp)
    BY Zenon, SameCall DEF Does
  <1>3. KeepsMem(W(g).mem, V2.mem, Len(stack[g]) - 1)
    BY Zenon, NothingTouched DEF SameButCells, KeepsMem
  <1> QED  BY Zenon, <1>1, <1>2, <1>3, TopSteps

(* doMap. *)
LEMMA DoMapSteps ==
    ASSUME WalkInv, NEW g \in Goroutines, DoMap(g)
    PROVE  CallStep(g)
  <1> DEFINE keys == Below(g, "l")
             i == Iterate(W(g), Top(g), "left", keys, keys)
             H == {Top(g).other} \ {0}
  <1>1. Active(g)
    BY Zenon DEF DoMap, Active
  <1>2. /\ W(g) \in Walkers /\ Top(g) \in Frames /\ HeldInv(W(g), Held(Top(g)))
        /\ keys \subseteq ChildrenOf(Top(g).node) /\ keys \subseteq Nodes
    BY Zenon, <1>1, TopFacts, BelowFacts
  <1>3. HeldInv(W(g), H) /\ Keeps(W(g), Held(Top(g)), W(g), H)
    BY Zenon, <1>2, GivenUp DEF Held
  <1>4. "left" \in Phases
    BY Zenon DEF Phases
  <1>5. /\ walker' = [walker EXCEPT ![call[g].w] = i.walker]
        /\ stack' = [stack EXCEPT ![g] = Front(stack[g]) \o <<i.frame>>]
        /\ call' = call /\ pool' = pool /\ returned' = returned
    BY Zenon DEF DoMap
  <1> HIDE DEF keys
  <1>6. /\ i.walker \in Walkers /\ SameButCells(W(g), i.walker)
        /\ i.frame \in Frames
        /\ i.frame.node = Top(g).node /\ i.frame.lhs = Top(g).lhs /\ i.frame.rhs = Top(g).rhs
        /\ i.frame.path = Top(g).path /\ i.frame.todo = keys
        /\ i.frame.other # 0 => i.frame.entry # i.frame.other
        /\ HeldInv(i.walker, Held(i.frame))
        /\ Keeps(W(g), H, i.walker, Held(i.frame))
    BY Zenon, <1>2, <1>3, <1>4, IterateFacts
  <1> HIDE DEF i, H
  <1>7. Keeps(W(g), Held(Top(g)), i.walker, Held(i.frame))
    BY Zenon, <1>3, <1>6, KeepsTransitive
  <1> QED  BY Zenon, <1>1, <1>2, <1>5, <1>6, <1>7, ValueSteps

(* The value of an iteration is given back. *)
LEMMA EntryFreed ==
    ASSUME WalkInv, NEW g \in Goroutines, Active(g)
    PROVE  LET V == Free(W(g), Top(g).entry)
               H == {Top(g).other} \ {0}
           IN  /\ V \in Walkers /\ SameButCells(W(g), V)
               /\ HeldInv(V, H) /\ Keeps(W(g), Held(Top(g)), V, H)
  <1>1. /\ W(g) \in Walkers /\ Top(g) \in Frames /\ HeldInv(W(g), Held(Top(g)))
        /\ Top(g).other # 0 => Top(g).entry # Top(g).other
    BY Zenon, TopFacts
  <1>2. Top(g).entry \in Nat /\ (Top(g).entry # 0 => Top(g).entry \in Held(Top(g)))
    BY Zenon, <1>1 DEF Frames, Held
  <1>3. Held(Top(g)) \ {Top(g).entry} = {Top(g).other} \ {0}
    BY Zenon, <1>1 DEF Held
  <1> QED  BY <1>1, <1>2, <1>3, FreeKeeps

(* The second iteration of doMap. *)
LEMMA SecondMapSteps ==
    ASSUME WalkInv, NEW g \in Goroutines, SecondMap(g)
    PROVE  CallStep(g)
  <1> DEFINE keys == Below(g, "r") \ Below(g, "l")
             V == Free(W(g), Top(g).entry)
             i == Iterate(V, Top(g), "right", keys, Below(g, "r"))
             H == {Top(g).other} \ {0}
  <1>1. Active(g)
    BY Zenon DEF SecondMap, Active
  <1>2. /\ W(g) \in Walkers /\ Top(g) \in Frames
        /\ keys \subseteq ChildrenOf(Top(g).node) /\ keys \subseteq Nodes
    BY Zenon, <1>1, TopFacts, BelowFacts
  <1>3. /\ V \in Walkers /\ SameButCells(W(g), V)
        /\ HeldInv(V, H) /\ Keeps(W(g), Held(Top(g)), V, H)
    BY Zenon, <1>1, EntryFreed
  <1>4. "right" \in Phases
    BY Zenon DEF Phases
  <1>5. /\ walker' = [walker EXCEPT ![call[g].w] = i.walker]
        /\ stack' = [stack EXCEPT ![g] = Front(stack[g]) \o <<i.frame>>]
        /\ call' = call /\ pool' = pool /\ returned' = returned
    BY Zenon DEF SecondMap
  <1> HIDE DEF keys, V
  <1>6. /\ i.walker \in Walkers /\ SameButCells(V, i.walker)
        /\ i.frame \in Frames
        /\ i.frame.node = Top(g).node /\ i.frame.lhs = Top(g).lhs /\ i.frame.rhs = Top(g).rhs
        /\ i.frame.path = Top(g).path /\ i.frame.todo = keys
        /\ i.frame.other # 0 => i.frame.entry # i.frame.other
        /\ HeldInv(i.walker, Held(i.frame))
        /\ Keeps(V, H, i.walker, Held(i.frame))
    BY Zenon, <1>2, <1>3, <1>4, IterateFacts
  <1> HIDE DEF i, H
  <1>7. Keeps(W(g), Held(Top(g)), i.walker, Held(i.frame))
    BY Zenon, <1>3, <1>6, KeepsTransitive
  <1>8. SameButCells(W(g), i.walker)
    BY Zenon, <1>3, <1>6 DEF SameButCells
  <1> QED  BY Zenon, <1>1, <1>2, <1>5, <1>6, <1>7, <1>8, ValueSteps

(* The end of doMap. *)
LEMMA EndMapSteps ==
    ASSUME WalkInv, NEW g \in Goroutines, EndMap(g)
    PROVE  CallStep(g)
  <1> DEFINE V == Free(W(g), Top(g).entry)
             f == [Top(g) EXCEPT !.entry = 0, !.phase = "end"]
  <1>1. Active(g)
    BY Zenon DEF EndMap, Active
  <1>2. Top(g) \in Frames /\ Top(g).todo \subseteq ChildrenOf(Top(g).node)
    BY Zenon, <1>1, TopFacts
  <1>3. /\ V \in Walkers /\ SameButCells(W(g), V)
        /\ HeldInv(V, {Top(g).other} \ {0}) /\ Keeps(W(g), Held(Top(g)), V, {Top(g).other} \ {0})
    BY Zenon, <1>1, EntryFreed
  <1>4. /\ walker' = [walker EXCEPT ![call[g].w] = V]
        /\ stack' = [stack EXCEPT ![g] = Front(stack[g]) \o <<f>>]
        /\ call' = call /\ pool' = pool /\ returned' = returned
    BY Zenon, <1>1, TopFacts DEF EndMap, WalkInv, TypeInv, W
  <1> HIDE DEF V
  <1>5. /\ f \in Frames
        /\ f.node = Top(g).node /\ f.lhs = Top(g).lhs /\ f.rhs = Top(g).rhs /\ f.path = Top(g).path
        /\ f.entry = 0 /\ f.other = Top(g).other /\ f.todo = Top(g).todo
    BY Zenon, <1>2 DEF Frames, Phases
  <1> HIDE DEF f
  <1>6. Held(f) = {Top(g).other} \ {0} /\ (f.other # 0 => f.entry # f.other)
    BY Zenon, <1>5 DEF Held
  <1> QED  BY Zenon, <1>1, <1>2, <1>3, <1>4, <1>5, <1>6, ValueSteps

(* A descent. *)
LEMMA DescendSteps ==
    ASSUME WalkInv, NEW g \in Goroutines, Active(g), NEW V \in Walkers, V.mem = W(g).mem,
           NEW f \in Frames, f.node = Top(g).node, f.lhs = Top(g).lhs, f.rhs = Top(g).rhs,
           f.path = Top(g).path, f.todo \subseteq ChildrenOf(f.node),
           f.other # 0 => f.entry # f.other,
           HeldInv(V, Held(f)), Keeps(W(g), Held(Top(g)), V, Held(f)),
           NEW n \in ChildrenOf(f.node), NEW pe \in Elements, NEW lhs \in Nat, NEW rhs \in Nat,
           Prepared(call[g].w, W(g), V, f, n, pe, lhs, rhs),
           Descend(g, V, f, pe, n, lhs, rhs)
    PROVE  CallStep(g)
  <1> DEFINE V2 == TakeSpare([V EXCEPT !.mem = AppendMem(@, f.path, pe)])
             t == Front(stack[g]) \o <<f, PrepareDescent(V, f, pe, n, lhs, rhs)>>
  <1>1. /\ W(g) \in Walkers /\ stack[g] \in Seq(Frames) /\ stack[g] # <<>>
        /\ CallInv(call[g].w, W(g), stack[g]) /\ Top(g) = stack[g][Len(stack[g])]
        /\ call[g].cmp \in Comparisons
    BY Zenon, TopFacts
  <1>2. /\ V2 \in Walkers /\ t \in Seq(Frames) /\ t # <<>>
        /\ DOMAIN W(g).cells \subseteq DOMAIN V2.cells
        /\ CallInv(call[g].w, V2, t) /\ Stays(W(g), stack[g], V2, t)
    BY Zenon, <1>1, WalkerDescends
  <1>3. Does(g, V2, t, call[g].cmp)
    BY Zenon, SameCall DEF Descend, Does
  <1> HIDE DEF V2, t
  <1> QED  BY Zenon, <1>1, <1>2, <1>3 DEF CallStep

(* The value e of the entry n of a map and the value c for the other side  *)
(* are held, and nothing else the iteration held.                          *)
EntryReady(V0, H0, e, n, c, V) ==
    /\ V \in Walkers /\ SameButCells(V0, V)
    /\ c \in Nat /\ (c # 0 => e # c)
    /\ HeldInv(V, {e, c} \ {0}) /\ Keeps(V0, H0, V, {e, c} \ {0})
    /\ e # 0 => V.cells[e] = n
    /\ c # 0 => V.cells[c] = n

(* An entry of a map is visited: its value, and a value for the other      *)
(* side, if that has the key, get the node.                                *)
LEMMA EntryFacts ==
    ASSUME NEW V0 \in Walkers, NEW H0, HeldInv(V0, H0), NEW e \in Nat, e # 0 => e \in H0,
           NEW n \in Nodes, NEW has \in BOOLEAN
    PROVE  LET V1 == Reuse(V0, e, n)
               c == OtherSide(V1, has)
               V == Reuse(WithOther(V1, has), c, n)
           IN  EntryReady(V0, H0, e, n, c, V)
  <1> DEFINE V1 == Reuse(V0, e, n)
             c == OtherSide(V1, has)
             V2 == WithOther(V1, has)
             V == Reuse(V2, c, n)
             H1 == {e} \ {0}
             H2 == {e, c} \ {0}
  <1>1. /\ V1 \in Walkers /\ SameButCells(V0, V1) /\ HeldInv(V1, H0) /\ Keeps(V0, H0, V1, H0)
        /\ e # 0 => V1.cells[e] = n
    BY ReuseKeeps
  <1> HIDE DEF V1
  <1>2. HeldInv(V1, H1) /\ Keeps(V1, H0, V1, H1)
    BY Zenon, <1>1, GivenUp
  <1>3. /\ V2 \in Walkers /\ SameButCells(V1, V2) /\ c \in Nat /\ (c # 0 => e # c)
        /\ HeldInv(V2, H2) /\ Keeps(V1, H1, V2, H2)
        /\ e # 0 => V2.cells[e] = V1.cells[e]
    <2>1. CASE has
      <3>1. V2 = Allocate(V1) /\ c = Allocated(V1)
        BY Zenon, <2>1 DEF WithOther, OtherSide
      <3>2. /\ V2 \in Walkers /\ SameButCells(V1, V2)
            /\ c \in Nat \ {0} /\ c \notin H1
            /\ HeldInv(V2, H1 \cup {c}) /\ Keeps(V1, H1, V2, H1 \cup {c})
            /\ \A b \in H1 : V2.cells[b] = V1.cells[b]
        BY <1>1, <1>2, <3>1, AllocateKeeps
      <3>3. H2 = H1 \cup {c}
        BY Zenon, <3>2
      <3> QED  BY Zenon, <3>2, <3>3
    <2>2. CASE ~has
      <3>1. V2 = V1 /\ c = 0
        BY Zenon, <2>2 DEF WithOther, OtherSide
      <3>2. H2 = H1
        BY Zenon, <3>1
      <3> QED  BY <1>1, <1>2, <3>1, <3>2, NothingTouched DEF SameButCells
    <2> QED  BY Zenon, <2>1, <2>2
  <1> HIDE DEF V2, c
  <1>4. /\ V \in Walkers /\ SameButCells(V2, V) /\ HeldInv(V, H2) /\ Keeps(V2, H2, V, H2)
        /\ c # 0 => V.cells[c] = n
        /\ \A b \in DOMAIN V2.cells \ {c} : V.cells[b] = V2.cells[b]
    BY <1>3, ReuseKeeps
  <1>5. e # 0 => V.cells[e] = n
    <2>1. e # 0 => e \in DOMAIN V2.cells
      BY Zenon, <1>3 DEF HeldInv
    <2>2. e # 0 /\ c = 0 => e # c
      BY Zenon
    <2> QED  BY Zenon, <1>1, <1>3, <1>4, <2>1, <2>2
  <1> HIDE DEF V, H1, H2
  <1>6. Keeps(V0, H0, V, H2)
    <2>1. Keeps(V0, H0, V1, H1)
      BY Zenon, <1>1, <1>2, KeepsTransitive
    <2>2. Keeps(V0, H0, V2, H2)
      BY Zenon, <1>3, <2>1, KeepsTransitive
    <2> QED  BY Zenon, <1>4, <2>2, KeepsTransitive
  <1>7. SameButCells(V0, V)
    BY Zenon, <1>1, <1>3, <1>4 DEF SameButCells
  <1>8. EntryReady(V0, H0, e, n, c, V)
    BY Zenon, <1>3, <1>4, <1>5, <1>6, <1>7 DEF EntryReady, H2
  <1> QED  BY Zenon, <1>8 DEF V1, c, V2, V

(* visitMapItem. *)
LEMMA VisitMapItemSteps ==
    ASSUME WalkInv, NEW g \in Goroutines, VisitMapItem(g)
    PROVE  CallStep(g)
  <1>1. Active(g) /\ \E n \in Top(g).todo : TRUE
    BY Zenon DEF VisitMapItem, Active
  <1>2. PICK n \in Top(g).todo :
          LET f == Top(g)
              V == Reuse(W(g), f.entry, n)
              both == f.phase = "left" /\ n \in Below(g, "r")
              c == OtherSide(V, both)
              lhs == IF f.phase = "left" THEN f.entry ELSE 0
              rhs == IF f.phase = "left" THEN c ELSE f.entry
          IN  Descend(g, Reuse(WithOther(V, both), c, n),
                      [f EXCEPT !.todo = @ \ {n}, !.other = c], FieldName(n), n, lhs, rhs)
    BY Zenon DEF VisitMapItem
  <1> DEFINE f == Top(g)
             both == f.phase = "left" /\ n \in Below(g, "r")
             V1 == Reuse(W(g), f.entry, n)
             c == OtherSide(V1, both)
             V == Reuse(WithOther(V1, both), c, n)
             lhs == IF f.phase = "left" THEN f.entry ELSE 0
             rhs == IF f.phase = "left" THEN c ELSE f.entry
             f2 == [f EXCEPT !.todo = @ \ {n}, !.other = c]
  <1>3. Descend(g, V, f2, FieldName(n), n, lhs, rhs)
    BY Zenon, <1>2
  <1>4. /\ W(g) \in Walkers /\ f \in Frames /\ HeldInv(W(g), Held(f))
        /\ f.todo \subseteq ChildrenOf(f.node)
    BY Zenon, <1>1, TopFacts
  <1>5. n \in ChildrenOf(f.node) /\ n \in Nodes /\ f.entry \in Nat /\ f.node \in Nodes
        /\ (f.entry # 0 => f.entry \in Held(f)) /\ both \in BOOLEAN
    BY Zenon, <1>4 DEF ChildrenOf, Frames, Held
  <1> HIDE DEF f, both
  <1>6. /\ V \in Walkers /\ SameButCells(W(g), V)
        /\ c \in Nat /\ (c # 0 => f.entry # c)
        /\ HeldInv(V, {f.entry, c} \ {0}) /\ Keeps(W(g), Held(f), V, {f.entry, c} \ {0})
        /\ f.entry # 0 => V.cells[f.entry] = n
        /\ c # 0 => V.cells[c] = n
    <2>1. EntryReady(W(g), Held(f), f.entry, n, c, V)
      BY Zenon, <1>4, <1>5, EntryFacts
    <2> QED  BY Zenon, <2>1 DEF EntryReady
  <1> HIDE DEF V1, c, V
  <1>7. /\ f2 \in Frames /\ f2.node = f.node /\ f2.lhs = f.lhs /\ f2.rhs = f.rhs
        /\ f2.path = f.path /\ f2.todo = f.todo \ {n} /\ f2.entry = f.entry /\ f2.other = c
    BY Zenon, <1>4, <1>6 DEF Frames
  <1> HIDE DEF f2
  <1>8. Held(f2) = {f.entry, c} \ {0}
    BY Zenon, <1>7 DEF Held
  <1>9. lhs \in Nat /\ rhs \in Nat /\ {lhs, rhs} \ {0} \subseteq Held(f2)
    BY Zenon, <1>5, <1>6, <1>8
  <1>10. \A x \in Held(f2) : x \in DOMAIN V.cells \ Range(V.free) /\ V.cells[x] = n
    BY Zenon, <1>6, <1>8 DEF HeldInv
  <1>11. Prepared(call[g].w, W(g), V, f2, n, FieldName(n), lhs, rhs)
    BY Zenon, <1>9, <1>10 DEF Prepared
  <1>12. FieldName(n) \in Elements
    BY Zenon, <1>5, ChildFacts, ElementFacts
  <1> HIDE DEF lhs, rhs
  <1>13. /\ V.mem = W(g).mem /\ f2.todo \subseteq ChildrenOf(f2.node) /\ n \in ChildrenOf(f2.node)
         /\ HeldInv(V, Held(f2)) /\ Keeps(W(g), Held(Top(g)), V, Held(f2))
    BY Zenon, <1>4, <1>5, <1>6, <1>7, <1>8 DEF SameButCells, f
  <1>14. /\ f2.node = Top(g).node /\ f2.lhs = Top(g).lhs /\ f2.rhs = Top(g).rhs
         /\ f2.path = Top(g).path /\ (f2.other # 0 => f2.entry # f2.other)
    BY Zenon, <1>6, <1>7 DEF f
  <1> QED  BY Zenon, <1>1, <1>3, <1>6, <1>7, <1>9, <1>11, <1>12, <1>13, <1>14, DescendSteps

(* c is a new value for the node n, and nobody holds it. *)
NewValue(V0, H, V, c, n) ==
    /\ c \in Nat \ {0} /\ c \in DOMAIN V.cells \ (Range(V.free) \cup H)
    /\ c \notin DOMAIN V0.cells /\ V.cells[c] = n

(* The values of an item of a list are new. *)
LEMMA ItemFacts ==
    ASSUME NEW V0 \in Walkers, NEW H, HeldInv(V0, H), NEW n \in Nodes, NEW l, NEW r
    PROVE  LET V == ItemCells(V0, n, l, r)
           IN  /\ V \in Walkers /\ SameButCells(V0, V)
               /\ HeldInv(V, H) /\ Keeps(V0, H, V, H)
               /\ NewValue(V0, H, V, Len(V0.cells) + 1, n) /\ NewValue(V0, H, V, Len(V.cells), n)
  <1> DEFINE V1 == NewCell(V0, n)
             V2 == NewCell(V1, n)
             c == Len(V0.cells) + 1
             d == Len(V1.cells) + 1
  <1>1. /\ V1 \in Walkers /\ SameButCells(V0, V1) /\ HeldInv(V1, H) /\ Keeps(V0, H, V1, H)
        /\ Len(V1.cells) = c /\ c \in Nat \ {0}
        /\ c \in DOMAIN V1.cells \ (Range(V1.free) \cup H) /\ c \notin DOMAIN V0.cells
        /\ V1.cells[c] = n
    BY NewCellKeeps
  <1> HIDE DEF V1
  <1>2. /\ V2 \in Walkers /\ SameButCells(V1, V2) /\ HeldInv(V2, H) /\ Keeps(V1, H, V2, H)
        /\ Len(V2.cells) = d /\ d \in Nat \ {0}
        /\ d \in DOMAIN V2.cells \ (Range(V2.free) \cup H) /\ d \notin DOMAIN V1.cells
        /\ V2.cells[d] = n
    BY <1>1, NewCellKeeps
  <1> HIDE DEF V2, c, d
  <1>3. NewValue(V0, H, V1, c, n)
    BY Zenon, <1>1 DEF NewValue
  <1>4. NewValue(V0, H, V2, d, n) /\ NewValue(V0, H, V2, c, n)
    BY Zenon, <1>1, <1>2 DEF NewValue, Keeps
  <1>5. Keeps(V0, H, V2, H) /\ SameButCells(V0, V2)
    BY Zenon, <1>1, <1>2, KeepsTransitive DEF SameButCells
  <1>6. CASE l > 0 /\ r > 0
    <2>1. ItemCells(V0, n, l, r) = V2
      BY Zenon, <1>6 DEF ItemCells, V1, V2
    <2> QED  BY Zenon, <1>2, <1>4, <1>5, <2>1 DEF c
  <1>7. CASE ~(l > 0 /\ r > 0)
    <2>1. ItemCells(V0, n, l, r) = V1
      BY Zenon, <1>7 DEF ItemCells, V1
    <2> QED  BY Zenon, <1>1, <1>3, <2>1 DEF c
  <1> QED  BY Zenon, <1>6, <1>7

(* compareListItem. *)
LEMMA CompareListItemSteps ==
    ASSUME WalkInv, NEW g \in Goroutines, CompareListItem(g)
    PROVE  CallStep(g)
  <1>1. Active(g)
    BY Zenon DEF CompareListItem, Active
  <1>2. PICK n \in Top(g).todo :
          LET f == Top(g)
              l == Count(g, "l", n)
              r == Count(g, "r", n)
              V == ItemCells(W(g), n, l, r)
              first == Len(W(g).cells) + 1
          IN  Descend(g, V,
                      [f EXCEPT !.todo = @ \ {n},
                                !.duplicate = IF l > 1 THEN "removed"
                                              ELSE IF r > 1 THEN "added" ELSE "no"],
                      ItemValue(call[g].w, first), n,
                      IF l = 1 THEN first ELSE 0, IF r = 1 THEN Len(V.cells) ELSE 0)
    BY Zenon DEF CompareListItem
  <1> DEFINE f == Top(g)
             l == Count(g, "l", n)
             r == Count(g, "r", n)
             V == ItemCells(W(g), n, l, r)
             first == Len(W(g).cells) + 1
             pe == ItemValue(call[g].w, first)
             lhs == IF l = 1 THEN first ELSE 0
             rhs == IF r = 1 THEN Len(V.cells) ELSE 0
             duplicate == IF l > 1 THEN "removed" ELSE IF r > 1 THEN "added" ELSE "no"
             f2 == [f EXCEPT !.todo = @ \ {n}, !.duplicate = duplicate]
  <1>3. Descend(g, V, f2, pe, n, lhs, rhs)
    BY Zenon, <1>2
  <1>4. /\ W(g) \in Walkers /\ f \in Frames /\ HeldInv(W(g), Held(f))
        /\ f.todo \subseteq ChildrenOf(f.node) /\ call[g].w \in 1 .. NumWalkers
        /\ f.other # 0 => f.entry # f.other
    BY Zenon, <1>1, TopFacts
  <1>5. n \in ChildrenOf(f.node) /\ n \in Nodes
    BY Zenon, <1>4 DEF ChildrenOf
  <1> HIDE DEF f, l, r
  <1>6. /\ V \in Walkers /\ SameButCells(W(g), V) /\ HeldInv(V, Held(f)) /\ Keeps(W(g), Held(f), V, Held(f))
        /\ NewValue(W(g), Held(f), V, first, n) /\ NewValue(W(g), Held(f), V, Len(V.cells), n)
    BY Zenon, <1>4, <1>5, ItemFacts
  <1> HIDE DEF V, first
  <1>7. duplicate \in {"no", "removed", "added"}
    BY Zenon
  <1> HIDE DEF duplicate
  <1>8. /\ f2 \in Frames /\ f2.node = f.node /\ f2.lhs = f.lhs /\ f2.rhs = f.rhs
        /\ f2.path = f.path /\ f2.todo = f.todo \ {n} /\ f2.entry = f.entry /\ f2.other = f.other
    BY Zenon, <1>4, <1>7 DEF Frames
  <1> HIDE DEF f2
  <1>9. Held(f2) = Held(f)
    BY Zenon, <1>8 DEF Held
  <1>10. lhs \in Nat /\ rhs \in Nat /\ {lhs, rhs} \ {0} \subseteq {first, Len(V.cells)}
    BY Zenon, <1>6 DEF NewValue
  <1>11. pe \in Elements
    BY Zenon, <1>4, <1>6, ElementFacts DEF NewValue
  <1> HIDE DEF lhs, rhs
  <1>12. Prepared(call[g].w, W(g), V, f2, n, pe, lhs, rhs)
    BY Zenon, <1>6, <1>9, <1>10 DEF Prepared, NewValue
  <1> HIDE DEF pe
  <1>13. /\ V.mem = W(g).mem /\ f2.todo \subseteq ChildrenOf(f2.node) /\ n \in ChildrenOf(f2.node)
         /\ HeldInv(V, Held(f2)) /\ Keeps(W(g), Held(Top(g)), V, Held(f2))
    BY Zenon, <1>4, <1>5, <1>6, <1>8, <1>9 DEF SameButCells, f
  <1>14. /\ f2.node = Top(g).node /\ f2.lhs = Top(g).lhs /\ f2.rhs = Top(g).rhs
         /\ f2.path = Top(g).path /\ (f2.other # 0 => f2.entry # f2.other)
    BY Zenon, <1>4, <1>8 DEF f
  <1> QED  BY Zenon, <1>1, <1>3, <1>6, <1>8, <1>10, <1>11, <1>12, <1>13, <1>14, DescendSteps

(* What CompareDuplicates reports has the path of the item. *)
LEMMA ReportedPath ==
    ASSUME NEW V \in Walkers, NEW p \in Slices, SliceInv(V.mem, p), NEW pe \in Elements
    PROVE  /\ AppendMem(V.mem, p, pe) \in Seq(Seq(Elements))
           /\ KeepsMem(V.mem, AppendMem(V.mem, p, pe), p.len)
           /\ Content(AppendMem(V.mem, p, pe), AppendSlice(V.mem, p, pe)) \in Seq(Elements)
  <1> DEFINE mem2 == AppendMem(V.mem, p, pe)
             p2 == AppendSlice(V.mem, p, pe)
  <1>1. /\ mem2 \in Seq(Seq(Elements)) /\ p2 \in Slices
        /\ KeepsMem(V.mem, mem2, p.len) /\ Appended(V.mem, p, pe, mem2, p2)
    BY Zenon, ElementAppended
  <1> HIDE DEF mem2, p2
  <1>2. SliceInv(mem2, p2)
    BY Zenon, <1>1 DEF Appended
  <1>3. Content(mem2, p2) \in Seq(Elements)
    BY Zenon, <1>1, <1>2, ContentFacts
  <1> QED  BY Zenon, <1>1, <1>3 DEF mem2, p2

(* Duplicates that are not compared. *)
LEMMA CompareDuplicatesSteps ==
    ASSUME WalkInv, NEW g \in Goroutines, CompareDuplicates(g)
    PROVE  CallStep(g)
  <1>1. Active(g)
    BY Zenon DEF CompareDuplicates, Active
  <1>2. PICK n \in Top(g).todo :
          LET f == Top(g)
              l == Count(g, "l", n)
              r == Count(g, "r", n)
              V == ItemCells(W(g), n, l, r)
              pe == ItemValue(call[g].w, Len(W(g).cells) + 1)
              equal == l > 1 /\ l = r
              mem == IF equal THEN V.mem ELSE AppendMem(V.mem, f.path, pe)
              path == Content(mem, AppendSlice(V.mem, f.path, pe))
          IN  /\ walker' = [walker EXCEPT ![call[g].w] = [V EXCEPT !.mem = mem]]
              /\ stack' = [stack EXCEPT ![g] = Front(@) \o <<[f EXCEPT !.todo = @ \ {n}]>>]
              /\ call' = [call EXCEPT ![g].cmp =
                            IF equal THEN @
                            ELSE Insert(@, IF l = 0 THEN "added"
                                           ELSE IF r = 0 THEN "removed" ELSE "modified", path)]
    BY Zenon DEF CompareDuplicates
  <1> DEFINE f == Top(g)
             l == Count(g, "l", n)
             r == Count(g, "r", n)
             V == ItemCells(W(g), n, l, r)
             pe == ItemValue(call[g].w, Len(W(g).cells) + 1)
             equal == l > 1 /\ l = r
             mem == IF equal THEN V.mem ELSE AppendMem(V.mem, f.path, pe)
             path == Content(mem, AppendSlice(V.mem, f.path, pe))
             which == IF l = 0 THEN "added" ELSE IF r = 0 THEN "removed" ELSE "modified"
             cmp == IF equal THEN call[g].cmp ELSE Insert(call[g].cmp, which, path)
             V2 == [V EXCEPT !.mem = mem]
             f2 == [f EXCEPT !.todo = @ \ {n}]
  <1>3. /\ W(g) \in Walkers /\ f \in Frames /\ HeldInv(W(g), Held(f)) /\ call[g] \in Calls
        /\ f.todo \subseteq ChildrenOf(f.node) /\ call[g].w \in 1 .. NumWalkers
        /\ f.other # 0 => f.entry # f.other
        /\ f.path.len = Len(stack[g]) - 1 /\ call[g].cmp \in Comparisons
        /\ SliceInv(W(g).mem, f.path)
    BY Zenon, <1>1, TopFacts DEF PathInv
  <1>4. Does(g, V2, Front(stack[g]) \o <<f2>>, cmp)
    <2>1. call' = [call EXCEPT ![g].cmp = cmp]
      BY Zenon, <1>2, <1>3 DEF WalkInv, TypeInv
    <2>2. stack' = [stack EXCEPT ![g] = Front(stack[g]) \o <<f2>>]
      BY Zenon, <1>2 DEF WalkInv, TypeInv
    <2>3. pool' = pool /\ returned' = returned /\ walker' = [walker EXCEPT ![call[g].w] = V2]
      BY Zenon, <1>2 DEF CompareDuplicates
    <2> QED  BY Zenon, <2>1, <2>2, <2>3 DEF Does
  <1>5. n \in ChildrenOf(f.node) /\ n \in Nodes /\ f.path \in Slices
    BY Zenon, <1>3 DEF ChildrenOf, Frames
  <1> HIDE DEF f, l, r
  <1>6. /\ V \in Walkers /\ SameButCells(W(g), V) /\ HeldInv(V, Held(f)) /\ Keeps(W(g), Held(f), V, Held(f))
        /\ NewValue(W(g), Held(f), V, Len(W(g).cells) + 1, n)
    BY Zenon, <1>3, <1>5, ItemFacts
  <1>7. pe \in Elements
    BY Zenon, <1>3, <1>6, ElementFacts DEF NewValue
  <1> HIDE DEF V, pe
  <1>8. V.mem = W(g).mem /\ SliceInv(V.mem, f.path)
    BY Zenon, <1>3, <1>6 DEF SameButCells
  <1>9. /\ AppendMem(V.mem, f.path, pe) \in Seq(Seq(Elements))
        /\ KeepsMem(V.mem, AppendMem(V.mem, f.path, pe), f.path.len)
        /\ Content(AppendMem(V.mem, f.path, pe), AppendSlice(V.mem, f.path, pe)) \in Seq(Elements)
    BY Zenon, <1>5, <1>6, <1>7, <1>8, ReportedPath
  <1>10. V.mem \in Seq(Seq(Elements)) /\ KeepsMem(V.mem, V.mem, f.path.len)
    BY Zenon, <1>6, NothingTouched DEF Walkers
  <1>11. mem \in Seq(Seq(Elements)) /\ KeepsMem(W(g).mem, mem, Len(stack[g]) - 1)
    BY Zenon, <1>3, <1>8, <1>9, <1>10
  <1>12. cmp \in Comparisons
    <2>1. CASE equal
      BY Zenon, <1>3, <2>1
    <2>2. CASE ~equal
      <3>1. path \in Seq(Elements) /\ which \in {"removed", "modified", "added"}
        BY Zenon, <1>9, <2>2
      <3>2. cmp = Insert(call[g].cmp, which, path)
        BY Zenon, <2>2
      <3> HIDE DEF path, which, cmp
      <3> QED  BY Zenon, <1>3, <3>1, <3>2, InsertFacts
    <2> QED  BY Zenon, <2>1, <2>2
  <1> HIDE DEF mem, cmp
  <1>13. /\ V2 \in Walkers /\ V2.cells = V.cells /\ V2.free = V.free /\ V2.mem = mem
    BY Zenon, <1>6, <1>11 DEF Walkers
  <1>14. /\ f2 \in Frames /\ f2.node = f.node /\ f2.lhs = f.lhs /\ f2.rhs = f.rhs
         /\ f2.path = f.path /\ f2.todo = f.todo \ {n} /\ f2.entry = f.entry /\ f2.other = f.other
    BY Zenon, <1>3 DEF Frames
  <1> HIDE DEF f2, V2
  <1>15. Held(f2) = Held(f)
    BY Zenon, <1>14 DEF Held
  <1>16. HeldInv(V2, Held(f2)) /\ Keeps(W(g), Held(Top(g)), V2, Held(f2))
    BY Zenon, <1>6, <1>13, <1>15 DEF HeldInv, FreeInv, Keeps, f
  <1>17. /\ f2.node = Top(g).node /\ f2.lhs = Top(g).lhs /\ f2.rhs = Top(g).rhs
         /\ f2.path = Top(g).path /\ (f2.other # 0 => f2.entry # f2.other)
         /\ f2.todo \subseteq ChildrenOf(f2.node)
    BY Zenon, <1>3, <1>14 DEF f
  <1> QED  BY Zenon, <1>1, <1>4, <1>11, <1>12, <1>13, <1>14, <1>16, <1>17, TopSteps

(* The walker on top is done, and the one below goes on. *)
LEMMA WalkerAscends ==
    ASSUME NEW w, NEW V \in Walkers, NEW s \in Seq(Frames), Len(s) > 1, CallInv(w, V, s)
    PROVE  LET f2 == Last(s)
               rest == Front(s)
               f == Last(rest)
               V2 == Free(KeepSpare(V, f2), f.other)
               t == Front(rest) \o <<[FinishDescent(f, f2) EXCEPT !.other = 0, !.duplicate = "no"]>>
           IN  /\ V2 \in Walkers /\ t \in Seq(Frames) /\ t # <<>>
               /\ DOMAIN V.cells \subseteq DOMAIN V2.cells
               /\ CallInv(w, V2, t) /\ Stays(V, s, V2, t)
               /\ f \in Frames
  <1> DEFINE f2 == Last(s)
             rest == Front(s)
             f == Last(rest)
             p == WithoutLast(f2.path)
             V1 == KeepSpare(V, f2)
             V2 == Free(V1, f.other)
             f3 == [FinishDescent(f, f2) EXCEPT !.other = 0, !.duplicate = "no"]
             t == Front(rest) \o <<f3>>
  <1>1. /\ rest \in Seq(Frames) /\ rest # <<>> /\ CallInv(w, V, rest) /\ Stays(V, s, V, rest)
        /\ p \in Slices /\ PathInv(w, V, rest, p, rest[Len(rest)].node)
    BY Zenon, WalkerPopped
  <1>2. f2 \in Frames
    BY FrontFacts
  <1> HIDE DEF rest, f2
  <1>3. f \in Frames /\ f = rest[Len(rest)] /\ Len(rest) \in DOMAIN rest
    BY <1>1 DEF Last
  <1> HIDE DEF f, p
  <1>4. /\ V1 \in Walkers /\ V1.cells = V.cells /\ V1.free = V.free /\ V1.mem = V.mem
    <2>1. V.spares \in Seq([path : Slices, inLeaf : BOOLEAN])
      BY Zenon DEF Walkers
    <2>2. [path |-> f2.path, inLeaf |-> f2.inLeaf] \in [path : Slices, inLeaf : BOOLEAN]
      BY Zenon, <1>2 DEF Frames
    <2>3. Append(V.spares, [path |-> f2.path, inLeaf |-> f2.inLeaf])
            \in Seq([path : Slices, inLeaf : BOOLEAN])
      BY <2>1, <2>2
    <2> QED  BY Zenon, <2>3 DEF KeepSpare, Walkers
  <1> HIDE DEF V1
  <1>5. /\ HeldInv(V, Held(f)) /\ (f.other # 0 => f.entry # f.other)
        /\ f.todo \subseteq ChildrenOf(f.node)
    BY Zenon, <1>1, <1>3 DEF CallInv, CellsInv, PathsInv, HeldInv
  <1>6. HeldInv(V1, Held(f)) /\ Keeps(V, Held(f), V1, Held(f))
    BY Zenon, <1>4, <1>5 DEF HeldInv, FreeInv, Keeps
  <1>7. f.other \in Nat /\ (f.other # 0 => f.other \in Held(f))
    BY Zenon, <1>3 DEF Frames, Held
  <1>8. /\ V2 \in Walkers /\ SameButCells(V1, V2)
        /\ HeldInv(V2, Held(f) \ {f.other}) /\ Keeps(V1, Held(f), V2, Held(f) \ {f.other})
        /\ DOMAIN V2.cells = DOMAIN V1.cells
    BY Zenon, <1>4, <1>6, <1>7, FreeKeeps
  <1> HIDE DEF V2
  <1>9. /\ f3 \in Frames /\ f3.node = f.node /\ f3.lhs = f.lhs /\ f3.rhs = f.rhs
        /\ f3.path = p /\ f3.todo = f.todo /\ f3.entry = f.entry /\ f3.other = 0
    BY Zenon, <1>1, <1>3 DEF Frames, FinishDescent, p
  <1> HIDE DEF f3
  <1>10. Held(f3) = Held(f) \ {f.other}
    BY Zenon, <1>5, <1>9 DEF Held
  <1>11. HeldInv(V2, Held(f3)) /\ Keeps(V, Held(f), V2, Held(f3))
    BY <1>6, <1>8, <1>10, KeepsTransitive
  <1>12. KeepsMem(V.mem, V2.mem, Len(rest) - 1)
    BY Zenon, <1>4, <1>8, NothingTouched DEF SameButCells
  <1>13. t \in Seq(Frames) /\ t # <<>> /\ CallInv(w, V2, t) /\ Stays(V, rest, V2, t)
    <2>1. /\ f3.node = rest[Len(rest)].node /\ f3.lhs = rest[Len(rest)].lhs
          /\ f3.rhs = rest[Len(rest)].rhs /\ (f3.other # 0 => f3.entry # f3.other)
          /\ f3.todo \subseteq ChildrenOf(f3.node) /\ PathInv(w, V, rest, f3.path, f3.node)
          /\ Keeps(V, Held(rest[Len(rest)]), V2, Held(f3))
      BY Zenon, <1>1, <1>3, <1>5, <1>9, <1>11
    <2> QED  BY Zenon, <1>1, <1>8, <1>9, <1>11, <1>12, <2>1, StepOfTop
  <1> HIDE DEF t
  <1>14. Stays(V, s, V2, t)
    BY Zenon, <1>1, <1>13, StaysTransitive
  <1>15. DOMAIN V.cells \subseteq DOMAIN V2.cells
    BY Zenon, <1>4, <1>8
  <1> QED  BY Zenon, <1>3, <1>8, <1>13, <1>14, <1>15 DEF t, f3, V2, V1, f, rest, f2

(* The end of compare and of its caller. *)
LEMMA AscendSteps ==
    ASSUME WalkInv, NEW g \in Goroutines, Ascend(g)
    PROVE  CallStep(g)
  <1> DEFINE f2 == Top(g)
             rest == Front(stack[g])
             f == Last(rest)
             V2 == Free(KeepSpare(W(g), f2), f.other)
             t == Front(rest) \o <<[FinishDescent(f, f2) EXCEPT !.other = 0, !.duplicate = "no"]>>
             cmp1 == InsertMissing(call[g].cmp, f2, PathOf(g))
             cmp == IF f.duplicate = "no" THEN cmp1 ELSE Insert(cmp1, f.duplicate, PathOf(g))
  <1>1. Active(g) /\ Len(stack[g]) > 1
    BY Zenon DEF Ascend, Active
  <1>2. /\ W(g) \in Walkers /\ stack[g] \in Seq(Frames) /\ CallInv(call[g].w, W(g), stack[g])
        /\ call[g] \in Calls /\ call[g].w \in 1 .. NumWalkers
    BY Zenon, <1>1, TopFacts
  <1>3. /\ V2 \in Walkers /\ t \in Seq(Frames) /\ t # <<>>
        /\ DOMAIN W(g).cells \subseteq DOMAIN V2.cells
        /\ CallInv(call[g].w, V2, t) /\ Stays(W(g), stack[g], V2, t)
        /\ f \in Frames
    BY Zenon, <1>1, <1>2, WalkerAscends DEF Top
  <1>4. Does(g, V2, t, cmp)
    BY Zenon, <1>2 DEF Ascend, Does, WalkInv, TypeInv, W
  <1> HIDE DEF V2, t
  <1>5. cmp1 \in Comparisons /\ PathOf(g) \in Seq(Elements)
    BY Zenon, <1>1, ComparisonFacts
  <1> HIDE DEF cmp1
  <1>6. cmp \in Comparisons
    <2>1. CASE f.duplicate = "no"
      BY Zenon, <1>5, <2>1
    <2>2. CASE f.duplicate # "no"
      <3>1. f.duplicate \in {"removed", "modified", "added"}
        BY Zenon, <1>3, <2>2 DEF Frames
      <3>2. Insert(cmp1, f.duplicate, PathOf(g)) \in Comparisons
        BY Zenon, <1>5, <3>1, InsertFacts
      <3> QED  BY Zenon, <2>2, <3>2
    <2> QED  BY Zenon, <2>1, <2>2
  <1> HIDE DEF cmp
  <1> QED  BY Zenon, <1>1, <1>3, <1>4, <1>6 DEF CallStep

-----------------------------------------------------------------------------
(* The invariant. *)

(* A call is not Idle. *)
LEMMA CallFacts ==
    \A c \in Calls : c # Idle /\ c.w \in 1 .. NumWalkers /\ c.w # 0
  BY WalkAssumption DEF Calls, Idle

(* A step of one call concerns no other: their root walkers are others. *)
LEMMA CallStepKeeps ==
    ASSUME WalkInv, NEW g \in Goroutines, CallStep(g)
    PROVE  WalkInv'
  <1>1. PICK V2 \in Walkers, t \in Seq(Frames), cmp \in Comparisons :
          /\ Does(g, V2, t, cmp)
          /\ t # <<>>
          /\ DOMAIN W(g).cells \subseteq DOMAIN V2.cells
          /\ CallInv(call[g].w, V2, t)
          /\ Stays(W(g), stack[g], V2, t)
    BY Zenon DEF CallStep
  <1>2. Active(g) /\ call[g] \in Calls /\ call[g].w \in 1 .. NumWalkers /\ W(g) \in Walkers
    BY Zenon, TopFacts DEF CallStep
  <1> DEFINE c == [call[g] EXCEPT !.cmp = cmp]
             w == call[g].w
  <1>3. c \in Calls /\ c.w = w /\ c # Idle
    <2>1. c \in Calls /\ c.w = w
      BY Zenon, <1>2 DEF Calls
    <2> QED  BY Zenon, <2>1, CallFacts
  <1>4. /\ walker \in [1 .. NumWalkers -> Walkers] /\ stack \in [Goroutines -> Seq(Frames)]
        /\ call \in [Goroutines -> Calls \cup {Idle}]
    BY Zenon DEF WalkInv, TypeInv
  <1>5. /\ walker' = [walker EXCEPT ![w] = V2] /\ stack' = [stack EXCEPT ![g] = t]
        /\ call' = [call EXCEPT ![g] = c] /\ pool' = pool /\ returned' = returned
    BY Zenon, <1>1, <1>4 DEF Does
  <1> HIDE DEF c, w
  <1>6. /\ walker'[w] = V2 /\ stack'[g] = t /\ call'[g] = c
        /\ \A h \in Goroutines : h # g => stack'[h] = stack[h] /\ call'[h] = call[h]
        /\ \A v \in 1 .. NumWalkers : v # w => walker'[v] = walker[v]
    BY Zenon, <1>2, <1>4, <1>5 DEF w
  <1>7. TypeInv'
    BY Zenon, <1>3, <1>4, <1>5 DEF WalkInv, TypeInv
  <1>8. \A h \in Goroutines : call'[h].w = call[h].w /\ (Active(h)' <=> Active(h))
    BY Zenon, <1>2, <1>3, <1>6 DEF Active, w
  <1>9. \A h \in Goroutines : Active(h) /\ h # g => call[h].w # w /\ call[h].w \in 1 .. NumWalkers
    BY Zenon, <1>2, TopFacts DEF WalkInv, UseInv, w
  <1>10. ASSUME NEW h \in Goroutines, Active(h)
         PROVE  /\ stack'[h] # <<>> /\ walker'[call'[h].w].cells # <<>>
                /\ CallInv(call'[h].w, walker'[call'[h].w], stack'[h])
    <2>1. CASE h = g
      <3>1. W(g).cells # <<>>
        BY Zenon, <1>2 DEF WalkInv, UseInv
      <3>2. W(g).cells \in Seq(Nodes \cup {Nothing}) /\ V2.cells \in Seq(Nodes \cup {Nothing})
        BY Zenon, <1>2 DEF Walkers
      <3>3. V2.cells # <<>>
        BY <1>1, <3>1, <3>2
      <3> QED  BY Zenon, <1>1, <1>6, <1>8, <2>1, <3>3 DEF w
    <2>2. CASE h # g
      <3>1. /\ stack[h] # <<>> /\ walker[call[h].w].cells # <<>>
            /\ CallInv(call[h].w, walker[call[h].w], stack[h])
        BY Zenon, <1>10 DEF WalkInv, UseInv, CallsInv, W
      <3> QED  BY Zenon, <1>6, <1>8, <1>9, <1>10, <2>2, <3>1
    <2> QED  BY Zenon, <2>1, <2>2
  <1>11. \A h \in Goroutines : ~Active(h) => stack'[h] = <<>>
    BY Zenon, <1>2, <1>6 DEF WalkInv, UseInv
  <1>12. UseInv'
    <2>1. \A h \in Goroutines : Active(h)' <=> stack'[h] # <<>>
      BY Zenon, <1>8, <1>10, <1>11
    <2>2. \A h \in Goroutines : Active(h)' => call'[h].w \notin pool'
      BY <1>5, <1>8 DEF WalkInv, UseInv
    <2>3. \A h, k \in Goroutines : Active(h)' /\ Active(k)' /\ call'[h].w = call'[k].w => h = k
      BY Zenon, <1>8 DEF WalkInv, UseInv
    <2> QED  BY Zenon, <1>8, <1>10, <2>1, <2>2, <2>3 DEF UseInv, W
  <1>13. CallsInv'
    <2>1. ASSUME NEW v \in 1 .. NumWalkers, \A h \in Goroutines : call'[h].w # v
          PROVE  RestInv(walker'[v])
      <3>1. v # w /\ \A h \in Goroutines : call[h].w # v
        BY Zenon, <1>8, <2>1 DEF w
      <3> QED  BY Zenon, <1>6, <3>1 DEF WalkInv, CallsInv
    <2> QED  BY Zenon, <1>8, <1>10, <2>1 DEF CallsInv, W
  <1> QED  BY Zenon, <1>7, <1>12, <1>13 DEF WalkInv

(* A root walker that is at rest begins a call. *)
LEMMA CallBegins ==
    ASSUME NEW w, NEW V \in Walkers, RestInv(V), <<>> \in Nodes
    PROVE  LET n == Len(V.cells)
               V2 == NewCell(NewCell(V, <<>>), <<>>)
               s == <<Walker(<<>>, V.path, V.inLeaf, n + 1, n + 2)>>
           IN  /\ V2 \in Walkers /\ s \in Seq(Frames) /\ s # <<>> /\ V2.cells # <<>>
               /\ CallInv(w, V2, s) /\ Stays(V, <<>>, V2, s)
  <1> DEFINE V1 == NewCell(V, <<>>)
             V2 == NewCell(V1, <<>>)
             c == Len(V.cells) + 1
             d == Len(V1.cells) + 1
             f == Walker(<<>>, V.path, V.inLeaf, c, d)
             s == <<f>>
  <1>1. HeldInv(V, {})
    BY Zenon DEF HeldInv, RestInv
  <1>2. /\ V1 \in Walkers /\ SameButCells(V, V1) /\ HeldInv(V1, {}) /\ Keeps(V, {}, V1, {})
        /\ Len(V1.cells) = c /\ c \in Nat \ {0}
        /\ c \in DOMAIN V1.cells \ (Range(V1.free) \cup {})
        /\ V1.cells[c] = <<>>
    BY <1>1, NewCellKeeps
  <1>3. d = Len(V.cells) + 2
    BY <1>2
  <1> HIDE DEF V1, c
  <1>4. /\ V2 \in Walkers /\ SameButCells(V1, V2) /\ HeldInv(V2, {}) /\ Keeps(V1, {}, V2, {})
        /\ d \in Nat \ {0} /\ d \in DOMAIN V2.cells \ (Range(V2.free) \cup {})
        /\ V2.cells[d] = <<>>
    BY Zenon, <1>2, NewCellKeeps
  <1>5. c \in DOMAIN V2.cells \ Range(V2.free) /\ V2.cells[c] = <<>>
    BY Zenon, <1>2, <1>4 DEF Keeps
  <1> HIDE DEF V2, d
  <1>6. Keeps(V, {}, V2, {}) /\ V2.mem = V.mem
    BY Zenon, <1>2, <1>4, KeepsTransitive DEF SameButCells
  <1>7. /\ f \in Frames /\ f.node = <<>> /\ f.path = V.path /\ f.lhs = c /\ f.rhs = d
        /\ f.entry = 0 /\ f.other = 0 /\ f.todo = {}
    BY Zenon, <1>2, <1>4 DEF Walker, Frames, Phases, Walkers
  <1> HIDE DEF f
  <1>8. s \in Seq(Frames) /\ s # <<>> /\ DOMAIN s = {1} /\ s[1] = f
    BY <1>7
  <1> HIDE DEF s
  <1>9. Held(s[1]) = {}
    BY Zenon, <1>7, <1>8 DEF Held
  <1>10. CellsInv(V2, s)
    <2>1. SideInv(V2, s, 1, c) /\ SideInv(V2, s, 1, d)
      BY Zenon, <1>4, <1>5, <1>7, <1>8, <1>9 DEF SideInv
    <2> QED  BY Zenon, <1>4, <1>7, <1>8, <1>9, <2>1 DEF CellsInv, HeldInv
  <1>11. PathsInv(w, V2, s)
    <2>1. Len(f.node) = 0
      BY Zenon, <1>7
    <2>2. PathInv(w, V2, s, f.path, f.node)
      BY <1>6, <1>7, <2>1 DEF PathInv, RestInv
    <2> QED  BY <1>7, <1>8, <2>1, <2>2 DEF PathsInv
  <1>12. Stays(V, <<>>, V2, s)
    BY Zenon, <1>6, <1>8, <1>9 DEF Stays, Settled, Keeps
  <1>13. V2.cells # <<>>
    BY <1>4
  <1> QED  BY Zenon, <1>3, <1>4, <1>8, <1>10, <1>11, <1>12, <1>13 DEF CallInv, V1, V2, c, d, f, s

(* Objects have a root. *)
LEMMA PairFacts ==
    ASSUME NEW pair \in Pairs
    PROVE  pair[1] \in Objects /\ pair[2] \in Objects /\ <<>> \in Nodes
  BY Zenon, WalkAssumption DEF Objects, Nodes

(* The root walker a call takes is at rest. *)
LEMMA TakenRests ==
    ASSUME WalkInv, NEW w \in 1 .. NumWalkers, w \in pool \/ Unused(w)
    PROVE  (\A h \in Goroutines : call[h].w # w) /\ RestInv(walker[w])
  <1>1. ASSUME NEW h \in Goroutines, call[h].w = w
        PROVE  FALSE
    <2>1. Active(h)
      BY <1>1, WalkAssumption DEF Active, Idle
    <2>2. w \notin pool /\ walker[w].cells # <<>>
      BY Zenon, <1>1, <2>1 DEF WalkInv, UseInv, W
    <2> QED  BY <2>2 DEF Unused, NewWalker
  <1> QED  BY Zenon, <1>1 DEF WalkInv, CallsInv

(* TypedValue.Compare begins. *)
LEMMA CompareKeeps ==
    ASSUME WalkInv, NEW g \in Goroutines, NEW pair \in Pairs, Compare(g, pair[1], pair[2])
    PROVE  WalkInv'
  <1> DEFINE l == pair[1]
             r == pair[2]
  <1>1. PICK w \in 1 .. NumWalkers :
          /\ w \in pool \/ Unused(w)
          /\ LET V == walker[w]
                 n == Len(V.cells)
             IN  /\ walker' = [walker EXCEPT ![w] = NewCell(NewCell(V, <<>>), <<>>)]
                 /\ stack' = [stack EXCEPT ![g] = <<Walker(<<>>, V.path, V.inLeaf, n + 1, n + 2)>>]
                 /\ call' = [call EXCEPT ![g] = [w |-> w, l |-> l, r |-> r, cmp |-> EmptyComparison]]
          /\ pool' = pool \ {w}
    BY Zenon DEF Compare
  <1> DEFINE V2 == NewCell(NewCell(walker[w], <<>>), <<>>)
             t == <<Walker(<<>>, walker[w].path, walker[w].inLeaf,
                           Len(walker[w].cells) + 1, Len(walker[w].cells) + 2)>>
             c == [w |-> w, l |-> l, r |-> r, cmp |-> EmptyComparison]
  <1>2. /\ walker \in [1 .. NumWalkers -> Walkers] /\ stack \in [Goroutines -> Seq(Frames)]
        /\ call \in [Goroutines -> Calls \cup {Idle}]
    BY Zenon DEF WalkInv, TypeInv
  <1>3. (\A h \in Goroutines : call[h].w # w) /\ RestInv(walker[w]) /\ walker[w] \in Walkers
    BY Zenon, <1>1, <1>2, TakenRests
  <1>4. /\ V2 \in Walkers /\ t \in Seq(Frames) /\ t # <<>> /\ V2.cells # <<>> /\ CallInv(w, V2, t)
    BY Zenon, <1>3, CallBegins, PairFacts
  <1>5. c \in Calls /\ c.w = w /\ c # Idle
    <2>1. EmptyComparison \in Comparisons
      BY Zenon DEF EmptyComparison, Comparisons
    <2>2. c \in Calls /\ c.w = w
      BY Zenon, <2>1, PairFacts DEF Calls
    <2> QED  BY Zenon, <2>2, CallFacts
  <1>6. /\ walker' = [walker EXCEPT ![w] = V2] /\ stack' = [stack EXCEPT ![g] = t]
        /\ call' = [call EXCEPT ![g] = c] /\ pool' = pool \ {w} /\ returned' = returned
        /\ call[g] = Idle
    BY Zenon, <1>1 DEF Compare
  <1> HIDE DEF V2, t, c
  <1>7. /\ walker'[w] = V2 /\ stack'[g] = t /\ call'[g] = c
        /\ \A h \in Goroutines : h # g => stack'[h] = stack[h] /\ call'[h] = call[h]
        /\ \A v \in 1 .. NumWalkers : v # w => walker'[v] = walker[v]
    BY Zenon, <1>2, <1>6
  <1>8. TypeInv'
    BY Zenon, <1>2, <1>4, <1>5, <1>6 DEF WalkInv, TypeInv
  <1>9. \A h \in Goroutines : Active(h)' <=> Active(h) \/ h = g
    BY Zenon, <1>5, <1>7 DEF Active
  <1>10. \A h \in Goroutines : Active(h) => h # g /\ call[h].w \in 1 .. NumWalkers /\ call[h].w # w
    BY Zenon, <1>3, <1>6, TopFacts DEF Active
  <1>11. ASSUME NEW h \in Goroutines, Active(h)'
         PROVE  /\ stack'[h] # <<>> /\ walker'[call'[h].w].cells # <<>> /\ call'[h].w \notin pool'
                /\ CallInv(call'[h].w, walker'[call'[h].w], stack'[h])
    <2>1. CASE h = g
      BY <1>4, <1>5, <1>6, <1>7, <2>1
    <2>2. CASE h # g
      <3>1. Active(h)
        BY Zenon, <1>9, <1>11, <2>2
      <3>2. /\ stack[h] # <<>> /\ walker[call[h].w].cells # <<>> /\ call[h].w \notin pool
            /\ CallInv(call[h].w, walker[call[h].w], stack[h])
        BY Zenon, <3>1 DEF WalkInv, UseInv, CallsInv, W
      <3> QED  BY <1>6, <1>7, <1>10, <2>2, <3>1, <3>2
    <2> QED  BY Zenon, <2>1, <2>2
  <1>12. UseInv'
    <2>1. \A h \in Goroutines : ~Active(h)' => stack'[h] = <<>>
      BY Zenon, <1>7, <1>9 DEF WalkInv, UseInv
    <2>2. \A h, k \in Goroutines : Active(h)' /\ Active(k)' /\ call'[h].w = call'[k].w => h = k
      BY <1>5, <1>7, <1>9, <1>10 DEF WalkInv, UseInv
    <2> QED  BY Zenon, <1>11, <2>1, <2>2 DEF UseInv, W
  <1>13. CallsInv'
    <2>1. ASSUME NEW v \in 1 .. NumWalkers, \A h \in Goroutines : call'[h].w # v
          PROVE  RestInv(walker'[v])
      <3>1. v # w
        BY Zenon, <1>5, <1>7, <2>1
      <3>2. \A h \in Goroutines : call[h].w # v
        BY <1>6, <1>7, <2>1, WalkAssumption DEF Idle
      <3> QED  BY Zenon, <1>7, <3>1, <3>2 DEF WalkInv, CallsInv
    <2> QED  BY Zenon, <1>11, <2>1 DEF CallsInv, W
  <1> QED  BY Zenon, <1>8, <1>12, <1>13 DEF WalkInv

(* TypedValue.Compare returns. *)
LEMMA ReturnKeeps ==
    ASSUME WalkInv, NEW g \in Goroutines, Return(g)
    PROVE  WalkInv'
  <1> DEFINE w == call[g].w
             V2 == Reset(W(g), Top(g))
             c == [l |-> call[g].l, r |-> call[g].r,
                   cmp |-> InsertMissing(call[g].cmp, Top(g), PathOf(g))]
  <1>1. Active(g) /\ Len(stack[g]) = 1
    BY Zenon DEF Return, Active
  <1>2. /\ walker \in [1 .. NumWalkers -> Walkers] /\ stack \in [Goroutines -> Seq(Frames)]
        /\ call \in [Goroutines -> Calls \cup {Idle}] /\ w \in 1 .. NumWalkers
    BY Zenon, <1>1, TopFacts DEF WalkInv, TypeInv
  <1>3. /\ W(g) \in Walkers /\ Top(g).path \in Slices /\ Top(g).path.len = 0
        /\ SliceInv(W(g).mem, Top(g).path) /\ FreeInv(W(g))
    <2>1. /\ W(g) \in Walkers /\ Top(g) \in Frames /\ HeldInv(W(g), Held(Top(g)))
          /\ PathInv(w, W(g), stack[g], Top(g).path, Top(g).node)
          /\ Top(g).path.len = Len(stack[g]) - 1
      BY Zenon, <1>1, TopFacts
    <2>2. Top(g).path \in Slices
      BY Zenon, <2>1 DEF Frames
    <2> QED  BY <1>1, <2>1, <2>2 DEF PathInv, HeldInv
  <1>4. V2 \in Walkers /\ RestInv(V2)
    <2>1. /\ V2 \in Walkers /\ V2.path = Top(g).path /\ V2.inLeaf = FALSE
          /\ V2.cells = W(g).cells /\ V2.free = W(g).free /\ V2.mem = W(g).mem
      BY Zenon, <1>3 DEF Reset, Walkers
    <2> HIDE DEF V2
    <2> QED  BY Zenon, <1>3, <2>1 DEF RestInv, FreeInv
  <1>5. c \in [l : Objects, r : Objects, cmp : Comparisons]
    BY Zenon, <1>1, TopFacts, ComparisonFacts
  <1>6. /\ walker' = [walker EXCEPT ![w] = V2] /\ stack' = [stack EXCEPT ![g] = <<>>]
        /\ call' = [call EXCEPT ![g] = Idle] /\ pool' = pool \cup {w}
        /\ returned' = returned \cup {c}
    BY Zenon, <1>2 DEF Return, W
  <1>7. Active(g) /\ \A h \in Goroutines : Active(h) /\ h # g =>
                       call[h].w # w /\ call[h].w \in 1 .. NumWalkers
    BY Zenon, <1>1, TopFacts DEF WalkInv, UseInv
  <1> HIDE DEF V2, c
  <1>8. /\ walker'[w] = V2 /\ stack'[g] = <<>> /\ call'[g] = Idle
        /\ \A h \in Goroutines : h # g => stack'[h] = stack[h] /\ call'[h] = call[h]
        /\ \A v \in 1 .. NumWalkers : v # w => walker'[v] = walker[v]
    BY Zenon, <1>2, <1>6
  <1>9. TypeInv'
    <2>1. <<>> \in Seq(Frames)
      OBVIOUS
    <2> QED  BY Zenon, <1>2, <1>4, <1>5, <1>6, <2>1 DEF WalkInv, TypeInv
  <1>10. \A h \in Goroutines : Active(h)' <=> Active(h) /\ h # g
    BY Zenon, <1>8 DEF Active
  <1>11. ASSUME NEW h \in Goroutines, Active(h)'
         PROVE  /\ stack'[h] # <<>> /\ walker'[call'[h].w].cells # <<>> /\ call'[h].w \notin pool'
                /\ CallInv(call'[h].w, walker'[call'[h].w], stack'[h])
    <2>1. Active(h) /\ h # g
      BY Zenon, <1>10, <1>11
    <2>2. /\ stack[h] # <<>> /\ walker[call[h].w].cells # <<>> /\ call[h].w \notin pool
          /\ CallInv(call[h].w, walker[call[h].w], stack[h])
      BY Zenon, <2>1 DEF WalkInv, UseInv, CallsInv, W
    <2> QED  BY <1>6, <1>7, <1>8, <2>1, <2>2
  <1>12. UseInv'
    <2>1. \A h \in Goroutines : ~Active(h)' => stack'[h] = <<>>
      BY Zenon, <1>8, <1>10 DEF WalkInv, UseInv
    <2>2. \A h, k \in Goroutines : Active(h)' /\ Active(k)' /\ call'[h].w = call'[k].w => h = k
      BY <1>8, <1>10 DEF WalkInv, UseInv
    <2> QED  BY Zenon, <1>11, <2>1, <2>2 DEF UseInv, W
  <1>13. CallsInv'
    <2>1. ASSUME NEW v \in 1 .. NumWalkers, \A h \in Goroutines : call'[h].w # v
          PROVE  RestInv(walker'[v])
      <3>1. CASE v = w
        BY Zenon, <1>4, <1>8, <3>1
      <3>2. CASE v # w
        <4>1. \A h \in Goroutines : call[h].w # v
          BY Zenon, <1>8, <2>1, <3>2
        <4> QED  BY Zenon, <1>8, <3>2, <4>1 DEF WalkInv, CallsInv
      <3> QED  BY Zenon, <3>1, <3>2
    <2> QED  BY Zenon, <1>11, <2>1 DEF CallsInv, W
  <1> QED  BY Zenon, <1>9, <1>12, <1>13 DEF WalkInv

(* The invariant holds at the beginning. *)
LEMMA InitKeeps == Init => WalkInv
  <1> SUFFICES ASSUME Init
               PROVE  WalkInv
    BY Zenon
  <1>1. NewWalker \in Walkers
    BY DEF NewWalker, Walkers, Slices, NilSlice
  <1>2. RestInv(NewWalker)
    <2>1. Range(<<>>) = {} /\ IsInjective(<<>>) /\ Len(<<>>) <= FreelistMaxSize
      BY WalkAssumption DEF Range, IsInjective
    <2> QED  BY Zenon, <2>1 DEF RestInv, FreeInv, NewWalker, NilSlice, SliceInv
  <1>3. TypeInv
    BY <1>1 DEF Init, TypeInv
  <1>4. \A g \in Goroutines : ~Active(g) /\ stack[g] = <<>>
    BY Zenon DEF Init, Active
  <1>5. UseInv
    BY Zenon, <1>4 DEF UseInv
  <1>6. CallsInv
    BY Zenon, <1>2, <1>4 DEF CallsInv, Init
  <1> QED  BY Zenon, <1>3, <1>5, <1>6 DEF WalkInv

(* Every step keeps the invariant. *)
LEMMA NextKeeps == WalkInv /\ [Next]_vars => WalkInv'
  <1> SUFFICES ASSUME WalkInv, [Next]_vars
               PROVE  WalkInv'
    BY Zenon
  <1>1. CASE UNCHANGED vars
    BY Zenon, <1>1 DEF vars, WalkInv, TypeInv, UseInv, CallsInv, Active, W
  <1>2. ASSUME NEW g \in Goroutines, Walk(g)
        PROVE  WalkInv'
    <2>1. CASE Return(g)
      BY Zenon, <2>1, ReturnKeeps
    <2>2. CASE ~Return(g)
      <3>1. CallStep(g)
        BY Zenon, <1>2, <2>2, DoLeafSteps, DoMapSteps, SecondMapSteps,
           EndMapSteps, VisitMapItemSteps, DoListSteps, CompareListItemSteps,
           CompareDuplicatesSteps, EndListSteps, AscendSteps
           DEF Walk
      <3> QED  BY Zenon, <3>1, CallStepKeeps
    <2> QED  BY Zenon, <2>1, <2>2
  <1>3. ASSUME NEW g \in Goroutines, NEW pair \in Pairs, Compare(g, pair[1], pair[2])
        PROVE  WalkInv'
    BY Zenon, <1>3, CompareKeeps
  <1> QED  BY Zenon, <1>1, <1>2, <1>3 DEF Next

(* The invariant of the walks: every goroutine has its own root walker,    *)
(* and its walkers, their paths and their values belong together.          *)
THEOREM WalkInvariant == Spec => []WalkInv
  BY InitKeeps, NextKeeps, PTL DEF Spec

(* FreeValuesAreNotInUse, of the walkers and the freelists of any number   *)
(* of goroutines: what freelistAllocator.Free got, no walker, iteration or *)
(* path uses.                                                              *)
THEOREM FreeValuesAreFree == Spec => []FreeValuesAreNotInUse
  <1>1. ASSUME WalkInv
        PROVE  FreeValuesAreNotInUse
    <2> SUFFICES ASSUME NEW w \in 1 .. NumWalkers
                 PROVE  LET used == UNION {UNION {{stack[g][i].lhs, stack[g][i].rhs,
                                                    stack[g][i].entry, stack[g][i].other} :
                                                     i \in DOMAIN stack[g]} :
                                             g \in {h \in Goroutines : call[h].w = w}}
                        IN  /\ IsInjective(walker[w].free)
                            /\ Len(walker[w].free) <= FreelistMaxSize
                            /\ Range(walker[w].free) \cap used = {}
      BY Zenon DEF FreeValuesAreNotInUse
    <2>1. ASSUME NEW g \in Goroutines, call[g].w = w
          PROVE  Active(g) /\ CellsInv(walker[w], stack[g])
      <3>1. Active(g)
        BY <2>1, WalkAssumption DEF Active, Idle
      <3> QED  BY Zenon, <1>1, <2>1, <3>1 DEF WalkInv, CallsInv, CallInv, W
    <2>2. FreeInv(walker[w])
      BY Zenon, <1>1, <2>1 DEF WalkInv, CallsInv, RestInv, CellsInv
    <2>3. 0 \notin Range(walker[w].free)
      <3>1. walker[w].cells \in Seq(Nodes \cup {Nothing})
        BY Zenon, <1>1 DEF WalkInv, TypeInv, Walkers
      <3>2. 0 \notin DOMAIN walker[w].cells
        BY <3>1
      <3> QED  BY Zenon, <2>2, <3>2 DEF FreeInv
    <2>4. ASSUME NEW g \in Goroutines, NEW i \in DOMAIN stack[g], call[g].w = w
          PROVE  {stack[g][i].lhs, stack[g][i].rhs, stack[g][i].entry, stack[g][i].other}
                   \cap Range(walker[w].free) = {}
      <3> DEFINE f == stack[g][i]
      <3>1. CellsInv(walker[w], stack[g])
        BY Zenon, <2>1, <2>4
      <3>2. f.lhs \notin Range(walker[w].free) /\ f.rhs \notin Range(walker[w].free)
        BY Zenon, <2>3, <3>1 DEF CellsInv, SideInv
      <3>3. Held(f) \cap Range(walker[w].free) = {}
        BY Zenon, <3>1 DEF CellsInv
      <3>4. f.entry \notin Range(walker[w].free) /\ f.other \notin Range(walker[w].free)
        BY Zenon, <2>3, <3>3 DEF Held
      <3> QED  BY Zenon, <3>2, <3>4
    <2> QED  BY <2>2, <2>4 DEF FreeInv
  <1> QED  BY <1>1, WalkInvariant, PTL

(* An element reads as its name. *)
LEMMA NameRead ==
    ASSUME NEW w, NEW s, NEW pe, NEW name, Reads(w, walker[w], s, pe, name)
    PROVE  NameOf(pe) = name
  BY DEF Reads, NameOf, ItemValue

(* WalkersAtTheirNodes, of any number of goroutines that compare any       *)
(* objects: prepareDescent and finishDescent leave every walker of a call  *)
(* with the path of its node in the shared buffer, and with its values.    *)
THEOREM WalkersKeepTheirNodes == Spec => []WalkersAtTheirNodes
  <1>1. ASSUME WalkInv
        PROVE  WalkersAtTheirNodes
    <2> SUFFICES ASSUME NEW g \in Goroutines, NEW i \in DOMAIN stack[g]
                 PROVE  /\ NodeOf(Content(W(g).mem, stack[g][i].path)) = stack[g][i].node
                        /\ stack[g][i].lhs # 0 => W(g).cells[stack[g][i].lhs] = stack[g][i].node
                        /\ stack[g][i].rhs # 0 => W(g).cells[stack[g][i].rhs] = stack[g][i].node
      BY Zenon DEF WalkersAtTheirNodes
    <2> DEFINE f == stack[g][i]
               path == Content(W(g).mem, f.path)
    <2>1. Active(g)
      BY <1>1 DEF WalkInv, UseInv
    <2>2. /\ W(g) \in Walkers /\ stack[g] \in Seq(Frames) /\ CallInv(call[g].w, W(g), stack[g])
      BY Zenon, <1>1, <2>1, TopFacts
    <2>3. f \in Frames
      BY <2>2
    <2>4. (f.lhs # 0 => W(g).cells[f.lhs] = f.node) /\ (f.rhs # 0 => W(g).cells[f.rhs] = f.node)
      BY Zenon, <2>2 DEF CallInv, CellsInv, SideInv
    <2>5. PathInv(call[g].w, W(g), stack[g], f.path, f.node)
      BY Zenon, <2>2 DEF CallInv, PathsInv
    <2> HIDE DEF f
    <2>6. f.path \in Slices /\ f.node \in Nodes /\ W(g).mem \in Seq(Seq(Elements))
      BY Zenon, <2>2, <2>3 DEF Frames, Walkers
    <2>7. path \in Seq(Elements) /\ Len(path) = f.path.len
          /\ \A k \in 1 .. f.path.len : path[k] = W(g).mem[f.path.array][k]
      BY Zenon, <2>5, <2>6, ContentFacts DEF PathInv
    <2> HIDE DEF path
    <2>8. f.node \in Seq(STRING)
      BY Zenon, <2>6, WalkAssumption DEF Nodes
    <2>9. f.path.len = Len(f.node) /\ DOMAIN path = 1 .. Len(f.node)
      BY <2>5, <2>7 DEF PathInv
    <2>10. \A k \in 1 .. Len(f.node) : NameOf(path[k]) = f.node[k]
      BY Zenon, <2>5, <2>7, <2>9, NameRead DEF PathInv, W
    <2>11. NodeOf(path) = f.node
      BY <2>8, <2>9, <2>10 DEF NodeOf
    <2> QED  BY Zenon, <2>4, <2>11 DEF f, path
  <1> QED  BY <1>1, WalkInvariant, PTL
==============================================================================
