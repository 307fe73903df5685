---------------------------- MODULE WalkerProofs -----------------------------
(***************************************************************************)
(* The state of one call of Compare: what its root walker keeps, and the   *)
(* walkers from the root to the node it is at.  CallInv says how they      *)
(* belong together.  The lemmas say what each operation of GoSlices and    *)
(* CompareWalk does to it: append to the shared path buffer, take a value  *)
(* from the freelist, reuse and free it, descend and come back.            *)
(***************************************************************************)
EXTENDS CompareWalk, TLAPS

(* The values of the variables. *)
Nodes == DOMAIN Kind

Elements ==
    ({"field"} \X STRING) \cup ({"value"} \X (1 .. NumWalkers) \X Nat) \cup {NoElement}

Slices == [array : Nat, len : Nat]

Walkers ==
    [path : Slices, inLeaf : BOOLEAN, spares : Seq([path : Slices, inLeaf : BOOLEAN]),
     mem : Seq(Seq(Elements)), cells : Seq(Nodes \cup {Nothing}), free : Seq(Nat)]

Phases == {"compare", "left", "right", "items", "end"}

Frames ==
    [node : Nodes, path : Slices, inLeaf : BOOLEAN, lhs : Nat, rhs : Nat, entry : Nat,
     other : Nat, phase : Phases, todo : SUBSET Nodes, duplicate : {"no", "removed", "added"}]

Objects == {pair[1] : pair \in Pairs} \cup {pair[2] : pair \in Pairs}

Comparisons ==
    [removed : SUBSET Seq(Elements), modified : SUBSET Seq(Elements), added : SUBSET Seq(Elements)]

Calls == [w : 1 .. NumWalkers, l : Objects, r : Objects, cmp : Comparisons]

TypeInv ==
    /\ walker \in [1 .. NumWalkers -> Walkers]
    /\ pool \subseteq 1 .. NumWalkers
    /\ stack \in [Goroutines -> Seq(Frames)]
    /\ call \in [Goroutines -> Calls \cup {Idle}]
    /\ returned \subseteq [l : Objects, r : Objects, cmp : Comparisons]

-----------------------------------------------------------------------------
(* The state of one call: w is the root walker it uses, V what that walker *)
(* keeps, s the walkers of the call.                                       *)

(* The values an iteration over a map holds in the walker f. *)
Held(f) == {f.entry, f.other} \ {0}

(* A value that no iteration holds and that is not free keeps its node. *)
Settled(V, s, c) ==
    /\ c \in DOMAIN V.cells \ Range(V.free)
    /\ \A i \in DOMAIN s : c \notin Held(s[i])

FreeInv(V) ==
    /\ Range(V.free) \subseteq DOMAIN V.cells
    /\ IsInjective(V.free)
    /\ Len(V.free) <= FreelistMaxSize

SideInv(V, s, i, c) ==
    c # 0 => /\ c \in DOMAIN V.cells \ Range(V.free)
             /\ V.cells[c] = s[i].node
             /\ \A j \in DOMAIN s : c \in Held(s[j]) => j = i - 1

CellsInv(V, s) ==
    /\ FreeInv(V)
    /\ \A i \in DOMAIN s :
         /\ Held(s[i]) \subseteq DOMAIN V.cells \ Range(V.free)
         /\ s[i].other # 0 => s[i].entry # s[i].other
         /\ SideInv(V, s, i, s[i].lhs)
         /\ SideInv(V, s, i, s[i].rhs)
    /\ \A i, j \in DOMAIN s : i # j => Held(s[i]) \cap Held(s[j]) = {}

(* The element pe of a path reads as name, and will. *)
Reads(w, V, s, pe, name) ==
    \/ pe = <<"field", name>>
    \/ \E c \in DOMAIN V.cells :
         /\ pe = ItemValue(w, c)
         /\ Settled(V, s, c)
         /\ V.cells[c] # Nothing
         /\ Last(V.cells[c]) = name

SliceInv(mem, p) ==
    \/ p = NilSlice
    \/ p.array \in DOMAIN mem /\ p.len <= Len(mem[p.array])

PathInv(w, V, s, p, n) ==
    /\ SliceInv(V.mem, p)
    /\ p.len = Len(n)
    /\ \A k \in 1 .. p.len : Reads(w, V, s, V.mem[p.array][k], n[k])

ChildrenOf(n) == {q \in Nodes : Len(q) = Len(n) + 1 /\ SubSeq(q, 1, Len(n)) = n}

PathsInv(w, V, s) ==
    /\ \A i \in DOMAIN s :
         /\ Len(s[i].node) = i - 1
         /\ PathInv(w, V, s, s[i].path, s[i].node)
         /\ s[i].todo \subseteq ChildrenOf(s[i].node)
    /\ \A i \in DOMAIN s : i > 1 => s[i].node \in ChildrenOf(s[i - 1].node)

CallInv(w, V, s) == CellsInv(V, s) /\ PathsInv(w, V, s)

RestInv(V) == FreeInv(V) /\ V.path.len = 0 /\ SliceInv(V.mem, V.path) /\ ~V.inLeaf

Active(g) == call[g] # Idle

UseInv ==
    /\ \A g \in Goroutines : Active(g) <=> stack[g] # <<>>
    /\ \A g \in Goroutines : Active(g) => call[g].w \notin pool /\ W(g).cells # <<>>
    /\ \A g, h \in Goroutines : Active(g) /\ Active(h) /\ call[g].w = call[h].w => g = h

CallsInv ==
    /\ \A g \in Goroutines : Active(g) => CallInv(call[g].w, W(g), stack[g])
    /\ \A w \in 1 .. NumWalkers :
         (\A g \in Goroutines : call[g].w # w) => RestInv(walker[w])

WalkInv == TypeInv /\ UseInv /\ CallsInv

-----------------------------------------------------------------------------
(* Sequences. *)

(* The beginnings of a sequence. *)
LEMMA PrefixFacts ==
    ASSUME NEW S, NEW s \in Seq(S), NEW k \in 0 .. Len(s)
    PROVE  /\ SubSeq(s, 1, k) \in Seq(S) /\ Len(SubSeq(s, 1, k)) = k
           /\ \A i \in 1 .. k : SubSeq(s, 1, k)[i] = s[i]
  OBVIOUS

(* One sequence after another. *)
LEMMA ConcatFacts ==
    ASSUME NEW S, NEW s \in Seq(S), NEW t \in Seq(S)
    PROVE  /\ s \o t \in Seq(S) /\ Len(s \o t) = Len(s) + Len(t)
           /\ \A i \in 1 .. Len(s) : (s \o t)[i] = s[i]
  OBVIOUS

(* A sequence with another element somewhere. *)
LEMMA ExceptFacts ==
    ASSUME NEW S, NEW s \in Seq(S), NEW k \in 1 .. Len(s), NEW x \in S
    PROVE  LET t == [s EXCEPT ![k] = x]
           IN  /\ t \in Seq(S) /\ Len(t) = Len(s) /\ DOMAIN t = DOMAIN s
               /\ t[k] = x /\ \A i \in DOMAIN s : i # k => t[i] = s[i]
  OBVIOUS

(* The beginning and the last element of a sequence. *)
LEMMA FrontFacts ==
    ASSUME NEW S, NEW s \in Seq(S), s # <<>>
    PROVE  /\ Len(s) \in Nat \ {0}
           /\ Front(s) \in Seq(S)
           /\ Len(Front(s)) = Len(s) - 1
           /\ \A i \in 1 .. (Len(s) - 1) : Front(s)[i] = s[i]
           /\ Last(s) = s[Len(s)]
           /\ Last(s) \in S
  <1>1. Len(s) \in Nat \ {0} /\ s[Len(s)] \in S
    OBVIOUS
  <1>2. /\ Front(s) \in Seq(S)
        /\ Len(Front(s)) = Len(s) - 1
        /\ \A i \in 1 .. (Len(s) - 1) : Front(s)[i] = s[i]
    <2> DEFINE k == Len(s) - 1
    <2>1. k \in 0 .. Len(s)
      BY <1>1
    <2> HIDE DEF k
    <2>2. SubSeq(s, 1, k) \in Seq(S) /\ Len(SubSeq(s, 1, k)) = k
          /\ \A i \in 1 .. k : SubSeq(s, 1, k)[i] = s[i]
      BY Zenon, <2>1, PrefixFacts
    <2> QED  BY Zenon, <2>2 DEF Front, k
  <1> QED  BY Zenon, <1>1, <1>2 DEF Last

(* The stack of a call with another walker on top. *)
LEMMA ReplaceTop ==
    ASSUME NEW S, NEW s \in Seq(S), s # <<>>, NEW x \in S
    PROVE  LET t == Front(s) \o <<x>>
           IN  /\ t \in Seq(S)
               /\ t # <<>>
               /\ Len(t) = Len(s)
               /\ \A i \in 1 .. (Len(s) - 1) : t[i] = s[i]
               /\ t[Len(s)] = x
  <1>1. Front(s) \in Seq(S) /\ Len(Front(s)) = Len(s) - 1 /\ Len(s) \in Nat \ {0}
        /\ \A i \in 1 .. (Len(s) - 1) : Front(s)[i] = s[i]
    BY Zenon, FrontFacts
  <1>2. <<x>> \in Seq(S) /\ Len(<<x>>) = 1 /\ <<x>>[1] = x
    OBVIOUS
  <1>3. Front(s) \o <<x>> \in Seq(S)
    BY <1>1, <1>2
  <1>4. /\ Len(Front(s) \o <<x>>) = Len(s)
        /\ \A i \in 1 .. (Len(s) - 1) : (Front(s) \o <<x>>)[i] = s[i]
        /\ (Front(s) \o <<x>>)[Len(s)] = x
    BY <1>1, <1>2
  <1> QED  BY Zenon, <1>1, <1>3, <1>4

(* The stack of a call with another walker on top and a further one above. *)
LEMMA PushIsAppend ==
    ASSUME NEW S, NEW s \in Seq(S), s # <<>>, NEW x \in S, NEW y \in S
    PROVE  Front(s) \o <<x, y>> = Append(Front(s) \o <<x>>, y)
  <1>1. Front(s) \in Seq(S)
    BY Zenon, FrontFacts
  <1>2. <<x>> \in Seq(S) /\ <<x, y>> = Append(<<x>>, y)
    OBVIOUS
  <1> QED  BY <1>1, <1>2

-----------------------------------------------------------------------------
(* The values of a walker. *)

(* H is a set of values that are held: they are there and not free. *)
HeldInv(V, H) == FreeInv(V) /\ H \subseteq DOMAIN V.cells \ Range(V.free)

(* From V, with the values H held, to V2, with H2 held: no value is lost,  *)
(* and a value that is neither free nor held stays that and keeps its node. *)
Keeps(V, H, V2, H2) ==
    /\ DOMAIN V.cells \subseteq DOMAIN V2.cells
    /\ \A c \in DOMAIN V.cells \ (Range(V.free) \cup H) :
         V2.cells[c] = V.cells[c] /\ c \notin Range(V2.free) \cup H2

SameButCells(V, V2) ==
    V2.path = V.path /\ V2.inLeaf = V.inLeaf /\ V2.spares = V.spares /\ V2.mem = V.mem

(* One change after another. *)
LEMMA KeepsTransitive ==
    ASSUME NEW V, NEW H, NEW V1, NEW H1, NEW V2, NEW H2,
           Keeps(V, H, V1, H1), Keeps(V1, H1, V2, H2)
    PROVE  Keeps(V, H, V2, H2)
  BY Zenon DEF Keeps

(* A free value more. *)
LEMMA AppendFree ==
    ASSUME NEW s \in Seq(Nat), NEW c \in Nat, c \notin Range(s), IsInjective(s)
    PROVE  /\ Append(s, c) \in Seq(Nat) /\ Len(Append(s, c)) = Len(s) + 1
           /\ Range(Append(s, c)) = Range(s) \cup {c}
           /\ IsInjective(Append(s, c))
  <1>1. /\ Append(s, c) \in Seq(Nat) /\ Len(Append(s, c)) = Len(s) + 1
        /\ DOMAIN Append(s, c) = 1 .. (Len(s) + 1) /\ DOMAIN s = 1 .. Len(s) /\ Len(s) \in Nat
        /\ \A i \in 1 .. Len(s) : Append(s, c)[i] = s[i]
        /\ Append(s, c)[Len(s) + 1] = c
    OBVIOUS
  <1>2. Range(Append(s, c)) = Range(s) \cup {c}
    BY <1>1 DEF Range
  <1>3. IsInjective(Append(s, c))
    BY <1>1 DEF IsInjective, Range
  <1> QED  BY Zenon, <1>1, <1>2, <1>3

(* A free value less. *)
LEMMA FrontOfFree ==
    ASSUME NEW s \in Seq(Nat), s # <<>>, IsInjective(s)
    PROVE  /\ Front(s) \in Seq(Nat) /\ Len(Front(s)) < Len(s) /\ Last(s) \in Range(s)
           /\ Range(Front(s)) = Range(s) \ {Last(s)}
           /\ IsInjective(Front(s))
  <1>1. /\ Front(s) \in Seq(Nat) /\ Len(Front(s)) = Len(s) - 1
        /\ DOMAIN Front(s) = 1 .. (Len(s) - 1) /\ DOMAIN s = 1 .. Len(s) /\ Len(s) \in Nat \ {0}
        /\ \A i \in 1 .. (Len(s) - 1) : Front(s)[i] = s[i]
        /\ Last(s) = s[Len(s)]
    BY FrontFacts
  <1>2. ASSUME NEW t, NEW k \in Nat \ {0}, DOMAIN s = 1 .. k, DOMAIN t = 1 .. (k - 1),
               \A i \in 1 .. (k - 1) : t[i] = s[i]
        PROVE  Range(t) = Range(s) \ {s[k]} /\ IsInjective(t) /\ s[k] \in Range(s)
    <2>1. \A i \in DOMAIN t : t[i] # s[k] /\ i \in DOMAIN s
      BY <1>2 DEF IsInjective
    <2>2. \A i \in DOMAIN s : i = k \/ (i \in DOMAIN t /\ t[i] = s[i])
      BY <1>2
    <2>3. IsInjective(t)
      BY Zenon, <1>2, <2>1 DEF IsInjective
    <2> QED  BY <1>2, <2>1, <2>2, <2>3 DEF Range
  <1>3. Range(Front(s)) = Range(s) \ {s[Len(s)]} /\ IsInjective(Front(s)) /\ s[Len(s)] \in Range(s)
    BY Zenon, <1>1, <1>2
  <1>4. Len(Front(s)) < Len(s)
    BY <1>1
  <1> QED  BY Zenon, <1>1, <1>3, <1>4

(* A new value is held by nobody. *)
LEMMA NewCellKeeps ==
    ASSUME NEW V \in Walkers, NEW H, HeldInv(V, H), NEW n \in Nodes \cup {Nothing}
    PROVE  LET V2 == NewCell(V, n)
               c == Len(V.cells) + 1
           IN  /\ V2 \in Walkers /\ SameButCells(V, V2)
               /\ HeldInv(V2, H) /\ Keeps(V, H, V2, H)
               /\ Len(V2.cells) = c /\ c \in Nat \ {0}
               /\ c \in DOMAIN V2.cells \ (Range(V2.free) \cup H)
               /\ c \notin DOMAIN V.cells
               /\ V2.cells[c] = n
               /\ V2.free = V.free
               /\ \A b \in DOMAIN V.cells : V2.cells[b] = V.cells[b]
  <1> DEFINE V2 == NewCell(V, n)
             c == Len(V.cells) + 1
  <1>1. V.cells \in Seq(Nodes \cup {Nothing}) /\ V2.cells = Append(V.cells, n) /\ V2.free = V.free
        /\ SameButCells(V, V2)
    BY Zenon DEF Walkers, NewCell, SameButCells
  <1>2. /\ V2.cells \in Seq(Nodes \cup {Nothing}) /\ Len(V.cells) \in Nat
        /\ DOMAIN V.cells = 1 .. Len(V.cells) /\ DOMAIN V2.cells = 1 .. (Len(V.cells) + 1)
        /\ Len(V2.cells) = c /\ V2.cells[c] = n
        /\ \A i \in 1 .. Len(V.cells) : V2.cells[i] = V.cells[i]
    BY <1>1
  <1>3. V2 \in Walkers
    BY Zenon, <1>1, <1>2 DEF Walkers, NewCell
  <1>4. c \in DOMAIN V2.cells /\ c \notin DOMAIN V.cells /\ DOMAIN V.cells \subseteq DOMAIN V2.cells
    BY <1>2
  <1>5. HeldInv(V2, H) /\ Keeps(V, H, V2, H) /\ c \notin Range(V2.free) \cup H
    BY Zenon, <1>1, <1>2, <1>4 DEF HeldInv, FreeInv, Keeps
  <1> QED  BY <1>1, <1>2, <1>3, <1>4, <1>5

(* An allocated value is held from then on. *)
LEMMA AllocateKeeps ==
    ASSUME NEW V \in Walkers, NEW H, HeldInv(V, H)
    PROVE  LET V2 == Allocate(V)
               c == Allocated(V)
           IN  /\ V2 \in Walkers /\ SameButCells(V, V2)
               /\ c \in Nat \ {0} /\ c \notin H
               /\ HeldInv(V2, H \cup {c}) /\ Keeps(V, H, V2, H \cup {c})
               /\ \A b \in H : V2.cells[b] = V.cells[b]
  <1> DEFINE V2 == Allocate(V)
             c == Allocated(V)
  <1>1. CASE V.free = <<>>
    <2>1. V2 = NewCell(V, Nothing) /\ c = Len(V.cells) + 1
      BY Zenon, <1>1 DEF Allocate, Allocated
    <2>2. /\ V2 \in Walkers /\ SameButCells(V, V2)
          /\ HeldInv(V2, H) /\ Keeps(V, H, V2, H)
          /\ c \in Nat \ {0}
          /\ c \in DOMAIN V2.cells \ (Range(V2.free) \cup H)
          /\ c \notin DOMAIN V.cells
          /\ \A b \in DOMAIN V.cells : V2.cells[b] = V.cells[b]
      BY <2>1, NewCellKeeps
    <2> QED  BY Zenon, <2>2 DEF HeldInv, Keeps
  <1>2. CASE V.free # <<>>
    <2>1. /\ V2 = [V EXCEPT !.free = Front(@)] /\ c = Last(V.free)
          /\ V.free \in Seq(Nat) /\ V2.free = Front(V.free) /\ V2.cells = V.cells
          /\ SameButCells(V, V2)
      BY Zenon, <1>2 DEF Allocate, Allocated, Walkers, SameButCells
    <2>2. /\ Front(V.free) \in Seq(Nat) /\ Len(Front(V.free)) < Len(V.free) /\ c \in Range(V.free)
          /\ Range(V2.free) = Range(V.free) \ {c}
          /\ IsInjective(V2.free)
      BY Zenon, <1>2, <2>1, FrontOfFree DEF HeldInv, FreeInv
    <2>3. V2 \in Walkers
      BY Zenon, <2>1, <2>2 DEF Walkers
    <2>4. Len(V2.free) <= FreelistMaxSize
      BY <2>1, <2>2, WalkAssumption DEF HeldInv, FreeInv
    <2>5. HeldInv(V2, H \cup {c}) /\ Keeps(V, H, V2, H \cup {c}) /\ c \notin H
      BY Zenon, <2>1, <2>2, <2>4 DEF HeldInv, FreeInv, Keeps
    <2>6. c \in Nat \ {0}
      BY <2>1, <2>2 DEF HeldInv, FreeInv, Walkers
    <2> QED  BY Zenon, <2>1, <2>3, <2>5, <2>6
  <1> QED  BY Zenon, <1>1, <1>2

(* Writing a node, or nothing, into a value that is held. *)
LEMMA WriteKeeps ==
    ASSUME NEW V \in Walkers, NEW H, HeldInv(V, H), NEW c \in H, NEW n \in Nodes \cup {Nothing}
    PROVE  LET V2 == [V EXCEPT !.cells[c] = n]
           IN  /\ V2 \in Walkers /\ SameButCells(V, V2)
               /\ HeldInv(V2, H) /\ Keeps(V, H, V2, H)
               /\ V2.free = V.free /\ DOMAIN V2.cells = DOMAIN V.cells
               /\ V2.cells[c] = n
               /\ \A b \in DOMAIN V.cells \ {c} : V2.cells[b] = V.cells[b]
  <1> DEFINE V2 == [V EXCEPT !.cells[c] = n]
  <1>1. V.cells \in Seq(Nodes \cup {Nothing}) /\ V2.cells = [V.cells EXCEPT ![c] = n] /\ V2.free = V.free
        /\ SameButCells(V, V2)
    BY Zenon DEF Walkers, SameButCells
  <1>2. c \in DOMAIN V.cells
    BY Zenon DEF HeldInv
  <1>3. V2.cells \in Seq(Nodes \cup {Nothing})
    BY <1>1, <1>2
  <1>4. DOMAIN V2.cells = DOMAIN V.cells /\ V2.cells[c] = n
        /\ \A b \in DOMAIN V.cells \ {c} : V2.cells[b] = V.cells[b]
    BY Zenon, <1>1, <1>2
  <1>5. V2 \in Walkers
    BY Zenon, <1>1, <1>3 DEF Walkers
  <1>6. HeldInv(V2, H) /\ Keeps(V, H, V2, H)
    BY Zenon, <1>1, <1>4 DEF HeldInv, FreeInv, Keeps
  <1> QED  BY Zenon, <1>1, <1>4, <1>5, <1>6

(* Reuse of a value that is held, or of none. *)
LEMMA ReuseKeeps ==
    ASSUME NEW V \in Walkers, NEW H, HeldInv(V, H), NEW c, c # 0 => c \in H, NEW n \in Nodes
    PROVE  LET V2 == Reuse(V, c, n)
           IN  /\ V2 \in Walkers /\ SameButCells(V, V2)
               /\ HeldInv(V2, H) /\ Keeps(V, H, V2, H)
               /\ V2.free = V.free /\ DOMAIN V2.cells = DOMAIN V.cells
               /\ c # 0 => V2.cells[c] = n
               /\ \A b \in DOMAIN V.cells \ {c} : V2.cells[b] = V.cells[b]
  <1>1. CASE c = 0
    <2>1. Reuse(V, c, n) = V
      BY Zenon, <1>1 DEF Reuse
    <2> QED  BY Zenon, <1>1, <2>1 DEF SameButCells, Keeps
  <1>2. CASE c # 0
    <2>1. Reuse(V, c, n) = [V EXCEPT !.cells[c] = n] /\ c \in H
      BY Zenon, <1>2 DEF Reuse
    <2> QED  BY <2>1, WriteKeeps
  <1> QED  BY Zenon, <1>1, <1>2

(* A freed value is no longer held; it is free unless there are enough. *)
LEMMA FreeKeeps ==
    ASSUME NEW V \in Walkers, NEW H, HeldInv(V, H), NEW c \in Nat, c # 0 => c \in H
    PROVE  LET V2 == Free(V, c)
           IN  /\ V2 \in Walkers /\ SameButCells(V, V2)
               /\ HeldInv(V2, H \ {c}) /\ Keeps(V, H, V2, H \ {c})
               /\ DOMAIN V2.cells = DOMAIN V.cells
               /\ \A b \in DOMAIN V.cells \ {c} : V2.cells[b] = V.cells[b]
  <1> DEFINE V1 == [V EXCEPT !.cells[c] = Nothing]
             V2 == Free(V, c)
  <1>1. CASE c = 0
    <2>1. V2 = V
      BY Zenon, <1>1 DEF Free
    <2>2. Keeps(V, H, V2, H \ {c}) /\ HeldInv(V2, H \ {c})
      BY Zenon, <2>1 DEF Keeps, HeldInv
    <2> QED  BY Zenon, <2>1, <2>2 DEF SameButCells
  <1>2. CASE c # 0
    <2>1. /\ V1 \in Walkers /\ SameButCells(V, V1)
          /\ HeldInv(V1, H) /\ Keeps(V, H, V1, H)
          /\ V1.free = V.free /\ DOMAIN V1.cells = DOMAIN V.cells
          /\ \A b \in DOMAIN V.cells \ {c} : V1.cells[b] = V.cells[b]
      BY <1>2, WriteKeeps
    <2>2. CASE Len(V.free) < FreelistMaxSize
      <3>1. V2 = [V1 EXCEPT !.free = Append(@, c)]
        BY Zenon, <1>2, <2>2 DEF Free, Walkers
      <3>2. /\ V1.free \in Seq(Nat) /\ V2.free = Append(V1.free, c) /\ V2.cells = V1.cells
            /\ SameButCells(V1, V2)
        BY Zenon, <2>1, <3>1 DEF Walkers, SameButCells
      <3>3. c \notin Range(V1.free) /\ IsInjective(V1.free) /\ c \in DOMAIN V1.cells
        BY Zenon, <1>2, <2>1 DEF HeldInv, FreeInv
      <3>4. /\ V2.free \in Seq(Nat) /\ Len(V2.free) = Len(V1.free) + 1
            /\ Range(V2.free) = Range(V1.free) \cup {c}
            /\ IsInjective(V2.free)
        BY <3>2, <3>3, AppendFree
      <3>5. V2 \in Walkers
        BY Zenon, <2>1, <3>1, <3>2, <3>4 DEF Walkers
      <3>6. Len(V2.free) <= FreelistMaxSize
        BY <2>1, <2>2, <3>2, <3>4, WalkAssumption
      <3>7. HeldInv(V2, H \ {c}) /\ Keeps(V1, H, V2, H \ {c})
        BY Zenon, <1>2, <2>1, <3>2, <3>3, <3>4, <3>6 DEF HeldInv, FreeInv, Keeps
      <3>8. Keeps(V, H, V2, H \ {c})
        BY Zenon, <2>1, <3>7, KeepsTransitive
      <3> QED  BY Zenon, <2>1, <3>2, <3>5, <3>7, <3>8 DEF SameButCells
    <2>3. CASE ~(Len(V.free) < FreelistMaxSize)
      <3>1. V2 = V1
        BY Zenon, <1>2, <2>3 DEF Free, Walkers
      <3>2. HeldInv(V2, H \ {c}) /\ Keeps(V, H, V2, H \ {c})
        BY Zenon, <2>1, <3>1 DEF HeldInv, Keeps
      <3> QED  BY Zenon, <2>1, <3>1, <3>2
    <2> QED  BY Zenon, <2>2, <2>3
  <1> QED  BY Zenon, <1>1, <1>2

-----------------------------------------------------------------------------
(* Slices. *)

(* The arrays of mem are in mem2, with the same first k elements. *)
KeepsMem(mem, mem2, k) ==
    \A a \in DOMAIN mem :
      /\ a \in DOMAIN mem2
      /\ Len(mem2[a]) = Len(mem[a])
      /\ \A j \in 1 .. k : j <= Len(mem[a]) => mem2[a][j] = mem[a][j]

(* What a slice holds. *)
LEMMA ContentFacts ==
    ASSUME NEW S, NEW mem \in Seq(Seq(S)), NEW p \in Slices, SliceInv(mem, p)
    PROVE  /\ Content(mem, p) \in Seq(S) /\ Len(Content(mem, p)) = p.len
           /\ \A j \in 1 .. p.len : Content(mem, p)[j] = mem[p.array][j]
  <1>1. CASE p.len = 0
    BY <1>1 DEF Content
  <1>2. CASE p.len # 0
    <2>1. p.array \in DOMAIN mem /\ p.len <= Len(mem[p.array]) /\ p.len \in Nat
      BY <1>2 DEF SliceInv, NilSlice, Slices
    <2>2. mem[p.array] \in Seq(S) /\ Len(mem[p.array]) \in Nat
      BY <2>1
    <2>3. Content(mem, p) = SubSeq(mem[p.array], 1, p.len)
      BY Zenon, <1>2 DEF Content
    <2> QED  BY <2>1, <2>2, <2>3, PrefixFacts
  <1> QED  BY Zenon, <1>1, <1>2

(* The array append makes when there is no room. *)
LEMMA GrownFacts ==
    ASSUME NEW S, NoElement \in S, NEW mem \in Seq(Seq(S)), NEW p \in Slices, SliceInv(mem, p),
           NEW e \in S
    PROVE  LET a == Grown(mem, p, e)
           IN  /\ a \in Seq(S) /\ Len(a) \in Nat /\ Len(a) >= p.len + 1
               /\ a[p.len + 1] = e
               /\ \A j \in 1 .. p.len : a[j] = mem[p.array][j]
  <1> DEFINE room == IF p.len = 0 THEN 0 ELSE p.len - 1
             rest == [i \in 1 .. room |-> NoElement]
             begin == Content(mem, p) \o <<e>>
  <1>1. p.len \in Nat /\ room \in Nat
    BY DEF Slices
  <1>2. rest \in Seq(S) /\ Len(rest) = room
    <2>1. \A i \in 1 .. room : NoElement \in S
      BY Zenon
    <2> QED  BY <1>1, <2>1
  <1>3. /\ Content(mem, p) \in Seq(S) /\ Len(Content(mem, p)) = p.len
        /\ \A j \in 1 .. p.len : Content(mem, p)[j] = mem[p.array][j]
    BY Zenon, ContentFacts
  <1>4. <<e>> \in Seq(S) /\ Len(<<e>>) = 1 /\ <<e>>[1] = e
    OBVIOUS
  <1>5. /\ begin \in Seq(S) /\ Len(begin) = p.len + 1
        /\ begin[p.len + 1] = e
        /\ \A j \in 1 .. p.len : begin[j] = mem[p.array][j]
    BY <1>1, <1>3, <1>4
  <1>6. Grown(mem, p, e) = begin \o rest
    BY Zenon DEF Grown
  <1> HIDE DEF room, rest, begin
  <1> DEFINE a == begin \o rest
  <1>7. /\ a \in Seq(S) /\ Len(a) = Len(begin) + Len(rest)
        /\ \A j \in 1 .. Len(begin) : a[j] = begin[j]
    BY Zenon, <1>2, <1>5, ConcatFacts
  <1> HIDE DEF a
  <1>8. Len(a) \in Nat /\ Len(a) >= p.len + 1
    BY <1>1, <1>2, <1>5, <1>7
  <1>9. p.len + 1 \in 1 .. Len(begin) /\ \A j \in 1 .. p.len : j \in 1 .. Len(begin)
    BY <1>1, <1>5
  <1>10. a[p.len + 1] = e /\ \A j \in 1 .. p.len : a[j] = mem[p.array][j]
    BY Zenon, <1>5, <1>7, <1>9
  <1> QED  BY Zenon, <1>6, <1>7, <1>8, <1>10 DEF a

(* p2 is the slice p of mem with e behind it, in mem2. *)
Appended(mem, p, e, mem2, p2) ==
    /\ SliceInv(mem2, p2)
    /\ p2.len = p.len + 1
    /\ mem2[p2.array][p.len + 1] = e
    /\ \A j \in 1 .. p.len : mem2[p2.array][j] = mem[p.array][j]

(* append leaves what is before the end of the slice, in every array. *)
LEMMA AppendFacts ==
    ASSUME NEW S, NoElement \in S, NEW mem \in Seq(Seq(S)), NEW p \in Slices, SliceInv(mem, p),
           NEW e \in S
    PROVE  LET mem2 == AppendMem(mem, p, e)
               p2 == AppendSlice(mem, p, e)
           IN  /\ mem2 \in Seq(Seq(S)) /\ p2 \in Slices
               /\ KeepsMem(mem, mem2, p.len) /\ Appended(mem, p, e, mem2, p2)
  <1> DEFINE mem2 == AppendMem(mem, p, e)
             p2 == AppendSlice(mem, p, e)
  <1>1. p.len \in Nat /\ p.array \in Nat /\ Len(mem) \in Nat /\ DOMAIN mem = 1 .. Len(mem)
    BY DEF Slices
  <1>2. CASE p.len < Cap(mem, p)
    <2>1. p.array \in DOMAIN mem /\ p.len < Len(mem[p.array])
      BY <1>1, <1>2 DEF Cap, SliceInv, NilSlice
    <2>2. mem[p.array] \in Seq(S) /\ p.len + 1 \in 1 .. Len(mem[p.array])
      BY <1>1, <2>1
    <2>3. mem2 = [mem EXCEPT ![p.array] = [@ EXCEPT ![p.len + 1] = e]]
      BY Zenon, <1>2 DEF AppendMem
    <2>4. p2 = [array |-> p.array, len |-> p.len + 1]
      BY Zenon, <1>2 DEF AppendSlice
    <2> DEFINE b == mem[p.array]
               k == p.len + 1
               a == [b EXCEPT ![k] = e]
    <2> HIDE DEF b, k
    <2>5. b \in Seq(S) /\ k \in 1 .. Len(b) /\ DOMAIN b = 1 .. Len(b)
      BY <2>2 DEF b, k
    <2>6. /\ a \in Seq(S) /\ Len(a) = Len(b) /\ a[k] = e
          /\ \A j \in DOMAIN b : j # k => a[j] = b[j]
      BY <2>5, ExceptFacts
    <2>7. \A j \in 1 .. p.len : j \in 1 .. Len(b) /\ j # k
      BY <1>1, <2>5 DEF k
    <2> HIDE DEF a, mem2, p2
    <2>8. \A j \in 1 .. p.len : a[j] = b[j]
      BY Zenon, <2>5, <2>6, <2>7
    <2>9. mem2 = [mem EXCEPT ![p.array] = a]
      BY Zenon, <2>3 DEF a, b, k
    <2>10. /\ mem2 \in Seq(Seq(S)) /\ DOMAIN mem2 = DOMAIN mem /\ mem2[p.array] = a
           /\ \A i \in DOMAIN mem : i # p.array => mem2[i] = mem[i]
      BY Zenon, <1>1, <2>1, <2>6, <2>9, ExceptFacts
    <2>11. KeepsMem(mem, mem2, p.len)
      BY Zenon, <2>6, <2>8, <2>10 DEF KeepsMem, b
    <2>12. p2 \in Slices /\ p2.len = p.len + 1 /\ p2.array = p.array
      BY <1>1, <2>4 DEF Slices
    <2>13. SliceInv(mem2, p2)
      BY <2>1, <2>2, <2>6, <2>10, <2>12 DEF SliceInv, b
    <2>14. Appended(mem, p, e, mem2, p2)
      BY Zenon, <2>6, <2>8, <2>10, <2>12, <2>13 DEF Appended, b, k
    <2> QED  BY Zenon, <2>10, <2>11, <2>12, <2>14 DEF mem2, p2
  <1>3. CASE ~(p.len < Cap(mem, p))
    <2> DEFINE a == Grown(mem, p, e)
    <2>1. mem2 = Append(mem, a) /\ p2 = [array |-> Len(mem) + 1, len |-> p.len + 1]
      BY Zenon, <1>3 DEF AppendMem, AppendSlice
    <2>2. /\ a \in Seq(S) /\ Len(a) >= p.len + 1 /\ Len(a) \in Nat
          /\ a[p.len + 1] = e
          /\ \A j \in 1 .. p.len : a[j] = mem[p.array][j]
      BY GrownFacts
    <2> HIDE DEF a
    <2>3. /\ mem2 \in Seq(Seq(S)) /\ Len(mem2) = Len(mem) + 1 /\ mem2[Len(mem) + 1] = a
          /\ \A b \in 1 .. Len(mem) : mem2[b] = mem[b]
      BY <2>1, <2>2
    <2>4. KeepsMem(mem, mem2, p.len)
      BY <1>1, <2>3 DEF KeepsMem
    <2>5. p2 \in Slices /\ p2.len = p.len + 1 /\ p2.array = Len(mem) + 1
      BY <1>1, <2>1 DEF Slices
    <2>6. SliceInv(mem2, p2)
      BY <1>1, <2>2, <2>3, <2>5 DEF SliceInv
    <2>7. Appended(mem, p, e, mem2, p2)
      BY <2>2, <2>3, <2>5, <2>6 DEF Appended
    <2> QED  BY Zenon, <2>3, <2>4, <2>5, <2>7
  <1> QED  BY Zenon, <1>2, <1>3

(* The elements of the paths. *)
LEMMA ElementFacts ==
    /\ NoElement \in Elements
    /\ \A n : Last(n) \in STRING => FieldName(n) \in Elements
    /\ \A w \in 1 .. NumWalkers, c \in Nat : ItemValue(w, c) \in Elements
  BY Zenon DEF Elements, FieldName, ItemValue

(* An element is appended to a path in the memory of a walker. *)
LEMMA ElementAppended ==
    ASSUME NEW V \in Walkers, NEW p \in Slices, SliceInv(V.mem, p), NEW pe \in Elements
    PROVE  LET mem2 == AppendMem(V.mem, p, pe)
               p2 == AppendSlice(V.mem, p, pe)
           IN  /\ mem2 \in Seq(Seq(Elements)) /\ p2 \in Slices
               /\ KeepsMem(V.mem, mem2, p.len) /\ Appended(V.mem, p, pe, mem2, p2)
  <1> DEFINE mem == V.mem
  <1>1. mem \in Seq(Seq(Elements)) /\ SliceInv(mem, p) /\ NoElement \in Elements
    BY Zenon, ElementFacts DEF Walkers
  <1> HIDE DEF mem
  <1>2. LET mem2 == AppendMem(mem, p, pe)
            p2 == AppendSlice(mem, p, pe)
        IN  /\ mem2 \in Seq(Seq(Elements)) /\ p2 \in Slices
            /\ KeepsMem(mem, mem2, p.len) /\ Appended(mem, p, pe, mem2, p2)
    BY Zenon, <1>1, AppendFacts
  <1> QED  BY Zenon, <1>2 DEF mem

-----------------------------------------------------------------------------
(* A step of a call: the walkers s become t, and what their root walker    *)
(* keeps, V, becomes V2.                                                   *)

(* Settled values stay settled and keep their nodes. *)
Stays(V, s, V2, t) ==
    \A c \in DOMAIN V.cells : Settled(V, s, c) => Settled(V2, t, c) /\ V2.cells[c] = V.cells[c]

(* t is s with f on top of it instead of the last walker. *)
TopReplaced(s, t, f) ==
    /\ Len(t) = Len(s)
    /\ \A i \in 1 .. (Len(s) - 1) : t[i] = s[i]
    /\ t[Len(s)] = f

(* What the walker on top does to the values it holds and to free ones     *)
(* concerns no other walker.                                               *)
LEMMA CellsOfTop ==
    ASSUME NEW V, NEW s \in Seq(Frames), s # <<>>, CellsInv(V, s),
           NEW V2, NEW t \in Seq(Frames), NEW f \in Frames, TopReplaced(s, t, f),
           f.node = s[Len(s)].node, f.lhs = s[Len(s)].lhs, f.rhs = s[Len(s)].rhs,
           f.other # 0 => f.entry # f.other,
           HeldInv(V2, Held(f)), Keeps(V, Held(s[Len(s)]), V2, Held(f))
    PROVE  CellsInv(V2, t) /\ Stays(V, s, V2, t)
  <1> DEFINE n == Len(s)
             Loose == Range(V.free) \cup Held(s[n])
             Loose2 == Range(V2.free) \cup Held(f)
  <1>1. /\ n \in Nat \ {0} /\ DOMAIN s = 1 .. n /\ DOMAIN t = 1 .. n
        /\ \A i \in 1 .. n : i < n => t[i] = s[i]
        /\ t[n] = f
    BY DEF TopReplaced
  <1>2. \A c \in DOMAIN V.cells \ Loose :
          c \in DOMAIN V2.cells \ Loose2 /\ V2.cells[c] = V.cells[c]
    BY Zenon DEF Keeps
  <1>3. \A i \in DOMAIN t : i < n => Held(t[i]) \subseteq DOMAIN V2.cells \ Loose2
    BY <1>1, <1>2 DEF CellsInv
  <1>4. Held(t[n]) \subseteq DOMAIN V2.cells \ Range(V2.free) /\ FreeInv(V2)
    BY Zenon, <1>1 DEF HeldInv
  <1>5. \A i, j \in DOMAIN t : i # j => Held(t[i]) \cap Held(t[j]) = {}
    <2>1. \A i, j \in DOMAIN t : i # j /\ i < n /\ j < n => Held(t[i]) \cap Held(t[j]) = {}
      BY Zenon, <1>1 DEF CellsInv
    <2>2. \A i \in DOMAIN t : i < n => Held(t[i]) \cap Held(t[n]) = {}
      BY Zenon, <1>1, <1>3
    <2>3. \A i \in DOMAIN t : i < n \/ i = n
      BY <1>1
    <2> QED  BY Zenon, <2>1, <2>2, <2>3
  <1>6. ASSUME NEW i \in DOMAIN t, NEW c, SideInv(V, s, i, c)
        PROVE  SideInv(V2, t, i, c)
    <2>1. SUFFICES ASSUME c # 0
                   PROVE  /\ c \in DOMAIN V2.cells \ Range(V2.free)
                          /\ V2.cells[c] = t[i].node
                          /\ \A j \in DOMAIN t : c \in Held(t[j]) => j = i - 1
      BY Zenon DEF SideInv
    <2>2. /\ c \in DOMAIN V.cells \ Range(V.free)
          /\ V.cells[c] = s[i].node
          /\ \A j \in DOMAIN s : c \in Held(s[j]) => j = i - 1
      BY Zenon, <1>6, <2>1 DEF SideInv
    <2>3. c \notin Held(s[n])
      BY <1>1, <2>2
    <2>4. c \in DOMAIN V2.cells \ Loose2 /\ V2.cells[c] = V.cells[c]
      BY Zenon, <1>2, <2>2, <2>3
    <2>5. t[i].node = s[i].node
      BY <1>1
    <2>6. ASSUME NEW j \in DOMAIN t, c \in Held(t[j])
          PROVE  j = i - 1
      <3>1. j # n
        BY Zenon, <1>1, <2>4, <2>6
      <3>2. t[j] = s[j] /\ j \in DOMAIN s
        BY <1>1, <3>1
      <3> QED  BY Zenon, <2>2, <2>6, <3>2
    <2> QED  BY Zenon, <2>2, <2>4, <2>5, <2>6
  <1>7. \A i \in DOMAIN t : SideInv(V2, t, i, t[i].lhs) /\ SideInv(V2, t, i, t[i].rhs)
    <2>1. \A i \in DOMAIN t : t[i].lhs = s[i].lhs /\ t[i].rhs = s[i].rhs /\ i \in DOMAIN s
      BY <1>1
    <2> QED  BY Zenon, <1>6, <2>1 DEF CellsInv
  <1>8. \A i \in DOMAIN t : t[i].other # 0 => t[i].entry # t[i].other
    BY <1>1 DEF CellsInv
  <1>9. CellsInv(V2, t)
    <2>1. \A i \in DOMAIN t : Held(t[i]) \subseteq DOMAIN V2.cells \ Range(V2.free)
      BY <1>1, <1>3, <1>4
    <2> QED  BY Zenon, <1>4, <1>5, <1>7, <1>8, <2>1 DEF CellsInv
  <1>10. ASSUME NEW c \in DOMAIN V.cells, Settled(V, s, c)
         PROVE  Settled(V2, t, c) /\ V2.cells[c] = V.cells[c]
    <2>1. c \in DOMAIN V2.cells \ Loose2 /\ V2.cells[c] = V.cells[c]
      BY <1>1, <1>2, <1>10 DEF Settled
    <2>2. \A i \in DOMAIN t : c \notin Held(t[i])
      BY <1>1, <1>10, <2>1 DEF Settled
    <2> QED  BY Zenon, <2>1, <2>2 DEF Settled
  <1> QED  BY Zenon, <1>9, <1>10 DEF Stays

(* What an element reads as stays. *)
LEMMA ReadsStays ==
    ASSUME NEW w, NEW V, NEW s, NEW V2, NEW t, Stays(V, s, V2, t),
           NEW pe, NEW name, Reads(w, V, s, pe, name)
    PROVE  Reads(w, V2, t, pe, name)
  <1>1. CASE pe = <<"field", name>>
    BY Zenon, <1>1 DEF Reads
  <1>2. CASE pe # <<"field", name>>
    <2>1. PICK c \in DOMAIN V.cells :
            pe = ItemValue(w, c) /\ Settled(V, s, c) /\ V.cells[c] # Nothing /\ Last(V.cells[c]) = name
      BY Zenon, <1>2 DEF Reads
    <2>2. Settled(V2, t, c) /\ V2.cells[c] = V.cells[c]
      BY Zenon, <2>1 DEF Stays
    <2>3. c \in DOMAIN V2.cells
      BY Zenon, <2>2 DEF Settled
    <2> QED  BY Zenon, <2>1, <2>2, <2>3 DEF Reads
  <1> QED  BY Zenon, <1>1, <1>2

(* What a path reads as stays when only elements behind it are written. *)
LEMMA PathStays ==
    ASSUME NEW w, NEW V \in Walkers, NEW s, NEW V2 \in Walkers, NEW t, Stays(V, s, V2, t),
           NEW k \in Nat, KeepsMem(V.mem, V2.mem, k),
           NEW p \in Slices, p.len <= k, NEW n, PathInv(w, V, s, p, n)
    PROVE  PathInv(w, V2, t, p, n)
  <1>1. p.len \in Nat /\ SliceInv(V.mem, p) /\ p.len = Len(n)
    BY Zenon DEF Slices, PathInv
  <1>2. SliceInv(V2.mem, p)
    BY Zenon, <1>1 DEF SliceInv, KeepsMem
  <1>3. ASSUME NEW j \in 1 .. p.len
        PROVE  Reads(w, V2, t, V2.mem[p.array][j], n[j])
    <2>1. p.array \in DOMAIN V.mem /\ p.len <= Len(V.mem[p.array])
      BY <1>1, <1>3 DEF SliceInv, NilSlice
    <2>2. V.mem[p.array] \in Seq(Elements)
      BY <2>1 DEF Walkers
    <2>3. Len(V.mem[p.array]) \in Nat
      BY <2>2
    <2>4. j \in 1 .. k /\ j <= Len(V.mem[p.array])
      BY <1>1, <2>1, <2>3
    <2>5. V2.mem[p.array][j] = V.mem[p.array][j]
      BY Zenon, <2>1, <2>4 DEF KeepsMem
    <2> QED  BY <2>5, ReadsStays DEF PathInv
  <1> QED  BY Zenon, <1>1, <1>2, <1>3 DEF PathInv

(* A step of the walker on top. *)
LEMMA StepOfTop ==
    ASSUME NEW w, NEW V \in Walkers, NEW s \in Seq(Frames), s # <<>>, CallInv(w, V, s),
           NEW V2 \in Walkers, NEW f \in Frames,
           f.node = s[Len(s)].node, f.lhs = s[Len(s)].lhs, f.rhs = s[Len(s)].rhs,
           f.other # 0 => f.entry # f.other,
           HeldInv(V2, Held(f)), Keeps(V, Held(s[Len(s)]), V2, Held(f)),
           KeepsMem(V.mem, V2.mem, Len(s) - 1),
           PathInv(w, V, s, f.path, f.node), f.todo \subseteq ChildrenOf(f.node)
    PROVE  LET t == Front(s) \o <<f>>
           IN  /\ t \in Seq(Frames) /\ t # <<>> /\ TopReplaced(s, t, f)
               /\ CallInv(w, V2, t) /\ Stays(V, s, V2, t)
  <1> DEFINE t == Front(s) \o <<f>>
             n == Len(s)
  <1>1. t \in Seq(Frames) /\ t # <<>> /\ TopReplaced(s, t, f)
    BY ReplaceTop DEF TopReplaced
  <1>2. CellsInv(V2, t) /\ Stays(V, s, V2, t)
    BY Zenon, <1>1, CellsOfTop DEF CallInv
  <1> HIDE DEF t
  <1>3. /\ n \in Nat \ {0} /\ DOMAIN s = 1 .. n /\ DOMAIN t = 1 .. n
        /\ \A i \in 1 .. n : i < n => t[i] = s[i]
        /\ t[n] = f
    BY <1>1 DEF TopReplaced
  <1>4. \A i \in DOMAIN t : /\ t[i].node = s[i].node /\ i \in DOMAIN s
                            /\ t[i].todo \subseteq ChildrenOf(t[i].node)
                            /\ PathInv(w, V, s, t[i].path, t[i].node)
    BY <1>3 DEF CallInv, PathsInv
  <1>5. \A i \in DOMAIN t : Len(t[i].node) = i - 1
    BY Zenon, <1>4 DEF CallInv, PathsInv
  <1>6. ASSUME NEW i \in DOMAIN t
        PROVE  PathInv(w, V2, t, t[i].path, t[i].node)
    <2>1. t[i].path \in Slices
      <3>1. t[i] \in Frames
        BY <1>1
      <3> QED  BY Zenon, <3>1 DEF Frames
    <2>2. t[i].path.len = i - 1
      BY Zenon, <1>4, <1>5 DEF PathInv
    <2> DEFINE k == n - 1
    <2>3. k \in Nat /\ t[i].path.len <= k /\ KeepsMem(V.mem, V2.mem, k)
      BY <1>3, <2>2
    <2>4. PathInv(w, V, s, t[i].path, t[i].node)
      BY Zenon, <1>4
    <2> HIDE DEF k
    <2>5. V \in Walkers /\ V2 \in Walkers /\ Stays(V, s, V2, t)
      BY Zenon, <1>2
    <2>6. ASSUME NEW p \in Slices, NEW m, p.len <= k, PathInv(w, V, s, p, m)
          PROVE  PathInv(w, V2, t, p, m)
      BY Zenon, <2>3, <2>5, <2>6, PathStays
    <2> QED  BY Zenon, <2>1, <2>3, <2>4, <2>6
  <1>7. \A i \in DOMAIN t : i > 1 => t[i].node \in ChildrenOf(t[i - 1].node)
    <2>1. \A i \in DOMAIN t : i > 1 => i - 1 \in DOMAIN t
      BY <1>3
    <2> QED  BY Zenon, <1>4, <2>1 DEF CallInv, PathsInv
  <1>8. PathsInv(w, V2, t)
    BY Zenon, <1>4, <1>5, <1>6, <1>7 DEF PathsInv
  <1> QED  BY Zenon, <1>1, <1>2, <1>8 DEF t, CallInv

(* The values of a walker f above s are there, and it may share them with  *)
(* the walker on top of s only.                                            *)
ValuesFor(V, s, f) ==
    \A c \in {f.lhs, f.rhs} \ {0} :
      /\ c \in DOMAIN V.cells \ Range(V.free)
      /\ V.cells[c] = f.node
      /\ \A i \in DOMAIN s : c \in Held(s[i]) => i = Len(s)

(* The walker f may walk a node below that of the walker on top of s. *)
Fits(w, V, s, f) ==
    /\ Held(f) = {} /\ f.todo = {} /\ f.node \in ChildrenOf(s[Len(s)].node)
    /\ ValuesFor(V, s, f)
    /\ PathInv(w, V, s, f.path, f.node)

(* The call whose walkers were s may go on with the walkers t. *)
Pushed(w, V, s, t) ==
    t \in Seq(Frames) /\ t # <<>> /\ CallInv(w, V, t) /\ Stays(V, s, V, t)

(* A walker for a node below that of the walker on top. *)
LEMMA WalkerPushed ==
    ASSUME NEW w, NEW V \in Walkers, NEW s \in Seq(Frames), s # <<>>, CallInv(w, V, s),
           NEW f \in Frames, Fits(w, V, s, f)
    PROVE  Pushed(w, V, s, Append(s, f))
  <1> DEFINE t == Append(s, f)
             n == Len(s)
  <1>1. /\ t \in Seq(Frames) /\ t # <<>> /\ n \in Nat \ {0} /\ DOMAIN s = 1 .. n
        /\ DOMAIN t = 1 .. (n + 1) /\ Len(t) = n + 1
        /\ \A i \in 1 .. n : t[i] = s[i]
        /\ t[n + 1] = f
    OBVIOUS
  <1> HIDE DEF t
  <1> USE DEF Fits
  <1>2. \A i \in DOMAIN t : (i \in DOMAIN s /\ t[i] = s[i]) \/ (i = n + 1 /\ t[i] = f)
    BY <1>1
  <1>3. \A i \in DOMAIN s : i \in DOMAIN t /\ t[i] = s[i] /\ i # n + 1
    BY <1>1
  <1>4. Stays(V, s, V, t)
    BY Zenon, <1>2 DEF Stays, Settled
  <1>5. \A i, j \in DOMAIN t : i # j => Held(t[i]) \cap Held(t[j]) = {}
    BY Zenon, <1>2 DEF CallInv, CellsInv
  <1>6. \A i \in DOMAIN t : /\ Held(t[i]) \subseteq DOMAIN V.cells \ Range(V.free)
                            /\ t[i].other # 0 => t[i].entry # t[i].other
    <2>1. f.other = 0
      BY Zenon DEF Held
    <2> QED  BY Zenon, <1>2, <2>1 DEF CallInv, CellsInv
  <1>7. ASSUME NEW i \in DOMAIN s, NEW c, SideInv(V, s, i, c)
        PROVE  SideInv(V, t, i, c)
    BY Zenon, <1>2, <1>3, <1>7 DEF SideInv
  <1>8. ASSUME NEW c \in {f.lhs, f.rhs}
        PROVE  SideInv(V, t, n + 1, c)
    <2>1. \A j \in DOMAIN t : c # 0 /\ c \in Held(t[j]) => j = n
      BY Zenon, <1>2 DEF ValuesFor
    <2>2. n = (n + 1) - 1
      BY <1>1
    <2> QED  BY Zenon, <1>1, <2>1, <2>2 DEF SideInv, ValuesFor
  <1>9. \A i \in DOMAIN t : SideInv(V, t, i, t[i].lhs) /\ SideInv(V, t, i, t[i].rhs)
    BY Zenon, <1>2, <1>7, <1>8 DEF CallInv, CellsInv
  <1>10. CellsInv(V, t)
    BY Zenon, <1>5, <1>6, <1>9 DEF CellsInv, CallInv
  <1>11. ASSUME NEW i \in DOMAIN t
         PROVE  /\ Len(t[i].node) = i - 1
                /\ t[i].todo \subseteq ChildrenOf(t[i].node)
                /\ i > 1 => t[i].node \in ChildrenOf(t[i - 1].node)
    <2>1. CASE i \in DOMAIN s
      <3>1. t[i] = s[i] /\ (i > 1 => i - 1 \in DOMAIN s /\ t[i - 1] = s[i - 1])
        BY <1>1, <1>3, <2>1
      <3> QED  BY Zenon, <2>1, <3>1 DEF CallInv, PathsInv
    <2>2. CASE i = n + 1
      <3>1. t[i] = f /\ i - 1 = n /\ t[n] = s[n] /\ n \in DOMAIN s
        BY <1>1, <2>2
      <3>2. Len(s[n].node) = n - 1
        BY Zenon, <3>1 DEF CallInv, PathsInv
      <3>3. Len(f.node) = Len(s[n].node) + 1
        BY Zenon DEF ChildrenOf
      <3> HIDE DEF n
      <3>4. Len(f.node) = i - 1
        <4>1. n \in Nat
          BY Zenon, <1>1
        <4>2. \A a, b : a = b + 1 /\ b = n - 1 => a = (n + 1) - 1
          BY <4>1
        <4> QED  BY Zenon, <2>2, <3>2, <3>3, <4>2
      <3> QED  BY Zenon, <3>1, <3>4 DEF n
    <2> QED  BY Zenon, <1>2, <2>1, <2>2
  <1>12. ASSUME NEW p, NEW m, PathInv(w, V, s, p, m)
         PROVE  PathInv(w, V, t, p, m)
    BY <1>4, <1>12, ReadsStays DEF PathInv
  <1>13. PathsInv(w, V, t)
    <2>1. \A i \in DOMAIN t : PathInv(w, V, s, t[i].path, t[i].node)
      BY Zenon, <1>2 DEF CallInv, PathsInv
    <2> QED  BY Zenon, <1>11, <1>12, <2>1 DEF PathsInv
  <1>14. Pushed(w, V, s, t)
    BY Zenon, <1>1, <1>4, <1>10, <1>13 DEF Pushed, CallInv
  <1> QED  BY Zenon, <1>14 DEF t

(* A node is below the beginning of a longer one. *)
LEMMA ChildFacts ==
    ASSUME NEW n \in Nodes, NEW q \in ChildrenOf(n)
    PROVE  /\ q \in Nodes /\ n \in Seq(STRING) /\ q \in Seq(STRING) /\ q # <<>>
           /\ Len(n) \in Nat /\ Len(q) = Len(n) + 1
           /\ \A k \in 1 .. Len(n) : q[k] = n[k]
           /\ Last(q) = q[Len(n) + 1] /\ Last(q) \in STRING
           /\ Front(q) = n
  <1>1. q \in Nodes /\ Len(q) = Len(n) + 1 /\ SubSeq(q, 1, Len(n)) = n
    BY Zenon DEF ChildrenOf
  <1>2. n \in Seq(STRING) /\ q \in Seq(STRING)
    BY Zenon, <1>1, WalkAssumption DEF Nodes
  <1>3. Len(n) \in Nat
    BY <1>2
  <1>4. \A k \in 1 .. Len(n) : q[k] = n[k]
    BY <1>1, <1>2, <1>3, PrefixFacts
  <1>5. Last(q) = q[Len(n) + 1] /\ q[Len(n) + 1] \in STRING /\ q # <<>>
    BY <1>1, <1>2, <1>3 DEF Last
  <1>6. Front(q) = n
    BY <1>1, <1>3 DEF Front
  <1> QED  BY Zenon, <1>1, <1>2, <1>3, <1>4, <1>5, <1>6

(* The walker on top is done: the walker below goes on with its buffer. *)
LEMMA WalkerPopped ==
    ASSUME NEW w, NEW V \in Walkers, NEW s \in Seq(Frames), Len(s) > 1, CallInv(w, V, s)
    PROVE  LET t == Front(s)
               p == WithoutLast(Last(s).path)
           IN  /\ t \in Seq(Frames) /\ t # <<>> /\ CallInv(w, V, t) /\ Stays(V, s, V, t)
               /\ Len(t) = Len(s) - 1 /\ \A i \in DOMAIN t : t[i] = s[i]
               /\ p \in Slices /\ PathInv(w, V, t, p, t[Len(t)].node)
  <1> DEFINE t == Front(s)
             n == Len(s)
             p == WithoutLast(Last(s).path)
  <1>1. n \in Nat /\ s # <<>>
    OBVIOUS
  <1>2. /\ t \in Seq(Frames) /\ Len(t) = n - 1 /\ DOMAIN s = 1 .. n
        /\ DOMAIN t = 1 .. (n - 1) /\ Last(s) = s[n] /\ s[n] \in Frames
        /\ \A i \in 1 .. (n - 1) : t[i] = s[i]
    <2>1. /\ t \in Seq(Frames) /\ Len(t) = n - 1 /\ Last(s) = s[n] /\ s[n] \in Frames
          /\ \A i \in 1 .. (n - 1) : t[i] = s[i]
      BY Zenon, <1>1, FrontFacts
    <2> HIDE DEF t
    <2> QED  BY <2>1
  <1> HIDE DEF t
  <1>3. \A i \in DOMAIN t : t[i] = s[i] /\ i \in DOMAIN s
    BY <1>1, <1>2
  <1>4. Stays(V, s, V, t)
    BY Zenon, <1>3 DEF Stays, Settled
  <1>5. CellsInv(V, t)
    BY <1>3 DEF CallInv, CellsInv, SideInv
  <1>6. ASSUME NEW q, NEW m, PathInv(w, V, s, q, m)
        PROVE  PathInv(w, V, t, q, m)
    BY <1>4, <1>6, ReadsStays DEF PathInv
  <1>7. PathsInv(w, V, t)
    <2>1. \A i \in DOMAIN t : i > 1 => i - 1 \in DOMAIN t
      BY <1>1, <1>2
    <2> QED  BY Zenon, <1>3, <1>6, <2>1 DEF CallInv, PathsInv
  <1>8. p \in Slices /\ PathInv(w, V, t, p, t[Len(t)].node)
    <2> DEFINE f == s[n]
               m == s[n - 1].node
    <2>1. n \in DOMAIN s /\ n - 1 \in DOMAIN s /\ t[n - 1] = s[n - 1] /\ n > 1 /\ s[n - 1] \in Frames
      BY <1>1, <1>2
    <2>2. /\ PathInv(w, V, s, f.path, f.node) /\ f.node \in ChildrenOf(m)
          /\ Len(f.node) = n - 1
      BY Zenon, <2>1 DEF CallInv, PathsInv
    <2>3. m \in Nodes /\ f.path \in Slices
      BY Zenon, <1>2, <2>1 DEF Frames
    <2>4. Len(f.node) = Len(m) + 1 /\ Len(m) \in Nat /\ \A k \in 1 .. Len(m) : f.node[k] = m[k]
      BY Zenon, <2>2, <2>3, ChildFacts
    <2>5. f.path.len = Len(m) + 1
      BY Zenon, <2>2, <2>4 DEF PathInv
    <2> HIDE DEF f, m, p
    <2>6. p = [f.path EXCEPT !.len = @ - 1]
      BY Zenon, <1>2 DEF p, f, WithoutLast
    <2>7. p \in Slices /\ p.len = Len(m) /\ p.array = f.path.array
      BY <2>3, <2>4, <2>5, <2>6 DEF Slices
    <2>8. SliceInv(V.mem, p)
      <3>1. f.path.array \in DOMAIN V.mem /\ f.path.len <= Len(V.mem[f.path.array])
        BY <2>2, <2>4, <2>5 DEF PathInv, SliceInv, NilSlice
      <3>2. V.mem[f.path.array] \in Seq(Elements)
        BY <3>1 DEF Walkers
      <3>3. Len(V.mem[f.path.array]) \in Nat
        BY <3>2
      <3> QED  BY <2>4, <2>5, <2>7, <3>1, <3>3 DEF SliceInv
    <2>9. \A k \in 1 .. p.len : Reads(w, V, s, V.mem[p.array][k], m[k])
      BY <2>2, <2>4, <2>5, <2>7 DEF PathInv
    <2>10. PathInv(w, V, s, p, m)
      BY Zenon, <2>7, <2>8, <2>9 DEF PathInv
    <2>11. t[Len(t)].node = m
      BY Zenon, <1>2, <2>1 DEF m
    <2> QED  BY Zenon, <1>6, <2>7, <2>10, <2>11
  <1>9. t # <<>>
    BY <1>1, <1>2
  <1> QED  BY Zenon, <1>2, <1>3, <1>4, <1>5, <1>7, <1>8, <1>9 DEF t, CallInv

(* Settled values stay settled over two steps. *)
LEMMA StaysTransitive ==
    ASSUME NEW V, NEW s, NEW V1, NEW s1, NEW V2, NEW s2,
           Stays(V, s, V1, s1), Stays(V1, s1, V2, s2)
    PROVE  Stays(V, s, V2, s2)
  <1> SUFFICES ASSUME NEW c \in DOMAIN V.cells, Settled(V, s, c)
               PROVE  Settled(V2, s2, c) /\ V2.cells[c] = V.cells[c]
    BY Zenon DEF Stays
  <1>1. Settled(V1, s1, c) /\ V1.cells[c] = V.cells[c]
    BY Zenon DEF Stays
  <1>2. c \in DOMAIN V1.cells
    BY Zenon, <1>1 DEF Settled
  <1> QED  BY Zenon, <1>1, <1>2 DEF Stays

(* A path with an element more reads as a node one longer. *)
LEMMA AppendedPath ==
    ASSUME NEW w, NEW V \in Walkers, NEW s, NEW V2 \in Walkers, NEW t, Stays(V, s, V2, t),
           NEW p \in Slices, NEW n \in Nodes, NEW q \in ChildrenOf(n), PathInv(w, V, s, p, n),
           NEW pe \in Elements, Reads(w, V2, t, pe, Last(q)),
           V2.mem = AppendMem(V.mem, p, pe)
    PROVE  PathInv(w, V2, t, AppendSlice(V.mem, p, pe), q)
  <1> DEFINE p2 == AppendSlice(V.mem, p, pe)
  <1>1. V.mem \in Seq(Seq(Elements)) /\ SliceInv(V.mem, p) /\ p.len = Len(n)
    BY Zenon DEF Walkers, PathInv
  <1>2. /\ SliceInv(V2.mem, p2) /\ p2.len = p.len + 1
        /\ V2.mem[p2.array][p.len + 1] = pe
        /\ \A j \in 1 .. p.len : V2.mem[p2.array][j] = V.mem[p.array][j]
    <2>1. Appended(V.mem, p, pe, AppendMem(V.mem, p, pe), p2)
      BY Zenon, <1>1, ElementAppended
    <2>2. Appended(V.mem, p, pe, V2.mem, p2)
      BY Zenon, <2>1
    <2> QED  BY Zenon, <2>2 DEF Appended
  <1>3. /\ Len(n) \in Nat /\ Len(q) = Len(n) + 1 /\ Last(q) = q[Len(n) + 1]
        /\ \A k \in 1 .. Len(n) : q[k] = n[k]
    BY Zenon, ChildFacts
  <1> HIDE DEF p2
  <1>4. ASSUME NEW k \in 1 .. p2.len
        PROVE  Reads(w, V2, t, V2.mem[p2.array][k], q[k])
    <2>1. CASE k = p.len + 1
      BY Zenon, <1>1, <1>2, <1>3, <2>1
    <2>2. CASE k # p.len + 1
      <3>1. k \in 1 .. p.len /\ k \in 1 .. Len(n)
        BY <1>1, <1>2, <1>3, <2>2
      <3>2. Reads(w, V, s, V.mem[p.array][k], n[k])
        BY Zenon, <3>1 DEF PathInv
      <3>3. Reads(w, V2, t, V.mem[p.array][k], n[k])
        BY <3>2, ReadsStays
      <3> QED  BY Zenon, <1>2, <1>3, <3>1, <3>3
    <2> QED  BY Zenon, <2>1, <2>2
  <1> QED  BY Zenon, <1>1, <1>2, <1>3, <1>4 DEF p2, PathInv

(* The memory of the paths after a descent, and the walkers that are kept. *)
LEMMA DescentFacts ==
    ASSUME NEW V \in Walkers, NEW p \in Slices, SliceInv(V.mem, p), NEW pe \in Elements
    PROVE  LET V2 == TakeSpare([V EXCEPT !.mem = AppendMem(@, p, pe)])
           IN  /\ V2 \in Walkers /\ V2.cells = V.cells /\ V2.free = V.free
               /\ V2.mem = AppendMem(V.mem, p, pe) /\ KeepsMem(V.mem, V2.mem, p.len)
               /\ AppendSlice(V.mem, p, pe) \in Slices
  <1> DEFINE mem == V.mem
             mem2 == AppendMem(mem, p, pe)
             V1 == [V EXCEPT !.mem = mem2]
  <1>1. V.spares \in Seq([path : Slices, inLeaf : BOOLEAN])
    BY Zenon DEF Walkers
  <1>2. mem2 \in Seq(Seq(Elements)) /\ KeepsMem(mem, mem2, p.len) /\ AppendSlice(mem, p, pe) \in Slices
    BY Zenon, ElementAppended
  <1> HIDE DEF mem, mem2
  <1>3. /\ V1 \in Walkers /\ V1.mem = mem2 /\ V1.cells = V.cells /\ V1.free = V.free
        /\ V1.spares = V.spares
    BY Zenon, <1>2 DEF Walkers
  <1> HIDE DEF V1
  <1>4. /\ TakeSpare(V1) \in Walkers /\ TakeSpare(V1).mem = mem2 /\ TakeSpare(V1).cells = V.cells
        /\ TakeSpare(V1).free = V.free
    <2>1. CASE V1.spares = <<>>
      BY Zenon, <1>3, <2>1 DEF TakeSpare
    <2>2. CASE V1.spares # <<>>
      <3>1. Front(V1.spares) \in Seq([path : Slices, inLeaf : BOOLEAN])
        BY Zenon, <1>1, <1>3, <2>2, FrontFacts
      <3>2. TakeSpare(V1) = [V1 EXCEPT !.spares = Front(V1.spares)]
        BY Zenon, <2>2 DEF TakeSpare
      <3> QED  BY Zenon, <1>3, <3>1, <3>2 DEF Walkers
    <2> QED  BY Zenon, <2>1, <2>2
  <1>5. [V EXCEPT !.mem = AppendMem(@, p, pe)] = V1
    BY Zenon DEF V1, mem2, mem, Walkers
  <1> QED  BY Zenon, <1>2, <1>4, <1>5 DEF mem2, mem

(* The values of the node n, lhs and rhs, are there: the iteration of the  *)
(* walker f holds them, or they are new.  An element made from a value is  *)
(* made from a new one.  V0 is what the root walker kept before.           *)
Prepared(w, V0, V, f, n, pe, lhs, rhs) ==
    /\ \A c \in {lhs, rhs} \ {0} :
         /\ c \in DOMAIN V.cells \ Range(V.free) /\ V.cells[c] = n
         /\ c \in Held(f) \/ c \notin DOMAIN V0.cells
    /\ \/ pe = FieldName(n)
       \/ \E c \in DOMAIN V.cells \ (Range(V.free) \cup Held(f)) :
            c \notin DOMAIN V0.cells /\ V.cells[c] = n /\ pe = ItemValue(w, c)

(* A descent: the walker on top becomes f, and a walker for n is above it. *)
LEMMA WalkerDescends ==
    ASSUME NEW w, NEW V0 \in Walkers, NEW s \in Seq(Frames), s # <<>>, CallInv(w, V0, s),
           NEW V \in Walkers, V.mem = V0.mem, NEW f \in Frames,
           f.node = s[Len(s)].node, f.lhs = s[Len(s)].lhs, f.rhs = s[Len(s)].rhs,
           f.path = s[Len(s)].path, f.todo \subseteq ChildrenOf(f.node),
           f.other # 0 => f.entry # f.other,
           HeldInv(V, Held(f)), Keeps(V0, Held(s[Len(s)]), V, Held(f)),
           NEW n \in ChildrenOf(f.node), NEW pe \in Elements, NEW lhs \in Nat, NEW rhs \in Nat,
           Prepared(w, V0, V, f, n, pe, lhs, rhs)
    PROVE  LET V2 == TakeSpare([V EXCEPT !.mem = AppendMem(@, f.path, pe)])
               t == Front(s) \o <<f, PrepareDescent(V, f, pe, n, lhs, rhs)>>
           IN  /\ V2 \in Walkers /\ t \in Seq(Frames) /\ t # <<>>
               /\ DOMAIN V0.cells \subseteq DOMAIN V2.cells
               /\ CallInv(w, V2, t) /\ Stays(V0, s, V2, t)
  <1> DEFINE V2 == TakeSpare([V EXCEPT !.mem = AppendMem(@, f.path, pe)])
             t1 == Front(s) \o <<f>>
             p2 == AppendSlice(V.mem, f.path, pe)
             f2 == PrepareDescent(V, f, pe, n, lhs, rhs)
             t == Append(t1, f2)
  <1>1. Len(s) \in Nat \ {0} /\ DOMAIN s = 1 .. Len(s)
    OBVIOUS
  <1>2. /\ f.path \in Slices /\ f.node \in Nodes /\ f.path.len = Len(s) - 1
        /\ SliceInv(V.mem, f.path) /\ PathInv(w, V0, s, f.path, f.node)
    <2>1. Len(s) \in DOMAIN s
      BY <1>1
    <2>2. Len(f.node) = Len(s) - 1 /\ PathInv(w, V0, s, f.path, f.node)
      BY Zenon, <2>1 DEF CallInv, PathsInv
    <2>3. f.path \in Slices /\ f.node \in Nodes
      BY Zenon DEF Frames
    <2> QED  BY Zenon, <2>2, <2>3 DEF PathInv
  <1>3. /\ V2 \in Walkers /\ V2.cells = V.cells /\ V2.free = V.free
        /\ V2.mem = AppendMem(V0.mem, f.path, pe) /\ KeepsMem(V0.mem, V2.mem, f.path.len)
        /\ p2 \in Slices
    BY <1>2, DescentFacts
  <1> HIDE DEF V2, p2
  <1>4. HeldInv(V2, Held(f)) /\ Keeps(V0, Held(s[Len(s)]), V2, Held(f))
    BY Zenon, <1>3 DEF HeldInv, FreeInv, Keeps
  <1>5. /\ t1 \in Seq(Frames) /\ t1 # <<>> /\ TopReplaced(s, t1, f)
        /\ CallInv(w, V2, t1) /\ Stays(V0, s, V2, t1)
    BY Zenon, <1>2, <1>3, <1>4, StepOfTop
  <1> HIDE DEF t1
  <1>6. /\ DOMAIN t1 = 1 .. Len(s) /\ Len(t1) = Len(s) /\ t1[Len(s)] = f
        /\ \A i \in DOMAIN t1 : i # Len(s) => t1[i] = s[i] /\ i \in DOMAIN s
    BY <1>1, <1>5 DEF TopReplaced
  <1>7. \A i \in DOMAIN t1 : i # Len(s) => Held(t1[i]) \subseteq DOMAIN V0.cells
    BY Zenon, <1>6 DEF CallInv, CellsInv
  <1>8. \A i \in DOMAIN t1 : i # Len(s) => Held(t1[i]) \cap Held(f) = {}
    <2>1. Len(s) \in DOMAIN t1
      BY <1>1, <1>6
    <2> QED  BY Zenon, <1>5, <1>6, <2>1 DEF CallInv, CellsInv
  <1>9. n \in Nodes /\ n # Nothing
    BY Zenon, <1>2, ChildFacts, WalkAssumption DEF Nodes
  <1>10. Reads(w, V2, t1, pe, Last(n))
    <2>1. CASE pe = FieldName(n)
      BY Zenon, <2>1 DEF FieldName, Reads
    <2>2. CASE pe # FieldName(n)
      <3>1. PICK c \in DOMAIN V.cells \ (Range(V.free) \cup Held(f)) :
              c \notin DOMAIN V0.cells /\ V.cells[c] = n /\ pe = ItemValue(w, c)
        BY Zenon, <2>2 DEF Prepared
      <3>2. Settled(V2, t1, c)
        BY Zenon, <1>3, <1>6, <1>7, <3>1 DEF Settled
      <3> QED  BY Zenon, <1>3, <1>9, <3>1, <3>2 DEF Reads
    <2> QED  BY Zenon, <2>1, <2>2
  <1>11. PathInv(w, V2, t1, p2, n)
    BY Zenon, <1>2, <1>3, <1>5, <1>10, AppendedPath DEF p2
  <1>12. /\ f2 \in Frames /\ f2.node = n /\ f2.path = p2 /\ f2.lhs = lhs /\ f2.rhs = rhs
         /\ f2.todo = {} /\ f2.entry = 0 /\ f2.other = 0
    BY Zenon, <1>3, <1>9 DEF PrepareDescent, Walker, Frames, Phases, p2
  <1> HIDE DEF f2
  <1>13. Fits(w, V2, t1, f2)
    <2>1. Held(f2) = {}
      BY Zenon, <1>12 DEF Held
    <2>2. ValuesFor(V2, t1, f2)
      BY <1>3, <1>6, <1>7, <1>8, <1>12 DEF ValuesFor, Prepared
    <2> QED  BY Zenon, <1>6, <1>11, <1>12, <2>1, <2>2 DEF Fits
  <1>14. t \in Seq(Frames) /\ t # <<>> /\ CallInv(w, V2, t) /\ Stays(V2, t1, V2, t)
    <2>1. /\ V2 \in Walkers /\ t1 \in Seq(Frames) /\ t1 # <<>> /\ CallInv(w, V2, t1)
          /\ f2 \in Frames
      BY Zenon, <1>3, <1>5, <1>12
    <2>2. Pushed(w, V2, t1, t)
      BY Zenon, <2>1, <1>13, WalkerPushed
    <2> HIDE DEF t
    <2> QED  BY Zenon, <2>2 DEF Pushed
  <1>15. Stays(V0, s, V2, t)
    BY Zenon, <1>5, <1>14, StaysTransitive
  <1>16. Front(s) \o <<f, f2>> = t
    <2>1. f2 \in Frames
      BY Zenon, <1>12
    <2> QED  BY Zenon, <2>1, PushIsAppend DEF t1
  <1>17. DOMAIN V0.cells \subseteq DOMAIN V2.cells
    BY Zenon, <1>4 DEF Keeps
  <1> HIDE DEF t
  <1> QED  BY Zenon, <1>3, <1>14, <1>15, <1>16, <1>17 DEF V2, f2
==============================================================================
