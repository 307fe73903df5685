---------------------------- MODULE ReportProofs ----------------------------
(***************************************************************************)
(* What a call of Compare has reported when its stack of walkers is s: no  *)
(* node but differences of the two objects, and each difference unless it  *)
(* is still open, that is, a walker of the stack has yet to get to it.     *)
(* How the steps of one call change this, for every pair of objects.       *)
(***************************************************************************)
EXTENDS WalkerProofs

(* How far a call that compares l with r is. *)

Sides == {"removed", "modified", "added"}

(* The object o has the node n to compare: a list has no other than items  *)
(* that occur once.                                                        *)
OnSide(o, n) == n \in DOMAIN o /\ (n # <<>> /\ Item(n) => o[n] = 1)

(* The children of its node that the walker f has not visited. *)
Rest(l, r, f) ==
    CASE f.phase = "compare" -> Children(l, f.node) \cup Children(r, f.node)
      [] f.phase = "left" -> f.todo \cup (Children(r, f.node) \ Children(l, f.node))
      [] f.phase \in {"right", "items"} -> f.todo
      [] f.phase = "end" -> {}

(* Where compareListItem reports an item besides comparing it. *)
Duplicate(l, r, n) ==
    IF n \in DOMAIN l \cap DOMAIN r /\ Item(n) /\ (l[n] = 1) # (r[n] = 1)
      THEN (IF r[n] = 1 THEN "removed" ELSE "added") ELSE "no"

(* The walker f is where it may be in a comparison of l with r. *)
FrameInv(l, r, f) ==
    /\ f.node = <<>> \/ f.node \in Compared(l, r)
    /\ f.lhs # 0 <=> OnSide(l, f.node)
    /\ f.rhs # 0 <=> OnSide(r, f.node)
    /\ f.lhs # 0 \/ f.rhs # 0
    /\ f.inLeaf => f.phase = "end"
    /\ ~f.inLeaf /\ f.phase # "compare" => ~LeafIn(l, r, f.node)
    /\ f.phase \in {"left", "right"} => Kind[f.node] = "map" /\ (f.todo # {} => f.entry # 0)
    /\ f.phase = "left" => f.todo \subseteq Children(l, f.node)
    /\ f.phase = "right" => f.todo \subseteq Children(r, f.node) \ Children(l, f.node)
    /\ f.phase = "items" => /\ Kind[f.node] = "list"
                            /\ f.todo \subseteq Children(l, f.node) \cup Children(r, f.node)

ProgressInv(l, r, s) ==
    /\ \A i \in DOMAIN s : FrameInv(l, r, s[i])
    /\ \A i \in DOMAIN s : i > 1 => s[i - 1].duplicate = Duplicate(l, r, s[i].node)
    /\ s[Len(s)].duplicate = "no"

(* The node n is q or below it. *)
Under(n, q) == Len(q) <= Len(n) /\ SubSeq(n, 1, Len(q)) = q

Pending(l, r, f, n) == \E q \in Rest(l, r, f) : Under(n, q)

(* The node n may still be reported in the set x. *)
Open(l, r, s, x, n) ==
    \E i \in DOMAIN s :
      \/ Pending(l, r, s[i], n)
      \/ n = s[i].node /\ (~s[i].inLeaf \/ (i > 1 /\ s[i - 1].duplicate = x))

(* The path p, a sequence of elements, reads as n, and will. *)
PathReads(w, V, s, p, n) ==
    Len(p) = Len(n) /\ \A k \in 1 .. Len(n) : Reads(w, V, s, p[k], n[k])

(* What is reported are differences, and differences are reported or open. *)
DoneInv(w, V, s, l, r, cmp) ==
    \A x \in Sides :
      /\ \A p \in cmp[x] : \E n \in Difference(l, r)[x] : PathReads(w, V, s, p, n)
      /\ \A n \in Difference(l, r)[x] :
           Open(l, r, s, x, n) \/ \E p \in cmp[x] : PathReads(w, V, s, p, n)

Report(w, V, s, l, r, cmp) == ProgressInv(l, r, s) /\ DoneInv(w, V, s, l, r, cmp)

-----------------------------------------------------------------------------
(* The objects that are compared. *)
LEMMA ObjectFacts ==
    ASSUME NEW o \in Objects
    PROVE  /\ <<>> \in DOMAIN o /\ DOMAIN o \subseteq Nodes
           /\ \A n \in DOMAIN o : \A k \in 0 .. Len(n) : SubSeq(n, 1, k) \in DOMAIN o
           /\ \A n \in DOMAIN o \ {<<>>} : Item(n) => o[n] \in Nat \ {0}
  BY Zenon, WalkAssumption DEF Objects, Nodes, Item

(* The nodes of a schema. *)
LEMMA NodeFacts ==
    ASSUME NEW n \in Nodes
    PROVE  n \in Seq(STRING) /\ (n # <<>> /\ Item(n) => Kind[n] = "scalar")
  BY Zenon, WalkAssumption DEF Nodes, Item

(* What is between a node and one below it. *)
LEMMA UnderFacts ==
    ASSUME NEW n \in Seq(STRING), NEW q \in Seq(STRING), Under(n, q), n # q
    PROVE  LET q2 == SubSeq(n, 1, Len(q) + 1)
           IN  /\ Len(q) < Len(n) /\ Len(q2) = Len(q) + 1 /\ SubSeq(q2, 1, Len(q)) = q
               /\ Under(n, q2)
  <1> DEFINE k == Len(q)
             q2 == SubSeq(n, 1, k + 1)
  <1>1. k \in Nat /\ Len(n) \in Nat /\ k <= Len(n) /\ SubSeq(n, 1, k) = q
    BY DEF Under
  <1>2. k < Len(n)
    <2>1. Len(n) = k => SubSeq(n, 1, k) = n
      OBVIOUS
    <2> QED  BY <1>1, <2>1
  <1> HIDE DEF k
  <1>3. Len(q2) = k + 1 /\ \A i \in 1 .. (k + 1) : q2[i] = n[i]
    BY <1>1, <1>2
  <1>4. q2 \in Seq(STRING)
    BY <1>1, <1>2
  <1> HIDE DEF q2
  <1>5. SubSeq(q2, 1, k) = SubSeq(n, 1, k)
    BY <1>1, <1>2, <1>3, <1>4
  <1>6. Under(n, q2)
    <2>1. SubSeq(n, 1, Len(q2)) = q2
      BY Zenon, <1>3 DEF q2
    <2> QED  BY <1>1, <1>2, <1>3, <2>1 DEF Under
  <1> QED  BY Zenon, <1>1, <1>2, <1>3, <1>5, <1>6 DEF k, q2

(* A node below q is that of a child of q or below it. *)
LEMMA UnderChild ==
    ASSUME NEW o \in Objects, NEW n \in DOMAIN o, NEW q \in Nodes, Under(n, q), n # q
    PROVE  \E q2 \in Children(o, q) : Under(n, q2)
  <1> DEFINE q2 == SubSeq(n, 1, Len(q) + 1)
  <1>1. n \in Seq(STRING) /\ q \in Seq(STRING)
    BY Zenon, ObjectFacts, NodeFacts
  <1>2. Len(q) < Len(n) /\ Len(q2) = Len(q) + 1 /\ SubSeq(q2, 1, Len(q)) = q /\ Under(n, q2)
    BY Zenon, <1>1, UnderFacts
  <1>3. Len(q) + 1 \in 0 .. Len(n)
    BY <1>1, <1>2
  <1>4. q2 \in DOMAIN o
    BY Zenon, <1>3, ObjectFacts
  <1> HIDE DEF q2
  <1> QED  BY Zenon, <1>2, <1>4 DEF Children

(* Nothing below a leaf is compared. *)
LEMMA ComparedUnder ==
    ASSUME NEW l \in Objects, NEW r \in Objects, NEW n \in Compared(l, r),
           NEW q \in Nodes, Under(n, q), n # q
    PROVE  ~LeafIn(l, r, q)
  <1>1. n \in Seq(STRING) /\ q \in Seq(STRING)
    BY Zenon, ObjectFacts, NodeFacts DEF Compared
  <1>2. Len(q) < Len(n) /\ SubSeq(n, 1, Len(q)) = q
    BY Zenon, <1>1, UnderFacts DEF Under
  <1>3. Len(q) \in 0 .. (Len(n) - 1)
    BY <1>1, <1>2
  <1> QED  BY Zenon, <1>2, <1>3 DEF Compared

(* The children of a node that is no leaf are compared if it is. *)
LEMMA ChildCompared ==
    ASSUME NEW l \in Objects, NEW r \in Objects, NEW p \in Nodes,
           p = <<>> \/ p \in Compared(l, r), ~LeafIn(l, r, p),
           NEW q \in Children(l, p) \cup Children(r, p)
    PROVE  q \in Compared(l, r)
  <1>1. /\ q \in DOMAIN l \cup DOMAIN r /\ q \in Seq(STRING) /\ p \in Seq(STRING)
        /\ Len(q) = Len(p) + 1 /\ SubSeq(q, 1, Len(p)) = p
    BY Zenon, ObjectFacts, NodeFacts DEF Children
  <1>2. q # <<>>
    BY <1>1
  <1>3. ASSUME NEW i \in 0 .. (Len(q) - 1)
        PROVE  ~LeafIn(l, r, SubSeq(q, 1, i))
    <2>1. CASE i = Len(p)
      BY Zenon, <1>1, <2>1
    <2>2. CASE i # Len(p)
      <3>1. i \in Nat /\ i < Len(p)
        <4>1. Len(p) \in Nat /\ i \in 0 .. Len(p)
          BY <1>1
        <4> QED  BY <2>2, <4>1
      <3>2. SubSeq(p, 1, i) = SubSeq(q, 1, i)
        BY <1>1, <3>1
      <3>3. p # <<>>
        BY <3>1
      <3>4. i \in 0 .. (Len(p) - 1)
        BY <1>1, <3>1
      <3> QED  BY Zenon, <3>2, <3>3, <3>4 DEF Compared
    <2> QED  BY Zenon, <2>1, <2>2
  <1> QED  BY Zenon, <1>1, <1>2, <1>3 DEF Compared

-----------------------------------------------------------------------------
(* What differs at a node that is compared. *)

(* Items of lists are leaves. *)
LEMMA ItemIsLeaf ==
    ASSUME NEW l \in Objects, NEW r \in Objects, NEW n \in Compared(l, r), Item(n)
    PROVE  LeafIn(l, r, n)
  <1>1. n \in Nodes /\ n # <<>>
    BY Zenon, ObjectFacts DEF Compared
  <1> QED  BY Zenon, <1>1, NodeFacts DEF LeafIn

(* A node that is on one side only is added or removed. *)
LEMMA OneSided ==
    ASSUME NEW l \in Objects, NEW r \in Objects, NEW n \in Compared(l, r),
           OnSide(l, n) \/ OnSide(r, n)
    PROVE  /\ ~OnSide(l, n) => n \in Difference(l, r)["added"]
           /\ ~OnSide(r, n) => n \in Difference(l, r)["removed"]
  <1>1. n # <<>> /\ n \in DOMAIN l \cup DOMAIN r
    BY Zenon DEF Compared
  <1> QED  BY Zenon, <1>1 DEF OnSide, Difference

(* A leaf that is on both sides with different values is modified. *)
LEMMA BothSided ==
    ASSUME NEW l \in Objects, NEW r \in Objects, NEW n \in Compared(l, r),
           OnSide(l, n), OnSide(r, n), LeafIn(l, r, n), l[n] # r[n]
    PROVE  n \in Difference(l, r)["modified"]
  <1>1. n # <<>> /\ n \in DOMAIN l \cap DOMAIN r
    BY Zenon DEF Compared, OnSide
  <1>2. ~Item(n)
    BY Zenon, <1>1 DEF OnSide
  <1> QED  BY Zenon, <1>1, <1>2 DEF Difference

(* An item that occurs once on one side only is added and removed. *)
LEMMA DuplicateDiffers ==
    ASSUME NEW l \in Objects, NEW r \in Objects, NEW n \in Compared(l, r),
           Duplicate(l, r, n) # "no"
    PROVE  Duplicate(l, r, n) \in Sides /\ n \in Difference(l, r)[Duplicate(l, r, n)]
  BY Zenon DEF Duplicate, Difference, Sides

(* The other way round. *)
LEMMA DifferenceFacts ==
    ASSUME NEW l \in Objects, NEW r \in Objects, NEW x \in Sides, NEW n \in Difference(l, r)[x]
    PROVE  /\ n \in Compared(l, r) /\ n # <<>> /\ n \in Nodes
           /\ OnSide(l, n) \/ OnSide(r, n) =>
                \/ x = Duplicate(l, r, n)
                \/ x = "removed" /\ ~OnSide(r, n)
                \/ x = "added" /\ ~OnSide(l, n)
                \/ x = "modified" /\ OnSide(l, n) /\ OnSide(r, n) /\ LeafIn(l, r, n) /\ l[n] # r[n]
  <1>1. n \in Compared(l, r)
    BY DEF Difference, Sides
  <1>2. n # <<>> /\ n \in Nodes
    BY Zenon, <1>1, ObjectFacts DEF Compared
  <1>3. ASSUME OnSide(l, n) \/ OnSide(r, n), x # Duplicate(l, r, n)
        PROVE  \/ x = "removed" /\ ~OnSide(r, n)
               \/ x = "added" /\ ~OnSide(l, n)
               \/ x = "modified" /\ OnSide(l, n) /\ OnSide(r, n) /\ LeafIn(l, r, n) /\ l[n] # r[n]
    <2>1. CASE x = "removed"
      BY Zenon, <1>2, <1>3, <2>1 DEF Difference, Duplicate, OnSide
    <2>2. CASE x = "added"
      BY Zenon, <1>2, <1>3, <2>2 DEF Difference, Duplicate, OnSide
    <2>3. CASE x = "modified"
      BY Zenon, <1>2, <1>3, <2>3 DEF Difference, OnSide
    <2> QED  BY Zenon, <2>1, <2>2, <2>3 DEF Sides
  <1> QED  BY Zenon, <1>1, <1>2, <1>3

(* Items that are not compared with anything: both sides have it more than *)
(* once or not at all.                                                     *)
LEMMA NotOnSides ==
    ASSUME NEW l \in Objects, NEW r \in Objects, NEW n \in Compared(l, r), Item(n),
           ~OnSide(l, n), ~OnSide(r, n)
    PROVE  /\ n \in Difference(l, r)["removed"] <=> n \notin DOMAIN r
           /\ n \in Difference(l, r)["added"] <=> n \notin DOMAIN l
           /\ n \in Difference(l, r)["modified"] <=>
                n \in DOMAIN l /\ n \in DOMAIN r /\ l[n] # r[n]
  <1>1. LeafIn(l, r, n)
    BY Zenon, ItemIsLeaf
  <1>2. n # <<>>
    BY Zenon DEF Compared
  <1>3. n \in DOMAIN l \cap DOMAIN r => ~((l[n] = 1) # (r[n] = 1))
    BY Zenon, <1>2 DEF OnSide
  <1> QED  BY Zenon, <1>1, <1>3 DEF Difference

-----------------------------------------------------------------------------
(* From a comparison to the next one: the paths that are new read as       *)
(* differences.                                                            *)
Adds(w, V, s, l, r, cmp, cmp2) ==
    \A x \in Sides :
      /\ cmp[x] \subseteq cmp2[x]
      /\ \A p \in cmp2[x] \ cmp[x] : \E n \in Difference(l, r)[x] : PathReads(w, V, s, p, n)

(* The node n is reported in x. *)
Told(w, V, s, cmp, x, n) == \E p \in cmp[x] : PathReads(w, V, s, p, n)

(* What was open in s is so in t, or reported. *)
Closes(w, V, s, t, l, r, cmp) ==
    \A x \in Sides : \A n \in Difference(l, r)[x] :
      Open(l, r, s, x, n) => Open(l, r, t, x, n) \/ Told(w, V, t, cmp, x, n)

(* A step keeps how paths read. *)
LEMMA PathReadsStays ==
    ASSUME NEW w, NEW V, NEW s, NEW V2, NEW t, Stays(V, s, V2, t),
           NEW p, NEW n, PathReads(w, V, s, p, n)
    PROVE  PathReads(w, V2, t, p, n)
  BY Zenon, ReadsStays DEF PathReads

(* A step of a walk keeps what was done. *)
LEMMA DoneStep ==
    ASSUME NEW w, NEW V, NEW s, NEW V2, NEW t, NEW l, NEW r, NEW cmp, NEW cmp2,
           DoneInv(w, V, s, l, r, cmp), Stays(V, s, V2, t),
           Adds(w, V2, t, l, r, cmp, cmp2), Closes(w, V2, s, t, l, r, cmp2)
    PROVE  DoneInv(w, V2, t, l, r, cmp2)
  <1> SUFFICES ASSUME NEW x \in Sides
               PROVE  /\ \A p \in cmp2[x] : \E n \in Difference(l, r)[x] : PathReads(w, V2, t, p, n)
                      /\ \A n \in Difference(l, r)[x] :
                           Open(l, r, t, x, n) \/ Told(w, V2, t, cmp2, x, n)
    BY Zenon DEF DoneInv, Told
  <1>1. ASSUME NEW p \in cmp2[x]
        PROVE  \E n \in Difference(l, r)[x] : PathReads(w, V2, t, p, n)
    <2>1. CASE p \in cmp[x]
      <3>1. PICK n \in Difference(l, r)[x] : PathReads(w, V, s, p, n)
        BY Zenon, <2>1 DEF DoneInv
      <3> QED  BY Zenon, <3>1, PathReadsStays
    <2>2. CASE p \notin cmp[x]
      BY Zenon, <2>2 DEF Adds
    <2> QED  BY Zenon, <2>1, <2>2
  <1>2. ASSUME NEW n \in Difference(l, r)[x]
        PROVE  Open(l, r, t, x, n) \/ Told(w, V2, t, cmp2, x, n)
    <2>1. CASE Open(l, r, s, x, n)
      BY Zenon, <2>1 DEF Closes
    <2>2. CASE ~Open(l, r, s, x, n)
      <3>1. PICK p \in cmp[x] : PathReads(w, V, s, p, n)
        BY Zenon, <2>2 DEF DoneInv
      <3>2. p \in cmp2[x]
        BY Zenon DEF Adds
      <3> QED  BY Zenon, <3>1, <3>2, PathReadsStays DEF Told
    <2> QED  BY Zenon, <2>1, <2>2
  <1> QED  BY Zenon, <1>1, <1>2

(* No path is new. *)
LEMMA AddsNothing ==
    ASSUME NEW w, NEW V, NEW s, NEW l, NEW r, NEW cmp
    PROVE  Adds(w, V, s, l, r, cmp, cmp)
  BY Zenon DEF Adds

(* Set.Insert of the path of a node that differs. *)
LEMMA InsertAdds ==
    ASSUME NEW w, NEW V, NEW s, NEW l, NEW r, NEW cmp \in Comparisons, NEW x \in Sides,
           NEW path \in Seq(Elements), NEW n \in Seq(STRING), PathReads(w, V, s, path, n),
           n = <<>> \/ n \in Difference(l, r)[x]
    PROVE  /\ Insert(cmp, x, path) \in Comparisons
           /\ Adds(w, V, s, l, r, cmp, Insert(cmp, x, path))
           /\ n # <<>> => Told(w, V, s, Insert(cmp, x, path), x, n)
  <1> DEFINE cmp2 == Insert(cmp, x, path)
  <1>1. cmp2 \in Comparisons
    BY Zenon DEF Insert, Comparisons, Sides
  <1>2. CASE n = <<>>
    <2>1. path = <<>>
      BY <1>2 DEF PathReads
    <2>2. cmp2 = cmp
      BY Zenon, <2>1 DEF Insert
    <2> QED  BY Zenon, <1>1, <1>2, <2>2, AddsNothing
  <1>3. CASE n # <<>>
    <2>1. path # <<>>
      BY <1>3 DEF PathReads
    <2>2. \A y \in Sides : cmp2[y] = IF y = x THEN cmp[y] \cup {path} ELSE cmp[y]
      BY Zenon, <2>1 DEF Insert, Comparisons, Sides
    <2> HIDE DEF cmp2
    <2>3. Adds(w, V, s, l, r, cmp, cmp2)
      BY Zenon, <1>3, <2>2 DEF Adds
    <2>4. Told(w, V, s, cmp2, x, n)
      BY Zenon, <2>2 DEF Told
    <2> QED  BY Zenon, <1>1, <2>3, <2>4 DEF cmp2
  <1> QED  BY Zenon, <1>2, <1>3

-----------------------------------------------------------------------------
(* A node that was open at the walker f0 on top is so at f, or reported. *)
TopCloses(w, V, t, l, r, cmp, f0, f) ==
    \A x \in Sides : \A n \in Difference(l, r)[x] :
      Pending(l, r, f0, n) \/ (n = f0.node /\ ~f0.inLeaf) =>
        \/ Pending(l, r, f, n)
        \/ n = f.node /\ (~f.inLeaf \/ x = Duplicate(l, r, n))
        \/ Told(w, V, t, cmp, x, n)

(* The walkers with another one on top. *)
LEMMA TopReplacedFacts ==
    ASSUME NEW s \in Seq(Frames), s # <<>>, NEW f \in Frames
    PROVE  TopReplaced(s, Front(s) \o <<f>>, f) /\ Front(s) \o <<f>> \in Seq(Frames)
  <1> DEFINE t == Front(s) \o <<f>>
  <1>1. /\ t \in Seq(Frames) /\ Len(t) = Len(s) /\ t[Len(s)] = f
        /\ \A i \in 1 .. (Len(s) - 1) : t[i] = s[i]
    BY ReplaceTop
  <1> HIDE DEF t
  <1>2. TopReplaced(s, t, f)
    BY Zenon, <1>1 DEF TopReplaced
  <1> QED  BY Zenon, <1>1, <1>2 DEF t

(* A step of the walker on top. *)
LEMMA TopReports ==
    ASSUME NEW w, NEW V, NEW s \in Seq(Frames), s # <<>>, NEW l, NEW r, NEW cmp,
           Report(w, V, s, l, r, cmp),
           NEW V2, NEW t \in Seq(Frames), NEW f, TopReplaced(s, t, f), Stays(V, s, V2, t),
           f.node = s[Len(s)].node, f.node # <<>> => Len(s) > 1,
           f.duplicate = "no", FrameInv(l, r, f), NEW cmp2,
           Adds(w, V2, t, l, r, cmp, cmp2), <<>> \notin Compared(l, r),
           TopCloses(w, V2, t, l, r, cmp2, s[Len(s)], f)
    PROVE  Report(w, V2, t, l, r, cmp2)
  <1> DEFINE m == Len(s)
  <1>1. /\ m \in Nat \ {0} /\ DOMAIN s = 1 .. m /\ DOMAIN t = 1 .. m /\ Len(t) = m /\ t[m] = f
        /\ \A i \in 1 .. m : i # m => t[i] = s[i]
    BY DEF TopReplaced
  <1>2. ProgressInv(l, r, s) /\ DoneInv(w, V, s, l, r, cmp)
    BY Zenon DEF Report
  <1>3. \A i \in DOMAIN t : i > 1 => i - 1 \in DOMAIN t /\ t[i - 1] = s[i - 1] /\ t[i].node = s[i].node
    BY <1>1
  <1>4. ProgressInv(l, r, t)
    <2>1. \A i \in DOMAIN t : FrameInv(l, r, t[i])
      BY Zenon, <1>1, <1>2 DEF ProgressInv
    <2>2. \A i \in DOMAIN t : i > 1 => t[i - 1].duplicate = Duplicate(l, r, t[i].node)
      BY Zenon, <1>1, <1>2, <1>3 DEF ProgressInv
    <2> QED  BY Zenon, <1>1, <2>1, <2>2 DEF ProgressInv
  <1> HIDE DEF m
  <1>5. Closes(w, V2, s, t, l, r, cmp2)
    <2> SUFFICES ASSUME NEW x \in Sides, NEW n \in Difference(l, r)[x], Open(l, r, s, x, n)
                 PROVE  Open(l, r, t, x, n) \/ Told(w, V2, t, cmp2, x, n)
      BY Zenon DEF Closes
    <2>1. PICK i \in DOMAIN s :
            \/ Pending(l, r, s[i], n)
            \/ n = s[i].node /\ (~s[i].inLeaf \/ (i > 1 /\ s[i - 1].duplicate = x))
      BY Zenon DEF Open
    <2>2. CASE i # m
      <3>1. i \in DOMAIN t /\ t[i] = s[i] /\ (i > 1 => t[i - 1] = s[i - 1])
        BY Zenon, <1>1, <1>3, <2>2
      <3> QED  BY Zenon, <2>1, <3>1 DEF Open
    <2>3. CASE i = m
      <3>1. i \in DOMAIN t /\ t[i] = f /\ (i > 1 => t[i - 1] = s[i - 1]) /\ f.node = s[i].node
        BY Zenon, <1>1, <1>3, <2>3 DEF m
      <3>2. CASE n = s[i].node /\ i > 1 /\ s[i - 1].duplicate = x
        BY Zenon, <3>1, <3>2 DEF Open
      <3>3. CASE Pending(l, r, s[i], n) \/ (n = s[i].node /\ ~s[i].inLeaf)
        <4>1. \/ Pending(l, r, f, n)
              \/ n = f.node /\ (~f.inLeaf \/ x = Duplicate(l, r, n))
              \/ Told(w, V2, t, cmp2, x, n)
          BY Zenon, <2>3, <3>3 DEF TopCloses, m
        <4>2. CASE n = f.node /\ x = Duplicate(l, r, n)
          <5>1. n # <<>>
            BY DEF Difference, Sides
          <5>2. i > 1
            BY Zenon, <2>3, <4>2, <5>1 DEF m
          <5>3. t[i - 1].duplicate = x
            BY Zenon, <1>4, <3>1, <4>2, <5>2 DEF ProgressInv
          <5> QED  BY Zenon, <3>1, <4>2, <5>2, <5>3 DEF Open
        <4> QED  BY Zenon, <3>1, <4>1, <4>2 DEF Open
      <3> QED  BY Zenon, <2>1, <3>2, <3>3
    <2> QED  BY Zenon, <2>2, <2>3
  <1> QED  BY Zenon, <1>2, <1>4, <1>5, DoneStep DEF Report

(* The walkers after prepareDescent and finishDescent. *)
Descended(s, t, f, f2) ==
    /\ DOMAIN t = 1 .. (Len(s) + 1) /\ Len(t) = Len(s) + 1
    /\ t[Len(s)] = f /\ t[Len(s) + 1] = f2
    /\ \A i \in DOMAIN s : i # Len(s) => t[i] = s[i]

Ascended(s, t, f) ==
    /\ DOMAIN t = 1 .. (Len(s) - 1) /\ Len(t) = Len(s) - 1
    /\ t[Len(s) - 1] = f
    /\ \A i \in 1 .. (Len(s) - 1) : i # Len(s) - 1 => t[i] = s[i]

(* The walkers of a descent. *)
LEMMA DescendedFacts ==
    ASSUME NEW s \in Seq(Frames), s # <<>>, NEW f \in Frames, NEW f2 \in Frames
    PROVE  Descended(s, Front(s) \o <<f, f2>>, f, f2)
  <1> DEFINE u == Front(s) \o <<f>>
             t == Front(s) \o <<f, f2>>
             m == Len(s)
  <1>1. /\ m \in Nat \ {0} /\ u \in Seq(Frames) /\ Len(u) = m /\ u[m] = f
        /\ \A i \in 1 .. (m - 1) : u[i] = s[i]
    BY ReplaceTop, FrontFacts
  <1>2. t = Append(u, f2) /\ DOMAIN s = 1 .. m
    BY PushIsAppend
  <1> HIDE DEF u, t, m
  <1>3. /\ DOMAIN t = 1 .. (m + 1) /\ Len(t) = m + 1 /\ t[m + 1] = f2
        /\ \A i \in 1 .. m : t[i] = u[i]
    BY <1>1, <1>2
  <1>4. t[m] = f /\ \A i \in DOMAIN s : i # m => t[i] = s[i]
    BY <1>1, <1>2, <1>3
  <1> QED  BY Zenon, <1>3, <1>4 DEF Descended, t, m

(* The walkers when one ends. *)
LEMMA AscendedFacts ==
    ASSUME NEW s \in Seq(Frames), Len(s) > 1, NEW f \in Frames
    PROVE  Ascended(s, Front(Front(s)) \o <<f>>, f)
  <1>1. s # <<>> /\ Len(s) \in Nat
    OBVIOUS
  <1> DEFINE u == Front(s)
             t == Front(u) \o <<f>>
             m == Len(s) - 1
  <1>2. u \in Seq(Frames) /\ Len(u) = m /\ \A i \in 1 .. m : u[i] = s[i]
    BY Zenon, <1>1, FrontFacts
  <1>3. m \in Nat \ {0}
    <2>1. \A k \in Nat : k > 1 => k - 1 \in Nat \ {0}
      OBVIOUS
    <2> QED  BY Zenon, <1>1, <2>1
  <1> HIDE DEF u, m
  <1>4. u # <<>>
    BY Zenon, <1>2, <1>3
  <1>5. TopReplaced(u, t, f) /\ t \in Seq(Frames)
    BY Zenon, <1>2, <1>4, TopReplacedFacts
  <1> HIDE DEF t
  <1>6. /\ Len(t) = m /\ t[m] = f /\ DOMAIN t = 1 .. m
        /\ \A i \in 1 .. m : i # m => t[i] = s[i]
    BY <1>2, <1>3, <1>5 DEF TopReplaced
  <1> QED  BY Zenon, <1>6 DEF Ascended, m, t, u

(* A walker descends to the child q, which f2 compares. *)
LEMMA DescentReports ==
    ASSUME NEW w, NEW V, NEW s \in Seq(Frames), s # <<>>, NEW l \in Objects, NEW r \in Objects,
           NEW cmp, Report(w, V, s, l, r, cmp),
           NEW V2, NEW f, NEW f2, NEW t, Descended(s, t, f, f2), Stays(V, s, V2, t),
           f.node = s[Len(s)].node, f.inLeaf = s[Len(s)].inLeaf, FrameInv(l, r, f),
           f2.duplicate = "no", FrameInv(l, r, f2), f2.node \in Nodes,
           f2.phase = "compare", ~f2.inLeaf,
           f.duplicate = Duplicate(l, r, f2.node),
           Rest(l, r, s[Len(s)]) \subseteq Rest(l, r, f) \cup {f2.node}
    PROVE  Report(w, V2, t, l, r, cmp)
  <1> DEFINE m == Len(s)
  <1>1. /\ m \in Nat \ {0} /\ DOMAIN s = 1 .. m /\ DOMAIN t = 1 .. (m + 1) /\ Len(t) = m + 1
        /\ t[m] = f /\ t[m + 1] = f2
        /\ \A i \in 1 .. m : i # m => t[i] = s[i]
    BY DEF Descended
  <1> HIDE DEF m
  <1>2. ProgressInv(l, r, s) /\ DoneInv(w, V, s, l, r, cmp)
    BY Zenon DEF Report
  <1>3. \A i \in DOMAIN s : i > 1 => i - 1 \in DOMAIN s /\ t[i - 1] = s[i - 1] /\ t[i].node = s[i].node
    BY <1>1
  <1>4. \A i \in DOMAIN t : i # m + 1 => i \in DOMAIN s
    BY <1>1
  <1>5. m + 1 - 1 = m
    BY <1>1
  <1>6. ProgressInv(l, r, t)
    <2>1. \A i \in DOMAIN t : FrameInv(l, r, t[i])
      BY <1>1, <1>2 DEF ProgressInv
    <2>2. \A i \in DOMAIN t : i > 1 => t[i - 1].duplicate = Duplicate(l, r, t[i].node)
      BY <1>1, <1>2, <1>3, <1>4, <1>5 DEF ProgressInv
    <2> QED  BY Zenon, <1>1, <2>1, <2>2 DEF ProgressInv
  <1>7. Closes(w, V2, s, t, l, r, cmp)
    <2> SUFFICES ASSUME NEW x \in Sides, NEW n \in Difference(l, r)[x], Open(l, r, s, x, n)
                 PROVE  Open(l, r, t, x, n)
      BY Zenon DEF Closes
    <2>1. PICK i \in DOMAIN s :
            \/ Pending(l, r, s[i], n)
            \/ n = s[i].node /\ (~s[i].inLeaf \/ (i > 1 /\ s[i - 1].duplicate = x))
      BY Zenon DEF Open
    <2>2. i \in DOMAIN t /\ (i > 1 => t[i - 1] = s[i - 1])
      BY <1>1, <1>3
    <2>3. CASE i # m
      <3>1. t[i] = s[i]
        BY Zenon, <1>1, <2>3
      <3> QED  BY Zenon, <2>1, <2>2, <3>1 DEF Open
    <2>4. CASE i = m
      <3>1. t[i] = f /\ s[i] = s[Len(s)] /\ f.node = s[i].node /\ f.inLeaf = s[i].inLeaf
        BY Zenon, <1>1, <2>4 DEF m
      <3>2. CASE ~Pending(l, r, s[i], n)
        BY Zenon, <2>1, <2>2, <3>1, <3>2 DEF Open
      <3>3. CASE Pending(l, r, s[i], n)
        <4>1. PICK q \in Rest(l, r, s[i]) : Under(n, q)
          BY Zenon, <3>3 DEF Pending
        <4>2. CASE q \in Rest(l, r, f)
          BY Zenon, <2>2, <3>1, <4>1, <4>2 DEF Open, Pending
        <4>3. CASE q = f2.node
          <5>1. m + 1 \in DOMAIN t /\ t[m + 1] = f2
            BY <1>1
          <5>2. CASE n = q
            BY Zenon, <4>3, <5>1, <5>2 DEF Open
          <5>3. CASE n # q
            <6>1. n \in DOMAIN l \/ n \in DOMAIN r
              BY Zenon, DifferenceFacts DEF Compared
            <6>2. \E q2 \in Children(l, q) \cup Children(r, q) : Under(n, q2)
              BY Zenon, <4>1, <4>3, <5>3, <6>1, UnderChild
            <6>3. Rest(l, r, f2) = Children(l, q) \cup Children(r, q)
              BY Zenon, <4>3 DEF Rest
            <6> QED  BY Zenon, <5>1, <6>2, <6>3 DEF Open, Pending
          <5> QED  BY Zenon, <5>2, <5>3
        <4> QED  BY Zenon, <3>1, <4>1, <4>2, <4>3
      <3> QED  BY Zenon, <3>2, <3>3
    <2> QED  BY Zenon, <2>3, <2>4
  <1> QED  BY Zenon, <1>2, <1>6, <1>7, DoneStep, AddsNothing DEF Report

(* What may be open at the walker f2, which ends, is reported; f is the    *)
(* walker it is a descent from.                                            *)
EndCloses(w, V, t, l, r, cmp, f, f2) ==
    \A x \in Sides : \A n \in Difference(l, r)[x] :
      n = f2.node /\ (~f2.inLeaf \/ f.duplicate = x) => Told(w, V, t, cmp, x, n)

(* The walker on top ends, and f is the one below it. *)
LEMMA AscentReports ==
    ASSUME NEW w, NEW V, NEW s \in Seq(Frames), Len(s) > 1, NEW l, NEW r,
           NEW cmp, Report(w, V, s, l, r, cmp),
           NEW V2, NEW f, NEW t, Ascended(s, t, f), Stays(V, s, V2, t),
           f.node = s[Len(s) - 1].node, f.inLeaf = s[Len(s) - 1].inLeaf, FrameInv(l, r, f),
           Rest(l, r, f) = Rest(l, r, s[Len(s) - 1]), f.duplicate = "no",
           s[Len(s)].phase = "end", NEW cmp2,
           Adds(w, V2, t, l, r, cmp, cmp2),
           EndCloses(w, V2, t, l, r, cmp2, s[Len(s) - 1], s[Len(s)])
    PROVE  Report(w, V2, t, l, r, cmp2)
  <1> DEFINE m == Len(s)
  <1>1. /\ m \in Nat /\ m > 1 /\ DOMAIN s = 1 .. m /\ DOMAIN t = 1 .. (m - 1) /\ Len(t) = m - 1
        /\ t[m - 1] = f
        /\ \A i \in 1 .. (m - 1) : i # m - 1 => t[i] = s[i]
    BY DEF Ascended
  <1> HIDE DEF m
  <1>2. ProgressInv(l, r, s) /\ DoneInv(w, V, s, l, r, cmp)
    BY Zenon DEF Report
  <1>3. \A i \in DOMAIN t : i > 1 => /\ i - 1 \in DOMAIN s /\ t[i - 1] = s[i - 1]
                                     /\ t[i].node = s[i].node /\ i \in DOMAIN s
    BY <1>1
  <1>4. ProgressInv(l, r, t)
    <2>1. \A i \in DOMAIN t : FrameInv(l, r, t[i])
      BY <1>1, <1>2 DEF ProgressInv
    <2>2. \A i \in DOMAIN t : i > 1 => t[i - 1].duplicate = Duplicate(l, r, t[i].node)
      BY Zenon, <1>1, <1>2, <1>3 DEF ProgressInv
    <2> QED  BY Zenon, <1>1, <2>1, <2>2 DEF ProgressInv
  <1>5. Closes(w, V2, s, t, l, r, cmp2)
    <2> SUFFICES ASSUME NEW x \in Sides, NEW n \in Difference(l, r)[x], Open(l, r, s, x, n)
                 PROVE  Open(l, r, t, x, n) \/ Told(w, V2, t, cmp2, x, n)
      BY Zenon DEF Closes
    <2>1. PICK i \in DOMAIN s :
            \/ Pending(l, r, s[i], n)
            \/ n = s[i].node /\ (~s[i].inLeaf \/ (i > 1 /\ s[i - 1].duplicate = x))
      BY Zenon DEF Open
    <2>2. CASE i # m
      <3>1. i \in DOMAIN t /\ (i > 1 => t[i - 1] = s[i - 1])
        BY <1>1, <1>3, <2>2
      <3>2. t[i].node = s[i].node /\ t[i].inLeaf = s[i].inLeaf /\ Rest(l, r, t[i]) = Rest(l, r, s[i])
        BY <1>1, <2>2, <3>1
      <3> QED  BY Zenon, <2>1, <3>1, <3>2 DEF Open, Pending
    <2>3. CASE i = m
      <3>1. ~Pending(l, r, s[i], n)
        BY Zenon, <2>3 DEF Pending, Rest, m
      <3>2. n = s[m].node /\ (~s[m].inLeaf \/ s[m - 1].duplicate = x)
        BY Zenon, <2>1, <2>3, <3>1
      <3> QED  BY Zenon, <3>2 DEF EndCloses, m
    <2> QED  BY Zenon, <2>2, <2>3
  <1> QED  BY Zenon, <1>2, <1>4, <1>5, DoneStep DEF Report

(* A step of the walker on top that reports nothing. *)
LEMMA QuietReports ==
    ASSUME NEW w, NEW V, NEW s \in Seq(Frames), s # <<>>, NEW l, NEW r, NEW cmp,
           Report(w, V, s, l, r, cmp),
           NEW V2, NEW t \in Seq(Frames), NEW f, TopReplaced(s, t, f), Stays(V, s, V2, t),
           f.node = s[Len(s)].node, f.inLeaf = s[Len(s)].inLeaf,
           f.node # <<>> => Len(s) > 1, f.duplicate = "no", FrameInv(l, r, f),
           Rest(l, r, s[Len(s)]) \subseteq Rest(l, r, f)
    PROVE  Report(w, V2, t, l, r, cmp)
  <1>1. TopCloses(w, V2, t, l, r, cmp, s[Len(s)], f)
    BY Zenon DEF TopCloses, Pending
  <1>2. Adds(w, V2, t, l, r, cmp, cmp) /\ <<>> \notin Compared(l, r)
    BY Zenon, AddsNothing DEF Compared
  <1> QED  BY Zenon, <1>1, <1>2, TopReports

-----------------------------------------------------------------------------
(* The walkers of a comparison of l with r. *)

(* The walker f becomes f2 and compares the same. *)
SameSides(f, f2) ==
    f2.node = f.node /\ f2.lhs = f.lhs /\ f2.rhs = f.rhs /\ f2.inLeaf = f.inLeaf

(* A node that is not on a side has nothing below it there. *)
LEMMA SideChildren ==
    ASSUME NEW o \in Objects, NEW n \in Nodes, Kind[n] # "scalar", ~OnSide(o, n)
    PROVE  Children(o, n) = {}
  <1>1. n \notin DOMAIN o
    BY Zenon, NodeFacts DEF OnSide
  <1>2. ASSUME NEW q \in Children(o, n) PROVE FALSE
    <2>1. q \in DOMAIN o /\ Len(q) = Len(n) + 1 /\ SubSeq(q, 1, Len(n)) = n /\ Len(n) \in Nat
      BY NodeFacts DEF Children
    <2>2. Len(n) \in 0 .. Len(q)
      BY <2>1
    <2> QED  BY Zenon, <1>1, <2>1, <2>2, ObjectFacts
  <1> QED  BY Zenon, <1>2

(* doMap begins. *)
LEMMA MapBegins ==
    ASSUME NEW l, NEW r, NEW f, NEW f2, FrameInv(l, r, f), SameSides(f, f2),
           f.phase = "compare", Kind[f.node] = "map", ~LeafIn(l, r, f.node),
           f2.phase = "left", f2.todo = Children(l, f.node), f2.todo # {} => f2.entry # 0
    PROVE  FrameInv(l, r, f2) /\ Rest(l, r, f) \subseteq Rest(l, r, f2)
  BY Zenon DEF FrameInv, SameSides, Rest

(* The second iteration of doMap begins. *)
LEMMA MapTurns ==
    ASSUME NEW l, NEW r, NEW f, NEW f2, FrameInv(l, r, f), SameSides(f, f2),
           f.phase = "left", f.todo = {}, f2.phase = "right",
           f2.todo = Children(r, f.node) \ Children(l, f.node), f2.todo # {} => f2.entry # 0
    PROVE  FrameInv(l, r, f2) /\ Rest(l, r, f) \subseteq Rest(l, r, f2)
  BY Zenon DEF FrameInv, SameSides, Rest

(* doList begins. *)
LEMMA ListBegins ==
    ASSUME NEW l, NEW r, NEW f, NEW f2, FrameInv(l, r, f), SameSides(f, f2),
           f.phase = "compare", Kind[f.node] = "list", ~LeafIn(l, r, f.node),
           f2.phase = "items", f2.todo = Children(l, f.node) \cup Children(r, f.node)
    PROVE  FrameInv(l, r, f2) /\ Rest(l, r, f) \subseteq Rest(l, r, f2)
  BY Zenon DEF FrameInv, SameSides, Rest

(* doMap and doList end. *)
LEMMA FrameEnds ==
    ASSUME NEW l, NEW r, NEW f, NEW f2, FrameInv(l, r, f), SameSides(f, f2),
           f.phase \in {"right", "items"}, f.todo = {}, f2.phase = "end"
    PROVE  FrameInv(l, r, f2) /\ Rest(l, r, f) \subseteq Rest(l, r, f2)
  BY Zenon DEF FrameInv, SameSides, Rest

(* A child is taken. *)
LEMMA ChildTaken ==
    ASSUME NEW l, NEW r, NEW f, NEW f2, NEW n, FrameInv(l, r, f), SameSides(f, f2),
           f.phase \in {"left", "right", "items"}, f2.phase = f.phase, f2.entry = f.entry,
           f2.todo = f.todo \ {n}
    PROVE  FrameInv(l, r, f2) /\ Rest(l, r, f) \subseteq Rest(l, r, f2) \cup {n}
  BY Zenon DEF FrameInv, SameSides, Rest

(* What is known of a child that is taken. *)
LEMMA TakenFacts ==
    ASSUME NEW l \in Objects, NEW r \in Objects, NEW f \in Frames, FrameInv(l, r, f),
           f.phase \in {"left", "right", "items"}, NEW n \in f.todo
    PROVE  /\ n \in Compared(l, r) /\ n \in Nodes /\ Front(n) = f.node
           /\ n \in DOMAIN l <=> n \in Children(l, f.node)
           /\ n \in DOMAIN r <=> n \in Children(r, f.node)
           /\ f.phase = "left" => n \in DOMAIN l
           /\ f.phase = "right" => n \in DOMAIN r /\ n \notin DOMAIN l
           /\ n \in DOMAIN l \cup DOMAIN r
  <1>1. f.node \in Nodes /\ ~LeafIn(l, r, f.node) /\ (f.node = <<>> \/ f.node \in Compared(l, r))
    BY Zenon DEF Frames, FrameInv
  <1>2. /\ n \in Children(l, f.node) \cup Children(r, f.node)
        /\ f.phase = "left" => n \in Children(l, f.node)
        /\ f.phase = "right" => n \in Children(r, f.node) \ Children(l, f.node)
    BY Zenon DEF FrameInv
  <1>3. n \in Compared(l, r)
    BY Zenon, <1>1, <1>2, ChildCompared
  <1>4. /\ n \in DOMAIN l <=> n \in Children(l, f.node)
        /\ n \in DOMAIN r <=> n \in Children(r, f.node)
    BY Zenon, <1>2 DEF Children
  <1>5. n \in Nodes /\ n \in ChildrenOf(f.node)
    BY Zenon, <1>2, ObjectFacts DEF Children, ChildrenOf
  <1>6. Front(n) = f.node
    BY Zenon, <1>1, <1>5, ChildFacts
  <1> QED  BY Zenon, <1>2, <1>3, <1>4, <1>5, <1>6

(* The walker for an entry of a map. *)
LEMMA EntryFrame ==
    ASSUME NEW l \in Objects, NEW r \in Objects, NEW f \in Frames, FrameInv(l, r, f),
           f.phase \in {"left", "right"}, NEW n \in f.todo,
           NEW f2, f2.node = n, f2.phase = "compare", ~f2.inLeaf,
           f.phase = "left" => f2.lhs = f.entry /\ (f2.rhs # 0 <=> n \in Children(r, f.node)),
           f.phase = "right" => f2.lhs = 0 /\ f2.rhs = f.entry
    PROVE  FrameInv(l, r, f2) /\ Duplicate(l, r, n) = "no"
  <1>1. Kind[f.node] = "map" /\ f.entry # 0
    BY Zenon DEF FrameInv
  <1>2. /\ n \in Compared(l, r) /\ Front(n) = f.node
        /\ n \in DOMAIN r <=> n \in Children(r, f.node)
        /\ f.phase = "left" => n \in DOMAIN l
        /\ f.phase = "right" => n \in DOMAIN r /\ n \notin DOMAIN l
    BY TakenFacts
  <1>3. ~Item(n)
    BY Zenon, <1>1, <1>2 DEF Item
  <1>4. (OnSide(l, n) <=> n \in DOMAIN l) /\ (OnSide(r, n) <=> n \in DOMAIN r)
    BY Zenon, <1>3 DEF OnSide
  <1>5. (f2.lhs # 0 <=> n \in DOMAIN l) /\ (f2.rhs # 0 <=> n \in DOMAIN r)
        /\ (f2.lhs # 0 \/ f2.rhs # 0)
    BY Zenon, <1>1, <1>2
  <1> QED  BY Zenon, <1>2, <1>3, <1>4, <1>5 DEF FrameInv, Duplicate

(* How often an object has an item. *)
Times(o, n) == IF n \in DOMAIN o THEN o[n] ELSE 0

(* What that says. *)
LEMMA TimesFacts ==
    ASSUME NEW o \in Objects, NEW n \in Nodes, n # <<>>, Item(n)
    PROVE  /\ Times(o, n) \in Nat /\ (Times(o, n) = 0 <=> n \notin DOMAIN o)
           /\ OnSide(o, n) <=> Times(o, n) = 1
           /\ n \in DOMAIN o => o[n] = Times(o, n)
  BY ObjectFacts DEF Times, OnSide

(* The walker for an item of a list. *)
LEMMA ItemFrame ==
    ASSUME NEW l \in Objects, NEW r \in Objects, NEW f \in Frames, FrameInv(l, r, f),
           f.phase = "items", NEW n \in f.todo,
           NEW f2, f2.node = n, f2.phase = "compare", ~f2.inLeaf,
           f2.lhs # 0 <=> Times(l, n) = 1, f2.rhs # 0 <=> Times(r, n) = 1,
           Times(l, n) = 1 \/ Times(r, n) = 1
    PROVE  /\ FrameInv(l, r, f2)
           /\ Duplicate(l, r, n) = IF Times(l, n) > 1 THEN "removed"
                                   ELSE IF Times(r, n) > 1 THEN "added" ELSE "no"
  <1>1. /\ n \in Compared(l, r) /\ n \in Nodes /\ n # <<>> /\ Item(n)
    BY TakenFacts DEF FrameInv, Item, Compared
  <1>2. /\ Times(l, n) \in Nat /\ (Times(l, n) = 0 <=> n \notin DOMAIN l)
        /\ Times(r, n) \in Nat /\ (Times(r, n) = 0 <=> n \notin DOMAIN r)
        /\ OnSide(l, n) <=> Times(l, n) = 1
        /\ OnSide(r, n) <=> Times(r, n) = 1
        /\ n \in DOMAIN l => l[n] = Times(l, n)
        /\ n \in DOMAIN r => r[n] = Times(r, n)
    BY Zenon, <1>1, TimesFacts
  <1>3. FrameInv(l, r, f2)
    BY Zenon, <1>1, <1>2 DEF FrameInv
  <1>4. Duplicate(l, r, n) = IF Times(l, n) > 1 THEN "removed"
                             ELSE IF Times(r, n) > 1 THEN "added" ELSE "no"
    BY <1>1, <1>2 DEF Duplicate
  <1> QED  BY Zenon, <1>3, <1>4

-----------------------------------------------------------------------------
(* What is reported, and what that closes. *)

(* Two reports, one after the other. *)
LEMMA AddsTransitive ==
    ASSUME NEW w, NEW V, NEW s, NEW l, NEW r, NEW cmp, NEW cmp1, NEW cmp2,
           Adds(w, V, s, l, r, cmp, cmp1), Adds(w, V, s, l, r, cmp1, cmp2)
    PROVE  /\ Adds(w, V, s, l, r, cmp, cmp2)
           /\ \A x \in Sides : \A n : Told(w, V, s, cmp1, x, n) => Told(w, V, s, cmp2, x, n)
  BY Zenon DEF Adds, Told

(* The nodes that are pending at a leaf do not differ. *)
LEMMA NothingBelowLeaf ==
    ASSUME NEW l \in Objects, NEW r \in Objects, NEW f \in Frames, f.phase = "compare",
           LeafIn(l, r, f.node), NEW n \in Compared(l, r)
    PROVE  ~Pending(l, r, f, n)
  <1> SUFFICES ASSUME NEW q \in Children(l, f.node) \cup Children(r, f.node), Under(n, q)
               PROVE  FALSE
    BY Zenon DEF Pending, Rest
  <1>1. f.node \in Nodes /\ n \in Nodes
    BY Zenon, ObjectFacts DEF Frames, Compared
  <1>2. f.node \in Seq(STRING) /\ n \in Seq(STRING) /\ q \in Seq(STRING)
    BY Zenon, <1>1, ObjectFacts, NodeFacts DEF Children
  <1>3. Len(q) = Len(f.node) + 1 /\ SubSeq(q, 1, Len(f.node)) = f.node
    BY Zenon DEF Children
  <1>4. Len(q) <= Len(n) /\ SubSeq(n, 1, Len(q)) = q
    BY Zenon DEF Under
  <1> DEFINE k == Len(f.node)
  <1>5. k \in Nat /\ Len(n) \in Nat
    BY <1>2
  <1> HIDE DEF k
  <1>6. k + 1 <= Len(n) /\ SubSeq(SubSeq(n, 1, k + 1), 1, k) = f.node
    BY Zenon, <1>3, <1>4 DEF k
  <1>7. SubSeq(SubSeq(n, 1, k + 1), 1, k) = SubSeq(n, 1, k)
    BY <1>2, <1>5, <1>6
  <1>8. Under(n, f.node) /\ n # f.node
    BY <1>5, <1>6, <1>7 DEF Under, k
  <1> QED  BY Zenon, <1>1, <1>8, ComparedUnder

(* The comparison after doLeaf at f, whose path is path. *)
LeafReport(l, r, cmp, f, path) ==
    IF f.lhs = 0 THEN Insert(cmp, "added", path)
    ELSE IF f.rhs = 0 THEN Insert(cmp, "removed", path)
    ELSE IF l[f.node] # r[f.node] THEN Insert(cmp, "modified", path)
    ELSE cmp

(* doLeaf reports what differs at the leaf. *)
LEMMA LeafCloses ==
    ASSUME NEW w, NEW V, NEW t, NEW l \in Objects, NEW r \in Objects, NEW cmp \in Comparisons,
           NEW f \in Frames, FrameInv(l, r, f), f.phase = "compare", LeafIn(l, r, f.node),
           NEW f2, f2.node = f.node, NEW path \in Seq(Elements), PathReads(w, V, t, path, f.node)
    PROVE  LET cmp2 == LeafReport(l, r, cmp, f, path)
           IN  Adds(w, V, t, l, r, cmp, cmp2) /\ TopCloses(w, V, t, l, r, cmp2, f, f2)
  <1> DEFINE n == f.node
             cmp2 == LeafReport(l, r, cmp, f, path)
             In(x) == n = <<>> \/ n \in Difference(l, r)[x]
  <1>1. /\ n \in Nodes /\ n \in Seq(STRING) /\ (n = <<>> \/ n \in Compared(l, r))
        /\ f.lhs # 0 <=> OnSide(l, n)
        /\ f.rhs # 0 <=> OnSide(r, n)
        /\ OnSide(l, n) \/ OnSide(r, n)
    BY Zenon, NodeFacts DEF Frames, FrameInv
  <1>2. n = <<>> => f.lhs # 0 /\ f.rhs # 0
    BY Zenon, <1>1, ObjectFacts DEF OnSide
  <1>3. /\ f.lhs = 0 => n \in Difference(l, r)["added"]
        /\ f.rhs = 0 => n \in Difference(l, r)["removed"]
    BY Zenon, <1>1, <1>2, OneSided
  <1>4. f.lhs # 0 /\ f.rhs # 0 /\ l[n] # r[n] => n = <<>> \/ n \in Difference(l, r)["modified"]
    BY Zenon, <1>1, BothSided
  <1>5. ASSUME NEW x \in Sides, n = <<>> \/ n \in Difference(l, r)[x]
        PROVE  /\ Adds(w, V, t, l, r, cmp, Insert(cmp, x, path))
               /\ n # <<>> => Told(w, V, t, Insert(cmp, x, path), x, n)
    BY Zenon, <1>1, <1>5, InsertAdds
  <1>6. {"added", "removed", "modified"} \subseteq Sides
    BY Zenon DEF Sides
  <1>7. Adds(w, V, t, l, r, cmp, cmp2)
    BY Zenon, <1>3, <1>4, <1>5, <1>6, AddsNothing DEF LeafReport
  <1>8. ASSUME NEW x \in Sides, n \in Difference(l, r)[x]
        PROVE  x = Duplicate(l, r, n) \/ Told(w, V, t, cmp2, x, n)
    <2>1. n # <<>>
      BY <1>8, DifferenceFacts
    <2>2. \/ x = Duplicate(l, r, n)
          \/ x = "removed" /\ f.rhs = 0
          \/ x = "added" /\ f.lhs = 0
          \/ x = "modified" /\ f.lhs # 0 /\ f.rhs # 0 /\ l[n] # r[n]
      BY <1>1, <1>8, DifferenceFacts
    <2>3. CASE x = "removed" /\ f.rhs = 0
      <3>1. f.lhs # 0
        BY Zenon, <1>1, <2>3
      <3> QED  BY Zenon, <1>5, <1>8, <2>1, <2>3, <3>1 DEF LeafReport
    <2>4. CASE x = "added" /\ f.lhs = 0
      BY Zenon, <1>5, <1>8, <2>1, <2>4 DEF LeafReport
    <2>5. CASE x = "modified" /\ f.lhs # 0 /\ f.rhs # 0 /\ l[n] # r[n]
      BY Zenon, <1>5, <1>8, <2>1, <2>5 DEF LeafReport
    <2> QED  BY Zenon, <2>2, <2>3, <2>4, <2>5
  <1> HIDE DEF cmp2
  <1>9. \A x \in Sides : \A q \in Difference(l, r)[x] : ~Pending(l, r, f, q)
    BY Zenon, DifferenceFacts, NothingBelowLeaf
  <1>10. TopCloses(w, V, t, l, r, cmp2, f, f2)
    BY Zenon, <1>8, <1>9 DEF TopCloses
  <1> QED  BY Zenon, <1>7, <1>10 DEF cmp2

(* The comparison after compare at f2, a descent from f. *)
EndReport(cmp, f, f2, path) ==
    LET cmp1 == InsertMissing(cmp, f2, path)
    IN  IF f.duplicate = "no" THEN cmp1 ELSE Insert(cmp1, f.duplicate, path)

(* The end of compare reports what differs above the leaves, and           *)
(* compareListItem reports duplicates.                                     *)
LEMMA EndClosesNode ==
    ASSUME NEW w, NEW V, NEW t, NEW l \in Objects, NEW r \in Objects, NEW cmp \in Comparisons,
           NEW f2 \in Frames, FrameInv(l, r, f2), f2.phase = "end", f2.node # <<>>,
           NEW f, f.duplicate = Duplicate(l, r, f2.node),
           NEW path \in Seq(Elements), PathReads(w, V, t, path, f2.node)
    PROVE  LET cmp2 == EndReport(cmp, f, f2, path)
           IN  Adds(w, V, t, l, r, cmp, cmp2) /\ EndCloses(w, V, t, l, r, cmp2, f, f2)
  <1> DEFINE n == f2.node
             cmp1 == InsertMissing(cmp, f2, path)
             cmp2 == EndReport(cmp, f, f2, path)
  <1>1. /\ n \in Seq(STRING) /\ n \in Compared(l, r)
        /\ f2.lhs # 0 <=> OnSide(l, n)
        /\ f2.rhs # 0 <=> OnSide(r, n)
        /\ OnSide(l, n) \/ OnSide(r, n)
        /\ ~f2.inLeaf => ~LeafIn(l, r, n)
    BY Zenon, NodeFacts DEF Frames, FrameInv
  <1>2. ASSUME NEW c \in Comparisons, NEW x \in Sides, n \in Difference(l, r)[x]
        PROVE  /\ Adds(w, V, t, l, r, c, Insert(c, x, path))
               /\ Told(w, V, t, Insert(c, x, path), x, n) /\ Insert(c, x, path) \in Comparisons
    BY Zenon, <1>1, <1>2, InsertAdds
  <1>3. {"added", "removed", "modified"} \subseteq Sides
    BY Zenon DEF Sides
  <1>4. /\ Adds(w, V, t, l, r, cmp, cmp1) /\ cmp1 \in Comparisons
        /\ ~f2.inLeaf /\ f2.lhs = 0 => Told(w, V, t, cmp1, "added", n)
        /\ ~f2.inLeaf /\ f2.rhs = 0 => Told(w, V, t, cmp1, "removed", n)
    <2>1. /\ f2.lhs = 0 => n \in Difference(l, r)["added"]
          /\ f2.rhs = 0 => n \in Difference(l, r)["removed"]
      BY Zenon, <1>1, OneSided
    <2>2. CASE f2.inLeaf \/ (f2.lhs # 0 /\ f2.rhs # 0)
      BY Zenon, <2>2, AddsNothing DEF InsertMissing
    <2>3. CASE ~f2.inLeaf /\ f2.lhs = 0
      <3>1. cmp1 = Insert(cmp, "added", path) /\ f2.rhs # 0
        BY Zenon, <1>1, <2>3 DEF InsertMissing
      <3> HIDE DEF cmp1
      <3> QED  BY Zenon, <1>2, <1>3, <2>1, <2>3, <3>1
    <2>4. CASE ~f2.inLeaf /\ f2.lhs # 0 /\ f2.rhs = 0
      <3>1. cmp1 = Insert(cmp, "removed", path)
        BY Zenon, <2>4 DEF InsertMissing
      <3> HIDE DEF cmp1
      <3> QED  BY Zenon, <1>2, <1>3, <2>1, <2>4, <3>1
    <2> QED  BY Zenon, <2>2, <2>3, <2>4
  <1>5. cmp2 = IF f.duplicate = "no" THEN cmp1 ELSE Insert(cmp1, f.duplicate, path)
    BY Zenon DEF EndReport
  <1> HIDE DEF cmp1, cmp2
  <1>6. /\ Adds(w, V, t, l, r, cmp1, cmp2)
        /\ f.duplicate # "no" => Told(w, V, t, cmp2, f.duplicate, n)
    <2>1. CASE f.duplicate = "no"
      BY Zenon, <1>5, <2>1, AddsNothing
    <2>2. CASE f.duplicate # "no"
      <3>1. f.duplicate \in Sides /\ n \in Difference(l, r)[f.duplicate]
        BY Zenon, <1>1, <2>2, DuplicateDiffers
      <3> QED  BY Zenon, <1>2, <1>4, <1>5, <2>2, <3>1
    <2> QED  BY Zenon, <2>1, <2>2
  <1>7. /\ Adds(w, V, t, l, r, cmp, cmp2)
        /\ \A x \in Sides : Told(w, V, t, cmp1, x, n) => Told(w, V, t, cmp2, x, n)
    BY Zenon, <1>4, <1>6, AddsTransitive
  <1>8. ASSUME NEW x \in Sides, n \in Difference(l, r)[x], ~f2.inLeaf \/ f.duplicate = x
        PROVE  Told(w, V, t, cmp2, x, n)
    <2>1. x # "no"
      BY Zenon DEF Sides
    <2>2. CASE f.duplicate = x
      BY Zenon, <1>6, <2>1, <2>2
    <2>3. CASE f.duplicate # x
      <3>1. ~f2.inLeaf /\ ~LeafIn(l, r, n)
        BY Zenon, <1>1, <1>8, <2>3
      <3>2. \/ x = "removed" /\ ~OnSide(r, n)
            \/ x = "added" /\ ~OnSide(l, n)
        BY <1>1, <1>8, <2>3, <3>1, DifferenceFacts
      <3> QED  BY Zenon, <1>1, <1>4, <1>7, <3>1, <3>2
    <2> QED  BY Zenon, <2>2, <2>3
  <1>9. EndCloses(w, V, t, l, r, cmp2, f, f2)
    BY Zenon, <1>8 DEF EndCloses
  <1> QED  BY Zenon, <1>7, <1>9 DEF cmp2

(* The comparison after an item that no side has once. *)
ItemReport(l, r, cmp, n, path) ==
    IF Times(l, n) = Times(r, n) THEN cmp
    ELSE Insert(cmp, IF Times(l, n) = 0 THEN "added"
                     ELSE IF Times(r, n) = 0 THEN "removed" ELSE "modified", path)

(* Duplicates that are not compared are reported when they differ. *)
LEMMA DuplicatesClose ==
    ASSUME NEW w, NEW V, NEW t, NEW l \in Objects, NEW r \in Objects, NEW cmp \in Comparisons,
           NEW f \in Frames, FrameInv(l, r, f), f.phase = "items", NEW n \in f.todo,
           Times(l, n) # 1, Times(r, n) # 1,
           NEW f2, SameSides(f, f2), f2.phase = f.phase, f2.todo = f.todo \ {n},
           NEW path \in Seq(Elements),
           Times(l, n) # Times(r, n) => PathReads(w, V, t, path, n)
    PROVE  LET cmp2 == ItemReport(l, r, cmp, n, path)
           IN  Adds(w, V, t, l, r, cmp, cmp2) /\ TopCloses(w, V, t, l, r, cmp2, f, f2)
  <1> DEFINE cmp2 == ItemReport(l, r, cmp, n, path)
             y == IF Times(l, n) = 0 THEN "added"
                  ELSE IF Times(r, n) = 0 THEN "removed" ELSE "modified"
  <1>1. /\ n \in Compared(l, r) /\ n \in Nodes /\ n # <<>> /\ Item(n) /\ n \in DOMAIN l \cup DOMAIN r
    BY TakenFacts DEF FrameInv, Item, Compared
  <1>2. n \in Seq(STRING) /\ LeafIn(l, r, n)
    BY Zenon, <1>1, NodeFacts, ItemIsLeaf
  <1>3. /\ Times(l, n) \in Nat /\ (Times(l, n) = 0 <=> n \notin DOMAIN l)
        /\ Times(r, n) \in Nat /\ (Times(r, n) = 0 <=> n \notin DOMAIN r)
        /\ ~OnSide(l, n) /\ ~OnSide(r, n)
        /\ n \in DOMAIN l => l[n] = Times(l, n)
        /\ n \in DOMAIN r => r[n] = Times(r, n)
    BY Zenon, <1>1, TimesFacts
  <1>4. /\ n \in Difference(l, r)["removed"] <=> n \notin DOMAIN r
        /\ n \in Difference(l, r)["added"] <=> n \notin DOMAIN l
        /\ n \in Difference(l, r)["modified"] <=> n \in DOMAIN l /\ n \in DOMAIN r /\ l[n] # r[n]
    BY Zenon, <1>1, <1>3, NotOnSides
  <1>5. \A x \in Sides : n \in Difference(l, r)[x] <=> Times(l, n) # Times(r, n) /\ x = y
    <2>1. (n \in DOMAIN l \/ n \in DOMAIN r)
      BY Zenon, <1>1
    <2> QED  BY Zenon, <1>3, <1>4, <2>1 DEF Sides
  <1>6. y \in Sides
    BY Zenon DEF Sides
  <1>7. cmp2 = IF Times(l, n) = Times(r, n) THEN cmp ELSE Insert(cmp, y, path)
    BY Zenon DEF ItemReport
  <1> HIDE DEF cmp2, y
  <1>8. /\ Adds(w, V, t, l, r, cmp, cmp2)
        /\ Times(l, n) # Times(r, n) => Told(w, V, t, cmp2, y, n)
    <2>1. CASE Times(l, n) = Times(r, n)
      BY Zenon, <1>7, <2>1, AddsNothing
    <2>2. CASE Times(l, n) # Times(r, n)
      BY Zenon, <1>1, <1>2, <1>5, <1>6, <1>7, <2>2, InsertAdds
    <2> QED  BY Zenon, <2>1, <2>2
  <1>9. ASSUME NEW x \in Sides, NEW q \in Difference(l, r)[x], Pending(l, r, f, q)
        PROVE  Pending(l, r, f2, q) \/ Told(w, V, t, cmp2, x, q)
    <2>1. PICK c \in f.todo : Under(q, c)
      BY Zenon, <1>9 DEF Pending, Rest
    <2>2. CASE c # n
      BY Zenon, <2>1, <2>2 DEF Pending, Rest
    <2>3. CASE c = n
      <3>1. q = n
        BY Zenon, <1>1, <1>2, <2>1, <2>3, DifferenceFacts, ComparedUnder
      <3> QED  BY Zenon, <1>5, <1>8, <3>1
    <2> QED  BY Zenon, <2>2, <2>3
  <1>10. TopCloses(w, V, t, l, r, cmp2, f, f2)
    <2>1. f2.node = f.node /\ f2.inLeaf = f.inLeaf
      BY Zenon DEF SameSides
    <2> QED  BY Zenon, <1>9, <2>1 DEF TopCloses
  <1> QED  BY Zenon, <1>8, <1>10 DEF cmp2

(* A call begins: everything is open. *)
LEMMA ReportBegins ==
    ASSUME NEW w, NEW V, NEW l \in Objects, NEW r \in Objects, NEW f \in Frames,
           f.node = <<>>, f.phase = "compare", ~f.inLeaf, f.lhs # 0, f.rhs # 0, f.duplicate = "no"
    PROVE  Report(w, V, <<f>>, l, r, EmptyComparison)
  <1> DEFINE s == <<f>>
  <1>1. DOMAIN s = {1} /\ s[1] = f /\ Len(s) = 1
    OBVIOUS
  <1> HIDE DEF s
  <1>2. FrameInv(l, r, f)
    BY Zenon, ObjectFacts DEF FrameInv, OnSide
  <1>3. ProgressInv(l, r, s)
    BY <1>1, <1>2 DEF ProgressInv
  <1>4. ASSUME NEW x \in Sides, NEW n \in Difference(l, r)[x]
        PROVE  Open(l, r, s, x, n)
    <2>1. n \in Compared(l, r) /\ n # <<>> /\ n \in Nodes
      BY DifferenceFacts
    <2>2. (n \in DOMAIN l \/ n \in DOMAIN r) /\ <<>> \in Nodes /\ n \in Seq(STRING)
      BY Zenon, <2>1, ObjectFacts, NodeFacts DEF Compared
    <2>3. Under(n, <<>>)
      BY <2>2 DEF Under
    <2>4. \E q \in Children(l, <<>>) \cup Children(r, <<>>) : Under(n, q)
      BY Zenon, <2>1, <2>2, <2>3, UnderChild
    <2>5. Pending(l, r, f, n)
      BY Zenon, <2>4 DEF Pending, Rest
    <2> QED  BY Zenon, <1>1, <2>5 DEF Open
  <1>5. \A x \in Sides : EmptyComparison[x] = {}
    BY DEF Sides, EmptyComparison
  <1>6. DoneInv(w, V, s, l, r, EmptyComparison)
    BY Zenon, <1>4, <1>5 DEF DoneInv
  <1> QED  BY Zenon, <1>3, <1>6 DEF Report, s

(* A call ends: nothing is open. *)
LEMMA ReportEnds ==
    ASSUME NEW w, NEW V, NEW s \in Seq(Frames), Len(s) = 1, s[1].node = <<>>, s[1].phase = "end",
           NEW l \in Objects, NEW r \in Objects, NEW cmp, Report(w, V, s, l, r, cmp),
           NEW x \in Sides
    PROVE  /\ \A p \in cmp[x] : \E n \in Difference(l, r)[x] : PathReads(w, V, s, p, n)
           /\ \A n \in Difference(l, r)[x] : \E p \in cmp[x] : PathReads(w, V, s, p, n)
  <1>1. ASSUME NEW n \in Difference(l, r)[x]
        PROVE  ~Open(l, r, s, x, n)
    <2>1. n # <<>> /\ DOMAIN s = {1}
      BY DifferenceFacts
    <2> QED  BY Zenon, <2>1 DEF Open, Pending, Rest
  <1> QED  BY <1>1 DEF Report, DoneInv
=============================================================================
