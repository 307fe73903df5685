---------------------------- MODULE SliceProofs -----------------------------
(***************************************************************************)
(* Loops that walk two slices at once.  Those of PathElementSet keep the   *)
(* slices sorted and compute the union, the intersection and the           *)
(* difference, for all slices.  That of visitListItems puts out every item *)
(* once, and in the order of the left list unless the right one differs,   *)
(* for lists of any length.                                                *)
(***************************************************************************)
EXTENDS SortedSet, ListMerge, SequenceTheorems, TLAPS

(* The loop is past the same values in both slices, and out has what the   *)
(* operation selects of these.                                             *)
LoopInv ==
    /\ Sorted(out)
    /\ op = "none" => i = 0 /\ j = 0
    /\ op # "none" =>
         /\ \A e \in Elem : Among(out, Len(out), e) <=> Selected(op, i, j, e)
         /\ \A k \in 1 .. i : j < Len(t) => s[k] < t[j + 1]
         /\ \A k \in 1 .. j : i < Len(s) => t[k] < s[i + 1]

IInv == TypeOK /\ SlicesSorted /\ LoopInv

(* What Append adds to the members of a slice. *)
LEMMA AppendAmong ==
    ASSUME NEW q \in Seq(Elem), NEW x \in Elem, NEW e
    PROVE  Among(Append(q, x), Len(Append(q, x)), e) <=> Among(q, Len(q), e) \/ e = x
  BY DEF Among

(* An element that is greater than all others is appended in order. *)
LEMMA AppendSorted ==
    ASSUME NEW q \in Seq(Elem), Sorted(q), NEW x \in Elem,
           \A k \in 1 .. Len(q) : q[k] < x
    PROVE  Append(q, x) \in Seq(Elem) /\ Sorted(Append(q, x))
  BY ElemAssumption DEF Sorted

(* Among, one element further. *)
LEMMA AmongNext ==
    ASSUME NEW q \in Seq(Elem), NEW n \in 0 .. Len(q) - 1, NEW e
    PROVE  Among(q, n + 1, e) <=> Among(q, n, e) \/ e = q[n + 1]
  BY DEF Among

(* The rest of a slice. *)
LEMMA RestOfSlice ==
    ASSUME NEW q \in Seq(Elem), NEW n \in 0 .. Len(q)
    PROVE  /\ Rest(q, n) \in Seq(Elem)
           /\ Len(Rest(q, n)) = Len(q) - n
           /\ \A k \in 1 .. Len(q) - n : Rest(q, n)[k] = q[n + k]
  BY DEF Rest

(* Two slices one after the other. *)
LEMMA ConcatSlices ==
    ASSUME NEW p \in Seq(Elem), NEW q \in Seq(Elem), Sorted(p), Sorted(q),
           \A k \in 1 .. Len(p), l \in 1 .. Len(q) : p[k] < q[l]
    PROVE  /\ p \o q \in Seq(Elem)
           /\ Sorted(p \o q)
           /\ \A e : Among(p \o q, Len(p \o q), e) <=>
                       Among(p, Len(p), e) \/ Among(q, Len(q), e)
<1>1. /\ p \o q \in Seq(Elem)
      /\ Len(p \o q) = Len(p) + Len(q)
      /\ \A k \in 1 .. Len(p) + Len(q) :
            (p \o q)[k] = IF k <= Len(p) THEN p[k] ELSE q[k - Len(p)]
  BY Zenon, ConcatProperties
<1>2. Sorted(p \o q)
  <2> SUFFICES ASSUME NEW k \in 1 .. Len(p) + Len(q), NEW l \in 1 .. Len(p) + Len(q),
                      k < l
               PROVE  (p \o q)[k] < (p \o q)[l]
    BY Zenon, <1>1 DEF Sorted
  <2>1. CASE l <= Len(p)
    BY <1>1, <2>1 DEF Sorted
  <2>2. CASE k <= Len(p) /\ l > Len(p)
    <3>1. l - Len(p) \in 1 .. Len(q) /\ k \in 1 .. Len(p)
      BY <2>2
    <3> QED
      BY <1>1, <2>2, <3>1
  <2>3. CASE k > Len(p)
    <3>1. /\ k - Len(p) \in 1 .. Len(q) /\ l - Len(p) \in 1 .. Len(q)
          /\ k - Len(p) < l - Len(p) /\ ~(k <= Len(p)) /\ ~(l <= Len(p))
      BY <2>3
    <3>2. (p \o q)[k] = q[k - Len(p)] /\ (p \o q)[l] = q[l - Len(p)]
      BY Zenon, <1>1, <3>1
    <3> QED
      BY Zenon, <3>1, <3>2 DEF Sorted
  <2> QED
    BY <2>1, <2>2, <2>3
<1>3. ASSUME NEW e, Among(p \o q, Len(p \o q), e)
      PROVE  Among(p, Len(p), e) \/ Among(q, Len(q), e)
  BY <1>1, <1>3 DEF Among
<1>4. ASSUME NEW e, Among(p, Len(p), e) \/ Among(q, Len(q), e)
      PROVE  Among(p \o q, Len(p \o q), e)
  <2>1. CASE Among(p, Len(p), e)
    BY <1>1, <2>1 DEF Among
  <2>2. CASE Among(q, Len(q), e)
    <3>1. PICK l \in 1 .. Len(q) : q[l] = e
      BY Zenon, <2>2 DEF Among
    <3>2. l + Len(p) \in 1 .. Len(p \o q) /\ (p \o q)[l + Len(p)] = e
      BY <1>1, <3>1
    <3> QED
      BY Zenon, <3>2 DEF Among
  <2> QED
    BY Zenon, <1>4, <2>1, <2>2
<1> QED
  BY Zenon, <1>1, <1>2, <1>3, <1>4

(* What the invariant says while a loop runs. *)
LEMMA RunningLoop ==
    ASSUME IInv, op \in Ops
    PROVE  /\ s \in Seq(Elem) /\ t \in Seq(Elem) /\ out \in Seq(Elem)
           /\ i \in 0 .. Len(s) /\ j \in 0 .. Len(t)
           /\ \A k \in 1 .. Len(s) : s[k] \in Elem /\ s[k] \in Int
           /\ \A k \in 1 .. Len(t) : t[k] \in Elem /\ t[k] \in Int
           /\ \A k \in 1 .. Len(out) : out[k] \in Elem
           /\ Sorted(s) /\ Sorted(t) /\ Sorted(out)
           /\ \A e \in Elem : Among(out, Len(out), e) <=> Selected(op, i, j, e)
           /\ \A k \in 1 .. i : j < Len(t) => s[k] < t[j + 1]
           /\ \A k \in 1 .. j : i < Len(s) => t[k] < s[i + 1]
<1>1. TypeOK /\ SlicesSorted /\ LoopInv /\ op # "none"
  BY Zenon DEF IInv, Ops
<1>2. /\ s \in Seq(Elem) /\ t \in Seq(Elem) /\ out \in Seq(Elem)
      /\ i \in 0 .. Len(s) /\ j \in 0 .. Len(t)
  BY Zenon, <1>1 DEF TypeOK
<1>3. \A q \in Seq(Elem) : \A k \in 1 .. Len(q) : q[k] \in Elem
  OBVIOUS
<1>4. \A e \in Elem : e \in Int
  BY Zenon, ElemAssumption
<1>5. /\ \A k \in 1 .. Len(s) : s[k] \in Elem /\ s[k] \in Int
      /\ \A k \in 1 .. Len(t) : t[k] \in Elem /\ t[k] \in Int
      /\ \A k \in 1 .. Len(out) : out[k] \in Elem
  BY Zenon, <1>2, <1>3, <1>4
<1>6. Sorted(s) /\ Sorted(t) /\ Sorted(out)
  BY Zenon, <1>1 DEF SlicesSorted, LoopInv
<1>7. /\ \A e \in Elem : Among(out, Len(out), e) <=> Selected(op, i, j, e)
      /\ \A k \in 1 .. i : j < Len(t) => s[k] < t[j + 1]
      /\ \A k \in 1 .. j : i < Len(s) => t[k] < s[i + 1]
  BY Zenon, <1>1 DEF LoopInv
<1> QED
  BY Zenon, <1>2, <1>5, <1>6, <1>7

(* Whatever a loop has put out is less than what s has left, and for a     *)
(* union less than what t has left.                                        *)
LEMMA OutIsBehind ==
    ASSUME IInv, op \in Ops
    PROVE  \A k \in 1 .. Len(out) :
             /\ i < Len(s) => out[k] < s[i + 1]
             /\ j < Len(t) => out[k] < t[j + 1]
<1> TAKE k \in 1 .. Len(out)
<1>1. Among(out, Len(out), out[k])
  BY Zenon, RunningLoop DEF Among
<1>2. Selected(op, i, j, out[k])
  BY Zenon, <1>1, RunningLoop
<1>3. Among(s, i, out[k]) \/ Among(t, j, out[k])
  BY Zenon, <1>2 DEF Selected
<1>4. CASE Among(s, i, out[k])
  <2>1. PICK m \in 1 .. i : s[m] = out[k]
    BY Zenon, <1>4 DEF Among
  <2>2. i < Len(s) => s[m] < s[i + 1]
    <3>1. i < Len(s) => m \in 1 .. Len(s) /\ i + 1 \in 1 .. Len(s) /\ m < i + 1
      BY RunningLoop
    <3> QED
      BY Zenon, <3>1, RunningLoop DEF Sorted
  <2>3. j < Len(t) => s[m] < t[j + 1]
    BY Zenon, RunningLoop
  <2> QED
    BY Zenon, <2>1, <2>2, <2>3
<1>5. CASE Among(t, j, out[k])
  <2>1. PICK m \in 1 .. j : t[m] = out[k]
    BY Zenon, <1>5 DEF Among
  <2>2. j < Len(t) => t[m] < t[j + 1]
    <3>1. j < Len(t) => m \in 1 .. Len(t) /\ j + 1 \in 1 .. Len(t) /\ m < j + 1
      BY RunningLoop
    <3> QED
      BY Zenon, <3>1, RunningLoop DEF Sorted
  <2>3. i < Len(s) => t[m] < s[i + 1]
    BY Zenon, RunningLoop
  <2> QED
    BY Zenon, <2>1, <2>2, <2>3
<1> QED
  BY Zenon, <1>3, <1>4, <1>5

(* Past m elements of s and n of t, both slices are past the same values. *)
Abreast(m, n) ==
    /\ \A k \in 1 .. m : n < Len(t) => s[k] < t[n + 1]
    /\ \A k \in 1 .. n : m < Len(s) => t[k] < s[m + 1]

(* The next elements of both slices. *)
LEMMA NextElements ==
    ASSUME IInv, op \in Ops, InLoop
    PROVE  /\ i + 1 \in 1 .. Len(s) /\ j + 1 \in 1 .. Len(t)
           /\ s[i + 1] \in Elem /\ s[i + 1] \in Int
           /\ t[j + 1] \in Elem /\ t[j + 1] \in Int
           /\ ~Among(s, i, t[j + 1]) /\ ~Among(t, j, s[i + 1])
           /\ \A e : Among(s, i + 1, e) <=> Among(s, i, e) \/ e = s[i + 1]
           /\ \A e : Among(t, j + 1, e) <=> Among(t, j, e) \/ e = t[j + 1]
           /\ i + 1 < Len(s) => s[i + 1] < s[i + 2] /\ s[i + 2] \in Int
           /\ j + 1 < Len(t) => t[j + 1] < t[j + 2] /\ t[j + 2] \in Int
<1>1. /\ i + 1 \in 1 .. Len(s) /\ j + 1 \in 1 .. Len(t)
      /\ i \in 0 .. Len(s) - 1 /\ j \in 0 .. Len(t) - 1
  BY RunningLoop DEF InLoop
<1>2. /\ s[i + 1] \in Elem /\ s[i + 1] \in Int
      /\ t[j + 1] \in Elem /\ t[j + 1] \in Int
  BY Zenon, <1>1, RunningLoop
<1>3. \A k \in 1 .. i : s[k] < t[j + 1] /\ s[k] \in Int
  BY <1>1, RunningLoop DEF InLoop
<1>4. \A k \in 1 .. j : t[k] < s[i + 1] /\ t[k] \in Int
  BY <1>1, RunningLoop DEF InLoop
<1>5. ~Among(s, i, t[j + 1])
  BY <1>2, <1>3 DEF Among
<1>6. ~Among(t, j, s[i + 1])
  BY <1>2, <1>4 DEF Among
<1>7. \A e : Among(s, i + 1, e) <=> Among(s, i, e) \/ e = s[i + 1]
  BY Zenon, <1>1, RunningLoop, AmongNext
<1>8. \A e : Among(t, j + 1, e) <=> Among(t, j, e) \/ e = t[j + 1]
  BY Zenon, <1>1, RunningLoop, AmongNext
<1>9. ASSUME i + 1 < Len(s)
      PROVE  s[i + 1] < s[i + 2] /\ s[i + 2] \in Int
  <2>1. i + 2 \in 1 .. Len(s) /\ i + 1 < i + 2
    BY <1>1, <1>9
  <2> QED
    BY Zenon, <1>1, <2>1, RunningLoop DEF Sorted
<1>10. ASSUME j + 1 < Len(t)
       PROVE  t[j + 1] < t[j + 2] /\ t[j + 2] \in Int
  <2>1. j + 2 \in 1 .. Len(t) /\ j + 1 < j + 2
    BY <1>1, <1>10
  <2> QED
    BY Zenon, <1>1, <2>1, RunningLoop DEF Sorted
<1> QED
  BY Zenon, <1>1, <1>2, <1>5, <1>6, <1>7, <1>8, <1>9, <1>10

(* The three ways in which the loops move on. *)
LEMMA StayAbreast ==
    ASSUME IInv, op \in Ops, InLoop
    PROVE  /\ s[i + 1] < t[j + 1] => Abreast(i + 1, j)
           /\ t[j + 1] < s[i + 1] => Abreast(i, j + 1)
           /\ s[i + 1] = t[j + 1] => Abreast(i + 1, j + 1)
<1>1. \A k \in 1 .. i : s[k] < t[j + 1] /\ s[k] \in Int
  BY RunningLoop DEF InLoop
<1>2. \A k \in 1 .. j : t[k] < s[i + 1] /\ t[k] \in Int
  BY RunningLoop DEF InLoop
<1>3. i \in Nat /\ j \in Nat
  BY RunningLoop
<1>4. ASSUME s[i + 1] < t[j + 1] PROVE Abreast(i + 1, j)
  <2>1. \A k \in 1 .. i + 1 : s[k] < t[j + 1]
    BY <1>1, <1>3, <1>4
  <2>2. i + 1 < Len(s) => \A k \in 1 .. j : t[k] < s[i + 2]
    BY <1>2, NextElements
  <2> QED
    BY <1>3, <2>1, <2>2 DEF Abreast
<1>5. ASSUME t[j + 1] < s[i + 1] PROVE Abreast(i, j + 1)
  <2>1. \A k \in 1 .. j + 1 : t[k] < s[i + 1]
    BY <1>2, <1>3, <1>5
  <2>2. j + 1 < Len(t) => \A k \in 1 .. i : s[k] < t[j + 2]
    BY <1>1, NextElements
  <2> QED
    BY <1>3, <2>1, <2>2 DEF Abreast
<1>6. ASSUME s[i + 1] = t[j + 1] PROVE Abreast(i + 1, j + 1)
  <2>1. j + 1 < Len(t) => \A k \in 1 .. i + 1 : s[k] < t[j + 2]
    BY <1>1, <1>3, <1>6, NextElements
  <2>2. i + 1 < Len(s) => \A k \in 1 .. j + 1 : t[k] < s[i + 2]
    BY <1>2, <1>3, <1>6, NextElements
  <2> QED
    BY <1>3, <2>1, <2>2 DEF Abreast
<1> QED
  BY <1>4, <1>5, <1>6

(* A step re-establishes the invariant if it stays abreast and puts out    *)
(* what the operation selects.                                             *)
LEMMA StepIsRight ==
    ASSUME IInv, op \in Ops, UNCHANGED <<s, t, op>>,
           i' \in 0 .. Len(s), j' \in 0 .. Len(t), Abreast(i', j'),
           out' \in Seq(Elem), Sorted(out'),
           \A e \in Elem : Among(out', Len(out'), e) <=> Selected(op, i', j', e)
    PROVE  IInv'
<1>1. TypeOK'
  BY Zenon, RunningLoop DEF TypeOK
<1>2. SlicesSorted'
  BY Zenon, RunningLoop DEF SlicesSorted, Sorted
<1>3. \A e \in Elem : (Among(out, Len(out), e) <=> Selected(op, i, j, e))'
  BY Zenon DEF Selected, Among
<1>4. LoopInv'
  BY Zenon, <1>3 DEF LoopInv, Abreast, Sorted, Ops
<1> QED
  BY Zenon, <1>1, <1>2, <1>4 DEF IInv

(* What Append makes of out in the loops. *)
LEMMA PutOut ==
    ASSUME IInv, op \in Ops, NEW x \in Elem, \A k \in 1 .. Len(out) : out[k] < x
    PROVE  /\ Append(out, x) \in Seq(Elem)
           /\ Sorted(Append(out, x))
           /\ \A e \in Elem :
                 Among(Append(out, x), Len(Append(out, x)), e) <=>
                   Selected(op, i, j, e) \/ e = x
  BY Zenon, RunningLoop, AppendSorted, AppendAmong

(* The step of Union preserves the invariant. *)
LEMMA UnionStepInv == ASSUME IInv, UnionStep PROVE IInv'
<1>1. op = "union" /\ op \in Ops /\ InLoop /\ UNCHANGED <<s, t, op>>
  BY Zenon DEF UnionStep, Ops
<1>2. i \in 0 .. Len(s) - 1 /\ j \in 0 .. Len(t) - 1
  BY <1>1, RunningLoop DEF InLoop
<1>3. CASE s[i + 1] < t[j + 1]
  <2>1. out' = Append(out, s[i + 1]) /\ i' = i + 1 /\ j' = j
    BY Zenon, <1>3 DEF UnionStep
  <2>2. \A e \in Elem : Among(out', Len(out'), e) <=> Selected(op, i', j', e)
    BY Zenon, <1>1, <2>1, NextElements, PutOut, OutIsBehind DEF Selected, InLoop
  <2>3. out' \in Seq(Elem) /\ Sorted(out')
    BY Zenon, <1>1, <2>1, NextElements, PutOut, OutIsBehind DEF InLoop
  <2>4. i' \in 0 .. Len(s) /\ j' \in 0 .. Len(t) /\ Abreast(i', j')
    BY <1>1, <1>2, <1>3, <2>1, StayAbreast
  <2> QED
    BY Zenon, <1>1, <2>2, <2>3, <2>4, StepIsRight
<1>4. CASE t[j + 1] < s[i + 1]
  <2>1. out' = Append(out, t[j + 1]) /\ i' = i /\ j' = j + 1
    BY <1>1, <1>4, NextElements DEF UnionStep
  <2>2. \A e \in Elem : Among(out', Len(out'), e) <=> Selected(op, i', j', e)
    BY Zenon, <1>1, <2>1, NextElements, PutOut, OutIsBehind DEF Selected, InLoop
  <2> QED
    BY <1>1, <1>2, <1>4, <2>1, <2>2, NextElements, PutOut, OutIsBehind,
       StayAbreast, StepIsRight DEF InLoop
<1>5. CASE s[i + 1] = t[j + 1]
  <2>1. out' = Append(out, t[j + 1]) /\ i' = i + 1 /\ j' = j + 1
    BY <1>1, <1>5, NextElements DEF UnionStep
  <2>2. \A e \in Elem : Among(out', Len(out'), e) <=> Selected(op, i', j', e)
    BY Zenon, <1>1, <1>5, <2>1, NextElements, PutOut, OutIsBehind DEF Selected,
       InLoop
  <2> QED
    BY <1>1, <1>2, <1>5, <2>1, <2>2, NextElements, PutOut, OutIsBehind,
       StayAbreast, StepIsRight DEF InLoop
<1> QED
  BY <1>1, <1>3, <1>4, <1>5, NextElements

(* The step of Intersection preserves the invariant. *)
LEMMA IntersectionStepInv == ASSUME IInv, IntersectionStep PROVE IInv'
<1>1. op = "intersection" /\ op \in Ops /\ InLoop /\ UNCHANGED <<s, t, op>>
  BY Zenon DEF IntersectionStep, Ops
<1>2. i \in 0 .. Len(s) - 1 /\ j \in 0 .. Len(t) - 1
  BY <1>1, RunningLoop DEF InLoop
<1>3. CASE s[i + 1] < t[j + 1]
  <2>1. out' = out /\ i' = i + 1 /\ j' = j
    BY Zenon, <1>3 DEF IntersectionStep
  <2>2. \A e \in Elem : Among(out', Len(out'), e) <=> Selected(op, i', j', e)
    BY Zenon, <1>1, <2>1, NextElements, RunningLoop DEF Selected
  <2> QED
    BY <1>1, <1>2, <1>3, <2>1, <2>2, RunningLoop, StayAbreast, StepIsRight
<1>4. CASE t[j + 1] < s[i + 1]
  <2>1. out' = out /\ i' = i /\ j' = j + 1
    BY <1>1, <1>4, NextElements DEF IntersectionStep
  <2>2. \A e \in Elem : Among(out', Len(out'), e) <=> Selected(op, i', j', e)
    BY Zenon, <1>1, <2>1, NextElements, RunningLoop DEF Selected
  <2> QED
    BY <1>1, <1>2, <1>4, <2>1, <2>2, RunningLoop, StayAbreast, StepIsRight
<1>5. CASE s[i + 1] = t[j + 1]
  <2>1. out' = Append(out, s[i + 1]) /\ i' = i + 1 /\ j' = j + 1
    BY <1>1, <1>5, NextElements DEF IntersectionStep
  <2>2. \A e \in Elem : Among(out', Len(out'), e) <=> Selected(op, i', j', e)
    BY Zenon, <1>1, <1>5, <2>1, NextElements, PutOut, OutIsBehind DEF Selected,
       InLoop
  <2> QED
    BY <1>1, <1>2, <1>5, <2>1, <2>2, NextElements, PutOut, OutIsBehind,
       StayAbreast, StepIsRight DEF InLoop
<1> QED
  BY <1>1, <1>3, <1>4, <1>5, NextElements

(* The step of Difference preserves the invariant. *)
LEMMA DifferenceStepInv == ASSUME IInv, DifferenceStep PROVE IInv'
<1>1. op = "difference" /\ op \in Ops /\ InLoop /\ UNCHANGED <<s, t, op>>
  BY Zenon DEF DifferenceStep, Ops
<1>2. i \in 0 .. Len(s) - 1 /\ j \in 0 .. Len(t) - 1
  BY <1>1, RunningLoop DEF InLoop
<1>3. CASE s[i + 1] < t[j + 1]
  <2>1. out' = Append(out, s[i + 1]) /\ i' = i + 1 /\ j' = j
    BY Zenon, <1>3 DEF DifferenceStep
  <2>2. \A e \in Elem : Among(out', Len(out'), e) <=> Selected(op, i', j', e)
    BY Zenon, <1>1, <2>1, NextElements, PutOut, OutIsBehind DEF Selected, InLoop
  <2>3. out' \in Seq(Elem) /\ Sorted(out')
    BY Zenon, <1>1, <2>1, NextElements, PutOut, OutIsBehind DEF InLoop
  <2>4. i' \in 0 .. Len(s) /\ j' \in 0 .. Len(t) /\ Abreast(i', j')
    BY <1>1, <1>2, <1>3, <2>1, StayAbreast
  <2> QED
    BY Zenon, <1>1, <2>2, <2>3, <2>4, StepIsRight
<1>4. CASE t[j + 1] < s[i + 1]
  <2>1. out' = out /\ i' = i /\ j' = j + 1
    BY <1>1, <1>4, NextElements DEF DifferenceStep
  <2>2. \A e \in Elem : Among(out', Len(out'), e) <=> Selected(op, i', j', e)
    BY Zenon, <1>1, <2>1, NextElements, RunningLoop DEF Selected
  <2> QED
    BY <1>1, <1>2, <1>4, <2>1, <2>2, RunningLoop, StayAbreast, StepIsRight
<1>5. CASE s[i + 1] = t[j + 1]
  <2>1. out' = out /\ i' = i + 1 /\ j' = j + 1
    BY <1>1, <1>5, NextElements DEF DifferenceStep
  <2>2. \A e \in Elem : Among(out', Len(out'), e) <=> Selected(op, i', j', e)
    BY Zenon, <1>1, <1>5, <2>1, NextElements, RunningLoop DEF Selected
  <2> QED
    BY <1>1, <1>2, <1>5, <2>1, <2>2, RunningLoop, StayAbreast, StepIsRight
<1> QED
  BY <1>1, <1>3, <1>4, <1>5, NextElements

(* A slice is its first n elements and the rest of it. *)
LEMMA SliceAndRest ==
    ASSUME NEW q \in Seq(Elem), NEW n \in 0 .. Len(q), Sorted(q)
    PROVE  /\ Rest(q, n) \in Seq(Elem)
           /\ Len(Rest(q, n)) = Len(q) - n
           /\ Sorted(Rest(q, n))
           /\ \A e : Among(q, Len(q), e) <=>
                        Among(q, n, e) \/ Among(Rest(q, n), Len(Rest(q, n)), e)
           /\ \A k \in 1 .. Len(Rest(q, n)) :
                 n < Len(q) /\ Rest(q, n)[k] \in Int /\ q[n + 1] <= Rest(q, n)[k]
<1> DEFINE r == Rest(q, n)
<1>1. r \in Seq(Elem) /\ Len(r) = Len(q) - n
  BY Zenon, RestOfSlice
<1>2. \A k \in 1 .. Len(r) : n + k \in 1 .. Len(q) /\ r[k] = q[n + k] /\ r[k] \in Int
  <2>1. \A k \in 1 .. Len(q) - n : r[k] = q[n + k]
    BY Zenon, RestOfSlice
  <2> HIDE DEF r
  <2> TAKE k \in 1 .. Len(r)
  <2>2. k \in 1 .. Len(q) - n /\ n + k \in 1 .. Len(q)
    BY <1>1
  <2>3. r[k] = q[n + k]
    BY Zenon, <2>1, <2>2
  <2>4. r[k] \in Int
    <3>1. q[n + k] \in Elem
      BY <2>2
    <3> QED
      BY Zenon, <2>3, <3>1, ElemAssumption
  <2> QED
    BY Zenon, <2>2, <2>3, <2>4
<1> HIDE DEF r
<1>3. Sorted(r)
  <2> SUFFICES ASSUME NEW k \in 1 .. Len(r), NEW l \in 1 .. Len(r), k < l
               PROVE  r[k] < r[l]
    BY Zenon DEF Sorted
  <2>1. n + k \in 1 .. Len(q) /\ n + l \in 1 .. Len(q) /\ n + k < n + l
    BY <1>2, <1>1
  <2> QED
    BY Zenon, <1>2, <2>1 DEF Sorted
<1>4. \A k \in 1 .. Len(r) : n < Len(q) /\ q[n + 1] <= r[k]
  <2> TAKE k \in 1 .. Len(r)
  <2>1. /\ n + 1 \in 1 .. Len(q) /\ n + k \in 1 .. Len(q) /\ n < Len(q)
        /\ n + 1 = n + k \/ n + 1 < n + k
    BY <1>1, <1>2
  <2>2. q[n + 1] \in Int /\ q[n + k] \in Int /\ r[k] = q[n + k]
    BY <2>1, <1>2, ElemAssumption
  <2> QED
    BY <2>1, <2>2 DEF Sorted
<1>5. ASSUME NEW e, Among(q, Len(q), e) PROVE Among(q, n, e) \/ Among(r, Len(r), e)
  <2>1. PICK k \in 1 .. Len(q) : q[k] = e
    BY Zenon, <1>5 DEF Among
  <2>2. CASE k <= n
    BY <2>1, <2>2 DEF Among
  <2>3. CASE k > n
    <3>1. k - n \in 1 .. Len(r) /\ n + (k - n) = k
      BY <1>1, <2>3
    <3>2. r[k - n] = e
      BY Zenon, <1>2, <2>1, <3>1
    <3> QED
      BY Zenon, <3>1, <3>2 DEF Among
  <2> QED
    BY <2>2, <2>3
<1>6. ASSUME NEW e, Among(q, n, e) \/ Among(r, Len(r), e) PROVE Among(q, Len(q), e)
  BY <1>2, <1>6 DEF Among
<1> QED
  BY Zenon, <1>1, <1>2, <1>3, <1>4, <1>5, <1>6 DEF r

(* The order of three elements. *)
LEMMA BelowTheNext ==
    ASSUME NEW a \in Int, NEW b \in Int, NEW c \in Int, a < b, b <= c
    PROVE  a < c
  OBVIOUS

(* What is left after a loop belongs behind what was put out, and the      *)
(* whole is the result.                                                    *)
LEMMA FinishIsRight ==
    ASSUME IInv, Finish
    PROVE  /\ s' \in Seq(Elem)
           /\ Sorted(s')
           /\ \A e \in Elem : Among(s', Len(s'), e) <=> Selected(op, Len(s), Len(t), e)
<1> DEFINE rs == Rest(s, i)
           rt == Rest(t, j)
<1>1. op \in Ops
  BY Zenon DEF IInv, TypeOK, Finish
<1>2. /\ s \in Seq(Elem) /\ t \in Seq(Elem) /\ out \in Seq(Elem)
      /\ i \in 0 .. Len(s) /\ j \in 0 .. Len(t)
      /\ Sorted(s) /\ Sorted(t) /\ Sorted(out)
      /\ \A e \in Elem : Among(out, Len(out), e) <=> Selected(op, i, j, e)
      /\ \A k \in 1 .. Len(out) : out[k] \in Int
  BY Zenon, <1>1, RunningLoop, ElemAssumption
<1>3. i = Len(s) \/ j = Len(t)
  BY <1>2 DEF Finish, InLoop
<1>4. /\ rs \in Seq(Elem) /\ Len(rs) = Len(s) - i /\ Sorted(rs)
      /\ \A e : Among(s, Len(s), e) <=> Among(s, i, e) \/ Among(rs, Len(rs), e)
      /\ \A k \in 1 .. Len(rs) : i < Len(s) /\ rs[k] \in Int /\ s[i + 1] <= rs[k]
  BY Zenon, <1>2, SliceAndRest
<1>5. /\ rt \in Seq(Elem) /\ Len(rt) = Len(t) - j /\ Sorted(rt)
      /\ \A e : Among(t, Len(t), e) <=> Among(t, j, e) \/ Among(rt, Len(rt), e)
      /\ \A k \in 1 .. Len(rt) : j < Len(t) /\ rt[k] \in Int /\ t[j + 1] <= rt[k]
  BY Zenon, <1>2, SliceAndRest
<1>6. \/ op = "union" /\ s' = (out \o rs) \o rt
      \/ op = "difference" /\ s' = out \o rs
      \/ op = "intersection" /\ s' = out
  BY Zenon DEF Finish
<1> HIDE DEF rs, rt
<1>7. /\ i < Len(s) => s[i + 1] \in Int
      /\ j < Len(t) => t[j + 1] \in Int
      /\ \A k \in 1 .. i : s[k] \in Int
      /\ \A k \in 1 .. j : t[k] \in Int
  BY <1>1, RunningLoop
<1>8. \A e : ~(Among(s, i, e) /\ Among(rt, Len(rt), e))
  <2>1. ASSUME NEW k \in 1 .. i, NEW l \in 1 .. Len(rt) PROVE s[k] < rt[l]
    <3>1. s[k] < t[j + 1] /\ t[j + 1] <= rt[l]
      BY Zenon, <1>1, <1>5, RunningLoop
    <3>2. s[k] \in Int /\ t[j + 1] \in Int /\ rt[l] \in Int
      BY Zenon, <1>5, <1>7
    <3> QED BY Zenon, <3>1, <3>2, BelowTheNext
  <2> QED
    BY <1>7, <2>1 DEF Among
<1>9. \A e : ~(Among(t, j, e) /\ Among(rs, Len(rs), e))
  <2>1. ASSUME NEW k \in 1 .. j, NEW l \in 1 .. Len(rs) PROVE t[k] < rs[l]
    <3>1. t[k] < s[i + 1] /\ s[i + 1] <= rs[l]
      BY Zenon, <1>1, <1>4, RunningLoop
    <3>2. t[k] \in Int /\ s[i + 1] \in Int /\ rs[l] \in Int
      BY Zenon, <1>4, <1>7
    <3> QED BY Zenon, <3>1, <3>2, BelowTheNext
  <2> QED
    BY <1>7, <2>1 DEF Among
<1>10. \A e, f : ~(Among(rs, Len(rs), e) /\ Among(rt, Len(rt), f))
  <2>1. Len(rs) = 0 \/ Len(rt) = 0
    BY <1>2, <1>3, <1>4, <1>5
  <2> QED
    BY <2>1 DEF Among
<1>11. /\ \A k \in 1 .. Len(out), l \in 1 .. Len(rs) : out[k] < rs[l]
       /\ \A k \in 1 .. Len(out), l \in 1 .. Len(rt) : out[k] < rt[l]
  <2>1. \A k \in 1 .. Len(out) : /\ i < Len(s) => out[k] < s[i + 1]
                                 /\ j < Len(t) => out[k] < t[j + 1]
    BY Zenon, <1>1, OutIsBehind
  <2>2. ASSUME NEW k \in 1 .. Len(out), NEW l \in 1 .. Len(rs) PROVE out[k] < rs[l]
    <3>1. out[k] < s[i + 1] /\ s[i + 1] <= rs[l]
      BY Zenon, <1>4, <2>1
    <3>2. out[k] \in Int /\ s[i + 1] \in Int /\ rs[l] \in Int
      BY Zenon, <1>2, <1>4, <1>7
    <3> QED
      BY Zenon, <3>1, <3>2, BelowTheNext
  <2>3. ASSUME NEW k \in 1 .. Len(out), NEW l \in 1 .. Len(rt) PROVE out[k] < rt[l]
    <3>1. out[k] < t[j + 1] /\ t[j + 1] <= rt[l]
      BY Zenon, <1>5, <2>1
    <3>2. out[k] \in Int /\ t[j + 1] \in Int /\ rt[l] \in Int
      BY Zenon, <1>2, <1>5, <1>7
    <3> QED
      BY Zenon, <3>1, <3>2, BelowTheNext
  <2> QED
    BY Zenon, <2>2, <2>3
<1>12. /\ out \o rs \in Seq(Elem)
       /\ Sorted(out \o rs)
       /\ \A e : Among(out \o rs, Len(out \o rs), e) <=>
                    Among(out, Len(out), e) \/ Among(rs, Len(rs), e)
  BY Zenon, <1>2, <1>4, <1>11, ConcatSlices
<1>13. CASE op = "intersection"
  BY Zenon, <1>2, <1>4, <1>5, <1>6, <1>8, <1>9, <1>10, <1>13 DEF Selected
<1>14. CASE op = "difference"
  BY Zenon, <1>2, <1>4, <1>5, <1>6, <1>8, <1>9, <1>10, <1>12, <1>14 DEF Selected
<1>15. CASE op = "union"
  <2> DEFINE p == out \o rs
  <2>1. /\ p \in Seq(Elem) /\ Sorted(p)
        /\ \A e : Among(p, Len(p), e) <=> Among(out, Len(out), e) \/ Among(rs, Len(rs), e)
    BY Zenon, <1>12
  <2>2. s' = p \o rt
    BY Zenon, <1>6, <1>15
  <2> HIDE DEF p
  <2>3. ASSUME NEW k \in 1 .. Len(p), NEW l \in 1 .. Len(rt) PROVE p[k] < rt[l]
    <3>1. Among(p, Len(p), p[k]) /\ Among(rt, Len(rt), rt[l])
      BY Zenon DEF Among
    <3>2. Among(out, Len(out), p[k])
      BY Zenon, <1>10, <2>1, <3>1
    <3> QED
      BY Zenon, <1>11, <3>2 DEF Among
  <2>4. /\ p \o rt \in Seq(Elem)
        /\ Sorted(p \o rt)
        /\ \A e : Among(p \o rt, Len(p \o rt), e) <=>
                     Among(p, Len(p), e) \/ Among(rt, Len(rt), e)
    BY Zenon, <1>5, <2>1, <2>3, ConcatSlices
  <2> QED
    BY Zenon, <1>2, <1>4, <1>5, <1>15, <2>1, <2>2, <2>4 DEF Selected
<1> QED
  BY Zenon, <1>1, <1>13, <1>14, <1>15 DEF Ops

(* Insert puts an element where the slice stays sorted. *)
LEMMA InsertIsRight ==
    ASSUME IInv, NEW e \in Elem, Insert(e)
    PROVE  s' \in Seq(Elem) /\ Sorted(s')
<1>1. s \in Seq(Elem) /\ Sorted(s)
  BY Zenon DEF IInv, TypeOK, SlicesSorted
<1>2. PICK loc \in 0 .. Len(s) :
        /\ IsLocation(s, e, loc)
        /\ s' = IF loc < Len(s) /\ s[loc + 1] = e THEN s
                ELSE SubSeq(s, 1, loc) \o <<e>> \o SubSeq(s, loc + 1, Len(s))
  BY Zenon DEF Insert
<1>3. CASE loc < Len(s) /\ s[loc + 1] = e
  BY Zenon, <1>1, <1>2, <1>3
<1>4. CASE ~(loc < Len(s) /\ s[loc + 1] = e)
  <2> DEFINE p == SubSeq(s, 1, loc)
             m == Append(p, e)
             r == Rest(s, loc)
  <2>1. /\ p \in Seq(Elem) /\ Len(p) = loc
        /\ \A k \in 1 .. loc : p[k] = s[k]
    BY <1>1
  <2>2. s' = m \o r
    <3>1. s' = (p \o <<e>>) \o r
      BY Zenon, <1>2, <1>4 DEF Rest
    <3>2. p \o <<e>> = Append(p, e)
      BY Zenon, <2>1, AppendIsConcat
    <3> QED
      BY Zenon, <3>1, <3>2
  <2>3. /\ r \in Seq(Elem) /\ Sorted(r)
        /\ \A k \in 1 .. Len(r) : loc < Len(s) /\ r[k] \in Int /\ s[loc + 1] <= r[k]
    BY Zenon, <1>1, SliceAndRest
  <2> HIDE DEF p, r
  <2>4. \A k \in 1 .. Len(p) : p[k] < e
    BY Zenon, <1>2, <2>1 DEF IsLocation
  <2>5. Sorted(p)
    BY <1>1, <2>1 DEF Sorted
  <2>6. m \in Seq(Elem) /\ Sorted(m)
    BY Zenon, <2>1, <2>4, <2>5, AppendSorted
  <2>7. \A k \in 1 .. Len(m) : m[k] \in Int /\ m[k] <= e
    <3>1. e \in Int /\ \A k \in 1 .. Len(p) : p[k] \in Int
      <4>1. \A k \in 1 .. Len(p) : p[k] \in Elem
        BY <2>1
      <4> QED
        BY Zenon, <4>1, ElemAssumption
    <3> QED
      BY <2>1, <2>4, <3>1
  <2>8. loc < Len(s) => e < s[loc + 1] /\ s[loc + 1] \in Int
    <3>1. loc < Len(s) => loc + 1 \in loc + 1 .. Len(s) /\ s[loc + 1] \in Elem
      BY <1>1
    <3>2. loc < Len(s) => ~(s[loc + 1] < e)
      BY Zenon, <1>2, <3>1 DEF IsLocation
    <3>3. e \in Int /\ (loc < Len(s) => s[loc + 1] \in Int)
      BY Zenon, <3>1, ElemAssumption
    <3> QED
      BY <1>4, <3>2, <3>3
  <2> HIDE DEF m
  <2>9. \A k \in 1 .. Len(m), l \in 1 .. Len(r) : m[k] < r[l]
    <3> TAKE k \in 1 .. Len(m), l \in 1 .. Len(r)
    <3>1. m[k] <= e /\ e < s[loc + 1] /\ s[loc + 1] <= r[l]
      BY Zenon, <2>3, <2>7, <2>8
    <3>2. m[k] \in Int /\ e \in Int /\ s[loc + 1] \in Int /\ r[l] \in Int
      BY Zenon, <2>3, <2>7, <2>8, ElemAssumption
    <3> QED
      BY <3>1, <3>2
  <2> QED
    BY Zenon, <2>2, <2>3, <2>6, <2>9, ConcatSlices
<1> QED
  BY Zenon, <1>3, <1>4

(* IInv is inductive. *)
LEMMA Inductive == Spec => []IInv
<1>1. Init => IInv
  BY DEF Init, IInv, TypeOK, SlicesSorted, LoopInv, Sorted, Ops
<1>2. IInv /\ [Next]_vars => IInv'
  <2> SUFFICES ASSUME IInv, [Next]_vars PROVE IInv'
    BY Zenon
  <2>1. ASSUME NEW e \in Elem, Insert(e) PROVE IInv'
    <3>1. s' \in Seq(Elem) /\ Sorted(s') /\ UNCHANGED <<t, op, i, j, out>> /\ op = "none"
      BY Zenon, <2>1, InsertIsRight DEF Insert
    <3>2. Len(s') \in Nat /\ i = 0 /\ j \in 0 .. Len(t)
      BY <3>1 DEF IInv, TypeOK, LoopInv
    <3> QED
      BY <3>1, <3>2 DEF IInv, TypeOK, SlicesSorted, LoopInv, Sorted
  <2>2. CASE Swap
    <3>1. /\ op = "none" /\ i = 0 /\ j = 0 /\ s' = t /\ t' = s
          /\ UNCHANGED <<op, i, j, out>>
          /\ Len(s) \in Nat /\ Len(t) \in Nat
      BY <2>2 DEF Swap, IInv, TypeOK, LoopInv
    <3> QED
      BY Zenon, <3>1 DEF IInv, TypeOK, SlicesSorted, LoopInv, Sorted
  <2>3. ASSUME NEW o \in Ops, Begin(o) PROVE IInv'
    BY <2>3 DEF Begin, IInv, TypeOK, SlicesSorted, LoopInv, Sorted, Selected,
       Among, Ops
  <2>4. CASE Step
    BY Zenon, <2>4, UnionStepInv, IntersectionStepInv, DifferenceStepInv DEF Step
  <2>5. CASE Finish
    BY <2>5, FinishIsRight DEF Finish, IInv, TypeOK, SlicesSorted, LoopInv, Sorted
  <2>6. CASE UNCHANGED vars
    BY <2>6 DEF vars, IInv, TypeOK, SlicesSorted, LoopInv, Sorted, Selected, Among
  <2> QED
    BY Zenon, <2>1, <2>2, <2>3, <2>4, <2>5, <2>6 DEF Next
<1> QED
  BY <1>1, <1>2, PTL DEF Spec

(* The slices behind every field set are sorted and have no duplicates.    *)
THEOREM SlicesStaySorted == Spec => []SlicesSorted
<1>1. IInv => SlicesSorted
  BY Zenon DEF IInv
<1> QED
  BY <1>1, Inductive, PTL

(* Union, Intersection and Difference of PathElementSet are those of set   *)
(* theory, for slices of every length.                                     *)
THEOREM LoopsAreRight == Spec => LoopsComputeSets
<1>1. IInv => [ResultIsRight]_vars
  BY Zenon, FinishIsRight DEF ResultIsRight
<1> QED
  BY <1>1, Inductive, PTL DEF LoopsComputeSets

-----------------------------------------------------------------------------
(* The two lists that visitListItems merges, and the items it puts out. *)
MergeTypeInv ==
    /\ lhs \in Seq(PE) /\ rhs \in Seq(PE) /\ NoDuplicates(rhs)
    /\ lI \in 1 .. Len(lhs) + 1 /\ rI \in 1 .. Len(rhs) + 1
    /\ items \in Seq([pe : PE, l : Nat, r : Nat])

(* The items of the right list that rI has passed are out, in their order. *)
RightInv ==
    /\ \A a \in FromRight : items[a].r < rI
    /\ \A k \in DOMAIN rhs : k < rI => \E a \in FromRight : items[a].r = k
    /\ \A a, b \in FromRight : a < b => items[a].r < items[b].r

(* So are those of the left list that lI has passed, if the right list     *)
(* lacks them.                                                             *)
LeftInv ==
    /\ \A a \in FromLeft : items[a].l < lI /\ items[a].l \in OnlyLeft
    /\ \A k \in OnlyLeft : k < lI => \E a \in FromLeft : items[a].l = k
    /\ \A a, b \in FromLeft : a < b => items[a].l < items[b].l

(* The inductive invariant. *)
MergeInv == MergeTypeInv /\ RightInv /\ LeftInv

-----------------------------------------------------------------------------
(* An item that is not duplicated is observed at its index. *)
LEMMA ObservedIndex ==
    ASSUME NEW l \in Seq(PE), NEW pe
    PROVE  /\ Observed(l, pe) \in Nat
           /\ NoDuplicates(l) => \A k \in DOMAIN l : l[k] = pe => Observed(l, pe) = k
<1>1. DOMAIN l \subseteq Nat
  OBVIOUS
<1>2. Observed(l, pe) \in Nat
  <2>1. CASE \E k \in DOMAIN l : Occurrences(l, pe) = {k}
    <3>1. \E k \in DOMAIN l : l[k] = pe
      BY Zenon, <2>1 DEF Occurrences
    <3>2. Observed(l, pe) = CHOOSE k \in DOMAIN l : l[k] = pe
      BY Zenon, <2>1 DEF Observed
    <3> QED BY Zenon, <1>1, <3>1, <3>2
  <2>2. CASE ~\E k \in DOMAIN l : Occurrences(l, pe) = {k}
    BY Zenon, <2>2 DEF Observed
  <2> QED BY Zenon, <2>1, <2>2
<1>3. ASSUME NoDuplicates(l), NEW k \in DOMAIN l, l[k] = pe PROVE Observed(l, pe) = k
  <2>1. Occurrences(l, pe) = {k}
    BY Zenon, <1>3 DEF Occurrences, NoDuplicates
  <2>2. Observed(l, pe) = CHOOSE b \in DOMAIN l : l[b] = pe
    BY Zenon, <1>3, <2>1 DEF Observed
  <2>3. \A b \in DOMAIN l : l[b] = pe => b = k
    BY Zenon, <1>3 DEF NoDuplicates
  <2> QED BY Zenon, <1>3, <2>2, <2>3
<1> QED BY Zenon, <1>2, <1>3

(* Indices are numbers, and the items put out have some. *)
LEMMA IndexFacts ==
    ASSUME MergeTypeInv
    PROVE  /\ Len(items) \in Nat /\ DOMAIN items = 1 .. Len(items)
           /\ Len(lhs) \in Nat /\ DOMAIN lhs = 1 .. Len(lhs)
           /\ Len(rhs) \in Nat /\ DOMAIN rhs = 1 .. Len(rhs)
           /\ lI \in Nat /\ rI \in Nat /\ rI # 0
           /\ \A a \in DOMAIN items : a \in Nat /\ items[a].r \in Nat /\ items[a].l \in Nat
           /\ FromRight \subseteq DOMAIN items /\ FromLeft \subseteq DOMAIN items
           /\ OnlyLeft \subseteq DOMAIN lhs
<1>1. /\ Len(items) \in Nat /\ DOMAIN items = 1 .. Len(items)
      /\ Len(lhs) \in Nat /\ DOMAIN lhs = 1 .. Len(lhs)
      /\ Len(rhs) \in Nat /\ DOMAIN rhs = 1 .. Len(rhs)
      /\ lI \in Nat /\ rI \in Nat /\ rI # 0
  BY DEF MergeTypeInv
<1>2. ASSUME NEW a \in DOMAIN items
      PROVE  a \in Nat /\ items[a].r \in Nat /\ items[a].l \in Nat
  <2> DEFINE S == [pe : PE, l : Nat, r : Nat]
  <2>1. items \in Seq(S)
    BY Zenon DEF MergeTypeInv
  <2>2. \A e \in S : e.r \in Nat /\ e.l \in Nat
    BY Zenon
  <2> HIDE DEF S
  <2>3. items[a] \in S
    BY <2>1
  <2> QED BY <1>1, <2>2, <2>3
<1>3. FromRight \subseteq DOMAIN items /\ FromLeft \subseteq DOMAIN items
  BY Zenon DEF FromRight, FromLeft
<1>4. OnlyLeft \subseteq DOMAIN lhs
  BY Zenon DEF OnlyLeft
<1> QED BY Zenon, <1>1, <1>2, <1>3, <1>4

PutsOut(it) == items' = Append(items, it)

(* One more item at the end leaves the others where they are. *)
LEMMA PutOutItem ==
    ASSUME MergeTypeInv, NEW it \in [pe : PE, l : Nat, r : Nat], PutsOut(it)
    PROVE  /\ items' \in Seq([pe : PE, l : Nat, r : Nat])
           /\ \A a \in DOMAIN items : items'[a] = items[a]
           /\ items'[Len(items) + 1] = it
           /\ it.r # 0 => /\ FromRight' = FromRight \cup {Len(items) + 1}
                          /\ FromLeft' = FromLeft
           /\ it.r = 0 => /\ FromLeft' = FromLeft \cup {Len(items) + 1}
                          /\ FromRight' = FromRight
<1> DEFINE n == Len(items) + 1
           D == DOMAIN items
<1>1. /\ items' \in Seq([pe : PE, l : Nat, r : Nat])
      /\ DOMAIN items' = D \cup {n} /\ n \notin D
      /\ \A a \in D : items'[a] = items[a]
      /\ items'[n] = it
  <2> DEFINE S == [pe : PE, l : Nat, r : Nat]
  <2>1. items \in Seq(S) /\ it \in S /\ items' = Append(items, it)
    BY Zenon DEF MergeTypeInv, PutsOut
  <2> HIDE DEF S
  <2>2. /\ items' \in Seq(S)
        /\ DOMAIN items' = D \cup {n} /\ n \notin D
        /\ \A a \in D : items'[a] = items[a]
        /\ items'[n] = it
    BY <2>1
  <2> QED BY Zenon, <2>2 DEF S
<1> HIDE DEF n, D
<1>2. /\ FromRight' = {a \in D \cup {n} : items'[a].r # 0}
      /\ FromLeft' = {a \in D \cup {n} : items'[a].r = 0}
  BY Zenon, <1>1 DEF FromRight, FromLeft
<1>3. FromRight = {a \in D : items[a].r # 0} /\ FromLeft = {a \in D : items[a].r = 0}
  BY Zenon DEF FromRight, FromLeft, D
<1>4. ASSUME it.r # 0
      PROVE  FromRight' = FromRight \cup {n} /\ FromLeft' = FromLeft
  BY Zenon, <1>1, <1>2, <1>3, <1>4
<1>5. ASSUME it.r = 0
      PROVE  FromLeft' = FromLeft \cup {n} /\ FromRight' = FromRight
  BY Zenon, <1>1, <1>2, <1>3, <1>5
<1> QED BY Zenon, <1>1, <1>4, <1>5 DEF n, D

(* lI stays, or passes an item that the right list has too. *)
PassesShared == lI' = lI \/ (lI' = lI + 1 /\ lI \in DOMAIN lhs /\ lI \notin OnlyLeft)

(* What the left list contributes is complete if lI passes nothing else. *)
LEMMA LeftKept ==
    ASSUME MergeInv, PassesShared, UNCHANGED <<lhs, rhs>>, FromLeft' = FromLeft,
           \A a \in DOMAIN items : items'[a] = items[a]
    PROVE  LeftInv' /\ lI' \in 1 .. Len(lhs) + 1
<1>1. OnlyLeft' = OnlyLeft
  BY Zenon DEF OnlyLeft, Occurrences
<1>2. \A a \in FromLeft : a \in DOMAIN items /\ items'[a] = items[a] /\ items[a].l \in Nat
  BY Zenon, IndexFacts DEF MergeInv
<1>3. \A k \in OnlyLeft : k \in Nat /\ (k < lI' => k < lI)
  BY IndexFacts DEF MergeInv, PassesShared
<1>4. lI \in Nat /\ lI' \in Nat /\ lI <= lI'
  BY IndexFacts DEF MergeInv, PassesShared
<1>5. \A a \in FromLeft : items[a].l < lI' /\ items[a].l \in OnlyLeft
  BY <1>2, <1>4 DEF MergeInv, LeftInv
<1>6. \A k \in OnlyLeft : k < lI' => \E a \in FromLeft : items[a].l = k
  BY Zenon, <1>3 DEF MergeInv, LeftInv
<1>7. LeftInv'
  BY <1>1, <1>2, <1>5, <1>6 DEF MergeInv, LeftInv
<1>8. lI' \in 1 .. Len(lhs) + 1
  BY IndexFacts DEF MergeInv, MergeTypeInv, PassesShared
<1> QED BY Zenon, <1>7, <1>8

(* Taking the next item of the right list. *)
LEMMA TakeRight ==
    ASSUME MergeInv, rI \in DOMAIN rhs, NEW it \in [pe : PE, l : Nat, r : Nat], it.r = rI,
           PutsOut(it), rI' = rI + 1, PassesShared, UNCHANGED <<lhs, rhs>>
    PROVE  MergeInv'
<1> DEFINE n == Len(items) + 1
<1>1. MergeTypeInv /\ RightInv
  BY Zenon DEF MergeInv
<1>2. /\ items' \in Seq([pe : PE, l : Nat, r : Nat])
      /\ \A a \in DOMAIN items : items'[a] = items[a]
      /\ items'[n] = it /\ FromRight' = FromRight \cup {n} /\ FromLeft' = FromLeft
  BY Zenon, <1>1, IndexFacts, PutOutItem
<1>3. LeftInv' /\ lI' \in 1 .. Len(lhs) + 1
  BY Zenon, <1>2, LeftKept
<1>4. MergeTypeInv'
  BY SMTT(30), <1>1, <1>2, <1>3, IndexFacts DEF MergeTypeInv, NoDuplicates
<1>5. /\ \A a \in FromRight : /\ a \in Nat /\ a < n /\ items'[a] = items[a]
                              /\ items[a].r \in Nat /\ items[a].r < rI
      /\ n \in Nat /\ rI \in Nat /\ \A k \in DOMAIN rhs : k \in Nat
  <2>1. /\ FromRight \subseteq DOMAIN items
        /\ Len(items) \in Nat /\ DOMAIN items = 1 .. Len(items)
        /\ rI \in Nat /\ \A k \in DOMAIN rhs : k \in Nat
        /\ \A a \in DOMAIN items : items[a].r \in Nat
    BY <1>1, IndexFacts
  <2>2. \A a \in DOMAIN items : a \in Nat /\ a < n
    BY <2>1
  <2> HIDE DEF n
  <2>3. n \in Nat
    BY <2>1 DEF n
  <2> QED BY Zenon, <1>1, <1>2, <2>1, <2>2, <2>3 DEF RightInv
<1>6. items'[n].r = rI
  BY Zenon, <1>2
<1> HIDE DEF n
<1>7. ASSUME NEW a \in FromRight' PROVE items'[a].r < rI'
  <2>1. CASE a = n
    BY <1>6, <1>5, <2>1
  <2>2. CASE a \in FromRight
    BY <1>5, <2>2
  <2> QED BY Zenon, <1>2, <2>1, <2>2
<1>8. \A k \in DOMAIN rhs : k < rI' => \E a \in FromRight' : items'[a].r = k
  <2> SUFFICES ASSUME NEW k \in DOMAIN rhs, k < rI + 1
               PROVE  \E a \in FromRight' : items'[a].r = k
    BY Zenon
  <2>1. CASE k = rI
    BY Zenon, <1>2, <2>1
  <2>2. CASE k # rI
    <3>1. PICK a \in FromRight : items[a].r = k
      BY <1>1, <1>5, <2>2 DEF RightInv
    <3> QED BY Zenon, <1>2, <1>5, <3>1
  <2> QED BY Zenon, <2>1, <2>2
<1>9. ASSUME NEW a \in FromRight', NEW b \in FromRight', a < b
      PROVE  items'[a].r < items'[b].r
  <2>1. a # n
    BY <1>2, <1>5, <1>9
  <2>2. CASE b = n
    BY Zenon, <1>2, <1>6, <1>5, <2>1, <2>2
  <2>3. CASE b # n
    BY Zenon, <1>1, <1>2, <1>5, <1>9, <2>1, <2>3 DEF RightInv
  <2> QED BY Zenon, <2>2, <2>3
<1>10. RightInv'
  BY Zenon, <1>7, <1>8, <1>9 DEF RightInv
<1> QED BY Zenon, <1>3, <1>4, <1>10 DEF MergeInv

(* Taking the next item of the left list, which the right one lacks. *)
LEMMA TakeLeft ==
    ASSUME MergeInv, lI \in OnlyLeft, NEW it \in [pe : PE, l : Nat, r : Nat],
           it.l = lI, it.r = 0,
           PutsOut(it), lI' = lI + 1, UNCHANGED <<lhs, rhs, rI>>
    PROVE  MergeInv'
<1> DEFINE n == Len(items) + 1
<1>1. MergeTypeInv /\ RightInv /\ LeftInv
  BY Zenon DEF MergeInv
<1>2. /\ items' \in Seq([pe : PE, l : Nat, r : Nat])
      /\ \A a \in DOMAIN items : items'[a] = items[a]
      /\ items'[n] = it /\ FromLeft' = FromLeft \cup {n} /\ FromRight' = FromRight
  BY Zenon, <1>1, PutOutItem
<1>3. OnlyLeft' = OnlyLeft
  BY Zenon DEF OnlyLeft, Occurrences
<1>4. lI' \in 1 .. Len(lhs) + 1
  BY <1>1, IndexFacts
<1>5. MergeTypeInv'
  BY Zenon, <1>1, <1>2, <1>4 DEF MergeTypeInv, NoDuplicates
<1>6. \A a \in FromRight : items'[a] = items[a]
  BY Zenon, <1>1, <1>2, IndexFacts
<1>7. RightInv'
  BY <1>1, <1>2, <1>6 DEF RightInv
<1>8. /\ \A a \in FromLeft : /\ a \in Nat /\ a < n /\ items'[a] = items[a]
                             /\ items[a].l \in Nat /\ items[a].l < lI /\ items[a].l \in OnlyLeft
      /\ n \in Nat /\ lI \in Nat /\ \A k \in OnlyLeft : k \in Nat
  <2>1. /\ FromLeft \subseteq DOMAIN items
        /\ Len(items) \in Nat /\ DOMAIN items = 1 .. Len(items)
        /\ lI \in Nat /\ \A k \in OnlyLeft : k \in Nat
        /\ \A a \in DOMAIN items : items[a].l \in Nat
    BY <1>1, IndexFacts
  <2>2. \A a \in DOMAIN items : a \in Nat /\ a < n
    BY <2>1
  <2> HIDE DEF n
  <2>3. n \in Nat
    BY <2>1 DEF n
  <2> QED BY Zenon, <1>1, <1>2, <2>1, <2>2, <2>3 DEF LeftInv
<1>9. items'[n].l = lI
  BY Zenon, <1>2
<1> HIDE DEF n
<1>10. ASSUME NEW a \in FromLeft' PROVE items'[a].l < lI' /\ items'[a].l \in OnlyLeft
  <2>1. CASE a = n
    BY <1>9, <1>8, <2>1
  <2>2. CASE a \in FromLeft
    BY <1>8, <2>2
  <2> QED BY Zenon, <1>2, <2>1, <2>2
<1>11. \A k \in OnlyLeft : k < lI' => \E a \in FromLeft' : items'[a].l = k
  <2> SUFFICES ASSUME NEW k \in OnlyLeft, k < lI + 1
               PROVE  \E a \in FromLeft' : items'[a].l = k
    BY Zenon
  <2>1. CASE k = lI
    BY Zenon, <1>2, <2>1
  <2>2. CASE k # lI
    <3>1. k \in Nat /\ lI \in Nat
      BY Zenon, <1>8
    <3>2. k < lI
      BY <2>2, <3>1
    <3>3. PICK a \in FromLeft : items[a].l = k
      BY Zenon, <1>1, <3>2 DEF LeftInv
    <3> QED BY Zenon, <1>2, <1>8, <3>3
  <2> QED BY Zenon, <2>1, <2>2
<1>12. ASSUME NEW a \in FromLeft', NEW b \in FromLeft', a < b
       PROVE  items'[a].l < items'[b].l
  <2>1. a # n
    BY <1>2, <1>8, <1>12
  <2>2. CASE b = n
    BY Zenon, <1>2, <1>9, <1>8, <2>1, <2>2
  <2>3. CASE b # n
    BY Zenon, <1>1, <1>2, <1>8, <1>12, <2>1, <2>3 DEF LeftInv
  <2> QED BY Zenon, <2>2, <2>3
<1>13. LeftInv'
  BY Zenon, <1>3, <1>10, <1>11, <1>12 DEF LeftInv
<1> QED BY Zenon, <1>5, <1>7, <1>13 DEF MergeInv

(* A round that puts out nothing. *)
LEMMA PassLeft ==
    ASSUME MergeInv, PassesShared, UNCHANGED <<lhs, rhs, rI, items>>
    PROVE  MergeInv'
<1>1. FromRight' = FromRight /\ FromLeft' = FromLeft
  BY Zenon DEF FromRight, FromLeft
<1>2. LeftInv' /\ lI' \in 1 .. Len(lhs) + 1
  BY Zenon, <1>1, LeftKept
<1>3. MergeTypeInv'
  BY Zenon, <1>2 DEF MergeInv, MergeTypeInv, NoDuplicates
<1>4. RightInv'
  BY Zenon, <1>1 DEF MergeInv, RightInv
<1> QED BY Zenon, <1>2, <1>3, <1>4 DEF MergeInv

(* The invariant holds before the first round. *)
LEMMA InitMerges == MergeInit => MergeInv
<1> SUFFICES ASSUME MergeInit PROVE MergeInv
  BY Zenon
<1>1. lhs \in Seq(PE) /\ rhs \in Seq(PE)
  BY DEF MergeInit, Lists
<1>2. MergeTypeInv
  BY <1>1 DEF MergeInit, MergeTypeInv
<1>3. FromRight = {} /\ FromLeft = {}
  BY DEF MergeInit, FromRight, FromLeft
<1> QED BY <1>1, <1>2, <1>3 DEF MergeInit, MergeInv, RightInv, LeftInv, OnlyLeft

(* Every branch of the loop preserves it. *)
LEMMA NextMerges == MergeInv /\ [MergeNext]_mergeVars => MergeInv'
<1> SUFFICES ASSUME MergeInv, [MergeNext]_mergeVars PROVE MergeInv'
  BY Zenon
<1>1. /\ lhs \in Seq(PE) /\ rhs \in Seq(PE) /\ NoDuplicates(rhs)
      /\ \A k \in DOMAIN rhs : rhs[k] \in PE
      /\ \A k \in DOMAIN lhs : lhs[k] \in PE /\ k \in Nat
  BY DEF MergeInv, MergeTypeInv
<1>2. CASE MergeItems
  <2> DEFINE it == Item(lhs[lI], Observed(lhs, lhs[lI]), Observed(rhs, lhs[lI]))
  <2>1. lI \in DOMAIN lhs /\ rI \in DOMAIN rhs /\ lhs[lI] = rhs[rI]
    BY Zenon, <1>2 DEF MergeItems, SameItem, InBoth
  <2>2. it \in [pe : PE, l : Nat, r : Nat] /\ it.r = rI
    BY Zenon, <1>1, <2>1, ObservedIndex DEF Item
  <2>3. lI \notin OnlyLeft
    BY Zenon, <2>1 DEF OnlyLeft, Occurrences
  <2>4. PutsOut(it) /\ rI' = rI + 1 /\ PassesShared /\ UNCHANGED <<lhs, rhs>>
    BY Zenon, <1>2, <2>1, <2>3 DEF MergeItems, PassesShared, PutsOut
  <2> HIDE DEF it
  <2> QED BY Zenon, <2>1, <2>2, <2>4, TakeRight
<1>3. CASE SkipLHS
  BY Zenon, <1>3, PassLeft DEF SkipLHS, NotNextShared, InBoth, OnlyLeft,
     PassesShared
<1>4. CASE TakeLHS
  <2> DEFINE it == Item(lhs[lI], lI, 0)
  <2>1. lI \in OnlyLeft /\ lI \in DOMAIN lhs
    BY Zenon, <1>4 DEF TakeLHS, OnlyLeft
  <2>2. it \in [pe : PE, l : Nat, r : Nat] /\ it.l = lI /\ it.r = 0
    BY Zenon, <1>1, <2>1 DEF Item
  <2>3. PutsOut(it) /\ lI' = lI + 1 /\ UNCHANGED <<lhs, rhs, rI>>
    BY Zenon, <1>4 DEF TakeLHS, PutsOut
  <2> HIDE DEF it
  <2> QED BY Zenon, <2>1, <2>2, <2>3, TakeLeft
<1>5. CASE TakeRHS
  <2>1. PassesShared /\ UNCHANGED <<lhs, rhs>>
    BY Zenon, <1>5 DEF TakeRHS, PassMerged, Waiting, OnlyLeft, PassesShared
  <2>2. CASE rI \in DOMAIN rhs
    <3> DEFINE it == Item(rhs[rI], Observed(lhs, rhs[rI]), Observed(rhs, rhs[rI]))
    <3>1. it \in [pe : PE, l : Nat, r : Nat] /\ it.r = rI
      BY Zenon, <1>1, <2>2, ObservedIndex DEF Item
    <3>2. PutsOut(it) /\ rI' = rI + 1
      BY Zenon, <1>5, <2>2 DEF TakeRHS, PutsOut
    <3> HIDE DEF it
    <3> QED BY Zenon, <2>1, <2>2, <3>1, <3>2, TakeRight
  <2>3. CASE rI \notin DOMAIN rhs
    <3>1. UNCHANGED <<items, rI>>
      BY Zenon, <1>5, <2>3 DEF TakeRHS
    <3> QED BY Zenon, <2>1, <3>1, PassLeft
  <2> QED BY Zenon, <2>2, <2>3
<1>6. CASE UNCHANGED mergeVars
  BY Zenon, <1>6, PassLeft DEF mergeVars, PassesShared
<1> QED BY Zenon, <1>2, <1>3, <1>4, <1>5, <1>6 DEF MergeNext

(* visitListItems drops and repeats no item and keeps the order of the     *)
(* right list and of the items that only the left one has, for lists of    *)
(* any length and wherever the left one has duplicates.                    *)
THEOREM MergeKeepsEveryItem == MergeSpec => []EveryItemOnce
<1>1. MergeInv => EveryItemOnce
  <2> SUFFICES ASSUME MergeInv, Finished PROVE EveryItemOnce
    BY Zenon DEF EveryItemOnce
  <2>1. /\ lhs \in Seq(PE) /\ rhs \in Seq(PE)
        /\ items \in Seq([pe : PE, l : Nat, r : Nat])
        /\ lI = Len(lhs) + 1 /\ rI = Len(rhs) + 1
    BY DEF MergeInv, MergeTypeInv, Finished
  <2>2. /\ \A k \in DOMAIN rhs : k < rI
        /\ \A k \in OnlyLeft : k < lI
    BY <2>1, IndexFacts DEF MergeInv
  <2>3. \A a \in FromRight : items[a].r \in DOMAIN rhs
    <3>1. \A a \in FromRight : items[a].r \in Nat /\ items[a].r # 0 /\ items[a].r < rI
      BY Zenon, IndexFacts DEF MergeInv, RightInv, FromRight
    <3> QED BY <2>1, <3>1, IndexFacts DEF MergeInv
  <2>4. \A k \in DOMAIN rhs : \E a \in FromRight : items[a].r = k
    BY Zenon, <2>2 DEF MergeInv, RightInv
  <2>5. \A k \in OnlyLeft : \E a \in FromLeft : items[a].l = k
    BY Zenon, <2>2 DEF MergeInv, LeftInv
  <2> QED BY <2>3, <2>4, <2>5 DEF MergeInv, RightInv, LeftInv, EveryItemOnce
<1> QED BY <1>1, InitMerges, NextMerges, PTL DEF MergeSpec

-----------------------------------------------------------------------------
(* The lists agree on the order of what they share. *)
Agreed == NoDuplicates(lhs) /\ NoDuplicates(rhs) /\ SameOrder

(* Then the loop passes the two occurrences of an item in the same round.  *)
(* What is wanted next is the first shared item that rI has not passed,    *)
(* and what is out is in the order of the left list.                       *)
OrderInv ==
    /\ shared = {m \in DOMAIN rhs : rI <= m /\ Occurrences(lhs, rhs[m]) # {}}
    /\ \A pe \in merged : \E m \in DOMAIN rhs : m < rI /\ rhs[m] = pe
    /\ \A k \in DOMAIN lhs, m \in DOMAIN rhs : lhs[k] = rhs[m] => (k < lI <=> m < rI)
    /\ \A a \in DOMAIN items, k \in DOMAIN lhs : items[a].pe = lhs[k] => k < lI
    /\ \A a, b \in DOMAIN items, k1, k2 \in DOMAIN lhs :
         items[a].pe = lhs[k1] /\ items[b].pe = lhs[k2] /\ k1 < k2 => a < b

(* A shared item that the left list has next is the one that is wanted. *)
LEMMA NextIsWanted ==
    ASSUME MergeInv, Agreed, OrderInv, lI \in DOMAIN lhs,
           Occurrences(rhs, lhs[lI]) # {}
    PROVE  /\ shared # {} /\ NextShared \in DOMAIN rhs /\ rI <= NextShared
           /\ rhs[NextShared] = lhs[lI]
           /\ \A x \in shared : NextShared <= x
<1>1. /\ DOMAIN lhs \subseteq Nat /\ DOMAIN rhs \subseteq Nat /\ lI \in Nat /\ rI \in Nat
  BY IndexFacts DEF MergeInv
<1>2. PICK m \in DOMAIN rhs : rhs[m] = lhs[lI]
  BY Zenon DEF Occurrences
<1>3. m \in shared /\ rI <= m
  <2>1. ~(m < rI)
    BY <1>1, <1>2 DEF OrderInv
  <2>2. Occurrences(lhs, rhs[m]) # {}
    BY Zenon, <1>2 DEF Occurrences
  <2> QED BY <1>1, <2>1, <2>2 DEF OrderInv
<1>4. ASSUME NEW x \in shared PROVE x \in DOMAIN rhs /\ rI <= x /\ m <= x
  <2>1. x \in DOMAIN rhs /\ rI <= x /\ Occurrences(lhs, rhs[x]) # {}
    BY Zenon DEF OrderInv
  <2>2. PICK k \in DOMAIN lhs : lhs[k] = rhs[x]
    BY Zenon, <2>1 DEF Occurrences
  <2>3. ~(k < lI)
    BY <1>1, <2>1, <2>2 DEF OrderInv
  <2>4. CASE k = lI
    <3>1. x = m
      BY Zenon, <1>2, <2>1, <2>2, <2>4 DEF Agreed, NoDuplicates
    <3> QED BY <1>1, <2>1, <3>1
  <2>5. CASE lI < k
    <3>1. m < x
      BY Zenon, <1>2, <2>1, <2>2, <2>5 DEF Agreed, SameOrder
    <3> QED BY <1>1, <2>1, <3>1
  <2> QED BY <1>1, <2>3, <2>4, <2>5
<1>5. NextShared \in shared /\ \A x \in shared : NextShared <= x
  BY Zenon, <1>3, <1>4 DEF NextShared
<1>6. NextShared = m
  BY <1>1, <1>3, <1>4, <1>5
<1> QED BY Zenon, <1>2, <1>3, <1>4, <1>6

(* So no shared item is skipped. *)
LEMMA NothingSkipped ==
    ASSUME MergeInv, Agreed, OrderInv
    PROVE  ~NotNextShared
  BY Zenon, NextIsWanted DEF NotNextShared, InBoth

(* One more item, which only the left list has or which is its next one. *)
LEMMA PutOutInOrder ==
    ASSUME MergeInv, Agreed, OrderInv, NEW it \in [pe : PE, l : Nat, r : Nat], PutsOut(it),
           lI' \in Nat, lI <= lI', lhs' = lhs,
           \A k \in DOMAIN lhs : it.pe = lhs[k] => lI <= k /\ k < lI'
    PROVE  /\ \A a \in DOMAIN items', k \in DOMAIN lhs : items'[a].pe = lhs[k] => k < lI'
           /\ \A a, b \in DOMAIN items', k1, k2 \in DOMAIN lhs :
                items'[a].pe = lhs[k1] /\ items'[b].pe = lhs[k2] /\ k1 < k2 => a < b
<1> DEFINE n == Len(items) + 1
           D == DOMAIN items
<1>1. /\ DOMAIN lhs \subseteq Nat /\ lI \in Nat /\ D \subseteq Nat /\ n \in Nat
      /\ \A a \in D : a < n
  BY IndexFacts DEF MergeInv
<1>2. DOMAIN items' = D \cup {n} /\ items'[n] = it /\ \A a \in D : items'[a] = items[a]
  BY IndexFacts, PutOutItem DEF MergeInv, PutsOut
<1>3. /\ \A a \in D, k \in DOMAIN lhs : items[a].pe = lhs[k] => k < lI
      /\ \A a, b \in D, k1, k2 \in DOMAIN lhs :
           items[a].pe = lhs[k1] /\ items[b].pe = lhs[k2] /\ k1 < k2 => a < b
  BY Zenon DEF OrderInv
<1> HIDE DEF n, D
<1>4. ASSUME NEW a \in DOMAIN items', NEW k \in DOMAIN lhs, items'[a].pe = lhs[k]
      PROVE  k < lI'
  <2>1. CASE a = n
    BY Zenon, <1>2, <1>4, <2>1
  <2>2. CASE a \in D
    <3>1. k < lI
      BY Zenon, <1>2, <1>3, <1>4, <2>2
    <3> QED BY <1>1, <3>1
  <2> QED BY Zenon, <1>2, <2>1, <2>2
<1>5. ASSUME NEW a \in DOMAIN items', NEW b \in DOMAIN items',
             NEW k1 \in DOMAIN lhs, NEW k2 \in DOMAIN lhs,
             items'[a].pe = lhs[k1], items'[b].pe = lhs[k2], k1 < k2
      PROVE  a < b
  <2>1. CASE a \in D /\ b \in D
    BY Zenon, <1>2, <1>3, <1>5, <2>1
  <2>2. CASE a \in D /\ b = n
    BY Zenon, <1>1, <2>2
  <2>3. CASE a = n
    <3>1. lI <= k1 /\ it.pe = lhs[k1]
      BY Zenon, <1>2, <1>5, <2>3
    <3>2. CASE b \in D
      <4>1. k2 < lI
        BY Zenon, <1>2, <1>3, <1>5, <3>2
      <4> QED BY <1>1, <1>5, <3>1, <4>1
    <3>3. CASE b = n
      <4>1. lhs[k1] = lhs[k2]
        BY Zenon, <1>2, <1>5, <3>1, <3>3
      <4>2. k1 = k2
        BY Zenon, <4>1 DEF Agreed, NoDuplicates
      <4> QED BY <1>1, <1>5, <4>2
    <3> QED BY Zenon, <1>2, <3>2, <3>3
  <2> QED BY Zenon, <1>2, <2>1, <2>2, <2>3
<1> QED BY Zenon, <1>4, <1>5

(* What an item of the output is made of. *)
LEMMA ItemFacts ==
    ASSUME NEW pe \in PE, NEW l \in Nat, NEW r \in Nat
    PROVE  Item(pe, l, r) \in [pe : PE, l : Nat, r : Nat] /\ Item(pe, l, r).pe = pe
  BY Zenon DEF Item

(* The elements of the lists. *)
LEMMA ListElements ==
    ASSUME lhs \in Seq(PE), rhs \in Seq(PE)
    PROVE  /\ \A k \in DOMAIN lhs : lhs[k] \in PE
           /\ \A m \in DOMAIN rhs : rhs[m] \in PE
  OBVIOUS

(* The lists do not change, so the invariant after a round is about them. *)
LEMMA OrderInvAfter ==
    ASSUME lhs' = lhs, rhs' = rhs,
           shared' = {m \in DOMAIN rhs : rI' <= m /\ Occurrences(lhs, rhs[m]) # {}},
           \A pe \in merged' : \E m \in DOMAIN rhs : m < rI' /\ rhs[m] = pe,
           \A k \in DOMAIN lhs, m \in DOMAIN rhs : lhs[k] = rhs[m] => (k < lI' <=> m < rI'),
           \A a \in DOMAIN items', k \in DOMAIN lhs : items'[a].pe = lhs[k] => k < lI',
           \A a, b \in DOMAIN items', k1, k2 \in DOMAIN lhs :
             items'[a].pe = lhs[k1] /\ items'[b].pe = lhs[k2] /\ k1 < k2 => a < b
    PROVE  OrderInv'
  BY Zenon DEF OrderInv

(* The items of the two lists that are the same are passed together. *)
LEMMA MergeItemsInOrder ==
    ASSUME MergeInv, Agreed, OrderInv, MergeItems
    PROVE  OrderInv'
<1> DEFINE it == Item(lhs[lI], Observed(lhs, lhs[lI]), Observed(rhs, lhs[lI]))
<1>1. /\ DOMAIN lhs \subseteq Nat /\ DOMAIN rhs \subseteq Nat /\ lI \in Nat /\ rI \in Nat
      /\ lhs \in Seq(PE) /\ rhs \in Seq(PE)
  BY IndexFacts DEF MergeInv, MergeTypeInv
<1>2. /\ lI \in DOMAIN lhs /\ rI \in DOMAIN rhs /\ lhs[lI] = rhs[rI]
      /\ PutsOut(it) /\ lI' = lI + 1 /\ rI' = rI + 1 /\ shared' = LaterShared
      /\ merged' = merged \cup {lhs[lI]} /\ lhs' = lhs /\ rhs' = rhs
  BY Zenon DEF MergeItems, SameItem, InBoth, PutsOut
<1>3. it \in [pe : PE, l : Nat, r : Nat] /\ it.pe = lhs[lI]
  <2>1. lhs[lI] \in PE
    BY Zenon, <1>1, <1>2, ListElements
  <2>2. Observed(lhs, lhs[lI]) \in Nat /\ Observed(rhs, lhs[lI]) \in Nat
    BY Zenon, <1>1, <2>1, ObservedIndex
  <2> QED BY Zenon, <2>1, <2>2, ItemFacts
<1> HIDE DEF it
<1>4. /\ \A k \in DOMAIN lhs : lhs[k] = lhs[lI] => k = lI
      /\ \A m \in DOMAIN rhs : rhs[m] = lhs[lI] => m = rI
  BY Zenon, <1>2 DEF Agreed, NoDuplicates
<1>5. shared' = {m \in DOMAIN rhs : rI' <= m /\ Occurrences(lhs, rhs[m]) # {}}
  <2>1. rI \in Occurrences(rhs, lhs[lI])
    BY Zenon, <1>2 DEF Occurrences
  <2>2. NextShared = rI
    BY Zenon, <1>2, <1>4, <2>1, NextIsWanted
  <2>3. shared' = {x \in shared : x # rI}
    BY Zenon, <1>2, <2>2 DEF LaterShared
  <2> QED BY <1>1, <1>2, <2>3 DEF OrderInv
<1>6. \A pe \in merged' : \E m \in DOMAIN rhs : m < rI' /\ rhs[m] = pe
  BY <1>1, <1>2 DEF OrderInv
<1>7. ASSUME NEW k \in DOMAIN lhs, NEW m \in DOMAIN rhs, lhs[k] = rhs[m]
      PROVE  k < lI' <=> m < rI'
  <2>1. k < lI <=> m < rI
    BY Zenon, <1>7 DEF OrderInv
  <2>2. k = lI <=> m = rI
    BY Zenon, <1>2, <1>4, <1>7
  <2> QED BY <1>1, <1>2, <2>1, <2>2
<1>8. lI' \in Nat /\ lI <= lI' /\ \A k \in DOMAIN lhs : it.pe = lhs[k] => lI <= k /\ k < lI'
  BY <1>1, <1>2, <1>3, <1>4
<1>9. /\ \A a \in DOMAIN items', k \in DOMAIN lhs : items'[a].pe = lhs[k] => k < lI'
      /\ \A a, b \in DOMAIN items', k1, k2 \in DOMAIN lhs :
           items'[a].pe = lhs[k1] /\ items'[b].pe = lhs[k2] /\ k1 < k2 => a < b
  BY Zenon, <1>2, <1>3, <1>8, PutOutInOrder
<1> QED BY Zenon, <1>2, <1>5, <1>6, <1>7, <1>9, OrderInvAfter

(* An item that only the left list has. *)
LEMMA TakeLHSInOrder ==
    ASSUME MergeInv, Agreed, OrderInv, TakeLHS
    PROVE  OrderInv'
<1> DEFINE it == Item(lhs[lI], lI, 0)
<1>1. /\ DOMAIN lhs \subseteq Nat /\ DOMAIN rhs \subseteq Nat /\ lI \in Nat /\ rI \in Nat
      /\ lhs \in Seq(PE) /\ rhs \in Seq(PE)
  BY IndexFacts DEF MergeInv, MergeTypeInv
<1>2. /\ lI \in DOMAIN lhs /\ Occurrences(rhs, lhs[lI]) = {}
      /\ PutsOut(it) /\ lI' = lI + 1
      /\ UNCHANGED <<lhs, rhs, rI, shared, merged>>
  BY Zenon DEF TakeLHS, PutsOut
<1>3. it \in [pe : PE, l : Nat, r : Nat] /\ it.pe = lhs[lI]
  <2>1. lhs[lI] \in PE /\ 0 \in Nat
    BY Zenon, <1>1, <1>2, ListElements
  <2> QED BY Zenon, <1>1, <2>1, ItemFacts
<1> HIDE DEF it
<1>4. \A k \in DOMAIN lhs : lhs[k] = lhs[lI] => k = lI
  BY Zenon, <1>2 DEF Agreed, NoDuplicates
<1>5. ASSUME NEW k \in DOMAIN lhs, NEW m \in DOMAIN rhs, lhs[k] = rhs[m]
      PROVE  k < lI' <=> m < rI
  <2>1. k # lI
    BY Zenon, <1>2, <1>5 DEF Occurrences
  <2>2. k < lI <=> m < rI
    BY Zenon, <1>5 DEF OrderInv
  <2>3. k \in Nat /\ lI \in Nat /\ lI' = lI + 1
    BY Zenon, <1>1, <1>2
  <2> QED BY <2>1, <2>2, <2>3
<1>6. lI' \in Nat /\ lI <= lI' /\ \A k \in DOMAIN lhs : it.pe = lhs[k] => lI <= k /\ k < lI'
  BY <1>1, <1>2, <1>3, <1>4
<1>7. /\ \A a \in DOMAIN items', k \in DOMAIN lhs : items'[a].pe = lhs[k] => k < lI'
      /\ \A a, b \in DOMAIN items', k1, k2 \in DOMAIN lhs :
           items'[a].pe = lhs[k1] /\ items'[b].pe = lhs[k2] /\ k1 < k2 => a < b
  BY Zenon, <1>2, <1>3, <1>6, PutOutInOrder
<1>8. /\ shared' = {m \in DOMAIN rhs : rI' <= m /\ Occurrences(lhs, rhs[m]) # {}}
      /\ \A pe \in merged' : \E m \in DOMAIN rhs : m < rI' /\ rhs[m] = pe
  BY Zenon, <1>2 DEF OrderInv
<1> QED BY Zenon, <1>2, <1>5, <1>7, <1>8, OrderInvAfter

(* An item of the right list is taken by itself only if the left one lacks *)
(* it, since one that is shared would wait for the left list.              *)
LEMMA TakeRHSInOrder ==
    ASSUME MergeInv, Agreed, OrderInv, TakeRHS
    PROVE  OrderInv'
<1> DEFINE it == Item(rhs[rI], Observed(lhs, rhs[rI]), Observed(rhs, rhs[rI]))
<1>1. /\ DOMAIN lhs \subseteq Nat /\ DOMAIN rhs \subseteq Nat /\ lI \in Nat /\ rI \in Nat
      /\ lhs \in Seq(PE) /\ rhs \in Seq(PE)
      /\ \A k \in DOMAIN lhs : lI \notin DOMAIN lhs => k < lI
      /\ \A m \in DOMAIN rhs : rI \notin DOMAIN rhs => m < rI
  BY IndexFacts DEF MergeInv, MergeTypeInv
<1>2. /\ lI \in DOMAIN lhs \/ rI \in DOMAIN rhs
      /\ ~SameItem /\ ~NotNextShared /\ Waiting
      /\ lI' = PassMerged /\ lhs' = lhs /\ rhs' = rhs
  BY Zenon DEF TakeRHS
<1>3. /\ rI \in DOMAIN rhs /\ Occurrences(lhs, rhs[rI]) = {}
      /\ shared # {} => rhs[NextShared] # rhs[rI]
      /\ lI \in DOMAIN lhs => lhs[lI] \notin merged
  <2>1. CASE lI \in DOMAIN lhs
    <3>1. Occurrences(rhs, lhs[lI]) # {}
      BY Zenon, <1>2, <2>1 DEF Waiting
    <3>2. /\ NextShared \in DOMAIN rhs /\ rI <= NextShared
          /\ rhs[NextShared] = lhs[lI] /\ \A x \in shared : NextShared <= x
      BY Zenon, <2>1, <3>1, NextIsWanted
    <3>3. rI \in DOMAIN rhs
      BY <1>1, <3>2
    <3>4. lhs[lI] # rhs[rI]
      BY Zenon, <1>2, <2>1, <3>3 DEF SameItem, InBoth
    <3>5. rI \notin shared
      BY <1>1, <3>2, <3>3, <3>4
    <3>6. Occurrences(lhs, rhs[rI]) = {}
      BY <1>1, <3>3, <3>5 DEF OrderInv
    <3>7. lhs[lI] \notin merged
      <4> SUFFICES ASSUME lhs[lI] \in merged PROVE FALSE
        BY Zenon
      <4>1. PICK m \in DOMAIN rhs : m < rI /\ rhs[m] = lhs[lI]
        BY Zenon DEF OrderInv
      <4>2. m = NextShared
        BY Zenon, <3>2, <4>1 DEF Agreed, NoDuplicates
      <4> QED BY <1>1, <3>2, <4>1, <4>2
    <3> QED BY Zenon, <3>2, <3>3, <3>4, <3>6, <3>7
  <2>2. CASE lI \notin DOMAIN lhs
    <3>1. rI \in DOMAIN rhs
      BY Zenon, <1>2, <2>2
    <3>2. \A m \in DOMAIN rhs : Occurrences(lhs, rhs[m]) # {} => m < rI
      BY Zenon, <1>1, <2>2 DEF OrderInv, Occurrences
    <3>3. Occurrences(lhs, rhs[rI]) = {} /\ shared = {}
      BY <1>1, <3>1, <3>2 DEF OrderInv
    <3> QED BY Zenon, <2>2, <3>1, <3>3
  <2> QED BY Zenon, <2>1, <2>2
<1>4. /\ PutsOut(it) /\ rI' = rI + 1 /\ lI' = lI /\ shared' = shared
      /\ merged' = merged \cup {rhs[rI]}
  BY Zenon, <1>2, <1>3 DEF TakeRHS, PassMerged, PutsOut
<1>5. it \in [pe : PE, l : Nat, r : Nat] /\ it.pe = rhs[rI]
  <2>1. rhs[rI] \in PE
    BY Zenon, <1>1, <1>3, ListElements
  <2>2. Observed(lhs, rhs[rI]) \in Nat /\ Observed(rhs, rhs[rI]) \in Nat
    BY Zenon, <1>1, <2>1, ObservedIndex
  <2> QED BY Zenon, <2>1, <2>2, ItemFacts
<1> HIDE DEF it
<1>6. \A k \in DOMAIN lhs : lhs[k] # rhs[rI]
  BY Zenon, <1>3 DEF Occurrences
<1>7. shared = {m \in DOMAIN rhs : rI' <= m /\ Occurrences(lhs, rhs[m]) # {}}
  BY <1>1, <1>3, <1>4 DEF OrderInv
<1>8. \A pe \in merged' : \E m \in DOMAIN rhs : m < rI' /\ rhs[m] = pe
  BY <1>1, <1>3, <1>4 DEF OrderInv
<1>9. ASSUME NEW k \in DOMAIN lhs, NEW m \in DOMAIN rhs, lhs[k] = rhs[m]
      PROVE  k < lI <=> m < rI'
  <2>1. m # rI
    BY Zenon, <1>6, <1>9
  <2>2. k < lI <=> m < rI
    BY Zenon, <1>9 DEF OrderInv
  <2>3. m \in Nat /\ rI \in Nat /\ rI' = rI + 1
    BY Zenon, <1>1, <1>4
  <2> QED BY <2>1, <2>2, <2>3
<1>10. lI <= lI' /\ lI' \in Nat
  BY <1>1, <1>4
<1>11. /\ \A a \in DOMAIN items', k \in DOMAIN lhs : items'[a].pe = lhs[k] => k < lI'
       /\ \A a, b \in DOMAIN items', k1, k2 \in DOMAIN lhs :
            items'[a].pe = lhs[k1] /\ items'[b].pe = lhs[k2] /\ k1 < k2 => a < b
  BY Zenon, <1>2, <1>4, <1>5, <1>6, <1>10, PutOutInOrder
<1> QED BY Zenon, <1>2, <1>4, <1>7, <1>8, <1>9, <1>11, OrderInvAfter

(* Before the first round all shared items are wanted. *)
LEMMA InitInOrder == MergeInit => OrderInv
<1> SUFFICES ASSUME MergeInit PROVE OrderInv
  BY Zenon
<1>1. MergeInv
  BY Zenon, InitMerges
<1>2. /\ \A k \in DOMAIN lhs : ~(k < lI)
      /\ \A m \in DOMAIN rhs : ~(m < rI) /\ rI <= m
  BY <1>1, IndexFacts DEF MergeInv, MergeInit
<1> QED BY <1>2 DEF MergeInit, SharedOrder, OrderInv

(* If the lists agree, every round keeps the order. *)
LEMMA NextInOrder ==
    ASSUME MergeInv, Agreed => OrderInv, [MergeNext]_mergeVars
    PROVE  (Agreed => OrderInv)'
<1> SUFFICES ASSUME Agreed' PROVE OrderInv'
  BY Zenon
<1>1. lhs' = lhs /\ rhs' = rhs
  BY Zenon DEF MergeNext, mergeVars, MergeItems, SkipLHS, TakeLHS, TakeRHS
<1>2. Agreed
  BY Zenon, <1>1 DEF Agreed, NoDuplicates, SameOrder
<1>3. CASE MergeItems
  BY Zenon, <1>2, <1>3, MergeItemsInOrder
<1>4. CASE SkipLHS
  BY Zenon, <1>2, <1>4, NothingSkipped DEF SkipLHS
<1>5. CASE TakeLHS
  BY Zenon, <1>2, <1>5, TakeLHSInOrder
<1>6. CASE TakeRHS
  BY Zenon, <1>2, <1>6, TakeRHSInOrder
<1>7. CASE UNCHANGED mergeVars
  BY <1>2, <1>7 DEF mergeVars, OrderInv, Occurrences
<1> QED BY Zenon, <1>3, <1>4, <1>5, <1>6, <1>7 DEF MergeNext

(* visitListItems keeps the order of the left list, if the right one does  *)
(* not contradict it, for lists of any length.                             *)
THEOREM MergeKeepsOrder == MergeSpec => []OrderOfLHSKept
<1> DEFINE Inv == MergeInv /\ (Agreed => OrderInv)
<1>1. MergeInit => Inv
  BY Zenon, InitMerges, InitInOrder
<1>2. Inv /\ [MergeNext]_mergeVars => Inv'
  BY Zenon, NextMerges, NextInOrder
<1>3. Inv => OrderOfLHSKept
  BY Zenon DEF MergeInv, MergeTypeInv, Agreed, OrderInv, OrderOfLHSKept
<1> QED BY <1>1, <1>2, <1>3, PTL DEF MergeSpec
=============================================================================
