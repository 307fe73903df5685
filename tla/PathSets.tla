------------------------------ MODULE PathSets ------------------------------
(***************************************************************************)
(* What package fieldpath promises of its sets: they are sets of non-empty *)
(* paths, and its operations are the operations of set theory.             *)
(***************************************************************************)
EXTENDS SequencesExt

CONSTANTS
    Elem,   \* path elements
    Inputs, \* paths that are inserted
    Named   \* paths that the schema declares as fields of a struct

VARIABLES A, B   \* two sets: the receiver of the operations and the argument

NoPath == <<>>

(* The proper prefixes of p. *)
Parents(p) == {SubSeq(p, 1, n) : n \in 1 .. Len(p) - 1}

Init == A = {} /\ B = {}

New == A' = {} /\ UNCHANGED B

Insert(p) == A' = A \cup ({p} \ {NoPath}) /\ UNCHANGED B

Union == A' = A \cup B /\ UNCHANGED B

Intersection == A' = A \cap B /\ UNCHANGED B

Difference == A' = A \ B /\ UNCHANGED B

RecursiveDifference ==
    /\ A' = {p \in A : (Parents(p) \cup {p}) \cap B = {}}
    /\ UNCHANGED B

Leaves == A' = {p \in A : \A q \in A : p \notin Parents(q)} /\ UNCHANGED B

EnsureNamedFieldsAreMembers ==
    A' = A \cup (Named \cap UNION {Parents(p) : p \in A}) /\ UNCHANGED B

WithPrefix(e) ==
    A' = {Tail(p) : p \in {q \in A : Head(q) = e}} \ {NoPath} /\ UNCHANGED B

Assign == B' = A /\ UNCHANGED A

Swap == A' = B /\ B' = A

Next ==
    \/ New
    \/ \E p \in Inputs : Insert(p)
    \/ Union
    \/ Intersection
    \/ Difference
    \/ RecursiveDifference
    \/ Leaves
    \/ EnsureNamedFieldsAreMembers
    \/ \E e \in Elem : WithPrefix(e)
    \/ Assign
    \/ Swap

Spec == Init /\ [][Next]_<<A, B>>
=============================================================================
