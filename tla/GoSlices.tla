------------------------------ MODULE GoSlices ------------------------------
(***************************************************************************)
(* Slices of the Go runtime, as far as the code depends on them: a slice   *)
(* is the beginning of an array that other slices may have in common with  *)
(* it, and append writes into the array as long as it has room.            *)
(***************************************************************************)
EXTENDS Integers, Sequences

(* A memory is a sequence of arrays.  A slice without an array is nil.     *)
NilSlice == [array |-> 0, len |-> 0]

NoElement == <<>>

Cap(mem, s) == IF s.array = 0 THEN 0 ELSE Len(mem[s.array])

Content(mem, s) == IF s.len = 0 THEN <<>> ELSE SubSeq(mem[s.array], 1, s.len)

(* append allocates an array of twice the size when there is no room.  For *)
(* the element sizes used here, 24 and 32 bytes, the runtime's size        *)
(* classes add nothing to that.                                            *)
Grown(mem, s, e) ==
    LET room == IF s.len = 0 THEN 0 ELSE s.len - 1
    IN  Content(mem, s) \o <<e>> \o [i \in 1 .. room |-> NoElement]

(* The memory and the slice after s = append(s, e). *)
AppendMem(mem, s, e) ==
    IF s.len < Cap(mem, s) THEN [mem EXCEPT ![s.array][s.len + 1] = e]
    ELSE Append(mem, Grown(mem, s, e))

AppendSlice(mem, s, e) ==
    [array |-> IF s.len < Cap(mem, s) THEN s.array ELSE Len(mem) + 1,
     len   |-> s.len + 1]

(* s[:len(s)-1] *)
WithoutLast(s) == [s EXCEPT !.len = @ - 1]
=============================================================================
