------------------------------ MODULE V8Slice ------------------------------
(* V8Slice<T>: the pieces of an ArrayBuffer that ops hold.  A piece is a   *)
(* range of elements of the backing store, which the pieces share; what    *)
(* JavaScript hands over is a range of its bytes.                          *)
EXTENDS Integers, Sequences

CONSTANTS StoreLen,   \* bytes of the backing store
          ElemSize,   \* size_of::<T>()
          MaxSlices   \* bounds the pieces it is cut into
ASSUME SliceAssumption == StoreLen \in Nat /\ ElemSize \in Nat \ {0} /\ MaxSlices \in Nat

VARIABLES slices,     \* the ranges [start, end) of the pieces, in elements
          view        \* the range JavaScript handed over, in bytes
sliceVars == <<slices, view>>

(* A view, which V8 aligns to its elements, or a whole buffer; a resizable *)
(* or shared store is refused.                                             *)
to_ranged_buffer ==
    \E start \in 0..StoreLen : \E end \in start..StoreLen :
        /\ start % ElemSize = 0 /\ end % ElemSize = 0
        /\ view = [start |-> start, end |-> end]

(* Bytes into elements.                                                    *)
from_parts(r) == [start |-> r.start \div ElemSize, end |-> r.end \div ElemSize]

SliceInit == to_ranged_buffer /\ slices = <<from_parts(view)>>

(* The length is clamped to the store.                                     *)
StoreElems == StoreLen \div ElemSize
SliceLen(r) == LET end == IF r.end < StoreElems THEN r.end ELSE StoreElems
               IN IF end < r.start THEN 0 ELSE end - r.start

(* The two parts of a slice; split_to keeps the second, split_off the      *)
(* first.                                                                  *)
CutWithoutOffset(r, at) == <<[start |-> r.start, end |-> r.start + at],
                             [start |-> at, end |-> r.start + SliceLen(r)]>>
Cut(r, at) == <<[start |-> r.start, end |-> r.start + at],
                [start |-> r.start + at, end |-> r.start + SliceLen(r)]>>

split_to(i, at) ==
    /\ at <= SliceLen(slices[i]) /\ Len(slices) < MaxSlices
    /\ slices' = Append([slices EXCEPT ![i] = Cut(@, at)[2]], Cut(slices[i], at)[1])
    /\ UNCHANGED view

split_off(i, at) ==
    /\ at <= SliceLen(slices[i]) /\ Len(slices) < MaxSlices
    /\ slices' = Append([slices EXCEPT ![i] = Cut(@, at)[1]], Cut(slices[i], at)[2])
    /\ UNCHANGED view

truncate(i, len) ==
    /\ slices' = [slices EXCEPT ![i].end = IF @ < slices[i].start + len THEN @ ELSE slices[i].start + len]
    /\ UNCHANGED view

SliceNext == \E i \in DOMAIN slices, n \in 0..(StoreElems + 1) :
                split_to(i, n) \/ split_off(i, n) \/ truncate(i, n)

SliceSpec == SliceInit /\ [][SliceNext]_sliceVars
-----------------------------------------------------------------------------
Holds(r, e) == r.start <= e /\ e < r.end

(* A piece holds the bytes of its elements.                                *)
HoldsByte(r, b) == Holds(r, b \div ElemSize)

(* However a slice is cut and shortened, no two of the pieces have a byte  *)
(* in common, so that no two writers see the same one, and none reaches a  *)
(* byte of the buffer outside the view that was handed over.               *)
PiecesApart ==
    /\ \A i, k \in DOMAIN slices : i # k =>
          \A b \in 0..(StoreLen - 1) : ~(HoldsByte(slices[i], b) /\ HoldsByte(slices[k], b))
    /\ \A i \in DOMAIN slices : \A b \in 0..(StoreLen - 1) :
          HoldsByte(slices[i], b) => view.start <= b /\ b < view.end
=============================================================================
