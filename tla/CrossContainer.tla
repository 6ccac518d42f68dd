---------------------------- MODULE CrossContainer ----------------------------
(***************************************************************************)
(* The containers the generators share.  A collection has a field for every *)
(* member of the ensemble, a field a value for every grid point.  A cross   *)
(* container makes the values of one point, useIndex_, look like a container*)
(* of their own, with iterators that go from member to member and can be    *)
(* written through.  Nothing is copied: what is written is in the fields.   *)
(*                                                                          *)
(* Members and points are counted from zero, as in the code, where they are *)
(* indices; all fields of a collection have the same size.  An iterator     *)
(* here does not hold the collection it goes over, which is given instead:  *)
(* iterators of different collections are never compared.                   *)
(***************************************************************************)
EXTENDS Integers, Sequences

begin(useIndex) == [constIndex_ |-> useIndex, toIterateIndex_ |-> 0]
end(collection, useIndex) == [constIndex_ |-> useIndex, toIterateIndex_ |-> Len(collection)]

\* The operators ++, -- and +.
Moved(it, amount) == [it EXCEPT !.toIterateIndex_ = @ + amount]

\* The operator -.
Distance(a, b) == a.toIterateIndex_ - b.toIterateIndex_

\* Both indices go through at, which would throw std::out_of_range.
InRange(collection, it) ==
    /\ it.toIterateIndex_ \in 0 .. Len(collection) - 1
    /\ it.constIndex_ \in 0 .. Len(collection[it.toIterateIndex_ + 1]) - 1

\* Bug variant of Value: the value of the first point.
ValueOfFirstPoint(collection, it) == collection[it.toIterateIndex_ + 1][1]

\* The value the operator * refers to, whether it is read or assigned to.
Value(collection, it) == collection[it.toIterateIndex_ + 1][it.constIndex_ + 1]

\* The values from begin to end.
Elements(collection, useIndex) ==
    [m \in 1 .. Distance(end(collection, useIndex), begin(useIndex)) |->
        Value(collection, Moved(begin(useIndex), m - 1))]

\* All of them can be had.
Complete(collection, useIndex) ==
    \A m \in 0 .. Len(collection) - 1 : InRange(collection, Moved(begin(useIndex), m))

-----------------------------------------------------------------------------
(* dataTypes.h *)

getBlobCollection(noOfBlobs, blobSize) == [m \in 1..noOfBlobs |-> [g \in 1..blobSize |-> 0]]

getEqualSizeBlobCollection(c) == getBlobCollection(Len(c), Len(c[1]))

=============================================================================
