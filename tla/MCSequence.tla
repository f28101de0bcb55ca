------------------------------ MODULE MCSequence ------------------------------
(* Two or three devices and a handful of elements. *)
EXTENDS Sequence, TLC

Symmetry == Permutations(Device)

(* Bound: a device's ids ascend as it types, as they do until the number in   *)
(* them outgrows its padding; those of two devices interleave in any way.     *)
IdsAscend ==
    \A n \in DOMAIN elem' \ Written :
        \A m \in Written : typed[m].by = typed'[n].by => m < n

=============================================================================
