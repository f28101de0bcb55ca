------------------------------- MODULE MCReplica -------------------------------
(* A glyph declaration with one register, on two devices. *)
EXTENDS ReplicaKnowledge, Sequences, TLC

FlatParent == [o \in Obj |-> Root]
DescriptorPlace == <<"glyph", "descriptor">>
OneDescriptor == {DescriptorPlace}
AllShown == [p \in Reg |-> "Conflict"]

Symmetry == Permutations(Device)

(* The order of observe_into: presence before the descriptor. *)
PlaceOrder == <<Presence("glyph"), DescriptorPlace>>
PlaceIndex(p) == CHOOSE k \in 1..Len(PlaceOrder) : PlaceOrder[k] = p
VisitOrder == [w \in Place \X Value |-> 10 * PlaceIndex(w[1]) + w[2]]

(* Bounds on what is explored: how far the counters of the two devices get;  *)
(* four tags in the world, and two while two messages are under way.         *)
FewEdits == \A d, e \in Device : d # e => rep[d].issued + rep[e].issued <= 5
FewAtOnce ==
    LET tags == Cardinality(UNION {TagsOf(D) : D \in Documents})
    IN tags <= 4 /\ (Cardinality(air) = 2 => tags <= 2)

=============================================================================
