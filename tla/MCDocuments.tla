----------------------------- MODULE MCDocuments -----------------------------
(* One mantle with a rune in it, room for a second rune, a link to the first  *)
(* one's name, a glyph declaration; two forks of the replica that took it in.  *)
EXTENDS Documents, Sequences, TLC

TreeParent == [o \in Obj |-> IF o \in {"r1", "r2"} THEN "m" ELSE Root]

NamePlaces == {<<"r1", "spirit.name">>, <<"r2", "spirit.name">>}
TypePlace == <<"r1", "glyph">>
ContentPlace == <<"r1", "content.k">>
EdgePlace == <<"m", "edges">>
TagsPlace == <<"r1", "tags">>

FixedPlaces == NamePlaces \union {TypePlace}
KeyedPlaces == {ContentPlace}
BagPlaces == {EdgePlace, TagsPlace}

(* Content is read as Latest; what else conflicts is shown as a conflict. *)
Policies == [p \in Reg |-> IF p = ContentPlace THEN "Latest" ELSE "Conflict"]

(* Names, edges and content are 1 and 2; a rune of glyph 1 is of type g.  *)
EdgeEnds == [v \in Value |-> {<<"m", v>>}]
GlyphNamed == [v \in Value |-> "g"]
Taken == [p \in Reg \union Bag |-> CASE p = TypePlace    -> {1}
                                     [] p = ContentPlace -> {1}
                                     [] p = EdgePlace    -> {1}
                                     [] p = TagsPlace    -> {1}
                                     [] OTHER            -> {1, 2}]

IdsOn == [d \in Device |-> IF d = CHOOSE e \in Device : TRUE THEN 1 ELSE 2]

(* One rune, named 1 and linked to. *)
OneLinked ==
    [live |-> {"m", "r1", "g"},
     reg  |-> [p \in Reg |-> CASE p \in {TypePlace, <<"r1", "spirit.name">>} -> 1
                               [] OTHER -> Absent],
     bag  |-> [p \in Bag |-> {1}]]

(* The order of observe_into: presence before fields, fields before sets. *)
PlaceOrder ==
    <<Presence("m"), Presence("r1"), <<"r1", "glyph">>, <<"r1", "spirit.name">>, ContentPlace,
      TagsPlace, Presence("r2"), <<"r2", "spirit.name">>, EdgePlace, Presence("g")>>
PlaceIndex(p) == CHOOSE k \in 1..Len(PlaceOrder) : PlaceOrder[k] = p
VisitOrder == [w \in Place \X Value |-> 10 * PlaceIndex(w[1]) + w[2]]

=============================================================================
