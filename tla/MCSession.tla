------------------------------- MODULE MCSession -------------------------------
(* Two devices, named a and b. *)
EXTENDS Session

PeerPair == {"a", "b"}
OtherOf == [p \in PeerPair |-> IF p = "a" THEN "b" ELSE "a"]
OwnIds == [p \in PeerPair |-> p]

(* One fact, which a records. *)
OneOnly == {"a1"}
MadeBy == [f \in Fact |-> "a"]

=============================================================================
