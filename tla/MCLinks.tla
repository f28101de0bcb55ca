-------------------------------- MODULE MCLinks --------------------------------
(* Three runes with names of their own, and two that share one.              *)
EXTENDS Links

SharedName == [r \in Rune |-> IF r = 5 THEN 4 ELSE r]

TieArcAndPort == [l \in Label |-> IF l = "1:2" THEN <<1, 2>> ELSE NoPorts]

(* Bound: an edge differs in its note only from one that is there already. *)
NotesTellParallelsApart ==
    \A e \in edges : e.note = "second" => [e EXCEPT !.note = "first"] \in edges

=============================================================================
