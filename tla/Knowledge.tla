------------------------------- MODULE Knowledge -------------------------------
(***************************************************************************)
(* What the replicas of a document promise, without documents, tags or     *)
(* joins: devices that know a growing set of facts each, keep some of them *)
(* for good, and tell each other what they have kept. A fact is new to all *)
(* of them when it is made, so facts of two devices never contradict.      *)
(***************************************************************************)

CONSTANTS
    Device,
    Clash(_, _)   \* two facts that cannot both have been made

VARIABLES
    known,   \* known[d]: the facts d knows
    kept,    \* kept[d]: the facts d falls back to when it stops
    said     \* what has been said and may still be heard, in pieces

vars == <<known, kept, said>>

Somewhere ==
    (UNION {known[d] \union kept[d] : d \in Device}) \union UNION said

Init ==
    /\ known = [d \in Device |-> {}]
    /\ kept = [d \in Device |-> {}]
    /\ said = {}

(* Facts are added to what d knows, none of which contradicts a fact that is *)
(* anywhere.                                                                 *)
Make(d) ==
    /\ known' = [known EXCEPT ![d] = known'[d]]
    /\ known[d] \subseteq known'[d]
    /\ \A x \in known'[d] \ known[d], y \in Somewhere : ~Clash(x, y)
    /\ UNCHANGED <<kept, said>>

(* d hears a piece and forgets nothing for it. *)
Learn(d) ==
    /\ \E piece \in said : known' = [known EXCEPT ![d] = @ \union piece]
    /\ UNCHANGED <<kept, said>>

(* d is given, as a new device, what e knows and has kept. *)
Copy(d, e) ==
    /\ kept[e] = known[e] /\ kept[d] = {}
    /\ known' = [known EXCEPT ![d] = known[e]]
    /\ UNCHANGED <<kept, said>>

Keep(d) ==
    /\ kept' = [kept EXCEPT ![d] = known[d]]
    /\ UNCHANGED <<known, said>>

(* Only a device that has kept all it knows speaks. *)
Say(d) ==
    /\ kept[d] = known[d]
    /\ \E piece \in said' : piece \subseteq known[d] /\ said' = said \union {piece}
    /\ UNCHANGED <<known, kept>>

Fade ==
    /\ said' \subseteq said
    /\ UNCHANGED <<known, kept>>

FallBack(d) ==
    /\ known' = [known EXCEPT ![d] = kept[d]]
    /\ UNCHANGED <<kept, said>>

Next ==
    \/ \E d \in Device : Make(d) \/ Learn(d) \/ Keep(d) \/ Say(d) \/ FallBack(d)
    \/ \E d, e \in Device : Copy(d, e)
    \/ Fade

Spec == Init /\ [][Next]_vars

-----------------------------------------------------------------------------

(* Nothing that was said is ever lost: whatever may still be heard, some     *)
(* device has kept.                                                          *)
NothingSaidIsLost == \A piece \in said : \E d \in Device : piece \subseteq kept[d]

=============================================================================
