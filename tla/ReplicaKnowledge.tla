---------------------------- MODULE ReplicaKnowledge ----------------------------
(* Replicas as an implementation of Knowledge: the facts of a document are    *)
(* its adds and its retired tags. Two adds under one tag contradict.          *)
EXTENDS Replica

Facts(D) == D.adds \union D.rems
SameTag(x, y) == x \in Add /\ y \in Add /\ x.tag = y.tag

Known == [d \in Device |-> Facts(rep[d].doc)]
Kept == [d \in Device |-> Facts(disk[d].doc)]
Said == {Facts(m) : m \in air}

K == INSTANCE Knowledge WITH Clash <- SameTag, known <- Known, kept <- Kept, said <- Said

(* The loop of replica.hpp -- observe, save, send, merge, splice -- gives     *)
(* what Knowledge promises, whatever is lost, repeated, overtaken, forked or  *)
(* crashed: a merge only ever adds to what a device knows, a crash takes it   *)
(* back to what it saved, and a new add never contradicts one anywhere.       *)
ImplementsKnowledge == K!Spec

=============================================================================
