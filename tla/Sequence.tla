------------------------------- MODULE Sequence -------------------------------
(***************************************************************************)
(* Ordered content: one field stored as a Fugue tree. An element is a node *)
(* with a parent and a side; the list is the in-order traversal with the   *)
(* dead nodes left out. Two documents merge by union, so a device's        *)
(* document is a set of nodes and a set of dead ids; what a node says      *)
(* never changes and is kept once, in elem.                                *)
(*                                                                         *)
(* typed is history: who wrote an element, what the writer's document held *)
(* then, and the element the new one was typed after.                      *)
(***************************************************************************)
EXTENDS Naturals, FiniteSets, FiniteSetsExt, Sequences, SequencesExt

CONSTANTS
    Device,      \* devices editing copies of the field
    MaxNodes,    \* bound: elements ever written; their ids are 1..MaxNodes
    MaxErased,   \* bound: elements ever erased
    MaxResets    \* bound: how often a device turns the field into a new sequence

ASSUME BoundAssumption == {MaxNodes, MaxErased, MaxResets} \subseteq Nat

VARIABLES
    elem,    \* elem[n]: parent and side of node n, once it is written
    nodes,   \* nodes[d]: the ids in the `nodes` set of d's document
    dead,    \* dead[d]: the ids in its `dead` set
    typed,   \* typed[n]: by whom, after what, and having seen what
    resets   \* seq_init calls so far

vars == <<elem, nodes, dead, typed, resets>>

Top == 0   \* the virtual root, "" in the code
Node == 1..MaxNodes
Written == DOMAIN elem

(* What a document holds hangs together: a node's parent is there, and what  *)
(* is dead is a node.                                                        *)
TypeOK ==
    /\ Written \subseteq Node
    /\ elem \in [Written -> [parent : Node \union {Top}, side : {"left", "right"}]]
    /\ nodes \in [Device -> SUBSET Written]
    /\ dead \in [Device -> SUBSET Written]
    /\ typed \in [Written -> [by : Device, after : Written \union {Top}, seen : SUBSET Written]]
    /\ resets \in 0..MaxResets
    /\ \A d \in Device :
          /\ dead[d] \subseteq nodes[d]
          /\ \A n \in nodes[d] : elem[n].parent \in nodes[d] \union {Top}

Init ==
    /\ elem = <<>> /\ typed = <<>>
    /\ nodes = [d \in Device |-> {}]
    /\ dead = [d \in Device |-> {}]
    /\ resets = 0

-----------------------------------------------------------------------------
(* Reading. *)

(* What d's document says of its nodes. *)
Tree(d) == [n \in nodes[d] |-> elem[n]]

Children(T, p, side) == {n \in DOMAIN T : T[n].parent = p /\ T[n].side = side}

(* The frames of one list of siblings lie next to each other on the stack, the *)
(* least on top, so they are kept as one frame: the siblings not begun yet.    *)
Push(stack, siblings) ==
    IF siblings = {} THEN stack ELSE Append(stack, [of |-> siblings, begun |-> FALSE])

(* What the traversal goes through: its stack, and the list so far.           *)
Traversal == [stack : Seq([of : SUBSET Node, begun : BOOLEAN]), out : Seq(Node)]

(* A turn of its loop. The least sibling is begun: its left children come     *)
(* before it. A node that was begun is next: its right children come after.   *)
Turn(T) ==
    [s \in Traversal |->
        IF s.stack = <<>> THEN s
        ELSE LET f == Last(s.stack)
                 rest == Front(s.stack)
                 n == Min(f.of)
             IN IF f.begun
                THEN [stack |-> Push(rest, Children(T, n, "right")), out |-> Append(s.out, n)]
                ELSE [stack |-> Push(Append(Push(rest, f.of \ {n}), [of |-> {n}, begun |-> TRUE]),
                                     Children(T, n, "left")),
                      out |-> s.out]]

Start(T) ==
    [stack |-> Push(Push(<<>>, Children(T, Top, "right")), Children(T, Top, "left")),
     out |-> <<>>]

Turns(T) ==
    LET at[k \in Nat] == IF k = 0 THEN Start(T) ELSE Turn(T)[at[k - 1]]
    IN at

(* The total order, tombstones included: every node has its two turns.        *)
Order(T) == Turns(T)[2 * Cardinality(DOMAIN T)].out

(* The elements of s that are in S, in their order. *)
Kept(s, S) ==
    LET upto[k \in Nat] == IF k = 0 THEN <<>>
                           ELSE IF s[k] \in S THEN Append(upto[k - 1], s[k])
                           ELSE upto[k - 1]
    IN upto[Len(s)]

IndexOf(s, x) == CHOOSE k \in DOMAIN s : s[k] = x

Visible(d) == Kept(Order(Tree(d)), nodes[d] \ dead[d])

-----------------------------------------------------------------------------
(* Editing. *)

HasRightChild(T, p) == Children(T, p, "right") # {}

(* The node that follows l in the full order, or Top when there is none. *)
Following(T, l) ==
    LET all == Order(T)
        at == IF l = Top THEN 1 ELSE IndexOf(all, l) + 1
    IN IF at \in DOMAIN all THEN all[at] ELSE Top

(* Mutants of Slot: whatever follows is squeezed in ahead of; an element      *)
(* always hangs to the right of the one before it.                            *)
SlotAhead(T, l) ==
    IF Following(T, l) # Top THEN [parent |-> Following(T, l), side |-> "left"]
    ELSE [parent |-> l, side |-> "right"]
SlotBehind(T, l) == [parent |-> l, side |-> "right"]

(* Where a new element that follows l is attached. *)
Slot(T, l) ==
    IF (l = Top \/ HasRightChild(T, l)) /\ Following(T, l) # Top
    THEN [parent |-> Following(T, l), side |-> "left"]
    ELSE [parent |-> l, side |-> "right"]

(* The element a new one with i visible elements before it is typed after. *)
Left(d, i) == IF i = 0 THEN Top ELSE Visible(d)[i]

With(f, n, v) == [m \in DOMAIN f \union {n} |-> IF m = n THEN v ELSE f[m]]

(* Element n becomes the one with i visible elements before it. Ids come in   *)
(* any order: they are compared as text, and the numbers in them outgrow      *)
(* their padding.                                                             *)
Insert(d, i, n) ==
    /\ n \in Node \ Written
    /\ i <= Len(Visible(d))
    /\ elem' = With(elem, n, Slot(Tree(d), Left(d, i)))
    /\ typed' = With(typed, n, [by |-> d, after |-> Left(d, i), seen |-> nodes[d]])
    /\ nodes' = [nodes EXCEPT ![d] = @ \union {n}]
    /\ UNCHANGED <<dead, resets>>

(* Mutant of Erase: the node itself is taken out. *)
ErasePrunes(d, i) ==
    /\ i <= Len(Visible(d))
    /\ nodes' = [nodes EXCEPT ![d] = @ \ {Visible(d)[i]}]
    /\ UNCHANGED <<elem, dead, typed, resets>>

(* The i-th visible element is marked dead; its node stays. *)
Erase(d, i) ==
    /\ i <= Len(Visible(d))
    /\ Cardinality(UNION {dead[e] : e \in Device} \union {Visible(d)[i]}) <= MaxErased
    /\ dead' = [dead EXCEPT ![d] = @ \union {Visible(d)[i]}]
    /\ UNCHANGED <<elem, nodes, typed, resets>>

(* seq_init: the field is replaced by an empty sequence; the elements it is   *)
(* seeded with are inserted one by one.                                       *)
Reset(d) ==
    /\ resets < MaxResets
    /\ resets' = resets + 1
    /\ nodes' = [nodes EXCEPT ![d] = {}]
    /\ dead' = [dead EXCEPT ![d] = {}]
    /\ UNCHANGED <<elem, typed>>

(* d joins the document of e. *)
Merge(d, e) ==
    /\ nodes' = [nodes EXCEPT ![d] = @ \union nodes[e]]
    /\ dead' = [dead EXCEPT ![d] = @ \union dead[e]]
    /\ UNCHANGED <<elem, typed, resets>>

Next ==
    \/ \E d \in Device, n \in Node, i \in 0..MaxNodes : Insert(d, i, n)
    \/ \E d \in Device, i \in 1..MaxNodes : Erase(d, i)
    \/ \E d \in Device : Reset(d)
    \/ \E d, e \in Device : d # e /\ Merge(d, e)

Spec == Init /\ [][Next]_vars

-----------------------------------------------------------------------------
(* Properties. *)

(* The index given to seq_insert counts visible elements: whatever is dead   *)
(* and however the tree has grown, a new element reads back exactly one past *)
(* the element it was typed after, and nothing else moves.                   *)
InsertsLandWhereTyped ==
    [][\A n \in DOMAIN typed' \ Written, d \in Device : typed'[n].by = d =>
          LET before == Visible(d)
              x == typed'[n].after
              i == IF x = Top THEN 0 ELSE IndexOf(before, x)
          IN Visible(d)' = InsertAt(before, i + 1, n)]_vars

(* One order for everyone: every document, however far behind, reads its     *)
(* elements in the order all elements ever written have together, so nothing *)
(* that arrives later moves two elements past each other.                    *)
AllReadOneOrder ==
    /\ TypeOK
    /\ \A d \in Device :
          Order(Tree(d)) = Kept(Order(elem), nodes[d])

(* Two people typing at one spot do not interleave: when y was typed right   *)
(* after x, only someone who had seen x can have put something between them. *)
RunsDoNotInterleave ==
    LET all == Order(elem) IN
    \A y \in Written : typed[y].after # Top =>
        LET x == typed[y].after IN
        \A k \in IndexOf(all, x) + 1 .. IndexOf(all, y) - 1 : x \in typed[all[k]].seen

=============================================================================
