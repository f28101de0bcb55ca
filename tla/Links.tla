--------------------------------- MODULE Links ---------------------------------
(***************************************************************************)
(* check_links: three passes over the links of one state document. The     *)
(* links under an equivalence label are united one by one (union-find with *)
(* the least member as the root), every slot's ends are counted, and the   *)
(* links under the acyclic labels are searched for cycles (Tarjan's        *)
(* strongly connected components with an explicit stack of frames).        *)
(*                                                                         *)
(* Links are visited in any order: the code visits them in the order of    *)
(* their bytes, and its answer must not depend on it.                      *)
(***************************************************************************)
EXTENDS Naturals, FiniteSets, FiniteSetsExt, Sequences, SequencesExt

CONSTANTS
    Rune,         \* runes, numbered in the order of <<mantle, spirit.id>>
    NameOf,       \* NameOf[r]: the name rune r shows in its mantle
    Label,        \* relation labels
    Equivalence,  \* the labels some equivalence pattern matches
    Acyclic,      \* the labels one acyclic pattern matches
    Counted,      \* the labels a capacity's pattern matches
    Slot,         \* its slot: "to", "from", "ends", "ports", "from_port", "to_port"
    PortsOf,      \* PortsOf[l]: the ports of a label "i:j", or NoPorts
    NoPorts,
    Limit,        \* its max
    Note,         \* what else an edge says: parallel links differ in it
    MaxLinks      \* bound: links in the document

ASSUME RuneAssumption == Rune \subseteq Nat /\ IsFiniteSet(Rune)
ASSUME LabelAssumption == Equivalence \union Acyclic \union Counted \subseteq Label

(* The parts of a link that can occupy something. *)
Slots == {"to", "from", "ends", "ports", "from_port", "to_port"}
ASSUME SlotAssumption == Slot \in Slots
ASSUME BoundAssumption == {Limit, MaxLinks} \subseteq Nat

Name == {NameOf[r] : r \in Rune}
Edge == [from : Name, to : Name, label : Label, note : Note]

VARIABLES
    edges,    \* the edges of the document
    pass,     \* "open", then "fuse", "search" and "done"
    todo,     \* the equivalence links not united yet
    parent,   \* the union-find forest; a root is its own parent
    index,    \* index[v]: when the search first met v
    low,      \* low[v]: the earliest index known to be reachable from v
    stack,    \* runes met whose component is not closed
    work,     \* frames of the search: a rune and the targets it has not tried
    comps     \* components closed so far

vars == <<edges, pass, todo, parent, index, low, stack, work, comps>>
search == <<index, low, stack, work, comps>>

-----------------------------------------------------------------------------
(* Resolving. *)

(* A name resolves when exactly one rune holds it. *)
Holders(n) == {r \in Rune : NameOf[r] = n}
Resolves(e) == Cardinality(Holders(e.from)) = 1 /\ Cardinality(Holders(e.to)) = 1
RuneNamed(n) == CHOOSE r \in Rune : Holders(n) = {r}

(* The edges both of whose ends resolve; the others are skipped. Links that   *)
(* say the same in every word are one link, parallel ones are not.            *)
Links ==
    {[from |-> RuneNamed(e.from), to |-> RuneNamed(e.to), label |-> e.label, note |-> e.note] :
        e \in {x \in edges : Resolves(x)}}

Under(labels) == {l \in Links : l.label \in labels}

Init ==
    /\ edges = {}
    /\ pass = "open"
    /\ todo = {}
    /\ parent = [r \in Rune |-> r]
    /\ index = <<>> /\ low = <<>> /\ stack = <<>> /\ work = <<>> /\ comps = {}

(* The document is put together edge by edge, by whoever edits or merges. *)
Hold(e) ==
    /\ pass = "open" /\ Cardinality(edges) < MaxLinks
    /\ edges' = edges \union {e}
    /\ UNCHANGED <<pass, todo, parent, search>>

CheckLinks ==
    /\ pass = "open"
    /\ pass' = "fuse"
    /\ todo' = Under(Equivalence)
    /\ UNCHANGED <<edges, parent, search>>

-----------------------------------------------------------------------------
(* Equivalence. *)

(* What find meets on its way up from x in the forest par: the least set that *)
(* holds x and, with each rune, its parent.                                   *)
Way(par, x) ==
    {y \in Rune : \A S \in SUBSET Rune : x \in S /\ (\A z \in S : par[z] \in S) => y \in S}

Find(par, x) == CHOOSE r \in Way(par, x) : par[r] = r

(* Mutant of United: the first link's end is the root, least or not.          *)
UnitedAsGiven(par, a, b) ==
    [x \in Rune |-> IF x \in Way(par, a) \union Way(par, b) THEN Find(par, a) ELSE par[x]]

(* The forest after find on both ends, which hangs every rune on its way      *)
(* directly under the root, and the greater root put under the least.         *)
United(par, a, b) ==
    LET ra == Find(par, a)
        rb == Find(par, b)
        flat == [x \in Rune |->
                   IF x \in Way(par, a) THEN ra ELSE IF x \in Way(par, b) THEN rb ELSE par[x]]
    IN [flat EXCEPT ![Max({ra, rb})] = Min({ra, rb})]

Unite(l) ==
    /\ pass = "fuse" /\ l \in todo
    /\ todo' = todo \ {l}
    /\ parent' = United(parent, l.from, l.to)
    /\ UNCHANGED <<edges, pass, search>>

Fused ==
    /\ pass = "fuse" /\ todo = {}
    /\ pass' = "search"
    /\ UNCHANGED <<edges, todo, parent, search>>

Representative(r) == Find(parent, r)
Class(r) == {x \in Rune : Representative(x) = r}
Classes == {c \in {Class(r) : r \in Rune} : Cardinality(c) >= 2}

-----------------------------------------------------------------------------
(* Capacity. *)

(* A link that fuses never occupies. *)
Occupying == Under(Counted \ Equivalence)

(* The ends of link l that occupy something, with the port they do it at. *)
EndsOf(l) ==
    LET at(e) == CASE Slot \in {"ports", "from_port", "to_port"} /\ PortsOf[l.label] # NoPorts
                        -> IF e = "from" THEN PortsOf[l.label][1] ELSE PortsOf[l.label][2]
                   [] OTHER -> 0
        ported == IF PortsOf[l.label] = NoPorts THEN {} ELSE {"from", "to"}
        ends == CASE Slot \in {"to", "from"} -> {Slot}
                  [] Slot = "ends"           -> {"from", "to"}
                  [] Slot = "from_port"      -> ported \ {"to"}
                  [] Slot = "to_port"        -> ported \ {"from"}
                  [] OTHER                   -> ported
    IN {[link |-> l, rune |-> IF e = "from" THEN l.from ELSE l.to, end |-> e, port |-> at(e)] :
            e \in ends}

AllEnds == UNION {EndsOf(l) : l \in Occupying}

(* Mutant of Held: each rune of a class has a capacity of its own. *)
HeldByRune(r, port) == {h \in AllEnds : h.rune = r /\ h.port = port}

(* Counted per end, a link to itself holding twice, and on the class of a     *)
(* rune: the rules counted through_equivalence, as bookings are.              *)
Held(r, port) == {h \in AllEnds : Representative(h.rune) = r /\ h.port = port}
OverCapacity ==
    {s \in {<<Representative(h.rune), h.port>> : h \in AllEnds} :
        Cardinality(Held(s[1], s[2])) > Limit}

-----------------------------------------------------------------------------
(* Cycles. *)

Arcs == Under(Acyclic)
Targets(v) == {l.to : l \in {x \in Arcs : x.from = v}}
Searched == {l.from : l \in Arcs} \union {l.to : l \in Arcs}
Met == DOMAIN index
With(f, x, n) == [y \in DOMAIN f \union {x} |-> IF y = x THEN n ELSE f[y]]

Meet(v) ==
    /\ index' = With(index, v, Cardinality(Met))
    /\ low' = With(low, v, Cardinality(Met))
    /\ stack' = Append(stack, v)

(* The next start is the least rune not met yet. *)
Begin ==
    /\ pass = "search" /\ work = <<>> /\ Searched \ Met # {}
    /\ LET v == Min(Searched \ Met)
       IN Meet(v) /\ work' = <<[at |-> v, rest |-> Targets(v)]>>
    /\ UNCHANGED <<edges, pass, todo, parent, comps>>

Working == pass = "search" /\ work # <<>>
Here == Last(work).at

Trying(w) == [work EXCEPT ![Len(work)].rest = @ \ {w}]

Descend(w) ==
    /\ Working /\ w \in Last(work).rest \ Met
    /\ Meet(w)
    /\ work' = Append(Trying(w), [at |-> w, rest |-> Targets(w)])
    /\ UNCHANGED <<edges, pass, todo, parent, comps>>

Look(w) ==
    /\ Working /\ w \in Last(work).rest \intersect Met
    /\ low' = IF w \in ToSet(stack) THEN [low EXCEPT ![Here] = Min({@, index[w]})] ELSE low
    /\ work' = Trying(w)
    /\ UNCHANGED <<edges, pass, todo, parent, index, stack, comps>>

(* The runes from v to the top of the stack: what is popped until v is.       *)
Depth(v) == CHOOSE k \in DOMAIN stack : stack[k] = v
Above(v) == {stack[k] : k \in Depth(v)..Len(stack)}

(* low[v] equals index[v]: nothing above v on the stack leads below it.       *)
Close(v) ==
    IF low[v] = index[v]
    THEN comps' = comps \union {Above(v)} /\ stack' = SubSeq(stack, 1, Depth(v) - 1)
    ELSE UNCHANGED <<comps, stack>>

(* Mutant of Leave: what a rune reaches is not passed on to the one before. *)
LeaveAlone ==
    /\ Working /\ Last(work).rest = {}
    /\ Close(Here)
    /\ work' = Front(work)
    /\ UNCHANGED <<edges, pass, todo, parent, index, low>>

Leave ==
    /\ Working /\ Last(work).rest = {}
    /\ Close(Here)
    /\ work' = Front(work)
    /\ low' = IF Len(work) = 1 THEN low
              ELSE [low EXCEPT ![work[Len(work) - 1].at] = Min({@, low[Here]})]
    /\ UNCHANGED <<edges, pass, todo, parent, index>>

Done ==
    /\ pass = "search" /\ work = <<>> /\ Searched \subseteq Met
    /\ pass' = "done"
    /\ UNCHANGED <<edges, todo, parent, search>>

(* A component of two or more, or a rune linked to itself. *)
Cycles == {c \in comps : Cardinality(c) >= 2 \/ \E v \in c : v \in Targets(v)}

-----------------------------------------------------------------------------

Pass ==
    \/ \E l \in todo : Unite(l)
    \/ Fused
    \/ Begin
    \/ \E w \in Rune : Descend(w) \/ Look(w)
    \/ Leave
    \/ Done

Next ==
    \/ \E e \in Edge : Hold(e)
    \/ CheckLinks
    \/ Pass

(* A call of check_links runs to its end; edges arrive only before it. *)
Spec == Init /\ [][Next]_vars /\ WF_vars(Pass)

-----------------------------------------------------------------------------
(* What the three passes must find, defined without them. *)

(* R leads from x to y in one step or more: y is in every set that holds      *)
(* whatever is a step from x or from one of its members.                      *)
Leads(R, x, y) ==
    \A S \in SUBSET Rune :
        (\A p \in R : p[1] = x \/ p[1] \in S => p[2] \in S) => y \in S

Ties == {<<l.from, l.to>> : l \in Under(Equivalence)}
            \union {<<l.to, l.from>> : l \in Under(Equivalence)}
Same(x, y) == x = y \/ Leads(Ties, x, y)
Reaches(x, y) == Leads({<<l.from, l.to>> : l \in Arcs}, x, y)

-----------------------------------------------------------------------------
(* Properties. *)

(* The quotient is the smallest equivalence the links generate, and every    *)
(* class is named by its least member, in whatever order links were united:  *)
(* two peers holding the same document name the same thing.                  *)
QuotientIsSmallest ==
    pass \in {"search", "done"} =>
        /\ \A x, y \in Rune : Representative(x) = Representative(y) <=> Same(x, y)
        /\ \A x, y \in Rune : Same(x, y) => Representative(x) <= y
        /\ Classes = {c \in {{y \in Rune : Same(x, y)} : x \in Rune} : Cardinality(c) >= 2}

(* A slot counted through an equivalence is over capacity exactly when the   *)
(* links that do not fuse hold more ends at all members of the class         *)
(* together than the rule allows.                                            *)
CapacityIsOfTheClass ==
    pass = "done" =>
        \A h \in AllEnds :
            LET class == {x \in Rune : Same(x, h.rune)}
                held == {g \in UNION {EndsOf(l) : l \in Under(Counted)} :
                           /\ g.link.label \notin Equivalence
                           /\ g.rune \in class /\ g.port = h.port}
            IN <<Min(class), h.port>> \in OverCapacity <=> Cardinality(held) > Limit

(* A cycle is reported exactly when there is one: every rune that comes back *)
(* to itself is in a report, with exactly the runes it is in a cycle with,   *)
(* and no other rune is in any.                                              *)
CyclesAreExact ==
    pass = "done" =>
        /\ UNION Cycles = {x \in Rune : Reaches(x, x)}
        /\ \A c \in Cycles : \A x \in c :
              c = {y \in Rune : Reaches(x, y) /\ Reaches(y, x)}

=============================================================================
