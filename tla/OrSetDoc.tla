------------------------------- MODULE OrSetDoc -------------------------------
(***************************************************************************)
(* The shared document: a tree of objects (mantles, the runes inside them, *)
(* glyph declarations) whose leaves are OR-Sets, and everything the        *)
(* library computes from it without changing it -- the join of two         *)
(* documents, what a register shows under a policy, the flattened state,   *)
(* the conflicts -- together with the edits that `observe` and `resolve`   *)
(* derive from a document.                                                 *)
(*                                                                         *)
(* A document is kept flat: the set of every add and the set of every      *)
(* retired tag, each with the place (the path of the OR-Set) it is at. An  *)
(* interior node exists exactly when something is beneath it.              *)
(***************************************************************************)
EXTENDS Integers, FiniteSets, FiniteSetsExt

CONSTANTS
    Id,       \* replica ids: positive numbers, in the order of their bytes
    Obj,      \* the objects a document can hold
    Root,     \* the parent of a top-level object
    Parent,   \* Parent[o]: the mantle a rune is in, or Root
    Glyph,    \* the objects that are glyph declarations
    Fixed,    \* registers an observation always writes: glyph, placement, id, ...
    Keyed,    \* registers that may be absent: content.*, tags.*, rules, relations
    Bag,      \* the OR-Sets read as sets: a rune's tags, a mantle's edges
    Value,    \* field values: numbers, in the order of their canonical bytes
    Null,     \* the value null, and the value of a `present` mark
    Policy,   \* Policy[p]: the FieldJoin the policy declares for a register
    Visit     \* the order in which observe_into reaches each write

Presence(o) == <<o, "present">>
Reg == Fixed \union Keyed
Place == {Presence(o) : o \in Obj} \union Reg \union Bag

(* What an absent register shows. *)
Absent == -1

ASSUME IdAssumption == Id \subseteq Nat \ {0}
ASSUME ValueAssumption == Value \subseteq Nat /\ IsFiniteSet(Value) /\ Null \in Value
ASSUME PlaceAssumption ==
    /\ IsFiniteSet(Place)
    /\ \A p \in Reg \union Bag :
          p = <<p[1], p[2]>> /\ p[1] \in Obj /\ p[2] # "present"
    /\ Fixed \intersect Keyed = {}
    /\ Reg \intersect Bag = {}
ASSUME ParentAssumption ==
    /\ Root \notin Obj
    /\ Parent \in [Obj -> Obj \union {Root}]
    /\ \A o \in Obj : Parent[o] # Root => Parent[Parent[o]] = Root
    /\ Glyph \subseteq {o \in Obj : Parent[o] = Root}
ASSUME PolicyAssumption ==
    /\ Policy \in [Reg -> {"Conflict", "Pick", "Max", "Latest"}]
    /\ \A p \in Reg : p[1] \in Glyph => Policy[p] = "Conflict"  \* a descriptor has no declared join
ASSUME VisitAssumption ==
    /\ Visit \in [Place \X Value -> Nat]
    /\ \A v, w \in Place \X Value : Visit[v] = Visit[w] => v = w

Tag == [id : Id, n : Nat]
Add == [place : Place, tag : Tag, val : Value]
Rem == [place : Place, tag : Tag]
Doc == [adds : SUBSET Add, rems : SUBSET Rem]

EmptyDoc == [adds |-> {}, rems |-> {}]
TagsOf(D) == {a.tag : a \in D.adds} \union {r.tag : r \in D.rems}

-----------------------------------------------------------------------------
(* Joining. *)

(* Mutant of Join: a set both sides have is taken from the left one. *)
JoinKeepsOurs(a, b) ==
    [adds |-> a.adds \union {y \in b.adds : \A x \in a.adds : x.place # y.place},
     rems |-> a.rems \union b.rems]

(* Adds are a map from tag to value in every set: on a tag both sides hold, *)
(* the assignment keeps the right-hand value.                               *)
Join(a, b) ==
    [adds |-> {x \in a.adds : \A y \in b.adds : y.place = x.place => y.tag # x.tag}
                \union b.adds,
     rems |-> a.rems \union b.rems]

-----------------------------------------------------------------------------
(* Reading. *)

AddsAt(D, p) == {a \in D.adds : a.place = p}
RemovedAt(D, p) == {r.tag : r \in {s \in D.rems : s.place = p}}
LiveAt(D, p) == {a \in AddsAt(D, p) : a.tag \notin RemovedAt(D, p)}
Values(D, p) == {a.val : a \in LiveAt(D, p)}

(* The order of stamps: the counter, then the writer. *)
Outranks(s, t) == s.n > t.n \/ (s.n = t.n /\ s.id > t.id)

LatestValue(D, p) ==
    (CHOOSE a \in LiveAt(D, p) : \A b \in LiveAt(D, p) : ~Outranks(b.tag, a.tag)).val

(* The values the policy leaves standing at register p. *)
Reading(D, p) ==
    LET vs == Values(D, p) IN
    IF Cardinality(vs) <= 1 THEN vs
    ELSE CASE Policy[p] = "Pick"                  -> {Min(vs)}
           [] Policy[p] = "Max" /\ Null \notin vs -> {Max(vs)}
           [] Policy[p] = "Latest"                -> {LatestValue(D, p)}
           [] OTHER                               -> vs

Conflicted(D, p) == Cardinality(Reading(D, p)) > 1

(* The value a register shows: the first of those left standing. *)
Shown(D, p) == IF Values(D, p) = {} THEN Absent ELSE Min(Reading(D, p))

Alive(D, o) == Values(D, Presence(o)) # {}
Outermost(D, o) == Parent[o] = Root \/ Alive(D, Parent[o])

Beneath(o) == {p \in Place : p[1] = o \/ Parent[p[1]] = o} \ {Presence(o)}
LiveTagsBeneath(D, o) == {a.tag : a \in UNION {LiveAt(D, p) : p \in Beneath(o)}}

(* A state of the application: which objects it has, and their fields. *)
IsState(s) ==
    /\ \A o \in s.live : Parent[o] \in s.live \union {Root}
    /\ \A p \in Reg : p[1] \notin s.live => s.reg[p] = Absent
    /\ \A p \in Fixed : p[1] \in s.live => s.reg[p] # Absent
    /\ \A p \in Bag : p[1] \notin s.live => s.bag[p] = {}

State ==
    {s \in [live : SUBSET Obj,
            reg  : [Reg -> Value \union {Absent}],
            bag  : [Bag -> SUBSET Value]] : IsState(s)}

(* The state a document flattens to. A glyph descriptor is read without the *)
(* policy, and a declaration without a descriptor is not emitted; a fixed   *)
(* register without a value is emitted as null.                             *)
Flatten(D) ==
    LET live == {o \in Obj :
                    /\ Alive(D, o)
                    /\ Outermost(D, o)
                    /\ o \in Glyph => \A p \in Fixed : p[1] = o => Values(D, p) # {}}
        Emitted(p) == IF p[1] \in Glyph THEN Min(Values(D, p)) ELSE Shown(D, p)
    IN [live |-> live,
        reg  |-> [p \in Reg |->
                    IF p[1] \in live
                    THEN IF Values(D, p) # {} THEN Emitted(p)
                         ELSE IF p \in Fixed THEN Null ELSE Absent
                    ELSE Absent],
        bag  |-> [p \in Bag |-> IF p[1] \in live THEN Values(D, p) ELSE {}]]

-----------------------------------------------------------------------------
(* Conflicts. *)

(* Mutant of RacedByAnEdit: what the removal saw some of, it saw. *)
RacedIfNothingSeen(D, o) ==
    /\ ~Alive(D, o)
    /\ RemovedAt(D, Presence(o)) # {}
    /\ LiveTagsBeneath(D, o) # {}
    /\ LiveTagsBeneath(D, o) \intersect RemovedAt(D, Presence(o)) = {}

(* Removed here, while something beneath it is alive that the removal did   *)
(* not record as seen.                                                      *)
RacedByAnEdit(D, o) ==
    /\ ~Alive(D, o)
    /\ RemovedAt(D, Presence(o)) # {}
    /\ ~(LiveTagsBeneath(D, o) \subseteq RemovedAt(D, Presence(o)))

ValueConflicts(D) ==
    {[kind |-> "values", place |-> p, sides |-> Reading(D, p)] :
        p \in {q \in Reg : Alive(D, q[1]) /\ Outermost(D, q[1]) /\ Conflicted(D, q)}}

DeletedWhileEdited(D) ==
    {[kind |-> "deleted_while_edited", obj |-> o] :
        o \in {q \in Obj : RacedByAnEdit(D, q) /\ Outermost(D, q)}}

-----------------------------------------------------------------------------
(* The edits an observation and a resolution record. *)

Write == Place \X Value

(* Tags are minted one after another, in the order the writes are reached. *)
Rank(W, w) == Cardinality({x \in W : Visit[x] <= Visit[w]})

Minted(W, i, issued) ==
    {[place |-> w[1], tag |-> [id |-> i, n |-> issued + Rank(W, w)], val |-> w[2]] : w \in W}

(* Rule 1 of replica.hpp: a value equal to the one shown is not an edit. *)
Changed(D, s, p) == p[1] \in s.live /\ s.reg[p] # Shown(D, p)

(* Mutant of Gone: what is dead already is removed again. *)
GoneAlready(D, s) == {o \in Obj \ s.live : Parent[o] \in s.live \union {Root}}

Gone(D, s) ==
    {o \in Obj \ s.live : Alive(D, o) /\ Parent[o] \in s.live \union {Root}}

(* Mutant of Writes: the values a set has already are added again. *)
WritesSetsAgain(D, s) ==
         {<<Presence(o), Null>> : o \in {q \in s.live : ~Alive(D, q)}}
  \union {<<p, s.reg[p]>> : p \in {q \in Reg : Changed(D, s, q) /\ s.reg[q] # Absent}}
  \union {w \in Bag \X Value : w[1][1] \in s.live /\ w[2] \in s.bag[w[1]]}

Writes(D, s) ==
         {<<Presence(o), Null>> : o \in {q \in s.live : ~Alive(D, q)}}
  \union {<<p, s.reg[p]>> : p \in {q \in Reg : Changed(D, s, q) /\ s.reg[q] # Absent}}
  \union {w \in Bag \X Value :
            w[1][1] \in s.live /\ w[2] \in s.bag[w[1]] \ Values(D, w[1])}

Retire(D, p, vs) ==
    {[place |-> p, tag |-> a.tag] : a \in {b \in AddsAt(D, p) : b.val \in vs}}

(* Removing o retires its presence and records every live tag beneath it. *)
Removal(D, o) ==
    Retire(D, Presence(o), Value)
      \union {[place |-> Presence(o), tag |-> t] : t \in LiveTagsBeneath(D, o)}

(* Mutant of Retirements: only objects are ever retired, not the values a    *)
(* write replaces or a set loses.                                            *)
RetirementsOfObjects(D, s) == UNION {Removal(D, o) : o \in Gone(D, s)}

Retirements(D, s) ==
         (UNION {Retire(D, p, Value) : p \in {q \in Reg : Changed(D, s, q)}})
  \union (UNION {Retire(D, p, Values(D, p) \ s.bag[p]) : p \in {q \in Bag : q[1] \in s.live}})
  \union (UNION {Removal(D, o) : o \in Gone(D, s)})

(* The delta of writing W and retiring R: only what the document lacks. *)
Delta(D, i, issued, W, R) ==
    [adds |-> Minted(W, i, issued), rems |-> R \ D.rems]

ObserveDelta(D, i, issued, s) ==
    Delta(D, i, issued, Writes(D, s), Retirements(D, s))

=============================================================================
