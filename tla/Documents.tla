------------------------------- MODULE Documents -------------------------------
(***************************************************************************)
(* What the library reads off a shared document: the rules a merge broke   *)
(* (anomalies), what may leave the device (export), who wrote what is      *)
(* shown (provenance). Checked over the documents that forks of one        *)
(* replica, which took in a document made from a state, reach by editing   *)
(* and by merging each other's document whole.                             *)
(*                                                                         *)
(* An edit here is one change to the state the document flattens to, as an *)
(* application makes that splices before every observation.                *)
(***************************************************************************)
EXTENDS Replica

CONSTANTS
    Ends,      \* Ends[v]: the <<mantle, name>> pairs the edge v connects
    Declares,  \* Declares[v]: the glyph declaration a rune with glyph v is of
    Private,   \* the objects the export set refuses
    Takes,     \* Takes[p]: the values an application puts at place p
    Author,    \* the id the document was made under
    IdOn,      \* IdOn[d]: the id of the fork on device d
    First,     \* the state its document was made from
    MaxEdits   \* bound: edits made, on all devices

VARIABLE edits   \* edits made, the one before the document was shared included

Mantles == {o \in Obj : Parent[o] = Root} \ Glyph
RunesOf(m) == {o \in Obj : Parent[o] = m}
NameAt(r) == <<r, "spirit.name">>
TypeAt(r) == <<r, "glyph">>
EdgesAt(m) == <<m, "edges">>

(* A document made from a state in one go: one tag for everything there is. *)
Enriched(s, i) ==
    LET there == {<<Presence(o), Null>> : o \in s.live}
                   \union {<<p, s.reg[p]>> : p \in {q \in Reg : s.reg[q] # Absent}}
                   \union {w \in Bag \X Value : w[2] \in s.bag[w[1]]}
    IN [adds |-> Minted(there, i, 0), rems |-> {}]

ASSUME TreeAssumption ==
    /\ \A o \in Obj : Parent[o] # Root => NameAt(o) \in Fixed
    /\ \A m \in Mantles : EdgesAt(m) \notin Reg
    /\ \A v \in Value : Ends[v] \subseteq Mantles \X Value
    /\ Private \subseteq Obj
ASSUME TakesAssumption ==
    /\ \A p \in Reg \union Bag : Takes[p] \subseteq Value
    /\ \A p \in Fixed : Takes[p] # {}
ASSUME ForkAssumption ==
    /\ MaxEdits \in Nat
    /\ Author \in Id
    /\ \A d \in Device : IdOn[d] \in Id \ {Author}
    /\ \A d, e \in Device : IdOn[d] = IdOn[e] => d = e
    /\ First \in [live : SUBSET Obj, reg : [Reg -> Value \union {Absent}], bag : [Bag -> SUBSET Value]]
    /\ IsState(First)
    /\ \A a \in Enriched(First, Author).adds : a.tag.n < MaxIssued

-----------------------------------------------------------------------------
(* The replicas. *)

(* The three edits of a document that is no replica's yet. *)
NewTag(D, i) == [id |-> i, n |-> HighestCounter(D) + 1]

AddTag(D, p, v, i) ==
    [D EXCEPT !.adds = @ \union {[place |-> p, tag |-> NewTag(D, i), val |-> v]}]

RemoveTag(D, p, v) == [D EXCEPT !.rems = @ \union Retire(D, p, {v})]

SetField(D, p, v, i) ==
    [AddTag(D, p, v, i) EXCEPT !.rems = @ \union Retire(D, p, Value)]

InRune(p) == Parent[p[1]] # Root
EditedOnce(D, i) ==
         {SetField(D, x[1], x[2], i) : x \in {y \in Reg \X Value :
             InRune(y[1]) /\ Alive(D, y[1][1]) /\ y[2] \in Takes[y[1]]}}
  \union {AddTag(D, x[1], x[2], i) : x \in {y \in Bag \X Value :
             InRune(y[1]) /\ Alive(D, y[1][1]) /\ y[2] # Null}}
  \union {RemoveTag(D, x[1], x[2]) : x \in {y \in Bag \X Value :
             InRune(y[1]) /\ y[2] \in Values(D, y[1])}}

(* A new replica takes in a document made from the state First, as it was    *)
(* made or edited once before, and is forked on every device.                *)
InitForked ==
    /\ \E D \in {Enriched(First, Author)} \union EditedOnce(Enriched(First, Author), Author) :
          /\ rep = [d \in Device |->
                [id |-> IdOn[d], issued |-> HighestCounter(D), doc |-> Join(EmptyDoc, D)]]
          /\ edits = IF D = Enriched(First, Author) THEN 0 ELSE 1
    /\ disk = [d \in Device |-> NoReplica]
    /\ outbox = [d \in Device |-> EmptyDoc]
    /\ air = {}
    /\ used = {Author} \union {IdOn[d] : d \in Device}

(* The states one change away from s: a thing removed with what is in it, a  *)
(* thing created, a field written or cleared, a member of a set put in or    *)
(* taken out.                                                                *)
Without(s, o) ==
    LET live == {q \in s.live : q # o /\ Parent[q] # o}
    IN [live |-> live,
        reg  |-> [p \in Reg |-> IF p[1] \in live THEN s.reg[p] ELSE Absent],
        bag  |-> [p \in Bag |-> IF p[1] \in live THEN s.bag[p] ELSE {}]]

With(s, o, v) ==
    [s EXCEPT !.live = @ \union {o},
              !.reg = [p \in Reg |-> IF p \in Fixed /\ p[1] = o
                                     THEN IF v \in Takes[p] THEN v ELSE Min(Takes[p])
                                     ELSE @[p]]]

Toggled(vs, v) == IF v \in vs THEN vs \ {v} ELSE vs \union {v}

Nearby(s) ==
         {Without(s, o) : o \in s.live}
  \union {With(s, x[1], x[2]) : x \in {y \in (Obj \ s.live) \X Value :
                                         Parent[y[1]] \in s.live \union {Root}}}
  \union {[s EXCEPT !.reg[x[1]] = x[2]] : x \in {y \in Reg \X (Value \union {Absent}) :
             /\ y[1][1] \in s.live /\ y[2] # s.reg[y[1]]
             /\ y[2] \in Takes[y[1]] \/ (y[2] = Absent /\ y[1] \in Keyed)}}
  \union {[s EXCEPT !.bag[x[1]] = Toggled(@, x[2])] :
             x \in {y \in Bag \X Value : y[1][1] \in s.live /\ y[2] \in Takes[y[1]]}}

EditOn(d) ==
    /\ edits < MaxEdits
    /\ edits' = edits + 1
    /\ \/ \E s \in Nearby(Flatten(rep[d].doc)) : Observe(d, s)
       \/ Resolve(d)

MergeFrom(d, e) == Merge(d, rep[e].doc) /\ UNCHANGED edits

NextForked ==
    \/ \E d \in Device : EditOn(d)
    \/ \E d, e \in Device : d # e /\ MergeFrom(d, e)

SpecForked == InitForked /\ [][NextForked]_<<vars, edits>>

-----------------------------------------------------------------------------
(* Anomalies. *)

WasRemoved(D, o) == ~Alive(D, o) /\ RemovedAt(D, Presence(o)) # {}

(* The values a register held and holds no longer. *)
Former(D, p) ==
    {a.val : a \in {b \in AddsAt(D, p) : b.tag \in RemovedAt(D, p)}} \ Values(D, p)

(* Mutant of Holding: a rune holds every name its register still has. *)
HoldingAny(D, m, n) == {r \in RunesOf(m) : Alive(D, r) /\ n \in Values(D, NameAt(r))}

(* The index of a mantle: who holds a name, which removed runes last held     *)
(* it, which live ones were renamed away from it.                             *)
Holding(D, m, n) == {r \in RunesOf(m) : Alive(D, r) /\ Shown(D, NameAt(r)) = n}
Lost(D, m, n) == {r \in RunesOf(m) : WasRemoved(D, r) /\ Shown(D, NameAt(r)) = n}
Renamed(D, m, n) ==
    {r \in RunesOf(m) : Alive(D, r) /\ n \in Former(D, NameAt(r)) \ {Shown(D, NameAt(r))}}

LiveMantles(D) == {m \in Mantles : Alive(D, m)}
EndsOf(D, m) == UNION {Ends[v] : v \in Values(D, EdgesAt(m))}

DuplicateNames(D) ==
    {[kind |-> "duplicate_name", mantle |-> x[1], subject |-> x[2],
      runes |-> Holding(D, x[1], x[2])] :
        x \in {y \in LiveMantles(D) \X (Value \ {Null}) : Cardinality(Holding(D, y[1], y[2])) > 1}}

OfType(D, m, g) ==
    {r \in RunesOf(m) : Alive(D, r) /\ TypeAt(r) \in Reg
                          /\ Values(D, TypeAt(r)) # {} /\ Declares[Shown(D, TypeAt(r))] = g}
TypesRemoved(D) ==
    {[kind |-> "type_removed", mantle |-> x[1], subject |-> x[2],
      runes |-> OfType(D, x[1], x[2])] :
        x \in {y \in LiveMantles(D) \X Glyph : WasRemoved(D, y[2]) /\ OfType(D, y[1], y[2]) # {}}}

(* Mutant of Cause: only renamings explain a broken link. *)
CauseRenamed(D, x) == IF Renamed(D, x[1], x[2]) # {} THEN "renamed" ELSE "none"

(* Mutant of Cause: only removals explain a broken link. *)
CauseRemoved(D, x) == IF Lost(D, x[1], x[2]) # {} THEN "removed" ELSE "none"

(* Why nobody holds the name an edge ends at; the mantle is there. *)
Cause(D, x) ==
    IF Lost(D, x[1], x[2]) # {} THEN "removed"
    ELSE IF Renamed(D, x[1], x[2]) # {} THEN "renamed" ELSE "none"

LinksBroken(D) ==
    {[kind |-> "link_broken", mantle |-> y[1], subject |-> y[2], cause |-> Cause(D, y[2]),
      runes |-> IF Cause(D, y[2]) = "removed" THEN Lost(D, y[2][1], y[2][2])
                ELSE Renamed(D, y[2][1], y[2][2])] :
        y \in {z \in LiveMantles(D) \X (Mantles \X Value) :
                 /\ z[2] \in EndsOf(D, z[1])
                 /\ z[2][1] \in LiveMantles(D)
                 /\ Holding(D, z[2][1], z[2][2]) = {}
                 /\ Cause(D, z[2]) # "none"}}

-----------------------------------------------------------------------------
(* Export. *)

Shared(o) == o \notin Private /\ Parent[o] \notin Private

(* The names of the runes of m that are withheld, live or removed. *)
WithheldNames(D, m) == {Shown(D, NameAt(r)) : r \in RunesOf(m) \intersect Private}

Leaks(D, a) ==
    /\ a.place \in {EdgesAt(m) : m \in Mantles}
    /\ \E x \in Ends[a.val] : x[1] \in Private \/ x[2] \in WithheldNames(D, x[1])

(* Mutant of RemovalOnly: what is withheld is withheld, removed or not. *)
RemovalOnlyNever(D, o) == FALSE

(* Of a withheld thing that was removed, the removal leaves -- but nothing of *)
(* what is inside a withheld mantle.                                          *)
RemovalOnly(D, o) == o \in Private /\ Parent[o] \notin Private /\ WasRemoved(D, o)

(* Mutant of Exportable: what leaves is what is alive. *)
ExportableLive(D) ==
    [adds |-> {a \in D.adds : Shared(a.place[1]) /\ a \in LiveAt(D, a.place) /\ ~Leaks(D, a)},
     rems |-> {r \in D.rems : r.place = Presence(r.place[1]) /\ RemovalOnly(D, r.place[1])}]

Exportable(D) ==
    LET leaves == {p \in Place : \/ Shared(p[1])
                                 \/ p = Presence(p[1]) /\ RemovalOnly(D, p[1])}
    IN [adds |-> {a \in D.adds : a.place \in leaves /\ ~Leaks(D, a)},
        rems |-> {r \in D.rems : r.place \in leaves}]

-----------------------------------------------------------------------------
(* Provenance. *)

(* Mutant of Writers: retired writes count as well. *)
WritersEver(D, p) ==
    {[value   |-> v,
      writers |-> {a.tag.id : a \in {b \in AddsAt(D, p) : b.val = v}},
      stamp   |-> Max({a.tag.n : a \in {b \in AddsAt(D, p) : b.val = v}})] :
        v \in {a.val : a \in AddsAt(D, p)}}

(* Every live value with those who wrote it and the highest of their counters. *)
Writers(D, p) ==
    {[value   |-> v,
      writers |-> {a.tag.id : a \in {b \in LiveAt(D, p) : b.val = v}},
      stamp   |-> Max({a.tag.n : a \in {b \in LiveAt(D, p) : b.val = v}})] :
        v \in Values(D, p)}

-----------------------------------------------------------------------------
(* Properties. *)

(* Rule 2 of replica.hpp: observing its own output records nothing.         *)
ObservingOwnOutputIsSilent ==
    \A d \in Device :
        LET D == rep[d].doc IN
        ObserveDelta(D, rep[d].id, rep[d].issued, Flatten(D)) = EmptyDoc

(* After an observation the document shows exactly the state observed:      *)
(* splicing flatten() back never undoes an edit of the user. Neither does   *)
(* making a new document from what is shown (enrich's round-trip law).      *)
ObservedIsShown ==
    \A d \in Device :
        LET D == rep[d].doc IN
        /\ Flatten(Enriched(Flatten(D), rep[d].id)) = Flatten(D)
        /\ \A s \in Nearby(Flatten(D)) :
              Flatten(Join(D, ObserveDelta(D, rep[d].id, rep[d].issued, s))) = s

(* Rule 1 of replica.hpp and its counterpart for removals: an observation   *)
(* that shows nothing new about a conflict leaves the conflict standing. A  *)
(* value conflict survives every observed state that still holds the value  *)
(* shown; a deleted-while-edited conflict survives every observed state in  *)
(* which the thing is still absent and its surroundings still there.        *)
ConflictsSurviveObserving ==
    \A d \in Device :
        LET D == rep[d].doc IN
        \A s \in Nearby(Flatten(D)) :
            LET E == Join(D, ObserveDelta(D, rep[d].id, rep[d].issued, s))
            IN /\ \A c \in ValueConflicts(D) :
                    s.reg[c.place] = Shown(D, c.place) => c \in ValueConflicts(E)
               /\ \A c \in DeletedWhileEdited(D) :
                    (c.obj \notin s.live /\ Parent[c.obj] \in s.live \union {Root})
                        => c \in DeletedWhileEdited(E)

(* A removal that arrives with a merge never takes, unannounced, something   *)
(* edited here that neither side's removals had seen: the thing stays, or is *)
(* reported as deleted while edited, or what it was inside is gone too.      *)
MergeReportsLostEdits ==
    [][\A d, e \in Device : d # e /\ Merge(d, rep[e].doc) =>
          \A o \in Obj :
              (/\ Alive(rep[d].doc, o)
               /\ ~(LiveTagsBeneath(rep[d].doc, o)
                        \subseteq TagsOf(rep[e].doc) \union RemovedAt(rep[d].doc, Presence(o)))
               /\ Outermost(rep'[d].doc, o))
              => Alive(rep'[d].doc, o)
                    \/ \E c \in DeletedWhileEdited(rep'[d].doc) : c.obj = o]_rep

(* A link that held before a merge and leads nowhere after it is reported as *)
(* broken, as removed or as renamed. Three cases are left to other reports:  *)
(* the rune it led to has names in conflict, or has several and a policy     *)
(* that settles which one it shows, or was renamed by one side and removed   *)
(* by the other, so that it last showed another name.                        *)
BrokenLinksAreExplained ==
    [][\A d, e \in Device : d # e /\ Merge(d, rep[e].doc) =>
          LET D == rep[d].doc
              E == rep'[d].doc
          IN \A m \in LiveMantles(D) \intersect LiveMantles(E) : \A x \in EndsOf(E, m) :
                (/\ x[1] \in LiveMantles(D) \intersect LiveMantles(E)
                 /\ Holding(D, x[1], x[2]) # {} /\ Holding(E, x[1], x[2]) = {})
                => \/ \E a \in LinksBroken(E) : a.mantle = m /\ a.subject = x
                   \/ \E c \in ValueConflicts(E) :
                         \E r \in RunesOf(x[1]) : c.place = NameAt(r) /\ x[2] \in Values(E, c.place)
                   \/ \E r \in RunesOf(x[1]) :
                         Policy[NameAt(r)] # "Conflict" /\ x[2] \in Values(E, NameAt(r))
                   \/ \E r \in RunesOf(x[1]) :
                         /\ WasRemoved(E, r) /\ x[2] # Shown(E, NameAt(r))
                         /\ x[2] \in {a.val : a \in AddsAt(E, NameAt(r))}]_rep

(* Anomalies speak of what flatten shows: a name is reported as a duplicate  *)
(* exactly when two runes show it, a link as broken only when no rune shows  *)
(* the name, a type as removed only while the state has a rune of it and no  *)
(* declaration.                                                              *)
AnomaliesMatchTheState ==
    \A d \in Device :
        LET D == rep[d].doc
            s == Flatten(D)
            showing(m, n) == {r \in RunesOf(m) \intersect s.live : s.reg[NameAt(r)] = n}
        IN /\ \A m \in Mantles, n \in Value \ {Null} :
                 Cardinality(showing(m, n)) > 1 <=>
                    \E a \in DuplicateNames(D) : a.mantle = m /\ a.subject = n
           /\ \A a \in LinksBroken(D) :
                 showing(a.subject[1], a.subject[2]) = {} /\ a.runes # {}
           /\ \A a \in TypesRemoved(D) : a.subject \notin s.live /\ a.runes \subseteq s.live

(* Withholding never changes what a peer sees of the rest: merging an export *)
(* shows it the shared things exactly as merging the whole document would,   *)
(* save for links that would name something withheld.                        *)
ExportShowsTheSharedPart ==
    \A d, e \in Device :
        LET D == rep[d].doc
            part == Flatten(Join(rep[e].doc, Exportable(D)))
            whole == Flatten(Join(rep[e].doc, D))
            shared == {o \in Obj : Shared(o)}
        IN /\ part.live \intersect shared = whole.live \intersect shared
           /\ \A p \in Reg : Shared(p[1]) => part.reg[p] = whole.reg[p]
           /\ \A p \in Bag : Shared(p[1]) =>
                 /\ part.bag[p] \subseteq whole.bag[p]
                 /\ \A a \in LiveAt(D, p) :
                        a.val \in whole.bag[p] \ part.bag[p] => Leaks(D, a)

(* A removal is never private: what one device withholds and has removed     *)
(* does not live on at a peer that merges its export, unless the peer holds  *)
(* it up by a write the removal did not see, or the mantle it was in is      *)
(* withheld too: nothing inside that leaves.                                 *)
RemovalsTravel ==
    \A d, e \in Device, o \in Private :
        LET D == rep[d].doc
            E == rep[e].doc
        IN (/\ WasRemoved(D, o) /\ Parent[o] \notin Private
            /\ {a.tag : a \in LiveAt(E, Presence(o))} \subseteq RemovedAt(D, Presence(o)))
           => ~Alive(Join(E, Exportable(D)), o)

(* Provenance explains every conflict and every choice: the sides of a value *)
(* conflict were written by different replicas, none of which wrote two, and *)
(* what a register read as Latest shows was written with the highest stamp.  *)
WritersExplainTheReading ==
    \A d \in Device :
        LET D == rep[d].doc IN
        \A p \in Reg :
            /\ \A w, x \in Writers(D, p) : w # x => w.writers \intersect x.writers = {}
            /\ Policy[p] = "Latest" =>
                  \A w, x \in Writers(D, p) : w.value = Shown(D, p) => w.stamp >= x.stamp

=============================================================================
