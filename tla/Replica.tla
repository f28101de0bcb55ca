-------------------------------- MODULE Replica --------------------------------
(***************************************************************************)
(* Replicas on several devices, kept between exchanges: the loop of        *)
(* replica.hpp -- observe, save, send, merge, splice -- with the losses    *)
(* around it. A message may be lost, repeated or overtaken; a device may   *)
(* crash at any point and come back from what it saved last. Nothing       *)
(* leaves a device before it is saved, as the loop is documented.          *)
(***************************************************************************)
EXTENDS OrSetDoc

CONSTANTS
    Device,         \* devices, each running at most one replica
    Deltas,         \* whether observe's deltas are sent too, or whole documents only
    Happens,        \* which of "crash", "fork" and "refused" can happen
    LamportCeiling, \* the largest counter a replica follows
    MaxIssued,      \* bound: tags a replica mints
    MaxAir          \* bound: messages under way

ASSUME BoundAssumption ==
    /\ Deltas \in BOOLEAN
    /\ Happens \subseteq {"crash", "fork", "refused"}
    /\ MaxIssued \in Nat
    /\ LamportCeiling \in Nat /\ MaxIssued <= LamportCeiling
    /\ MaxAir \in Nat

VARIABLES
    rep,     \* rep[d]: the replica in memory -- id_, issued_, doc_
    disk,    \* disk[d]: the bytes saved last, as to_bytes wrote them
    outbox,  \* outbox[d]: the delta of the last change, held until it is sent
    air,     \* the documents under way; any device may receive any of them
    used     \* the ids handed out so far

vars == <<rep, disk, outbox, air, used>>

Blob == [id : Id \union {0}, issued : 0..MaxIssued, doc : Doc]
NoReplica == [id |-> 0, issued |-> 0, doc |-> EmptyDoc]
Running(d) == rep[d].id # 0

TypeOK ==
    /\ rep \in [Device -> Blob]
    /\ disk \in [Device -> Blob]
    /\ outbox \in [Device -> Doc]
    /\ air \subseteq Doc
    /\ used \subseteq Id

Init ==
    /\ rep = [d \in Device |-> NoReplica]
    /\ disk = [d \in Device |-> NoReplica]
    /\ outbox = [d \in Device |-> EmptyDoc]
    /\ air = {}
    /\ used = {}

-----------------------------------------------------------------------------
(* Identity. *)

(* Ids are random: the application never draws one twice. *)
Create(d, i) ==
    /\ ~Running(d) /\ disk[d].id = 0
    /\ i \notin used
    /\ rep' = [rep EXCEPT ![d] = [id |-> i, issued |-> 0, doc |-> EmptyDoc]]
    /\ used' = used \union {i}
    /\ UNCHANGED <<disk, outbox, air>>

(* The largest counter in a document, under any writer, up to the ceiling. *)
HighestCounter(D) ==
    LET counters == {t.n : t \in TagsOf(D)} \intersect 0..LamportCeiling
    IN IF counters = {} THEN 0 ELSE Max(counters)

(* Mutant of Fork: the copy keeps the id it was copied from. *)
ForkKeepsId(d, e, i) ==
    /\ "fork" \in Happens
    /\ Running(d)
    /\ e # d => ~Running(e) /\ disk[e].id = 0 /\ rep[d] = disk[d]
    /\ rep' = [rep EXCEPT ![e] = rep[d]]
    /\ UNCHANGED <<disk, outbox, air, used>>

(* The document of d under a new id: on d itself, or on a device that has no *)
(* replica yet and is given the bytes d saved.                               *)
Fork(d, e, i) ==
    /\ "fork" \in Happens
    /\ Running(d)
    /\ i \notin used
    /\ e # d => ~Running(e) /\ disk[e].id = 0 /\ rep[d] = disk[d]
    /\ rep' = [rep EXCEPT ![e] = [id     |-> i,
                                  issued |-> HighestCounter(rep[d].doc),
                                  doc    |-> rep[d].doc]]
    /\ used' = used \union {i}
    /\ UNCHANGED <<disk, outbox, air>>

-----------------------------------------------------------------------------
(* Local changes. *)

(* Write W and retire R as the replica's own act, keeping the delta. *)
Edit(d, W, R) ==
    LET delta == Delta(rep[d].doc, rep[d].id, rep[d].issued, W, R) IN
    /\ rep[d].issued + Cardinality(W) <= MaxIssued
    /\ rep' = [rep EXCEPT ![d].issued = @ + Cardinality(W),
                          ![d].doc = Join(@, delta)]
    /\ outbox' = [outbox EXCEPT ![d] = IF Deltas THEN delta ELSE EmptyDoc]
    /\ UNCHANGED <<disk, air, used>>

Observe(d, s) ==
    /\ Running(d)
    /\ Edit(d, Writes(rep[d].doc, s), Retirements(rep[d].doc, s))

(* A state that cannot be encoded changes nothing, but the tags minted before *)
(* the failure are burned.                                                    *)
ObserveRefused(d) ==
    /\ "refused" \in Happens
    /\ Running(d)
    /\ rep[d].issued < MaxIssued
    /\ rep' = [rep EXCEPT ![d].issued = @ + 1]
    /\ UNCHANGED <<disk, outbox, air, used>>

(* Choose one side of a conflict that is still there. *)
ResolveValue(d, c, v) ==
    /\ Running(d)
    /\ c \in ValueConflicts(rep[d].doc) /\ v \in c.sides
    /\ Edit(d, {<<c.place, v>>}, Retire(rep[d].doc, c.place, Value))

ResolveKept(d, c) ==
    /\ Running(d)
    /\ c \in DeletedWhileEdited(rep[d].doc)
    /\ Edit(d, {<<Presence(c.obj), Null>>}, {})

ResolveDeleted(d, c) ==
    /\ Running(d)
    /\ c \in DeletedWhileEdited(rep[d].doc)
    /\ Edit(d, {}, Removal(rep[d].doc, c.obj))

Resolve(d) ==
    \/ \E c \in ValueConflicts(rep[d].doc) : \E v \in c.sides : ResolveValue(d, c, v)
    \/ \E c \in DeletedWhileEdited(rep[d].doc) : ResolveKept(d, c) \/ ResolveDeleted(d, c)

-----------------------------------------------------------------------------
(* Exchange. *)

Tags(D, i) == {t \in TagsOf(D) : t.id = i}
Named(D, t) == {<<a.place, a.val>> : a \in {b \in D.adds : b.tag = t}}

(* A tag of this replica's own id that it has no record of, or that names   *)
(* something else there. A tag met at two places is read as whichever the   *)
(* walk over the document met last, so such a tag can look either way.      *)
CanLookForeign(D, m, t) ==
    \/ t \notin TagsOf(D)
    \/ Named(m, t) # {} /\ Named(D, t) = {}
    \/ \E x \in Named(m, t), y \in Named(D, t) : x # y

CanLookOwn(D, m, t) ==
    /\ t \in TagsOf(D)
    /\ Named(m, t) = {} \/ Named(m, t) \intersect Named(D, t) # {}

Collides(d, m) ==
    \E t \in Tags(m, rep[d].id) : CanLookForeign(rep[d].doc, m, t)

Accepts(d, m) ==
    \A t \in Tags(m, rep[d].id) : CanLookOwn(rep[d].doc, m, t)

(* A merge that collides returns identity_collision and changes nothing. *)
Merge(d, m) ==
    /\ Running(d)
    /\ Accepts(d, m)
    /\ rep' = [rep EXCEPT
                 ![d].issued = IF HighestCounter(m) > @ THEN HighestCounter(m) ELSE @,
                 ![d].doc = Join(@, m)]
    /\ UNCHANGED <<disk, outbox, air, used>>

Put(m) ==
    /\ Cardinality(air \union {m}) <= MaxAir
    /\ air' = air \union {m}
    /\ UNCHANGED <<rep, disk, outbox, used>>

Saved(d) == rep[d] = disk[d]

Send(d) ==
    /\ Running(d) /\ Saved(d)
    /\ Put(rep[d].doc) \/ (Deltas /\ Put(outbox[d]))

Lose(m) ==
    /\ m \in air
    /\ air' = air \ {m}
    /\ UNCHANGED <<rep, disk, outbox, used>>

-----------------------------------------------------------------------------
(* Persistence. *)

Save(d) ==
    /\ Running(d)
    /\ disk' = [disk EXCEPT ![d] = rep[d]]
    /\ UNCHANGED <<rep, outbox, air, used>>

(* from_bytes: the counter may not be behind a tag the replica minted. *)
Loads(b) == \A t \in Tags(b.doc, b.id) : t.n <= b.issued

(* Mutant of Crash: the counter is not restored. *)
CrashForgetsCounter(d) ==
    /\ "crash" \in Happens
    /\ Running(d)
    /\ rep' = [rep EXCEPT ![d] = [disk[d] EXCEPT !.issued = 0]]
    /\ outbox' = [outbox EXCEPT ![d] = EmptyDoc]
    /\ UNCHANGED <<disk, air, used>>

(* Memory is gone; the replica comes back from disk if there is one. *)
Crash(d) ==
    /\ "crash" \in Happens
    /\ Running(d)
    /\ rep' = [rep EXCEPT ![d] = IF Loads(disk[d]) THEN disk[d] ELSE NoReplica]
    /\ outbox' = [outbox EXCEPT ![d] = EmptyDoc]
    /\ UNCHANGED <<disk, air, used>>

-----------------------------------------------------------------------------

Next ==
    \/ \E d \in Device, i \in Id : Create(d, i)
    \/ \E d, e \in Device, i \in Id : Fork(d, e, i)
    \/ \E d \in Device, s \in State : Observe(d, s)
    \/ \E d \in Device : ObserveRefused(d)
    \/ \E d \in Device : Resolve(d)
    \/ \E d \in Device, m \in air : Merge(d, m)
    \/ \E d \in Device : Send(d)
    \/ \E m \in air : Lose(m)
    \/ \E d \in Device : Save(d)
    \/ \E d \in Device : Crash(d)

Spec == Init /\ [][Next]_vars

-----------------------------------------------------------------------------
(* Properties. *)

Documents ==
    air \union {outbox[d] : d \in Device} \union {rep[d].doc : d \in Device}
        \union {disk[d].doc : d \in Device}

(* No false alarm: as long as nothing leaves a device before it is saved,   *)
(* no message under way can make `merge` report an identity collision,      *)
(* whatever was lost, repeated, overtaken, forked or crashed before.        *)
NoFalseCollision ==
    \A d \in Device : Running(d) =>
        \A m \in air : ~Collides(d, m) /\ Accepts(d, m)

(* One tag names one add, in every document anywhere. It is what makes the  *)
(* removal of a value unable to retire an unrelated one.                    *)
TagsAreUnique ==
    \A D, E \in Documents : \A a \in D.adds, b \in E.adds : a.tag = b.tag => a = b

(* Lamport (SPEC 5.7): the counter of a replica has passed every tag in its *)
(* document, so the next write outranks everything the replica has seen;    *)
(* in particular what to_bytes wrote, from_bytes loads.                     *)
CounterAhead ==
    \A d \in Device :
        /\ \A t \in TagsOf(rep[d].doc) : t.n <= rep[d].issued
        /\ Loads(disk[d])

(* The inductive invariant behind NoFalseCollision, TagsAreUnique and       *)
(* CounterAhead.                                                             *)

(* Whatever E says of tags minted under i, D has the add of. *)
Covers(D, E, i) ==
    /\ \A a \in E.adds : a.tag.id = i => a \in D.adds
    /\ \A t \in TagsOf(E) : t.id = i => \E a \in D.adds : a.tag = t

(* The documents the replica on d cannot see. *)
Away(d) ==
    air \union {outbox[e] : e \in Device \ {d}} \union {rep[e].doc : e \in Device \ {d}}
        \union {disk[e].doc : e \in Device \ {d}}

IdsAreHeldOnce ==
    /\ \A d \in Device : {rep[d].id, disk[d].id} \subseteq used \union {0}
    /\ \A d, e \in Device : d # e =>
           {rep[d].id, disk[d].id} \intersect {rep[e].id, disk[e].id} \subseteq {0}

TagsComeFromUsedIds ==
    \A D \in Documents : \A t \in TagsOf(D) : t.id \in used /\ t.n <= MaxIssued

CountersAhead ==
    \A d \in Device : \A b \in {rep[d], disk[d]} : \A t \in TagsOf(b.doc) : t.n <= b.issued

(* What is saved is part of what is in memory. *)
DiskIsBehind ==
    \A d \in Device :
        /\ disk[d].id # 0 => Running(d)
        /\ ~Running(d) => rep[d] = NoReplica
        /\ disk[d].id = 0 => disk[d] = NoReplica
        /\ disk[d].doc.adds \subseteq rep[d].doc.adds
        /\ disk[d].doc.rems \subseteq rep[d].doc.rems

(* A replica knows the add behind every tag of its own. *)
OwnTagsKnown ==
    \A d \in Device :
        /\ Covers(rep[d].doc, rep[d].doc, rep[d].id)
        /\ Covers(rep[d].doc, outbox[d], rep[d].id)
        /\ Covers(disk[d].doc, disk[d].doc, disk[d].id)

(* What the world holds under a replica's id, the replica has saved. *)
AwayIsSaved ==
    \A d \in Device : \A E \in Away(d) :
        /\ Covers(disk[d].doc, E, disk[d].id)
        /\ rep[d].id # disk[d].id => Covers(EmptyDoc, E, rep[d].id)

IInv ==
    /\ TypeOK
    /\ IdsAreHeldOnce
    /\ TagsComeFromUsedIds
    /\ CountersAhead
    /\ DiskIsBehind
    /\ OwnTagsKnown
    /\ AwayIsSaved
    /\ TagsAreUnique

(* The order of a join does not matter: whatever two documents meet, the    *)
(* two peers that join them in opposite orders hold the same document.      *)
JoinCommutes ==
    \A D, E \in Documents : Join(D, E) = Join(E, D)

=============================================================================
