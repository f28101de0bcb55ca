-------------------------------- MODULE History --------------------------------
(***************************************************************************)
(* The history graph of utterance.hpp, kept by several peers: utterances   *)
(* named by a hash of their content and of the utterances they follow, the *)
(* journal filter that records them, and a transport that delivers them    *)
(* late, twice, in any order, damaged or not at all.                       *)
(*                                                                         *)
(* A hash is a number; which one new content gets is arbitrary, and the    *)
(* same content over the same parents gets the same one on every peer. So  *)
(* `said` is one table for all peers, and a peer only decides what it has. *)
(***************************************************************************)
EXTENDS Integers, FiniteSets, SequencesExt

CONSTANTS
    Peer,      \* the devices that keep a history
    Hash,      \* the hashes that can be given out, in their order
    MaxBatch,  \* bound: journal entries recorded by one call
    MaxInbox,  \* bound: utterances handed to one call of `receive`
    Happens    \* of "damage": a history file can lose entries

ASSUME HistoryAssumption ==
    /\ Hash \subseteq Nat /\ IsFiniteSet(Hash)   \* a digest has 256 bits
    /\ {MaxBatch, MaxInbox} \subseteq Nat
    /\ Happens \subseteq {"damage"}

VARIABLES
    graph,   \* graph[p]: the history in memory -- by_hash_ and children_
    file,    \* file[p]: what to_json wrote last, in the order it wrote it
    minted,  \* the hashes given out so far
    said,    \* said[h]: the parents of the utterance named h
    before   \* before[h]: all that its author had when h was said

vars == <<graph, file, minted, said, before>>

(* Nothing reads the order in which a parent's children were inserted.      *)
Graph == [has : SUBSET Hash, kids : [Hash -> SUBSET Hash]]
Utterance == [hash : Hash, ok : BOOLEAN]   \* ok: the hash is that of the content
EmptyGraph == [has |-> {}, kids |-> [h \in Hash |-> {}]]

TypeOK ==
    /\ graph \in [Peer -> Graph]
    /\ file \in [Peer -> Seq(Hash)]
    /\ minted \subseteq Hash
    /\ said \in [Hash -> SUBSET Hash]
    /\ before \in [Hash -> SUBSET Hash]

Init ==
    /\ graph = [p \in Peer |-> EmptyGraph]
    /\ file = [p \in Peer |-> <<>>]
    /\ minted = {}
    /\ said = [h \in Hash |-> {}]
    /\ before = [h \in Hash |-> {}]

-----------------------------------------------------------------------------
(* Reading the graph. *)

(* Mutant of Heads: a single last utterance, as in a linear log. *)
HeadsOnlyOne(g) ==
    LET hs == {h \in g.has : g.kids[h] = {}} IN {h \in hs : \A k \in hs : k <= h}

(* Heads: what the derived index knows no child of. *)
Heads(g) == {h \in g.has : g.kids[h] = {}}

(* A walk toward the roots from h: the parents of all that was seen are seen *)
(* in the next round.                                                        *)
Round(g, seen) == seen \union UNION {said[x] : x \in seen \intersect g.has}

Rounds(g, h) ==
    LET up[n \in Nat] == IF n = 0 THEN said[h] ELSE Round(g, up[n - 1])
    IN up

Ancestors(g, h) == IF h \in g.has THEN Rounds(g, h)[Cardinality(g.has)] ELSE {}

IsAncestor(g, a, b) == a # b /\ {a, b} \subseteq g.has /\ a \in Ancestors(g, b)
Concurrent(g, a, b) ==
    {a, b} \subseteq g.has /\ a # b /\ ~IsAncestor(g, a, b) /\ ~IsAncestor(g, b, a)

(* Mutant of LinearExtension: the order of the hashes alone. *)
LinearExtensionByHash(g) == SetToSortSeq(g.has, <)

(* Kahn's algorithm, the least hash first among those that are ready. *)
Emit(g, s) ==
    LET h == CHOOSE x \in s.ready : \A y \in s.ready : x <= y
        left == [c \in g.has |->
                    IF c \in g.kids[h] THEN s.remaining[c] - 1 ELSE s.remaining[c]]
    IN [ready     |-> (s.ready \ {h}) \union {c \in g.has : s.remaining[c] > 0 /\ left[c] = 0},
        remaining |-> left,
        order     |-> Append(s.order, h)]

Emitted(g) ==
    LET at[n \in Nat] ==
            IF n = 0 THEN [ready     |-> {h \in g.has : said[h] = {}},
                           remaining |-> [h \in g.has |-> Cardinality(said[h])],
                           order     |-> <<>>]
            ELSE LET s == at[n - 1] IN IF s.ready = {} THEN s ELSE Emit(g, s)
    IN at

LinearExtension(g) == Emitted(g)[Cardinality(g.has)].order

-----------------------------------------------------------------------------
(* Adding. *)

AddResult(g, u) ==
    IF ~u.ok THEN "malformed"
    ELSE IF u.hash \in g.has THEN "duplicate"
    ELSE IF said[u.hash] \subseteq g.has THEN "ok" ELSE "missing_parent"

(* Mutant of Insert: the index learns of a child under one parent only. *)
InsertUnderOneParent(g, h) ==
    [has  |-> g.has \union {h},
     kids |-> [x \in Hash |-> IF x \in said[h] /\ \A y \in said[h] : x <= y
                              THEN g.kids[x] \union {h} ELSE g.kids[x]]]

Insert(g, h) ==
    [has  |-> g.has \union {h},
     kids |-> [x \in Hash |-> IF x \in said[h] THEN g.kids[x] \union {h} ELSE g.kids[x]]]

(* A turn of the loops of receive: the next utterance of a pass is placed,  *)
(* dropped or kept still; after a pass that took some, another begins.      *)
Turn(s) ==
    IF s.todo # <<>>
    THEN LET u == Head(s.todo)
             result == AddResult(s.g, u)
             taken == result \in {"ok", "duplicate"}
         IN [g        |-> IF result = "ok" THEN Insert(s.g, u.hash) ELSE s.g,
             todo     |-> Tail(s.todo),
             still    |-> IF taken THEN s.still ELSE Append(s.still, u),
             progress |-> s.progress \/ taken]
    ELSE IF s.progress /\ s.still # <<>>
    THEN [g |-> s.g, todo |-> s.still, still |-> <<>>, progress |-> FALSE]
    ELSE s

Turns(g, inbox) ==
    LET at[n \in Nat] ==
            IF n = 0 THEN [g |-> g, todo |-> inbox, still |-> <<>>, progress |-> FALSE]
            ELSE Turn(at[n - 1])
    IN at

(* Mutant of Received: one pass is made, in the order of arrival. *)
ReceivedInOnePass(g, inbox) == Turns(g, inbox)[Len(inbox)]

(* Passes until one takes nothing; each but the last shortens what is left. *)
Received(g, inbox) == Turns(g, inbox)[(Len(inbox) + 1) * (Len(inbox) + 1)]

Sound(hs) == [i \in DOMAIN hs |-> [hash |-> hs[i], ok |-> TRUE]]

(* from_json: all of the file or nothing. *)
Loaded(hs) ==
    LET r == Received(EmptyGraph, Sound(hs))
    IN [ok |-> r.still = <<>>, g |-> IF r.still = <<>> THEN r.g ELSE EmptyGraph]

InHashOrder(S) ==
    [i \in 1..Cardinality(S) |-> CHOOSE h \in S : Cardinality({k \in S : k < h}) = i - 1]

-----------------------------------------------------------------------------
(* Actions. *)

Kind == {"effectful", "view", "host", "undo"}

(* The journal filter keeps the pure entries of the undo slice. *)
Kept(entries) == SelectSeq(entries, LAMBDA k : k = "undo")

(* What is kept is said in order, the first after the current heads, each    *)
(* other after the one before it.                                            *)
Record(p, entries, hs) ==
    LET g == graph[p]
        n == Len(Kept(entries))
        Parents(i) == IF i = 1 THEN Heads(g) ELSE {hs[i - 1]}
        At(h) == CHOOSE i \in 1..n : hs[i] = h
        New == {hs[i] : i \in 1..n}
    IN /\ Len(hs) = n
       /\ IsInjective(hs)
       /\ \A i \in 1..n : hs[i] \in minted => said[hs[i]] = Parents(i)
       /\ said' = [h \in Hash |-> IF h \in New THEN Parents(At(h)) ELSE said[h]]
       /\ before' = [h \in Hash |-> IF h \in New
                                    THEN g.has \union {hs[j] : j \in 1..(At(h) - 1)}
                                    ELSE before[h]]
       /\ minted' = minted \union New
       /\ graph' = [graph EXCEPT ![p] =
             [has  |-> g.has \union New,
              kids |-> [x \in Hash |-> g.kids[x] \union {h \in New : x \in Parents(At(h))}]]]
       /\ UNCHANGED file

Receive(p, inbox) ==
    /\ graph' = [graph EXCEPT ![p] = Received(@, inbox).g]
    /\ UNCHANGED <<file, minted, said, before>>

Absorb(p, q) ==
    /\ graph' = [graph EXCEPT ![p] = Received(@, Sound(InHashOrder(graph[q].has))).g]
    /\ UNCHANGED <<file, minted, said, before>>

Save(p) ==
    /\ file' = [file EXCEPT ![p] = LinearExtension(graph[p])]
    /\ UNCHANGED <<graph, minted, said, before>>

(* Start again from the file, of which the i-th entry may be missing. *)
Reopen(p, i) ==
    /\ i # 0 => "damage" \in Happens
    /\ graph' = [graph EXCEPT ![p] = Loaded(RemoveAt(file[p], i)).g]
    /\ UNCHANGED <<file, minted, said, before>>

Entries == BoundedSeq(Kind, MaxBatch)
Fresh(n) == {hs \in BoundedSeq(Hash, n) : Len(hs) = n}
Inboxes == BoundedSeq([hash : minted, ok : BOOLEAN], MaxInbox)

Next ==
    \E p \in Peer :
        \/ \E entries \in Entries : \E hs \in Fresh(Len(Kept(entries))) : Record(p, entries, hs)
        \/ \E inbox \in Inboxes : Receive(p, inbox)
        \/ \E q \in Peer \ {p} : Absorb(p, q)
        \/ Save(p)
        \/ \E i \in 0..Len(file[p]) : Reopen(p, i)

Spec == Init /\ [][Next]_vars

-----------------------------------------------------------------------------
(* Properties. *)

(* Ancestry is knowledge: to be an ancestor of h is exactly to have been     *)
(* there when h was said, on every peer that holds h; so `concurrent` means  *)
(* that neither author had the other's utterance.                            *)
AncestryIsKnowledge ==
    \A p \in Peer : \A a, h \in graph[p].has :
        /\ IsAncestor(graph[p], a, h) <=> a \in before[h]
        /\ Concurrent(graph[p], a, h) <=>
               a # h /\ a \notin before[h] /\ h \notin before[a]

(* The heads name the cut: two peers with the same heads hold the same       *)
(* utterances, and nothing else would do for cut_name.                       *)
HeadsNameTheCut ==
    \A p, q \in Peer :
        Heads(graph[p]) = Heads(graph[q]) => graph[p].has = graph[q].has

(* The timeline holds every utterance once, none before one it followed, and *)
(* is the same for every peer that holds the same utterances, in whatever    *)
(* order they came.                                                          *)
TimelineIsCausal ==
    /\ TypeOK
    /\ \A p \in Peer :
          LET t == LinearExtension(graph[p]) IN
          /\ Len(t) = Cardinality(graph[p].has) /\ ToSet(t) = graph[p].has
          /\ \A i, j \in DOMAIN t : t[i] \in before[t[j]] => i < j
          /\ \A q \in Peer : graph[q].has = graph[p].has => LinearExtension(graph[q]) = t

(* `receive` places all that can be placed and hands back the rest, in the   *)
(* order it came: an utterance stays out exactly when it is damaged or       *)
(* something its author had is neither here nor in the bag.                  *)
Placeable(g, inbox, u) ==
    u.ok /\ before[u.hash] \union {u.hash}
                \subseteq g.has \union {v.hash : v \in {w \in ToSet(inbox) : w.ok}}

(* s lists the entries of a longer list that stand at the indexes in at.     *)
ListsThoseAt(s, of, at) ==
    \E f \in [DOMAIN s -> DOMAIN of] :
        /\ \A k, l \in DOMAIN s : k < l => f[k] < f[l]
        /\ \A k \in DOMAIN s : s[k] = of[f[k]]
        /\ {f[k] : k \in DOMAIN s} = at

ReceivePlacesAll ==
    \A p \in Peer : \A inbox \in Inboxes :
        LET g == graph[p]
            r == Received(g, inbox)
            placed == {i \in DOMAIN inbox : Placeable(g, inbox, inbox[i])}
        IN /\ r.g.has = g.has \union {inbox[i].hash : i \in placed}
           /\ ListsThoseAt(r.still, inbox, DOMAIN inbox \ placed)

(* What was written loads back whole: no history that to_json writes is      *)
(* refused as incomplete, and the graph read is the one written.             *)
WrittenLoadsBack ==
    \A p \in Peer :
        LET r == Loaded(LinearExtension(graph[p]))
        IN r.ok /\ r.g.has = graph[p].has /\ Heads(r.g) = Heads(graph[p])

=============================================================================
