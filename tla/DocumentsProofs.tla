---------------------------- MODULE DocumentsProofs ----------------------------
(***************************************************************************)
(* The shared document, for any number of devices, objects, registers and  *)
(* values. First the facts about the operators of OrSetDoc, for every      *)
(* document: what an edit writes and retires, how tags are minted, what a  *)
(* join keeps. Then the documented loop of a replica: it never raises a    *)
(* false identity collision, never reuses a tag and never falls behind its *)
(* own document, and replicas that follow it implement Knowledge. Last,    *)
(* what the library reads off a document is right, whatever forks of one   *)
(* replica do to it: for any tree, policies and export set.                *)
(***************************************************************************)
EXTENDS Documents, ReplicaKnowledge, FiniteSetTheorems, TLAPS

(* A nonempty finite set of naturals has a greatest element: among the sets *)
(* of what lies above each element, a smallest one is empty.                *)
LEMMA GreatestExists ==
    ASSUME NEW S \in SUBSET Nat, S # {}, IsFiniteSet(S)
    PROVE  Max(S) \in S /\ \A w \in S : w <= Max(S)
<1> DEFINE Above(x) == {y \in S : y > x}
           Tops == {Above(x) : x \in S}
<1>1. Tops \subseteq FiniteSubsetsOf(S)
  BY FS_Subset DEF FiniteSubsetsOf
<1>2. Tops # {}
  OBVIOUS
<1>3. PICK T \in Tops : \A U \in Tops : ~(<<U, T>> \in StrictSubsetOrdering(S))
  <2> HIDE DEF Tops
  <2>1. IsWellFoundedOn(StrictSubsetOrdering(S), FiniteSubsetsOf(S))
    BY FS_StrictSubsetOrderingWellFounded
  <2> QED BY <1>1, <1>2, <2>1, WFMin
<1>4. PICK x \in S : T = Above(x)
  OBVIOUS
<1>5. \A y \in S : y <= x
  <2> SUFFICES ASSUME NEW y \in S, y > x PROVE FALSE
    OBVIOUS
  <2>0. \A z \in S : z \in Nat
    OBVIOUS
  <2>1. \A z \in S : z > y => z > x
    BY <2>0
  <2>2. ~(y > y)
    BY <2>0
  <2>3. Above(y) \subseteq Above(x) /\ y \in Above(x) /\ y \notin Above(y)
    BY <2>1, <2>2
  <2>4. <<Above(y), Above(x)>> \in StrictSubsetOrdering(S)
    BY <2>3 DEF StrictSubsetOrdering
  <2> QED BY <1>3, <1>4, <2>4
<1> QED BY <1>5 DEF Max

(* Ranks in a set of writes are distinct positions of 1..Cardinality(W). *)
LEMMA RankIsInjective ==
    ASSUME NEW W \in SUBSET Write
    PROVE  /\ IsFiniteSet(W) /\ Cardinality(W) \in Nat
           /\ \A w \in W : Rank(W, w) \in 1..Cardinality(W)
           /\ \A v, w \in W : Rank(W, v) = Rank(W, w) => v = w
<1> DEFINE UpTo(w) == {x \in W : Visit[x] <= Visit[w]}
<1>1. IsFiniteSet(W) /\ Cardinality(W) \in Nat
  <2>1. IsFiniteSet(Place \X Value)
    BY FS_Product, PlaceAssumption, ValueAssumption
  <2> QED BY <2>1, FS_Subset, FS_CardinalityType DEF Write
<1>2. \A w \in W : Visit[w] \in Nat
  BY VisitAssumption DEF Write
<1>3. \A w \in W : /\ IsFiniteSet(UpTo(w))
                   /\ Cardinality(UpTo(w)) \in Nat
                   /\ Cardinality(UpTo(w)) <= Cardinality(W)
  BY <1>1, FS_Subset, FS_CardinalityType
<1>4. \A w \in W : Rank(W, w) = Cardinality(UpTo(w))
  BY DEF Rank
<1>5. \A w \in W : Cardinality(UpTo(w)) # 0
  BY <1>2, <1>3, FS_EmptySet
<1>6. ASSUME NEW v \in W, NEW w \in W, Visit[v] < Visit[w]
      PROVE  Cardinality(UpTo(v)) < Cardinality(UpTo(w))
  <2>1. UpTo(v) \subseteq UpTo(w)
    BY <1>2, <1>6
  <2>2. w \in UpTo(w) /\ w \notin UpTo(v)
    BY <1>2, <1>6
  <2> HIDE DEF UpTo
  <2>3. /\ Cardinality(UpTo(v)) <= Cardinality(UpTo(w))
        /\ Cardinality(UpTo(w)) = Cardinality(UpTo(v)) => UpTo(w) = UpTo(v)
    BY <1>3, <2>1, FS_Subset
  <2> QED BY <1>3, <2>2, <2>3
<1>7. \A v, w \in W : Cardinality(UpTo(v)) = Cardinality(UpTo(w)) => v = w
  <2> TAKE v, w \in W
  <2>1. CASE Visit[v] = Visit[w]
    BY <2>1, VisitAssumption DEF Write
  <2>2. CASE Visit[v] < Visit[w]
    BY <2>2, <1>3, <1>6
  <2>3. CASE Visit[w] < Visit[v]
    BY <2>3, <1>3, <1>6
  <2> HIDE DEF UpTo
  <2> QED BY <1>2, <2>1, <2>2, <2>3
<1> HIDE DEF UpTo
<1> QED BY <1>1, <1>3, <1>4, <1>5, <1>7

-----------------------------------------------------------------------------

(* Presence marks, registers and sets are all places. *)
LEMMA PlaceFacts ==
    /\ \A o \in Obj : Presence(o) \in Place /\ Presence(o)[1] = o
    /\ Reg \subseteq Place /\ Bag \subseteq Place
    /\ \A p \in Place : p[1] \in Obj
BY PlaceAssumption DEF Place, Presence

(* A join invents nothing; when no tag names two adds it loses nothing. *)
LEMMA JoinIsUnion ==
    ASSUME NEW D \in Doc, NEW E \in Doc
    PROVE  /\ Join(D, E) \in Doc
           /\ Join(D, E).adds \subseteq D.adds \union E.adds
           /\ Join(D, E).rems = D.rems \union E.rems
           /\ (\A a \in D.adds, b \in E.adds : a.tag = b.tag => a = b)
                => Join(D, E).adds = D.adds \union E.adds
BY DEF Join, Doc

(* The tags of a document are tags. *)
LEMMA TagFacts ==
    ASSUME NEW D \in Doc
    PROVE  /\ TagsOf(D) \subseteq Tag
           /\ \A a \in D.adds : a.tag \in TagsOf(D) /\ a \in Add
           /\ \A r \in D.rems : r.tag \in TagsOf(D) /\ r \in Rem
BY DEF TagsOf, Doc, Add, Rem, Tag

(* Retiring names only tags the document holds an add for. *)
LEMMA RetireFacts ==
    ASSUME NEW D \in Doc, NEW p \in Place, NEW vs
    PROVE  /\ Retire(D, p, vs) \subseteq Rem
           /\ \A r \in Retire(D, p, vs) : \E a \in D.adds : a.tag = r.tag
<1>1. AddsAt(D, p) \subseteq D.adds /\ D.adds \subseteq Add
  BY DEF AddsAt, Doc
<1> QED BY <1>1 DEF Retire, Rem, Add

(* Removing an object names only tags the document holds an add for. *)
LEMMA RemovalFacts ==
    ASSUME NEW D \in Doc, NEW o \in Obj
    PROVE  /\ Removal(D, o) \subseteq Rem
           /\ \A r \in Removal(D, o) : \E a \in D.adds : a.tag = r.tag
<1>1. \A p \in Beneath(o) : LiveAt(D, p) \subseteq D.adds
  BY DEF LiveAt, AddsAt
<1>2. \A t \in LiveTagsBeneath(D, o) : t \in Tag /\ \E a \in D.adds : a.tag = t
  BY <1>1 DEF LiveTagsBeneath, Doc, Add
<1>3. Presence(o) \in Place
  BY PlaceFacts
<1>4. /\ Retire(D, Presence(o), Value) \subseteq Rem
      /\ \A r \in Retire(D, Presence(o), Value) : \E a \in D.adds : a.tag = r.tag
  BY <1>3, RetireFacts
<1> QED BY <1>2, <1>3, <1>4 DEF Removal, Rem

(* An observation writes values at places and retires tags it knows. *)
LEMMA ObservationFacts ==
    ASSUME NEW D \in Doc, NEW s \in State
    PROVE  /\ Writes(D, s) \in SUBSET Write
           /\ Retirements(D, s) \subseteq Rem
           /\ \A r \in Retirements(D, s) : \E a \in D.adds : a.tag = r.tag
<1>1. Writes(D, s) \in SUBSET Write
  BY PlaceFacts, ValueAssumption DEF Writes, Write, State
<1>2. \A p \in Place : \A vs :
        /\ Retire(D, p, vs) \subseteq Rem
        /\ \A r \in Retire(D, p, vs) : \E a \in D.adds : a.tag = r.tag
  BY RetireFacts
<1>3. \A o \in Obj :
        /\ Removal(D, o) \subseteq Rem
        /\ \A r \in Removal(D, o) : \E a \in D.adds : a.tag = r.tag
  BY RemovalFacts
<1>4. \A r \in Retirements(D, s) :
        \/ \E p \in Place : \E vs : r \in Retire(D, p, vs)
        \/ \E o \in Obj : r \in Removal(D, o)
  <2> SUFFICES ASSUME NEW r \in Retirements(D, s)
               PROVE  \/ \E p \in Place : \E vs : r \in Retire(D, p, vs)
                      \/ \E o \in Obj : r \in Removal(D, o)
    OBVIOUS
  <2>1. CASE r \in UNION {Retire(D, p, Value) : p \in {q \in Reg : Changed(D, s, q)}}
    <3>1. PICK p \in Reg : r \in Retire(D, p, Value)
      BY <2>1
    <3> QED BY <3>1, PlaceFacts
  <2>2. CASE r \in UNION {Retire(D, p, Values(D, p) \ s.bag[p]) :
                            p \in {q \in Bag : q[1] \in s.live}}
    <3>1. PICK p \in Bag : r \in Retire(D, p, Values(D, p) \ s.bag[p])
      BY <2>2
    <3> QED BY <3>1, PlaceFacts
  <2>3. CASE r \in UNION {Removal(D, o) : o \in Gone(D, s)}
    <3>1. PICK o \in Gone(D, s) : r \in Removal(D, o)
      BY <2>3
    <3> QED BY <3>1 DEF Gone
  <2> QED BY <2>1, <2>2, <2>3 DEF Retirements
<1> QED BY <1>1, <1>2, <1>3, <1>4

(* The sides of a value conflict are values the register holds. *)
LEMMA ValueConflictFacts ==
    ASSUME NEW D \in Doc, NEW c \in ValueConflicts(D), NEW v \in c.sides
    PROVE  <<c.place, v>> \in Write
<1>1. PICK p \in Reg : Conflicted(D, p) /\ c.place = p /\ c.sides = Reading(D, p)
  BY DEF ValueConflicts
<1>2. Values(D, p) \subseteq Value
  BY DEF Values, LiveAt, AddsAt, Doc, Add
<1>3. Reading(D, p) = Values(D, p) \/ \E x : Reading(D, p) = {x}
  <2>1. CASE Cardinality(Values(D, p)) <= 1
    BY <2>1 DEF Reading
  <2>2. CASE ~(Cardinality(Values(D, p)) <= 1) /\ Policy[p] = "Pick"
    BY <2>2 DEF Reading
  <2>3. CASE ~(Cardinality(Values(D, p)) <= 1) /\ Policy[p] = "Max"
    BY <2>3 DEF Reading
  <2>4. CASE ~(Cardinality(Values(D, p)) <= 1) /\ Policy[p] = "Latest"
    BY <2>4 DEF Reading
  <2>5. CASE ~(Cardinality(Values(D, p)) <= 1) /\ Policy[p] = "Conflict"
    BY <2>5 DEF Reading
  <2> QED BY <2>1, <2>2, <2>3, <2>4, <2>5, PolicyAssumption
<1>4. Reading(D, p) = Values(D, p)
  BY <1>1, <1>3, FS_Singleton DEF Conflicted
<1> QED BY <1>1, <1>2, <1>4, PlaceFacts DEF Write

(* What an edit mints: tags of the writer above its counter, one per write. *)
LEMMA DeltaFacts ==
    ASSUME NEW D \in Doc, NEW i \in Id, NEW issued \in Nat,
           NEW W \in SUBSET Write, NEW R \in SUBSET Rem
    PROVE  LET delta == Delta(D, i, issued, W, R) IN
           /\ delta \in Doc
           /\ \A a \in delta.adds : /\ a.tag.id = i
                                   /\ a.tag.n \in issued + 1..issued + Cardinality(W)
           /\ \A a, b \in delta.adds : a.tag = b.tag => a = b
           /\ delta.rems \subseteq R
<1> DEFINE delta == Delta(D, i, issued, W, R)
           made(w) == [place |-> w[1],
                       tag   |-> [id |-> i, n |-> issued + Rank(W, w)],
                       val   |-> w[2]]
<1>1. /\ Cardinality(W) \in Nat
      /\ \A w \in W : Rank(W, w) \in 1..Cardinality(W)
      /\ \A v, w \in W : Rank(W, v) = Rank(W, w) => v = w
  BY RankIsInjective
<1>2. delta.adds = {made(w) : w \in W} /\ delta.rems = R \ D.rems
  BY DEF Delta, Minted
<1>3. \A w \in W : w[1] \in Place /\ w[2] \in Value
  BY DEF Write
<1>4. \A w \in W : /\ issued + Rank(W, w) \in Nat
                   /\ issued + Rank(W, w) \in issued + 1..issued + Cardinality(W)
  BY <1>1
<1>5. \A w \in W : made(w) \in Add
  BY <1>3, <1>4 DEF Add, Tag
<1>6. \A v, w \in W : made(v).tag = made(w).tag => v = w
  <2> TAKE v, w \in W
  <2>1. made(v).tag.n = issued + Rank(W, v) /\ made(w).tag.n = issued + Rank(W, w)
    OBVIOUS
  <2>2. Rank(W, v) \in Nat /\ Rank(W, w) \in Nat
    BY <1>1
  <2> QED BY <1>1, <2>1, <2>2
<1>7. delta \in Doc
  BY <1>2, <1>5 DEF Doc, Delta
<1> QED BY <1>2, <1>4, <1>6, <1>7

-----------------------------------------------------------------------------
(* Documents as a replica builds them. *)

(* One tag names one add; a fixed register whose presence was written was    *)
(* written, and what retired a value of it wrote a newer one.                *)
OneAddPerTag(D) == \A a, b \in D.adds : a.tag = b.tag => a = b
FixedAreWritten(D) ==
    \A p \in Fixed : AddsAt(D, Presence(p[1])) # {} => AddsAt(D, p) # {}
FixedAreReplaced(D) ==
    \A r \in D.rems : r.place \in Fixed =>
        \E a \in AddsAt(D, r.place) : a.tag.n > r.tag.n
Sound(D) ==
    /\ D \in Doc /\ IsFiniteSet(D.adds)
    /\ OneAddPerTag(D) /\ FixedAreWritten(D) /\ FixedAreReplaced(D)

(* A nonempty set of naturals has a least element. *)
LEMMA LeastExists ==
    ASSUME NEW S \in SUBSET Nat, S # {}
    PROVE  Min(S) \in S /\ \A w \in S : Min(S) <= w
<1>1. PICK x \in S : \A y \in S : ~(<<y, x>> \in OpToRel(<, Nat))
  BY NatLessThanWellFounded, WFMin
<1>2. ASSUME NEW y \in S PROVE x <= y
  <2>1. x \in Nat /\ y \in Nat
    OBVIOUS
  <2>2. ~(y < x)
    BY <1>1, <2>1, Zenon DEF OpToRel
  <2> QED BY <2>1, <2>2
<1> QED BY <1>2 DEF Min

(* Among finitely many adds one has the greatest counter, and one is         *)
(* outranked by none.                                                        *)
LEMMA NewestExists ==
    ASSUME NEW S \in SUBSET Add, S # {}, IsFiniteSet(S)
    PROVE  /\ \E a \in S : \A b \in S : b.tag.n <= a.tag.n
           /\ \E a \in S : \A b \in S : ~Outranks(b.tag, a.tag)
<1>0. \A a \in S : a.tag.n \in Nat /\ a.tag.id \in Nat
  BY IdAssumption DEF Add, Tag
<1>1. \A T \in SUBSET S : \A C : \A f \in Surjection(T, C) : IsFiniteSet(C)
  BY FS_Surjection, FS_Subset
<1>2. PICK a \in S : \A b \in S : b.tag.n <= a.tag.n
  <2> DEFINE C == {b.tag.n : b \in S}
             f == [b \in S |-> b.tag.n]
  <2>1. f \in Surjection(S, C)
    BY DEF Surjection
  <2>2. IsFiniteSet(C) /\ C \in SUBSET Nat /\ C # {}
    BY <1>0, <1>1, <2>1
  <2>3. \A b \in S : b.tag.n \in C
    OBVIOUS
  <2>4. \A n \in C : \E b \in S : n = b.tag.n
    OBVIOUS
  <2> HIDE DEF C, f
  <2>5. Max(C) \in C /\ \A w \in C : w <= Max(C)
    BY <2>2, GreatestExists
  <2> QED BY <2>3, <2>4, <2>5
<1>3. PICK c \in S : \A b \in S : ~Outranks(b.tag, c.tag)
  <2> DEFINE T == {b \in S : b.tag.n = a.tag.n}
             C == {b.tag.id : b \in T}
             f == [b \in T |-> b.tag.id]
  <2>1. f \in Surjection(T, C) /\ T \in SUBSET S
    BY DEF Surjection
  <2>2. IsFiniteSet(C) /\ C \in SUBSET Nat /\ C # {}
    BY <1>0, <1>1, <2>1
  <2>3. \A b \in T : b.tag.id \in C
    OBVIOUS
  <2>4. \A n \in C : \E b \in T : n = b.tag.id
    OBVIOUS
  <2>5. \A b \in S : b \in T <=> b.tag.n = a.tag.n
    OBVIOUS
  <2> HIDE DEF C, f, T
  <2>6. Max(C) \in C /\ \A w \in C : w <= Max(C)
    BY <2>2, GreatestExists
  <2>7. PICK c \in T : c.tag.id = Max(C)
    BY <2>4, <2>6
  <2>8. c \in S /\ c.tag.n = a.tag.n
    BY <2>1, <2>5, <2>7
  <2>9. \A b \in S : ~Outranks(b.tag, c.tag)
    <3> SUFFICES ASSUME NEW b \in S PROVE ~(b.tag.n > c.tag.n) /\ (b.tag.n = c.tag.n => ~(b.tag.id > c.tag.id))
      BY DEF Outranks
    <3>1. ~(b.tag.n > c.tag.n)
      BY <1>0, <1>2, <2>8
    <3>2. ASSUME b.tag.n = c.tag.n PROVE ~(b.tag.id > c.tag.id)
      <4>1. b.tag.id <= Max(C)
        BY <2>3, <2>5, <2>6, <2>8, <3>2
      <4> QED BY <1>0, <2>7, <2>8, <4>1
    <3> QED BY <3>1, <3>2
  <2> QED BY <2>8, <2>9
<1> QED BY <1>2, <1>3

(* What is live at a place is among the adds, and its values are values. *)
LEMMA ValueFacts ==
    ASSUME NEW D \in Doc, NEW p
    PROVE  /\ LiveAt(D, p) \in SUBSET D.adds
           /\ LiveAt(D, p) \in SUBSET Add
           /\ Values(D, p) \in SUBSET Value
           /\ IsFiniteSet(Values(D, p)) /\ Cardinality(Values(D, p)) \in Nat
           /\ Values(D, p) = {} <=> LiveAt(D, p) = {}
<1>1. LiveAt(D, p) \in SUBSET D.adds /\ D.adds \in SUBSET Add
  BY DEF LiveAt, AddsAt, Doc
<1>2. Values(D, p) \in SUBSET Value
  BY <1>1 DEF Values, Add
<1>3. IsFiniteSet(Values(D, p)) /\ Cardinality(Values(D, p)) \in Nat
  BY <1>2, ValueAssumption, FS_Subset, FS_CardinalityType
<1> QED BY <1>1, <1>2, <1>3 DEF Values

(* The value read as Latest is one of the live writes' no other outranks. *)
LEMMA LatestFacts ==
    ASSUME NEW D \in Doc, IsFiniteSet(D.adds), NEW p, LiveAt(D, p) # {}
    PROVE  \E a \in LiveAt(D, p) : /\ LatestValue(D, p) = a.val
                                   /\ \A b \in LiveAt(D, p) : ~Outranks(b.tag, a.tag)
<1>1. LiveAt(D, p) \in SUBSET Add /\ IsFiniteSet(LiveAt(D, p))
  BY ValueFacts, FS_Subset
<1>2. \E a \in LiveAt(D, p) : \A b \in LiveAt(D, p) : ~Outranks(b.tag, a.tag)
  BY <1>1, NewestExists
<1> QED BY <1>2 DEF LatestValue

(* What a register reads: nothing when nothing is live, else some of what is *)
(* live, and shows one of them; a single value is read and shown.            *)
LEMMA ReadingFacts ==
    ASSUME NEW D \in Doc, IsFiniteSet(D.adds), NEW p \in Reg
    PROVE  /\ Values(D, p) = {} <=> Shown(D, p) = Absent
           /\ Reading(D, p) \subseteq Values(D, p)
           /\ Values(D, p) # {} => /\ Reading(D, p) # {}
                                   /\ Shown(D, p) \in Reading(D, p)
           /\ Conflicted(D, p) => Values(D, p) # {}
           /\ \A v : Values(D, p) = {v} => Reading(D, p) = {v} /\ Shown(D, p) = v
           /\ Policy[p] = "Conflict" => Reading(D, p) = Values(D, p)
           /\ Policy[p] = "Latest" /\ ~(Cardinality(Values(D, p)) <= 1)
                 => Reading(D, p) = {LatestValue(D, p)}
<1> DEFINE vs == Values(D, p)
<1>0. /\ vs \in SUBSET Nat /\ IsFiniteSet(vs) /\ Cardinality(vs) \in Nat
      /\ vs = {} <=> LiveAt(D, p) = {}
  BY ValueFacts, ValueAssumption
<1>1. Policy[p] \in {"Conflict", "Pick", "Max", "Latest"}
  BY PolicyAssumption
<1>2. \A v : vs = {v} => Cardinality(vs) = 1
  BY FS_Singleton
<1>3. vs = {} => Cardinality(vs) = 0
  BY FS_EmptySet
<1>4. vs # {} => Min(vs) \in vs /\ Max(vs) \in vs
  BY <1>0, LeastExists, GreatestExists
<1>5. vs # {} => LatestValue(D, p) \in vs
  BY <1>0, LatestFacts DEF Values
<1>6. /\ Cardinality(vs) <= 1 => Reading(D, p) = vs
      /\ ~(Cardinality(vs) <= 1) =>
            /\ Policy[p] = "Pick" => Reading(D, p) = {Min(vs)}
            /\ Policy[p] = "Max" => Reading(D, p) = {Max(vs)} \/ Reading(D, p) = vs
            /\ Policy[p] = "Latest" => Reading(D, p) = {LatestValue(D, p)}
            /\ Policy[p] = "Conflict" => Reading(D, p) = vs
  <2>1. ASSUME Cardinality(vs) <= 1 PROVE Reading(D, p) = vs
    BY <2>1 DEF Reading
  <2>2. ASSUME ~(Cardinality(vs) <= 1), Policy[p] = "Pick"
        PROVE  Reading(D, p) = {Min(vs)}
    BY <2>2 DEF Reading
  <2>3. ASSUME ~(Cardinality(vs) <= 1), Policy[p] = "Max", Null \notin vs
        PROVE  Reading(D, p) = {Max(vs)}
    BY <2>3 DEF Reading
  <2>4. ASSUME ~(Cardinality(vs) <= 1), Policy[p] = "Max", Null \in vs
        PROVE  Reading(D, p) = vs
    BY <2>4 DEF Reading
  <2>5. ASSUME ~(Cardinality(vs) <= 1), Policy[p] = "Latest"
        PROVE  Reading(D, p) = {LatestValue(D, p)}
    BY <2>5 DEF Reading
  <2>6. ASSUME ~(Cardinality(vs) <= 1), Policy[p] = "Conflict"
        PROVE  Reading(D, p) = vs
    BY <2>6 DEF Reading
  <2>7. Policy[p] = "Max" /\ ~(Cardinality(vs) <= 1)
            => Reading(D, p) = {Max(vs)} \/ Reading(D, p) = vs
    BY <2>3, <2>4
  <2> QED BY <2>1, <2>2, <2>5, <2>6, <2>7
<1>7. \/ Reading(D, p) = vs
      \/ vs # {} /\ \E v \in vs : Reading(D, p) = {v}
  BY <1>1, <1>3, <1>4, <1>5, <1>6
<1>8. Shown(D, p) = IF vs = {} THEN Absent ELSE Min(Reading(D, p))
  BY DEF Shown
<1>9. vs # {} => Reading(D, p) # {} /\ Shown(D, p) \in Reading(D, p)
  <2> HAVE vs # {}
  <2>1. Reading(D, p) \in SUBSET Nat /\ Reading(D, p) # {}
    BY <1>0, <1>7
  <2> QED BY <1>8, <2>1, LeastExists
<1>10. Absent \notin Nat
  BY DEF Absent
<1>11. Conflicted(D, p) => vs # {}
  BY <1>3, <1>6 DEF Conflicted
<1>12. Policy[p] = "Conflict" => Reading(D, p) = vs
  BY <1>6
<1>13. vs = {} <=> Shown(D, p) = Absent
  BY <1>0, <1>7, <1>8, <1>9, <1>10
<1>14. \A v : vs = {v} => Reading(D, p) = {v} /\ Shown(D, p) = v
  BY <1>2, <1>6, <1>9
<1> HIDE DEF vs
<1> QED BY <1>6, <1>7, <1>9, <1>11, <1>12, <1>13, <1>14 DEF vs

(* The fixed registers of what is alive have a value: the newest of their    *)
(* writes is not retired, because what retires one writes a newer one.       *)
LEMMA FixedHasValue ==
    ASSUME NEW D, Sound(D), NEW p \in Fixed, Alive(D, p[1])
    PROVE  Values(D, p) # {}
<1>1. AddsAt(D, p) # {} /\ AddsAt(D, p) \in SUBSET D.adds
  BY DEF Alive, Values, LiveAt, AddsAt, Sound, FixedAreWritten
<1>2. AddsAt(D, p) \in SUBSET Add /\ IsFiniteSet(AddsAt(D, p))
  BY <1>1, FS_Subset DEF Sound, Doc
<1>3. PICK a \in AddsAt(D, p) : \A b \in AddsAt(D, p) : b.tag.n <= a.tag.n
  BY <1>1, <1>2, NewestExists
<1>4. a.tag \notin RemovedAt(D, p)
  <2> SUFFICES ASSUME NEW r \in D.rems, r.place = p, r.tag = a.tag PROVE FALSE
    BY DEF RemovedAt
  <2>1. PICK b \in AddsAt(D, p) : b.tag.n > a.tag.n
    BY DEF Sound, FixedAreReplaced
  <2>2. b.tag.n \in Nat /\ a.tag.n \in Nat
    BY <1>2 DEF Add, Tag
  <2> QED BY <1>3, <2>1, <2>2
<1> QED BY <1>4 DEF LiveAt, Values

(* What a document flattens to: the objects that are alive in something      *)
(* alive, with what their registers show and their sets hold.                *)
LEMMA FlattenFacts ==
    ASSUME NEW D, Sound(D)
    PROVE  /\ \A o : o \in Flatten(D).live <=> o \in Obj /\ Alive(D, o) /\ Outermost(D, o)
           /\ \A p \in Reg :
                 Flatten(D).reg[p] = IF p[1] \in Flatten(D).live THEN Shown(D, p) ELSE Absent
           /\ \A p \in Bag :
                 Flatten(D).bag[p] = IF p[1] \in Flatten(D).live THEN Values(D, p) ELSE {}
           /\ Flatten(D) \in State
<1> DEFINE s == Flatten(D)
<1>0. D \in Doc /\ IsFiniteSet(D.adds)
  BY DEF Sound
<1>1. \A o : o \in s.live <=> o \in Obj /\ Alive(D, o) /\ Outermost(D, o)
  BY FixedHasValue DEF Flatten
<1>2. \A p \in Reg : s.reg[p] = IF p[1] \in s.live THEN Shown(D, p) ELSE Absent
  <2> SUFFICES ASSUME NEW p \in Reg
               PROVE  s.reg[p] = IF p[1] \in s.live THEN Shown(D, p) ELSE Absent
    OBVIOUS
  <2>1. s.reg[p] = IF p[1] \in s.live
                   THEN IF Values(D, p) # {}
                        THEN IF p[1] \in Glyph THEN Min(Values(D, p)) ELSE Shown(D, p)
                        ELSE IF p \in Fixed THEN Null ELSE Absent
                   ELSE Absent
    BY DEF Flatten
  <2>2. p[1] \in s.live /\ p \in Fixed => Values(D, p) # {}
    BY <1>1, FixedHasValue
  <2>3. Values(D, p) = {} => Shown(D, p) = Absent
    BY <1>0, ReadingFacts
  <2>4. p[1] \in Glyph /\ Values(D, p) # {} => Shown(D, p) = Min(Values(D, p))
    BY <1>0, ReadingFacts, PolicyAssumption DEF Shown
  <2> HIDE DEF s
  <2> QED BY <2>1, <2>2, <2>3, <2>4
<1>3. \A p \in Bag : s.bag[p] = IF p[1] \in s.live THEN Values(D, p) ELSE {}
  BY DEF Flatten
<1>4. \A p \in Reg : Shown(D, p) \in Value \union {Absent}
  BY <1>0, ReadingFacts, ValueFacts
<1>5. \A p : Values(D, p) \in SUBSET Value
  BY <1>0, ValueFacts
<1>6. s \in [live : SUBSET Obj, reg : [Reg -> Value \union {Absent}], bag : [Bag -> SUBSET Value]]
  <2>1. /\ s = [live |-> s.live, reg |-> s.reg, bag |-> s.bag]
        /\ s.reg = [p \in Reg |-> s.reg[p]]
        /\ s.bag = [p \in Bag |-> s.bag[p]]
    BY DEF Flatten
  <2>2. s.live \in SUBSET Obj
    BY <1>1
  <2>3. \A p \in Reg : s.reg[p] \in Value \union {Absent}
    BY <1>2, <1>4
  <2>4. \A p \in Bag : s.bag[p] \in SUBSET Value
    BY <1>3, <1>5
  <2> HIDE DEF s
  <2>5. s.reg \in [Reg -> Value \union {Absent}] /\ s.bag \in [Bag -> SUBSET Value]
    BY <2>1, <2>3, <2>4
  <2> QED BY <2>1, <2>2, <2>5
<1> HIDE DEF s
<1>7. IsState(s)
  <2>1. \A o \in s.live : Parent[o] \in s.live \union {Root}
    <3> SUFFICES ASSUME NEW o \in s.live, Parent[o] # Root PROVE Parent[o] \in s.live
      OBVIOUS
    <3>1. o \in Obj /\ Alive(D, Parent[o])
      BY <1>1 DEF Outermost
    <3>2. Parent[o] \in Obj /\ Parent[Parent[o]] = Root
      BY <3>1, ParentAssumption
    <3> QED BY <1>1, <3>1, <3>2 DEF Outermost
  <2>2. \A p \in Fixed : p[1] \in s.live => s.reg[p] # Absent
    <3> SUFFICES ASSUME NEW p \in Fixed, p[1] \in s.live PROVE Shown(D, p) # Absent
      BY <1>2 DEF Reg
    <3>1. Values(D, p) # {}
      BY <1>1, FixedHasValue
    <3> QED BY <1>0, <3>1, ReadingFacts DEF Reg
  <2>3. \A p \in Reg : p[1] \notin s.live => s.reg[p] = Absent
    BY <1>2
  <2>4. \A p \in Bag : p[1] \notin s.live => s.bag[p] = {}
    BY <1>3
  <2> QED BY <2>1, <2>2, <2>3, <2>4 DEF IsState
<1> QED BY <1>1, <1>2, <1>3, <1>6, <1>7 DEF State, s

(* Rule 2 of replica.hpp: observing what the document shows changes nothing. *)
LEMMA SelfObservationIsEmpty ==
    ASSUME NEW D, Sound(D), NEW i, NEW n
    PROVE  ObserveDelta(D, i, n, Flatten(D)) = EmptyDoc
<1> DEFINE s == Flatten(D)
<1>1. /\ \A o : o \in s.live <=> o \in Obj /\ Alive(D, o) /\ Outermost(D, o)
      /\ \A p \in Reg : s.reg[p] = IF p[1] \in s.live THEN Shown(D, p) ELSE Absent
      /\ \A p \in Bag : s.bag[p] = IF p[1] \in s.live THEN Values(D, p) ELSE {}
  BY FlattenFacts
<1> HIDE DEF s
<1>2. \A p \in Reg : ~Changed(D, s, p)
  BY <1>1 DEF Changed
<1>3. Writes(D, s) = {}
  <2>1. {q \in s.live : ~Alive(D, q)} = {}
    BY <1>1
  <2>2. {q \in Reg : Changed(D, s, q) /\ s.reg[q] # Absent} = {}
    BY <1>2
  <2>3. \A w \in Bag \X Value : ~(w[1][1] \in s.live /\ w[2] \in s.bag[w[1]] \ Values(D, w[1]))
    <3> TAKE w \in Bag \X Value
    <3>1. w[1] \in Bag
      OBVIOUS
    <3> QED BY <1>1, <3>1
  <2>4. {w \in Bag \X Value : w[1][1] \in s.live /\ w[2] \in s.bag[w[1]] \ Values(D, w[1])} = {}
    BY <2>3
  <2> QED BY <2>1, <2>2, <2>4 DEF Writes
<1>4. Gone(D, s) = {}
  BY <1>1 DEF Gone, Outermost
<1>5. Retirements(D, s) = {}
  <2>1. UNION {Retire(D, p, Value) : p \in {q \in Reg : Changed(D, s, q)}} = {}
    BY <1>2
  <2>2. \A p \in {q \in Bag : q[1] \in s.live} : Retire(D, p, Values(D, p) \ s.bag[p]) = {}
    <3> TAKE p \in {q \in Bag : q[1] \in s.live}
    <3>1. Values(D, p) \ s.bag[p] = {}
      BY <1>1
    <3> QED BY <3>1 DEF Retire
  <2>3. UNION {Retire(D, p, Values(D, p) \ s.bag[p]) : p \in {q \in Bag : q[1] \in s.live}} = {}
    BY <2>2
  <2>4. UNION {Removal(D, o) : o \in Gone(D, s)} = {}
    BY <1>4
  <2> QED BY <2>1, <2>3, <2>4 DEF Retirements
<1>6. Minted({}, i, n) = {}
  BY DEF Minted
<1> QED BY <1>3, <1>5, <1>6 DEF ObserveDelta, Delta, EmptyDoc, s

-----------------------------------------------------------------------------
(* What an edit changes. *)

(* The tags of R are tags of adds of D. *)
HoldsTags(D, R) == \A r \in R : \E a \in D.adds : a.tag = r.tag

(* Every write is minted one add, with a tag of the writer above its counter. *)
LEMMA MintedFacts ==
    ASSUME NEW i \in Id, NEW n \in Nat, NEW W \in SUBSET Write
    PROVE  /\ Minted(W, i, n) \in SUBSET Add /\ IsFiniteSet(Minted(W, i, n))
           /\ \A a \in Minted(W, i, n) :
                 /\ <<a.place, a.val>> \in W
                 /\ a.tag.id = i /\ a.tag.n \in Nat /\ a.tag.n > n
                 /\ a.tag.n <= n + Cardinality(W)
           /\ \A w \in W : \E a \in Minted(W, i, n) : a.place = w[1] /\ a.val = w[2]
           /\ \A a, b \in Minted(W, i, n) : a.tag = b.tag => a = b
           /\ \A a, b \in Minted(W, i, n) : a.place = b.place /\ a.val = b.val => a = b
<1> DEFINE made(w) == [place |-> w[1],
                       tag   |-> [id |-> i, n |-> n + Rank(W, w)],
                       val   |-> w[2]]
           M == Minted(W, i, n)
<1>1. M = {made(w) : w \in W}
  BY DEF Minted
<1>2. \A w \in W : w = <<w[1], w[2]>> /\ w[1] \in Place /\ w[2] \in Value
  BY DEF Write
<1>3. /\ EmptyDoc \in Doc /\ {} \in SUBSET Rem
      /\ Delta(EmptyDoc, i, n, W, {}).adds = M
  BY DEF EmptyDoc, Doc, Delta
<1>4. /\ \A a \in M : a.tag.id = i /\ a.tag.n \in n + 1..n + Cardinality(W)
      /\ \A a, b \in M : a.tag = b.tag => a = b
      /\ M \in SUBSET Add
  <2> DEFINE delta == Delta(EmptyDoc, i, n, W, {})
  <2>1. /\ delta \in Doc
        /\ \A a \in delta.adds : a.tag.id = i /\ a.tag.n \in n + 1..n + Cardinality(W)
        /\ \A a, b \in delta.adds : a.tag = b.tag => a = b
    BY <1>3, DeltaFacts
  <2>2. delta.adds = M
    BY <1>3
  <2> HIDE DEF delta, M
  <2>3. delta.adds \in SUBSET Add
    BY <2>1 DEF Doc
  <2> QED BY <2>1, <2>2, <2>3
<1>5. IsFiniteSet(W) /\ Cardinality(W) \in Nat
  BY RankIsInjective
<1>6. IsFiniteSet(M)
  <2> DEFINE f == [w \in W |-> made(w)]
  <2>1. f \in Surjection(W, M)
    BY <1>1 DEF Surjection
  <2> HIDE DEF f, M
  <2> QED BY <1>5, <2>1, FS_Surjection
<1>7. \A a \in M : a.tag.n \in Nat /\ a.tag.n > n /\ a.tag.n <= n + Cardinality(W)
  <2> HIDE DEF M
  <2> QED BY <1>4, <1>5
<1>8. \A a \in M : <<a.place, a.val>> \in W
  BY <1>1, <1>2
<1>9. \A w \in W : \E a \in M : a.place = w[1] /\ a.val = w[2]
  <2> TAKE w \in W
  <2>1. made(w) \in M /\ made(w).place = w[1] /\ made(w).val = w[2]
    BY <1>1
  <2> QED BY <2>1
<1>10. \A a, b \in M : a.place = b.place /\ a.val = b.val => a = b
  <2> SUFFICES ASSUME NEW v \in W, NEW w \in W,
                      made(v).place = made(w).place, made(v).val = made(w).val
               PROVE  made(v) = made(w)
    BY <1>1
  <2>1. v[1] = w[1] /\ v[2] = w[2]
    OBVIOUS
  <2>2. v = w
    BY <1>2, <2>1
  <2> QED BY <2>2
<1> HIDE DEF M
<1> QED BY <1>4, <1>6, <1>7, <1>8, <1>9, <1>10 DEF M

(* The document after an edit: the adds minted are new, and what is live is  *)
(* what was and is not retired, and what is written.                         *)
LEMMA AfterEdit ==
    ASSUME NEW D \in Doc, NEW i \in Id, NEW n \in Nat,
           \A t \in TagsOf(D) : t.n <= n,
           NEW W \in SUBSET Write, NEW R \in SUBSET Rem, HoldsTags(D, R)
    PROVE  LET E == Join(D, Delta(D, i, n, W, R)) IN
           /\ E \in Doc
           /\ E.adds = D.adds \union Minted(W, i, n)
           /\ E.rems = D.rems \union R
           /\ \A p : \A a : a \in LiveAt(E, p) <=>
                 \/ a \in LiveAt(D, p) /\ [place |-> p, tag |-> a.tag] \notin R
                 \/ a \in Minted(W, i, n) /\ a.place = p
           /\ \A p : \A v : v \in Values(E, p) <=>
                 \/ \E a \in LiveAt(D, p) : a.val = v /\ [place |-> p, tag |-> a.tag] \notin R
                 \/ <<p, v>> \in W
<1> DEFINE delta == Delta(D, i, n, W, R)
           M == Minted(W, i, n)
           E == Join(D, delta)
<1>1. /\ M \in SUBSET Add
      /\ \A a \in M : /\ <<a.place, a.val>> \in W
                      /\ a.tag.id = i /\ a.tag.n \in Nat /\ a.tag.n > n
      /\ \A w \in W : \E a \in M : a.place = w[1] /\ a.val = w[2]
  BY MintedFacts
<1>2. delta.adds = M /\ delta.rems = R \ D.rems /\ delta \in Doc
  BY <1>1 DEF Delta, Doc
<1>3. \A t \in TagsOf(D) : t.n \in Nat /\ t.n <= n
  BY TagFacts DEF Tag
<1> HIDE DEF M
<1>4. \A a \in M : a.tag \notin TagsOf(D)
  <2> SUFFICES ASSUME NEW a \in M, a.tag \in TagsOf(D) PROVE FALSE
    OBVIOUS
  <2>1. a.tag.n \in Nat /\ a.tag.n <= n /\ a.tag.n > n
    BY <1>1, <1>3
  <2> QED BY <2>1
<1>5. \A a \in D.adds, b \in delta.adds : a.tag = b.tag => a = b
  BY <1>2, <1>4, TagFacts
<1> HIDE DEF delta
<1>6. E \in Doc /\ E.adds = D.adds \union M /\ E.rems = D.rems \union R
  BY <1>2, <1>5, JoinIsUnion
<1> HIDE DEF E
<1>7. \A a \in M : \A r \in E.rems : r.tag # a.tag
  <2> SUFFICES ASSUME NEW a \in M, NEW r \in E.rems, r.tag = a.tag PROVE FALSE
    OBVIOUS
  <2>1. r \in D.rems \/ \E b \in D.adds : b.tag = r.tag
    BY <1>6 DEF HoldsTags
  <2> QED BY <1>4, <2>1, TagFacts
<1>8. \A p : \A t : t \in RemovedAt(E, p) <=>
                        t \in RemovedAt(D, p) \/ [place |-> p, tag |-> t] \in R
  <2> SUFFICES ASSUME NEW p, NEW t
               PROVE  t \in RemovedAt(E, p) <=>
                        t \in RemovedAt(D, p) \/ [place |-> p, tag |-> t] \in R
    OBVIOUS
  <2>1. \A r \in R : r = [place |-> r.place, tag |-> r.tag]
    BY DEF Rem
  <2> QED BY <1>6, <2>1 DEF RemovedAt
<1>9. \A p : \A a : a \in AddsAt(E, p) <=> a \in AddsAt(D, p) \/ (a \in M /\ a.place = p)
  BY <1>6 DEF AddsAt
<1>10. \A p : \A a \in M : a.tag \notin RemovedAt(E, p)
  BY <1>7 DEF RemovedAt
<1>11. \A p : \A a : a \in LiveAt(E, p) <=>
                 \/ a \in LiveAt(D, p) /\ [place |-> p, tag |-> a.tag] \notin R
                 \/ a \in M /\ a.place = p
  BY <1>8, <1>9, <1>10 DEF LiveAt
<1>12. \A p : \A v : (\E a \in M : a.place = p /\ a.val = v) <=> <<p, v>> \in W
  <2> TAKE p
  <2> TAKE v
  <2>1. ASSUME NEW a \in M, a.place = p, a.val = v PROVE <<p, v>> \in W
    BY <1>1, <2>1
  <2>2. ASSUME <<p, v>> \in W PROVE \E a \in M : a.place = p /\ a.val = v
    <3>1. \E a \in M : a.place = <<p, v>>[1] /\ a.val = <<p, v>>[2]
      BY <1>1, <2>2
    <3> QED BY <3>1
  <2> QED BY <2>1, <2>2
<1>13. \A p : \A v : v \in Values(E, p) <=>
                 \/ \E a \in LiveAt(D, p) : a.val = v /\ [place |-> p, tag |-> a.tag] \notin R
                 \/ <<p, v>> \in W
  <2> TAKE p
  <2> TAKE v
  <2>1. v \in Values(E, p) <=> \E a \in LiveAt(E, p) : a.val = v
    BY DEF Values
  <2>2. ASSUME NEW a \in LiveAt(E, p), a.val = v
        PROVE  \/ \E b \in LiveAt(D, p) : b.val = v /\ [place |-> p, tag |-> b.tag] \notin R
               \/ <<p, v>> \in W
    <3>1. CASE a \in LiveAt(D, p) /\ [place |-> p, tag |-> a.tag] \notin R
      BY <2>2, <3>1
    <3>2. CASE a \in M /\ a.place = p
      BY <1>12, <2>2, <3>2
    <3> QED BY <1>11, <3>1, <3>2
  <2>3. ASSUME NEW b \in LiveAt(D, p), b.val = v, [place |-> p, tag |-> b.tag] \notin R
        PROVE  \E a \in LiveAt(E, p) : a.val = v
    BY <1>11, <2>3
  <2>4. ASSUME <<p, v>> \in W PROVE \E a \in LiveAt(E, p) : a.val = v
    <3>1. PICK a \in M : a.place = p /\ a.val = v
      BY <1>12, <2>4
    <3>2. a \in LiveAt(E, p)
      BY <1>11, <3>1
    <3> QED BY <3>1, <3>2
  <2> QED BY <2>1, <2>2, <2>3, <2>4
<1> QED BY <1>6, <1>11, <1>13 DEF E, M, delta

(* No tag of D has a counter above n.                                        *)
Passed(D, n) == \A t \in TagsOf(D) : t.n <= n

(* What an edit adds to a document.                                          *)
LEMMA AddsAfterEdit ==
    ASSUME NEW D \in Doc, NEW i \in Id, NEW n \in Nat, Passed(D, n),
           NEW W \in SUBSET Write, NEW R \in SUBSET Rem, HoldsTags(D, R)
    PROVE  /\ Join(D, Delta(D, i, n, W, R)) \in Doc
           /\ Join(D, Delta(D, i, n, W, R)).adds = D.adds \union Minted(W, i, n)
BY AfterEdit DEF Passed

(* Presence marks differ from each other, and from registers and sets.       *)
LEMMA PlacesDiffer ==
    /\ \A o, q : Presence(o) = Presence(q) => o = q
    /\ \A o : Presence(o)[1] = o /\ Presence(o) \notin Reg /\ Presence(o) \notin Bag
    /\ \A p \in Reg : p \notin Bag /\ p[1] \in Obj
    /\ \A p \in Bag : p \notin Reg /\ p[1] \in Obj
BY PlaceAssumption DEF Presence

(* Retiring values at a place retires there, and nowhere else.               *)
LEMMA RetireAtItsPlace ==
    ASSUME NEW D, NEW q, NEW vs, NEW p, NEW t
    PROVE  [place |-> p, tag |-> t] \in Retire(D, q, vs)
              <=> p = q /\ \E a \in AddsAt(D, q) : a.val \in vs /\ a.tag = t
BY DEF Retire

(* Removing an object retires its presence mark, and nowhere else.           *)
LEMMA RemovalAtItsPlace ==
    ASSUME NEW D \in Doc, NEW o, NEW p, NEW t
    PROVE  [place |-> p, tag |-> t] \in Removal(D, o)
              <=> /\ p = Presence(o)
                  /\ (\E a \in AddsAt(D, p) : a.tag = t) \/ t \in LiveTagsBeneath(D, o)
<1>1. \A a \in AddsAt(D, Presence(o)) : a.val \in Value
  BY DEF AddsAt, Doc, Add
<1>2. [place |-> p, tag |-> t] \in Retire(D, Presence(o), Value)
         <=> p = Presence(o) /\ \E a \in AddsAt(D, Presence(o)) : a.tag = t
  BY <1>1, RetireAtItsPlace
<1>3. [place |-> p, tag |-> t] \in {[place |-> Presence(o), tag |-> x] : x \in LiveTagsBeneath(D, o)}
         <=> p = Presence(o) /\ t \in LiveTagsBeneath(D, o)
  OBVIOUS
<1> QED BY <1>2, <1>3 DEF Removal

(* What an observation writes at each kind of place.                         *)
LEMMA WritesAtPlaces ==
    ASSUME NEW D \in Doc, NEW s \in State
    PROVE  /\ \A o, v : <<Presence(o), v>> \in Writes(D, s)
                           <=> o \in s.live /\ ~Alive(D, o) /\ v = Null
           /\ \A p \in Reg : \A v : <<p, v>> \in Writes(D, s)
                           <=> Changed(D, s, p) /\ v = s.reg[p] /\ v # Absent
           /\ \A p \in Bag : \A v : <<p, v>> \in Writes(D, s)
                           <=> p[1] \in s.live /\ v \in s.bag[p] \ Values(D, p)
<1> DEFINE W1 == {<<Presence(o), Null>> : o \in {q \in s.live : ~Alive(D, q)}}
           W2 == {<<p, s.reg[p]>> : p \in {q \in Reg : Changed(D, s, q) /\ s.reg[q] # Absent}}
           W3 == {w \in Bag \X Value : w[1][1] \in s.live /\ w[2] \in s.bag[w[1]] \ Values(D, w[1])}
<1>1. Writes(D, s) = W1 \union W2 \union W3
  BY DEF Writes
<1>2. \A p, v : <<p, v>> \in W1 <=> \E o \in s.live : p = Presence(o) /\ ~Alive(D, o) /\ v = Null
  OBVIOUS
<1>3. \A p, v : <<p, v>> \in W2 <=> p \in Reg /\ Changed(D, s, p) /\ v = s.reg[p] /\ v # Absent
  OBVIOUS
<1>4. \A p, v : <<p, v>> \in W3 <=> p \in Bag /\ p[1] \in s.live /\ v \in s.bag[p] \ Values(D, p)
  <2> TAKE p, v
  <2>1. p \in Bag /\ v \in s.bag[p] => v \in Value
    BY DEF State
  <2>2. <<p, v>> \in W3 <=> /\ <<p, v>> \in Bag \X Value
                           /\ <<p, v>>[1][1] \in s.live
                           /\ <<p, v>>[2] \in s.bag[<<p, v>>[1]] \ Values(D, <<p, v>>[1])
    BY Zenon
  <2> QED BY <2>1, <2>2
<1> HIDE DEF W1, W2, W3
<1>5. \A p, v : <<p, v>> \in Writes(D, s) <=>
          \/ \E o \in s.live : p = Presence(o) /\ ~Alive(D, o) /\ v = Null
          \/ p \in Reg /\ Changed(D, s, p) /\ v = s.reg[p] /\ v # Absent
          \/ p \in Bag /\ p[1] \in s.live /\ v \in s.bag[p] \ Values(D, p)
  BY <1>1, <1>2, <1>3, <1>4
<1>6. \A o, v : <<Presence(o), v>> \in Writes(D, s)
                           <=> o \in s.live /\ ~Alive(D, o) /\ v = Null
  <2> TAKE o, v
  <2>1. Presence(o) \notin Reg /\ Presence(o) \notin Bag
    BY PlacesDiffer
  <2>2. ASSUME NEW q \in s.live, Presence(o) = Presence(q), ~Alive(D, q)
        PROVE  o \in s.live /\ ~Alive(D, o)
    BY <2>2, PlacesDiffer
  <2> QED BY <1>5, <2>1, <2>2, Zenon
<1>7. ASSUME NEW p \in Reg, NEW v
      PROVE  <<p, v>> \in Writes(D, s) <=> Changed(D, s, p) /\ v = s.reg[p] /\ v # Absent
  <2>1. p \notin Bag /\ \A o : p # Presence(o)
    BY PlacesDiffer
  <2> QED BY <1>5, <2>1, Zenon
<1>8. ASSUME NEW p \in Bag, NEW v
      PROVE  <<p, v>> \in Writes(D, s) <=> p[1] \in s.live /\ v \in s.bag[p] \ Values(D, p)
  <2>1. p \notin Reg /\ \A o : p # Presence(o)
    BY PlacesDiffer
  <2> QED BY <1>5, <2>1, Zenon
<1> QED BY <1>6, <1>7, <1>8

(* What an observation retires at each kind of place.                        *)
LEMMA RetirementsAtPlaces ==
    ASSUME NEW D \in Doc, NEW s \in State
    PROVE  /\ \A o, t : [place |-> Presence(o), tag |-> t] \in Retirements(D, s)
                <=> /\ o \in Gone(D, s)
                    /\ \/ \E a \in AddsAt(D, Presence(o)) : a.tag = t
                       \/ t \in LiveTagsBeneath(D, o)
           /\ \A p \in Reg : \A t : [place |-> p, tag |-> t] \in Retirements(D, s)
                <=> Changed(D, s, p) /\ \E a \in AddsAt(D, p) : a.tag = t
           /\ \A p \in Bag : \A t : [place |-> p, tag |-> t] \in Retirements(D, s)
                <=> /\ p[1] \in s.live
                    /\ \E a \in AddsAt(D, p) : a.val \in Values(D, p) \ s.bag[p] /\ a.tag = t
<1> DEFINE R1 == UNION {Retire(D, p, Value) : p \in {q \in Reg : Changed(D, s, q)}}
           R2 == UNION {Retire(D, p, Values(D, p) \ s.bag[p]) : p \in {q \in Bag : q[1] \in s.live}}
           R3 == UNION {Removal(D, o) : o \in Gone(D, s)}
<1>1. Retirements(D, s) = R1 \union R2 \union R3
  BY DEF Retirements
<1>0. \A p : \A a \in AddsAt(D, p) : a.val \in Value
  BY DEF AddsAt, Doc, Add
<1>2. \A p, t : [place |-> p, tag |-> t] \in R1
                <=> p \in Reg /\ Changed(D, s, p) /\ \E a \in AddsAt(D, p) : a.tag = t
  <2> TAKE p, t
  <2>1. [place |-> p, tag |-> t] \in R1
           <=> \E q \in Reg : Changed(D, s, q) /\ [place |-> p, tag |-> t] \in Retire(D, q, Value)
    OBVIOUS
  <2> HIDE DEF R1
  <2> QED BY <1>0, <2>1, RetireAtItsPlace
<1>3. \A p, t : [place |-> p, tag |-> t] \in R2
                <=> /\ p \in Bag /\ p[1] \in s.live
                    /\ \E a \in AddsAt(D, p) : a.val \in Values(D, p) \ s.bag[p] /\ a.tag = t
  <2> TAKE p, t
  <2>1. [place |-> p, tag |-> t] \in R2
           <=> \E q \in Bag : q[1] \in s.live
                  /\ [place |-> p, tag |-> t] \in Retire(D, q, Values(D, q) \ s.bag[q])
    OBVIOUS
  <2>2. \A q : [place |-> p, tag |-> t] \in Retire(D, q, Values(D, q) \ s.bag[q])
           <=> p = q /\ \E a \in AddsAt(D, q) : a.val \in Values(D, q) \ s.bag[q] /\ a.tag = t
    BY RetireAtItsPlace
  <2> HIDE DEF R2
  <2>3. ASSUME NEW q \in Bag, q[1] \in s.live,
               [place |-> p, tag |-> t] \in Retire(D, q, Values(D, q) \ s.bag[q])
        PROVE  /\ p \in Bag /\ p[1] \in s.live
               /\ \E a \in AddsAt(D, p) : a.val \in Values(D, p) \ s.bag[p] /\ a.tag = t
    <3>1. p = q
      BY <2>2, <2>3
    <3> QED BY <2>2, <2>3, <3>1
  <2>4. ASSUME p \in Bag, p[1] \in s.live,
               \E a \in AddsAt(D, p) : a.val \in Values(D, p) \ s.bag[p] /\ a.tag = t
        PROVE  [place |-> p, tag |-> t] \in Retire(D, p, Values(D, p) \ s.bag[p])
    BY <2>2, <2>4
  <2> QED BY <2>1, <2>3, <2>4
<1>4. \A p, t : [place |-> p, tag |-> t] \in R3
                <=> \E o \in Gone(D, s) :
                       /\ p = Presence(o)
                       /\ (\E a \in AddsAt(D, p) : a.tag = t) \/ t \in LiveTagsBeneath(D, o)
  <2> TAKE p, t
  <2>1. [place |-> p, tag |-> t] \in R3
           <=> \E o \in Gone(D, s) : [place |-> p, tag |-> t] \in Removal(D, o)
    OBVIOUS
  <2>2. \A o : [place |-> p, tag |-> t] \in Removal(D, o)
           <=> /\ p = Presence(o)
               /\ (\E a \in AddsAt(D, p) : a.tag = t) \/ t \in LiveTagsBeneath(D, o)
    BY RemovalAtItsPlace
  <2> HIDE DEF R3
  <2> QED BY <2>1, <2>2, Zenon
<1> HIDE DEF R1, R2, R3
<1>5. \A p, t : [place |-> p, tag |-> t] \in Retirements(D, s) <=>
          \/ [place |-> p, tag |-> t] \in R1
          \/ [place |-> p, tag |-> t] \in R2
          \/ [place |-> p, tag |-> t] \in R3
  BY <1>1
<1>6. ASSUME NEW o, NEW t
      PROVE  [place |-> Presence(o), tag |-> t] \in Retirements(D, s)
                <=> /\ o \in Gone(D, s)
                    /\ \/ \E a \in AddsAt(D, Presence(o)) : a.tag = t
                       \/ t \in LiveTagsBeneath(D, o)
  <2>1. Presence(o) \notin Reg /\ Presence(o) \notin Bag
    BY PlacesDiffer
  <2>2. [place |-> Presence(o), tag |-> t] \notin R1 \union R2
    BY <1>2, <1>3, <2>1, Zenon
  <2>3. [place |-> Presence(o), tag |-> t] \in R3
                <=> /\ o \in Gone(D, s)
                    /\ \/ \E a \in AddsAt(D, Presence(o)) : a.tag = t
                       \/ t \in LiveTagsBeneath(D, o)
    <3>1. ASSUME NEW q \in Gone(D, s), Presence(o) = Presence(q)
          PROVE  o = q
      BY <3>1, PlacesDiffer
    <3> QED BY <1>4, <3>1
  <2> QED BY <1>5, <2>2, <2>3, Zenon
<1>7. ASSUME NEW p \in Reg, NEW t
      PROVE  [place |-> p, tag |-> t] \in Retirements(D, s)
                <=> Changed(D, s, p) /\ \E a \in AddsAt(D, p) : a.tag = t
  <2>1. p \notin Bag /\ \A o : p # Presence(o)
    BY PlacesDiffer
  <2>2. [place |-> p, tag |-> t] \notin R2
    BY <1>3, <2>1
  <2>3. [place |-> p, tag |-> t] \notin R3
    BY <1>4, <2>1
  <2> QED BY <1>2, <1>5, <2>2, <2>3, Zenon
<1>8. ASSUME NEW p \in Bag, NEW t
      PROVE  [place |-> p, tag |-> t] \in Retirements(D, s)
                <=> /\ p[1] \in s.live
                    /\ \E a \in AddsAt(D, p) : a.val \in Values(D, p) \ s.bag[p] /\ a.tag = t
  <2>1. p \notin Reg /\ \A o : p # Presence(o)
    BY PlacesDiffer
  <2>2. [place |-> p, tag |-> t] \notin R1 \union R3
    BY <1>2, <1>4, <2>1, Zenon
  <2> QED BY <1>3, <1>5, <2>2, Zenon
<1> QED BY <1>6, <1>7, <1>8

(* Where nothing is written and nothing retired, what is live stays.         *)
LEMMA UntouchedStays ==
    ASSUME NEW D \in Doc, NEW i \in Id, NEW n \in Nat,
           \A t \in TagsOf(D) : t.n <= n,
           NEW W \in SUBSET Write, NEW R \in SUBSET Rem, HoldsTags(D, R), NEW p,
           \A v : <<p, v>> \notin W,
           \A a \in LiveAt(D, p) : [place |-> p, tag |-> a.tag] \notin R
    PROVE  LiveAt(Join(D, Delta(D, i, n, W, R)), p) = LiveAt(D, p)
<1>1. ASSUME NEW a \in Minted(W, i, n), a.place = p PROVE FALSE
  <2>1. <<a.place, a.val>> \in W
    BY MintedFacts
  <2> QED BY <1>1, <2>1
<1>2. \A a : a \in LiveAt(Join(D, Delta(D, i, n, W, R)), p) <=>
                 \/ a \in LiveAt(D, p) /\ [place |-> p, tag |-> a.tag] \notin R
                 \/ a \in Minted(W, i, n) /\ a.place = p
  BY AfterEdit
<1>3. \A a : a \in LiveAt(Join(D, Delta(D, i, n, W, R)), p) <=> a \in LiveAt(D, p)
  BY <1>1, <1>2, Zenon
<1> QED BY <1>3

(* The document after an observation of s, place by place.                   *)
LEMMA AfterObservation ==
    ASSUME NEW D, Sound(D), NEW i \in Id, NEW n \in Nat,
           \A t \in TagsOf(D) : t.n <= n, NEW s \in State
    PROVE  LET E == Join(D, ObserveDelta(D, i, n, s)) IN
           /\ E \in Doc /\ IsFiniteSet(E.adds)
           /\ \A o \in Obj : Alive(E, o) <=> o \in s.live \/ (Alive(D, o) /\ o \notin Gone(D, s))
           /\ \A p \in Reg : Changed(D, s, p) => Values(E, p) = {s.reg[p]} \ {Absent}
           /\ \A p \in Reg : ~Changed(D, s, p) => LiveAt(E, p) = LiveAt(D, p)
           /\ \A p \in Bag : p[1] \in s.live => Values(E, p) = s.bag[p]
           /\ \A p \in Bag : p[1] \notin s.live => LiveAt(E, p) = LiveAt(D, p)
           /\ \A o \in Obj : o \notin s.live /\ o \notin Gone(D, s)
                 => LiveAt(E, Presence(o)) = LiveAt(D, Presence(o))
           /\ \A o \in Obj : o \notin Gone(D, s)
                 => RemovedAt(E, Presence(o)) = RemovedAt(D, Presence(o))
<1> DEFINE W == Writes(D, s)
           R == Retirements(D, s)
           E == Join(D, Delta(D, i, n, W, R))
<1>0. D \in Doc /\ IsFiniteSet(D.adds) /\ OneAddPerTag(D)
  BY DEF Sound
<1>1. W \in SUBSET Write /\ R \in SUBSET Rem /\ HoldsTags(D, R)
  BY <1>0, ObservationFacts DEF HoldsTags
<1>2. /\ \A o, v : <<Presence(o), v>> \in W <=> o \in s.live /\ ~Alive(D, o) /\ v = Null
      /\ \A p \in Reg : \A v : <<p, v>> \in W <=> Changed(D, s, p) /\ v = s.reg[p] /\ v # Absent
      /\ \A p \in Bag : \A v : <<p, v>> \in W <=> p[1] \in s.live /\ v \in s.bag[p] \ Values(D, p)
  BY <1>0, WritesAtPlaces
<1>3. /\ \A o, t : [place |-> Presence(o), tag |-> t] \in R
                <=> /\ o \in Gone(D, s)
                    /\ \/ \E a \in AddsAt(D, Presence(o)) : a.tag = t
                       \/ t \in LiveTagsBeneath(D, o)
      /\ \A p \in Reg : \A t : [place |-> p, tag |-> t] \in R
                <=> Changed(D, s, p) /\ \E a \in AddsAt(D, p) : a.tag = t
      /\ \A p \in Bag : \A t : [place |-> p, tag |-> t] \in R
                <=> /\ p[1] \in s.live
                    /\ \E a \in AddsAt(D, p) : a.val \in Values(D, p) \ s.bag[p] /\ a.tag = t
  BY <1>0, RetirementsAtPlaces
<1> HIDE DEF W, R
<1>4. /\ E \in Doc
      /\ E.adds = D.adds \union Minted(W, i, n)
      /\ \A p : \A v : v \in Values(E, p) <=>
                 \/ \E a \in LiveAt(D, p) : a.val = v /\ [place |-> p, tag |-> a.tag] \notin R
                 \/ <<p, v>> \in W
  <2>1. E \in Doc
    BY <1>0, <1>1, AfterEdit
  <2>3. E.adds = D.adds \union Minted(W, i, n)
    BY <1>0, <1>1, AfterEdit
  <2>2. \A p : \A v : v \in Values(E, p) <=>
                 \/ \E a \in LiveAt(D, p) : a.val = v /\ [place |-> p, tag |-> a.tag] \notin R
                 \/ <<p, v>> \in W
    BY <1>0, <1>1, AfterEdit
  <2> QED BY <2>1, <2>2, <2>3
<1>5. \A p : (/\ \A v : <<p, v>> \notin W
              /\ \A a \in LiveAt(D, p) : [place |-> p, tag |-> a.tag] \notin R)
                 => LiveAt(E, p) = LiveAt(D, p)
  BY <1>0, <1>1, UntouchedStays
<1> HIDE DEF E
<1>6. IsFiniteSet(E.adds)
  <2>1. IsFiniteSet(Minted(W, i, n))
    BY <1>1, MintedFacts
  <2> QED BY <1>0, <1>4, <2>1, FS_Union
<1>7. \A p : LiveAt(D, p) \subseteq AddsAt(D, p)
  BY DEF LiveAt
<1>8. ASSUME NEW o \in Obj
      PROVE  Alive(E, o) <=> o \in s.live \/ (Alive(D, o) /\ o \notin Gone(D, s))
  <2> DEFINE p == Presence(o)
  <2>1. o \in Gone(D, s) => o \notin s.live
    BY DEF Gone
  <2>2. ASSUME NEW v \in Values(E, p) PROVE o \in s.live \/ (Alive(D, o) /\ o \notin Gone(D, s))
    <3>1. CASE <<p, v>> \in W
      BY <1>2, <3>1
    <3>2. CASE \E a \in LiveAt(D, p) : a.val = v /\ [place |-> p, tag |-> a.tag] \notin R
      BY <1>3, <1>7, <3>2 DEF Alive, Values
    <3> QED BY <1>4, <3>1, <3>2
  <2>3. ASSUME o \in s.live, ~Alive(D, o) PROVE Null \in Values(E, p)
    BY <1>2, <1>4, <2>3
  <2>4. ASSUME Alive(D, o), o \notin Gone(D, s) PROVE Values(E, p) # {}
    <3>1. PICK a \in LiveAt(D, p) : TRUE
      BY <2>4 DEF Alive, Values
    <3>2. [place |-> p, tag |-> a.tag] \notin R
      BY <1>3, <2>4
    <3> QED BY <1>4, <3>1, <3>2
  <2> HIDE DEF p
  <2> QED BY <2>1, <2>2, <2>3, <2>4 DEF Alive, p
<1>9. ASSUME NEW p \in Reg, Changed(D, s, p) PROVE Values(E, p) = {s.reg[p]} \ {Absent}
  <2>1. \A a \in LiveAt(D, p) : [place |-> p, tag |-> a.tag] \in R
    BY <1>3, <1>7, <1>9
  <2>2. \A v : v \in Values(E, p) <=> v = s.reg[p] /\ v # Absent
    BY <1>2, <1>4, <1>9, <2>1
  <2> QED BY <2>2
<1>10. ASSUME NEW p \in Reg, ~Changed(D, s, p) PROVE LiveAt(E, p) = LiveAt(D, p)
  <2>1. \A v : <<p, v>> \notin W
    BY <1>2, <1>10
  <2>2. \A a \in LiveAt(D, p) : [place |-> p, tag |-> a.tag] \notin R
    BY <1>3, <1>10
  <2> QED BY <1>5, <2>1, <2>2
<1>11. ASSUME NEW p \in Bag, p[1] \in s.live PROVE Values(E, p) = s.bag[p]
  <2>1. \A a \in LiveAt(D, p) : [place |-> p, tag |-> a.tag] \in R <=> a.val \notin s.bag[p]
    <3> TAKE a \in LiveAt(D, p)
    <3>1. a.val \in Values(D, p) /\ a \in AddsAt(D, p)
      BY <1>7 DEF Values
    <3>2. \A b \in AddsAt(D, p) : b.tag = a.tag => b = a
      BY <1>0, <3>1 DEF AddsAt, OneAddPerTag
    <3> QED BY <1>3, <1>11, <3>1, <3>2
  <2>2. \A v : v \in Values(E, p) <=> \/ \E a \in LiveAt(D, p) : a.val = v /\ v \in s.bag[p]
                                    \/ v \in s.bag[p] \ Values(D, p)
    <3> TAKE v
    <3>1. <<p, v>> \in W <=> v \in s.bag[p] \ Values(D, p)
      BY <1>2, <1>11
    <3> QED BY <1>4, <2>1, <3>1
  <2>3. \A v : v \in Values(E, p) <=> v \in s.bag[p]
    BY <2>2 DEF Values
  <2> QED BY <2>3
<1>12. ASSUME NEW p \in Bag, p[1] \notin s.live PROVE LiveAt(E, p) = LiveAt(D, p)
  <2>1. \A v : <<p, v>> \notin W
    BY <1>2, <1>12
  <2>2. \A a \in LiveAt(D, p) : [place |-> p, tag |-> a.tag] \notin R
    BY <1>3, <1>12
  <2> QED BY <1>5, <2>1, <2>2
<1>13. ASSUME NEW o \in Obj, o \notin s.live, o \notin Gone(D, s)
       PROVE  LiveAt(E, Presence(o)) = LiveAt(D, Presence(o))
  <2>1. \A v : <<Presence(o), v>> \notin W
    BY <1>2, <1>13
  <2>2. \A a \in LiveAt(D, Presence(o)) : [place |-> Presence(o), tag |-> a.tag] \notin R
    BY <1>3, <1>13
  <2> QED BY <1>5, <2>1, <2>2
<1>14. ASSUME NEW o \in Obj, o \notin Gone(D, s)
       PROVE  RemovedAt(E, Presence(o)) = RemovedAt(D, Presence(o))
  <2>1. E.rems = D.rems \union R
    BY DEF E, Join, Delta
  <2>2. \A r \in R : r.place # Presence(o)
    <3> SUFFICES ASSUME NEW r \in R, r.place = Presence(o) PROVE FALSE
      OBVIOUS
    <3>1. r = [place |-> Presence(o), tag |-> r.tag]
      BY <1>1 DEF Rem
    <3> QED BY <1>3, <1>14, <3>1
  <2> QED BY <2>1, <2>2 DEF RemovedAt
<1> HIDE DEF Alive, Changed, LiveAt, RemovedAt
<1> QED BY <1>4, <1>6, <1>8, <1>9, <1>10, <1>11, <1>12, <1>13, <1>14 DEF E, W, R, ObserveDelta

(* An edit as the editor makes it: it retires tags the document knows; a     *)
(* register it writes, it writes once and over everything there; a fixed     *)
(* register it retires it writes, and one whose presence it writes has been  *)
(* written; only presence that was written is retired.                       *)
Proper(D, W, R) ==
    /\ W \in SUBSET Write /\ R \in SUBSET Rem /\ HoldsTags(D, R)
    /\ \A p \in Reg : \A v : <<p, v>> \in W =>
          /\ Retire(D, p, Value) \subseteq R
          /\ \A w : <<p, w>> \in W => w = v
    /\ \A r \in R : r.place \in Fixed => \E v : <<r.place, v>> \in W
    /\ \A p \in Fixed : (\E v : <<Presence(p[1]), v>> \in W)
          => AddsAt(D, p) # {} \/ \E v : <<p, v>> \in W
    /\ \A r \in R : \A o : r.place = Presence(o) => AddsAt(D, r.place) # {}

(* A proper edit leaves a sound document sound.                              *)
LEMMA EditKeepsSound ==
    ASSUME NEW D, Sound(D), NEW i \in Id, NEW n \in Nat,
           \A t \in TagsOf(D) : t.n <= n,
           NEW W, NEW R, Proper(D, W, R)
    PROVE  Sound(Join(D, Delta(D, i, n, W, R)))
<1> DEFINE M == Minted(W, i, n)
           E == Join(D, Delta(D, i, n, W, R))
<1>0. /\ D \in Doc /\ IsFiniteSet(D.adds) /\ OneAddPerTag(D)
      /\ FixedAreWritten(D) /\ FixedAreReplaced(D)
      /\ W \in SUBSET Write /\ R \in SUBSET Rem /\ HoldsTags(D, R)
  BY DEF Sound, Proper
<1>1. Passed(D, n)
  BY DEF Passed
<1>2. E \in Doc /\ E.adds = D.adds \union M
  BY <1>0, <1>1, AddsAfterEdit
<1>3. E.rems = D.rems \union R
  BY DEF Join, Delta
<1>4. M \in SUBSET Add /\ IsFiniteSet(M)
  BY <1>0, MintedFacts
<1>5. \A a \in M : a.tag.n \in Nat /\ a.tag.n > n
  BY <1>0, MintedFacts
<1>6. \A w \in W : \E a \in M : a.place = w[1] /\ a.val = w[2]
  BY <1>0, MintedFacts
<1>7. \A a \in M : <<a.place, a.val>> \in W
  BY <1>0, MintedFacts
<1>8. \A a, b \in M : a.tag = b.tag => a = b
  BY <1>0, MintedFacts
<1> HIDE DEF M, E
<1>9. \A t \in TagsOf(D) : t.n \in Nat /\ t.n <= n
  BY <1>0, TagFacts DEF Tag
<1>10. IsFiniteSet(E.adds)
  BY <1>0, <1>2, <1>4, FS_Union
<1>11. OneAddPerTag(E)
  <2>1. \A a \in D.adds, b \in M : a.tag # b.tag
    <3> SUFFICES ASSUME NEW a \in D.adds, NEW b \in M, a.tag = b.tag PROVE FALSE
      OBVIOUS
    <3>1. b.tag.n \in Nat /\ b.tag.n > n /\ b.tag.n <= n
      BY <1>0, <1>5, <1>9, TagFacts
    <3> QED BY <3>1
  <2> QED BY <1>0, <1>2, <1>8, <2>1 DEF OneAddPerTag
<1>12. \A p, v : <<p, v>> \in W => \E a \in AddsAt(E, p) : a \in M
  <2> TAKE p, v
  <2> HAVE <<p, v>> \in W
  <2>1. \E a \in M : a.place = <<p, v>>[1]
    BY <1>6
  <2> QED BY <1>2, <2>1 DEF AddsAt
<1>13. \A p : AddsAt(D, p) \subseteq AddsAt(E, p)
  BY <1>2 DEF AddsAt
<1>14. FixedAreWritten(E)
  <2> SUFFICES ASSUME NEW p \in Fixed, NEW a \in AddsAt(E, Presence(p[1]))
               PROVE  AddsAt(E, p) # {}
    BY DEF FixedAreWritten
  <2>1. CASE a \in D.adds
    <3>1. a \in AddsAt(D, Presence(p[1]))
      BY <2>1 DEF AddsAt
    <3> QED BY <1>0, <1>13, <3>1 DEF FixedAreWritten
  <2>2. CASE a \in M
    <3>1. <<Presence(p[1]), a.val>> \in W
      BY <1>7, <2>2 DEF AddsAt
    <3>2. AddsAt(D, p) # {} \/ \E v : <<p, v>> \in W
      BY <3>1 DEF Proper
    <3> QED BY <1>12, <1>13, <3>2
  <2> QED BY <1>2, <2>1, <2>2 DEF AddsAt
<1>15. FixedAreReplaced(E)
  <2> SUFFICES ASSUME NEW r \in E.rems, r.place \in Fixed
               PROVE  \E a \in AddsAt(E, r.place) : a.tag.n > r.tag.n
    BY DEF FixedAreReplaced
  <2>1. CASE r \in D.rems
    BY <1>0, <1>13, <2>1 DEF FixedAreReplaced
  <2>2. CASE r \in R
    <3>1. PICK v : <<r.place, v>> \in W
      BY <2>2 DEF Proper
    <3>2. PICK a \in AddsAt(E, r.place) : a \in M
      BY <1>12, <3>1
    <3>3. r.tag \in TagsOf(D)
      BY <1>0, <2>2, TagFacts DEF HoldsTags
    <3>4. r.tag.n \in Nat /\ r.tag.n <= n /\ a.tag.n \in Nat /\ a.tag.n > n
      BY <1>5, <1>9, <3>2, <3>3
    <3>5. a.tag.n > r.tag.n
      BY <3>4
    <3> QED BY <3>5
  <2> QED BY <1>3, <2>1, <2>2
<1> QED BY <1>2, <1>10, <1>11, <1>14, <1>15 DEF Sound, E

(* An observation is a proper edit.                                          *)
LEMMA ObservationIsProper ==
    ASSUME NEW D, Sound(D), NEW s \in State
    PROVE  Proper(D, Writes(D, s), Retirements(D, s))
<1> DEFINE W == Writes(D, s)
           R == Retirements(D, s)
<1>0. D \in Doc /\ IsFiniteSet(D.adds) /\ IsState(s)
  BY DEF Sound, State
<1>1. W \in SUBSET Write /\ R \in SUBSET Rem /\ HoldsTags(D, R)
  BY <1>0, ObservationFacts DEF HoldsTags
<1>2. /\ \A o, v : <<Presence(o), v>> \in W <=> o \in s.live /\ ~Alive(D, o) /\ v = Null
      /\ \A p \in Reg : \A v : <<p, v>> \in W <=> Changed(D, s, p) /\ v = s.reg[p] /\ v # Absent
  BY <1>0, WritesAtPlaces
<1>3. /\ \A o, t : [place |-> Presence(o), tag |-> t] \in R => o \in Gone(D, s)
      /\ \A p \in Reg : \A t : [place |-> p, tag |-> t] \in R
                <=> Changed(D, s, p) /\ \E a \in AddsAt(D, p) : a.tag = t
  BY <1>0, RetirementsAtPlaces
<1> HIDE DEF W, R
<1>4. \A r \in R : r = [place |-> r.place, tag |-> r.tag]
  BY <1>1 DEF Rem
<1>5. ASSUME NEW p \in Reg, NEW v, <<p, v>> \in W
      PROVE  /\ Retire(D, p, Value) \subseteq R
             /\ \A w : <<p, w>> \in W => w = v
  <2>1. Changed(D, s, p)
    BY <1>2, <1>5
  <2>2. \A r \in Retire(D, p, Value) : \E a \in AddsAt(D, p) : r = [place |-> p, tag |-> a.tag]
    BY DEF Retire
  <2> QED BY <1>2, <1>3, <1>5, <2>1, <2>2
<1>6. ASSUME NEW p \in Fixed, p[1] \in s.live
      PROVE  Changed(D, s, p) <=> <<p, s.reg[p]>> \in W
  <2>1. p \in Reg /\ s.reg[p] # Absent
    BY <1>0, <1>6 DEF IsState, Reg
  <2> QED BY <1>2, <2>1
<1>7. \A r \in R : r.place \in Fixed => \E v : <<r.place, v>> \in W
  <2> TAKE r \in R
  <2> HAVE r.place \in Fixed
  <2>1. Changed(D, s, r.place) /\ r.place[1] \in s.live
    BY <1>3, <1>4 DEF Reg, Changed
  <2> QED BY <1>6, <2>1
<1>8. ASSUME NEW p \in Fixed, NEW v, <<Presence(p[1]), v>> \in W
      PROVE  AddsAt(D, p) # {} \/ \E w : <<p, w>> \in W
  <2>1. p[1] \in s.live
    BY <1>2, <1>8
  <2>2. CASE Changed(D, s, p)
    BY <1>6, <2>1, <2>2
  <2>3. CASE ~Changed(D, s, p)
    <3>1. s.reg[p] = Shown(D, p) /\ s.reg[p] # Absent /\ p \in Reg
      BY <1>0, <2>1, <2>3 DEF Changed, IsState, Reg
    <3>2. Values(D, p) # {}
      BY <1>0, <3>1, ReadingFacts
    <3> QED BY <3>2 DEF Values, LiveAt
  <2> QED BY <2>2, <2>3
<1>9. ASSUME NEW r \in R, NEW o, r.place = Presence(o) PROVE AddsAt(D, r.place) # {}
  <2>1. Alive(D, o)
    BY <1>3, <1>4, <1>9 DEF Gone
  <2> QED BY <1>9, <2>1 DEF Alive, Values, LiveAt
<1> QED BY <1>1, <1>5, <1>7, <1>8, <1>9 DEF Proper, W, R

(* After an observation the document shows the state observed.               *)
LEMMA ObservedIsFlattened ==
    ASSUME NEW D, Sound(D), NEW i \in Id, NEW n \in Nat,
           \A t \in TagsOf(D) : t.n <= n, NEW s \in State
    PROVE  Flatten(Join(D, ObserveDelta(D, i, n, s))) = s
<1> DEFINE E == Join(D, ObserveDelta(D, i, n, s))
           f == Flatten(E)
<1>0. D \in Doc /\ IsFiniteSet(D.adds) /\ IsState(s)
  BY DEF Sound, State
<1>1. E \in Doc /\ IsFiniteSet(E.adds)
  BY AfterObservation
<1>2. \A o \in Obj : Alive(E, o) <=> o \in s.live \/ (Alive(D, o) /\ o \notin Gone(D, s))
  BY AfterObservation
<1>3. \A p \in Reg : Changed(D, s, p) => Values(E, p) = {s.reg[p]} \ {Absent}
  BY AfterObservation
<1>4. \A p \in Reg : ~Changed(D, s, p) => LiveAt(E, p) = LiveAt(D, p)
  BY AfterObservation
<1>5. \A p \in Bag : p[1] \in s.live => Values(E, p) = s.bag[p]
  BY AfterObservation
<1>6. Sound(E)
  BY ObservationIsProper, EditKeepsSound DEF ObserveDelta
<1> HIDE DEF E
<1>7. /\ \A o : o \in f.live <=> o \in Obj /\ Alive(E, o) /\ Outermost(E, o)
      /\ \A p \in Reg : f.reg[p] = IF p[1] \in f.live THEN Shown(E, p) ELSE Absent
      /\ \A p \in Bag : f.bag[p] = IF p[1] \in f.live THEN Values(E, p) ELSE {}
      /\ f \in State
  BY <1>6, FlattenFacts
<1> HIDE DEF f
<1>8. \A o : o \in f.live <=> o \in s.live
  <2>0. s.live \subseteq Obj /\ \A o \in s.live : Parent[o] \in s.live \union {Root}
    BY <1>0 DEF IsState, State
  <2>1. ASSUME NEW o \in s.live PROVE o \in f.live
    <3>1. Alive(E, o) /\ (Parent[o] # Root => Alive(E, Parent[o]))
      BY <1>2, <2>0
    <3> QED BY <1>7, <2>0, <3>1 DEF Outermost
  <2>2. ASSUME NEW o \in f.live, o \notin s.live PROVE FALSE
    <3>1. o \in Obj /\ Alive(D, o) /\ o \notin Gone(D, s) /\ Outermost(E, o)
      BY <1>2, <1>7, <2>2
    <3>2. Parent[o] \notin s.live \union {Root}
      BY <2>2, <3>1 DEF Gone
    <3>3. Parent[o] \in Obj /\ Parent[Parent[o]] = Root
      BY <3>1, <3>2, ParentAssumption
    <3>4. ~Alive(E, Parent[o])
      BY <1>2, <3>2, <3>3 DEF Gone
    <3> QED BY <3>1, <3>2, <3>4 DEF Outermost
  <2> QED BY <2>1, <2>2
<1>9. \A p \in Reg : f.reg[p] = s.reg[p]
  <2> TAKE p \in Reg
  <2>1. CASE p[1] \notin s.live
    BY <1>0, <1>7, <1>8, <2>1 DEF IsState
  <2>2. CASE p[1] \in s.live /\ Changed(D, s, p)
    <3>1. Values(E, p) = {s.reg[p]} \ {Absent}
      BY <1>3, <2>2
    <3>2. CASE s.reg[p] = Absent
      BY <1>1, <1>7, <1>8, <2>2, <3>1, <3>2, ReadingFacts
    <3>3. CASE s.reg[p] # Absent
      <4>1. Values(E, p) = {s.reg[p]}
        BY <3>1, <3>3
      <4>2. Shown(E, p) = s.reg[p]
        BY <1>1, <4>1, ReadingFacts
      <4> QED BY <1>7, <1>8, <2>2, <4>2
    <3> QED BY <3>2, <3>3
  <2>3. CASE p[1] \in s.live /\ ~Changed(D, s, p)
    <3>1. LiveAt(E, p) = LiveAt(D, p)
      BY <1>4, <2>3
    <3>2. Shown(E, p) = Shown(D, p)
      BY <3>1 DEF Shown, Reading, Values, LatestValue
    <3> QED BY <1>7, <1>8, <2>3, <3>2 DEF Changed
  <2> QED BY <2>1, <2>2, <2>3
<1>10. \A p \in Bag : f.bag[p] = s.bag[p]
  BY <1>0, <1>5, <1>7, <1>8 DEF IsState
<1>11. f.live = s.live
  BY <1>8
<1>12. f.reg = s.reg /\ f.bag = s.bag
  BY <1>7, <1>9, <1>10 DEF State
<1> QED BY <1>7, <1>11, <1>12 DEF State, f, E

(* Rule 1 of replica.hpp: an observation that shows nothing new about a      *)
(* conflict -- the value shown, or the thing still gone from surroundings    *)
(* still there -- leaves it standing.                                        *)
LEMMA ConflictsStand ==
    ASSUME NEW D, Sound(D), NEW i \in Id, NEW n \in Nat,
           \A t \in TagsOf(D) : t.n <= n, NEW s \in State
    PROVE  LET E == Join(D, ObserveDelta(D, i, n, s)) IN
           /\ \A c \in ValueConflicts(D) :
                 s.reg[c.place] = Shown(D, c.place) => c \in ValueConflicts(E)
           /\ \A c \in DeletedWhileEdited(D) :
                 (c.obj \notin s.live /\ Parent[c.obj] \in s.live \union {Root})
                     => c \in DeletedWhileEdited(E)
<1> DEFINE E == Join(D, ObserveDelta(D, i, n, s))
<1>0. D \in Doc /\ IsFiniteSet(D.adds) /\ IsState(s) /\ s.live \subseteq Obj
  BY DEF Sound, State
<1>1. E \in Doc
  BY AfterObservation
<1>2. \A o \in Obj : Alive(E, o) <=> o \in s.live \/ (Alive(D, o) /\ o \notin Gone(D, s))
  BY AfterObservation
<1>3. \A p \in Reg : ~Changed(D, s, p) => LiveAt(E, p) = LiveAt(D, p)
  BY AfterObservation
<1>4. \A p \in Bag : p[1] \notin s.live => LiveAt(E, p) = LiveAt(D, p)
  BY AfterObservation
<1>5. \A o \in Obj : o \notin s.live /\ o \notin Gone(D, s)
                 => LiveAt(E, Presence(o)) = LiveAt(D, Presence(o))
  BY AfterObservation
<1>6. \A o \in Obj : o \notin Gone(D, s)
                 => RemovedAt(E, Presence(o)) = RemovedAt(D, Presence(o))
  BY AfterObservation
<1> HIDE DEF E
<1>7. \A o \in Obj : Parent[o] \in s.live \union {Root} => Outermost(E, o)
  BY <1>0, <1>2 DEF Outermost
<1>8. ASSUME NEW c \in ValueConflicts(D), s.reg[c.place] = Shown(D, c.place)
      PROVE  c \in ValueConflicts(E)
  <2>1. PICK p \in Reg : /\ Conflicted(D, p)
                         /\ c = [kind |-> "values", place |-> p, sides |-> Reading(D, p)]
    BY DEF ValueConflicts
  <2>2. p[1] \in Obj /\ s.reg[p] = Shown(D, p) /\ Shown(D, p) # Absent
    BY <1>0, <1>8, <2>1, ReadingFacts, PlacesDiffer
  <2>3. p[1] \in s.live /\ ~Changed(D, s, p)
    BY <1>0, <2>2 DEF IsState, Changed
  <2>4. LiveAt(E, p) = LiveAt(D, p)
    BY <1>3, <2>3
  <2>5. Reading(E, p) = Reading(D, p)
    BY <2>4 DEF Reading, Values, LatestValue
  <2>6. Conflicted(E, p)
    BY <2>1, <2>5 DEF Conflicted
  <2>7. Alive(E, p[1]) /\ Outermost(E, p[1])
    BY <1>0, <1>2, <1>7, <2>2, <2>3 DEF IsState
  <2> QED BY <2>1, <2>5, <2>6, <2>7 DEF ValueConflicts
<1>9. ASSUME NEW c \in DeletedWhileEdited(D), c.obj \notin s.live, Parent[c.obj] \in s.live \union {Root}
      PROVE  c \in DeletedWhileEdited(E)
  <2>1. PICK o \in Obj : /\ RacedByAnEdit(D, o)
                         /\ c = [kind |-> "deleted_while_edited", obj |-> o]
    BY DEF DeletedWhileEdited
  <2>2. /\ o \notin s.live /\ Parent[o] \in s.live \union {Root}
        /\ ~Alive(D, o) /\ o \notin Gone(D, s)
    BY <1>9, <2>1 DEF RacedByAnEdit, Gone
  <2>3. ~Alive(E, o) /\ RemovedAt(E, Presence(o)) = RemovedAt(D, Presence(o)) /\ Outermost(E, o)
    BY <1>2, <1>6, <1>7, <2>2
  <2>4. ASSUME NEW p \in Beneath(o) PROVE LiveAt(E, p) = LiveAt(D, p)
    <3>1. p \in Place /\ (p[1] = o \/ Parent[p[1]] = o) /\ p # Presence(o)
      BY DEF Beneath
    <3>2. p[1] \in Obj /\ p[1] \notin s.live
      <4>1. o # Root
        BY ParentAssumption
      <4> QED BY <1>0, <2>2, <3>1, <4>1, PlaceFacts DEF IsState
    <3>3. CASE p \in Reg
      BY <1>3, <3>2, <3>3 DEF Changed
    <3>4. CASE p \in Bag
      BY <1>4, <3>2, <3>4
    <3>5. ASSUME NEW q \in Obj, p = Presence(q) PROVE LiveAt(E, p) = LiveAt(D, p)
      <4>1. p[1] = q /\ q # o
        BY <3>1, <3>5, PlacesDiffer
      <4>2. Parent[q] = o /\ o # Root
        BY <3>1, <4>1, ParentAssumption
      <4>3. q \notin Gone(D, s)
        BY <2>2, <4>2 DEF Gone
      <4> QED BY <1>5, <3>2, <3>5, <4>1, <4>3
    <3> QED BY <3>1, <3>3, <3>4, <3>5 DEF Place
  <2>5. LiveTagsBeneath(E, o) = LiveTagsBeneath(D, o)
    <3>1. UNION {LiveAt(E, p) : p \in Beneath(o)} = UNION {LiveAt(D, p) : p \in Beneath(o)}
      BY <2>4
    <3> QED BY <3>1 DEF LiveTagsBeneath
  <2>6. RacedByAnEdit(E, o)
    BY <2>1, <2>3, <2>5 DEF RacedByAnEdit
  <2> QED BY <2>1, <2>3, <2>6 DEF DeletedWhileEdited
<1> QED BY <1>8, <1>9 DEF E

-----------------------------------------------------------------------------
(* The replica. *)

(* The shapes of the values the state is made of. *)
LEMMA Shapes ==
    ASSUME TypeOK
    PROVE  /\ \A d \in Device :
                 /\ rep[d] \in Blob /\ disk[d] \in Blob /\ outbox[d] \in Doc
                 /\ rep[d].doc \in Doc /\ disk[d].doc \in Doc
                 /\ rep[d].issued \in 0..MaxIssued /\ disk[d].issued \in 0..MaxIssued
                 /\ rep[d].id \in Id \union {0} /\ disk[d].id \in Id \union {0}
           /\ \A E \in Documents : E \in Doc
           /\ EmptyDoc \in Doc /\ TagsOf(EmptyDoc) = {} /\ NoReplica \in Blob
<1>1. EmptyDoc \in Doc /\ TagsOf(EmptyDoc) = {}
  BY DEF EmptyDoc, Doc, TagsOf
<1>2. NoReplica \in Blob
  BY <1>1, BoundAssumption DEF NoReplica, Blob
<1>3. \A d \in Device :
         /\ rep[d] \in Blob /\ disk[d] \in Blob /\ outbox[d] \in Doc
         /\ rep[d].doc \in Doc /\ disk[d].doc \in Doc
         /\ rep[d].issued \in 0..MaxIssued /\ disk[d].issued \in 0..MaxIssued
         /\ rep[d].id \in Id \union {0} /\ disk[d].id \in Id \union {0}
  BY DEF TypeOK, Blob
<1>4. \A E \in Documents : E \in Doc
  BY <1>3 DEF Documents, TypeOK
<1> QED BY <1>1, <1>2, <1>3, <1>4

(* Every document is somewhere: under way, or on some device. *)
LEMMA WhereDocumentsAre ==
    ASSUME NEW d \in Device
    PROVE  /\ Away(d) \subseteq Documents
           /\ {rep[d].doc, disk[d].doc, outbox[d]} \subseteq Documents
           /\ air \subseteq Away(d)
           /\ \A E \in Documents :
                 E \in Away(d) \/ E = rep[d].doc \/ E = disk[d].doc \/ E = outbox[d]
           /\ \A e \in Device \ {d} :
                 {rep[e].doc, disk[e].doc, outbox[e]} \subseteq Away(d)
BY DEF Away, Documents

(* How what D has of E's tags under i survives a change of D or of E. *)
LEMMA CoversSmaller ==
    ASSUME NEW D, NEW E, NEW F, NEW i,
           Covers(D, F, i),
           \A a \in E.adds : a.tag.id = i => a \in F.adds,
           \A t \in TagsOf(E) : t.id = i => t \in TagsOf(F)
    PROVE  Covers(D, E, i)
BY DEF Covers

(* A document that gains adds still covers what it covered. *)
LEMMA CoversGrows ==
    ASSUME NEW D, NEW E, NEW F, NEW i,
           Covers(D, E, i), D.adds \subseteq F.adds
    PROVE  Covers(F, E, i)
BY DEF Covers

(* What has no tag of an id is covered for that id by anything. *)
LEMMA CoversNothing ==
    ASSUME NEW D, NEW E \in Doc, NEW i,
           \A t \in TagsOf(E) : t.id # i
    PROVE  Covers(D, E, i)
BY TagFacts DEF Covers

(* The tags of a larger document. *)
LEMMA TagsGrow ==
    ASSUME NEW D, NEW E, D.adds \subseteq E.adds, D.rems \subseteq E.rems
    PROVE  TagsOf(D) \subseteq TagsOf(E)
BY DEF TagsOf

(* The counter a merge follows has passed every tag of the document. *)
LEMMA HighestCounterFacts ==
    ASSUME NEW D \in Doc, \A t \in TagsOf(D) : t.n <= MaxIssued
    PROVE  /\ HighestCounter(D) \in 0..MaxIssued
           /\ \A t \in TagsOf(D) : t.n <= HighestCounter(D)
           /\ HighestCounter(D) = 0 \/ \E t \in TagsOf(D) : t.n = HighestCounter(D)
<1> DEFINE counters == {t.n : t \in TagsOf(D)} \intersect 0..LamportCeiling
<1>0. MaxIssued \in Nat /\ LamportCeiling \in Nat /\ MaxIssued <= LamportCeiling
  BY BoundAssumption
<1>1. \A t \in TagsOf(D) : t.n \in Nat
  BY TagFacts DEF Tag
<1>2. \A t \in TagsOf(D) : t.n \in counters
  BY <1>0, <1>1
<1>3. \A c \in counters : c \in 0..MaxIssued /\ \E t \in TagsOf(D) : t.n = c
  BY <1>0, <1>1
<1>4. IsFiniteSet(counters)
  <2>1. IsFiniteSet(0..LamportCeiling)
    BY <1>0, FS_Interval
  <2>2. counters \subseteq 0..LamportCeiling
    OBVIOUS
  <2> QED BY <2>1, <2>2, FS_Subset
<1>5. counters \in SUBSET Nat
  BY <1>0
<1>6. HighestCounter(D) = IF counters = {} THEN 0 ELSE Max(counters)
  BY DEF HighestCounter
<1> HIDE DEF counters
<1>7. CASE counters = {}
  BY <1>0, <1>2, <1>6, <1>7
<1>8. CASE counters # {}
  <2>1. Max(counters) \in counters /\ \A w \in counters : w <= Max(counters)
    BY <1>4, <1>5, <1>8, GreatestExists
  <2> QED BY <1>2, <1>3, <1>6, <1>8, <2>1
<1> QED BY <1>7, <1>8

(* A replica's own tags, wherever they are, are behind its counter. *)
LEMMA OwnTagsAreBehind ==
    ASSUME IInv, NEW d \in Device, NEW E \in Documents, NEW t \in TagsOf(E),
           t.id = rep[d].id
    PROVE  t.n <= rep[d].issued /\ \E a \in rep[d].doc.adds : a.tag = t
<1> USE DEF IInv
<1>1. ASSUME NEW a \in rep[d].doc.adds PROVE a.tag.n <= rep[d].issued
  BY Shapes, TagFacts DEF CountersAhead
<1>2. \E a \in rep[d].doc.adds : a.tag = t
  <2>1. CASE E = rep[d].doc \/ E = outbox[d]
    BY <2>1 DEF OwnTagsKnown, Covers
  <2>2. CASE E = disk[d].doc
    <3>1. t \in TagsOf(rep[d].doc)
      BY <2>2, TagsGrow DEF DiskIsBehind
    <3> QED BY <3>1 DEF OwnTagsKnown, Covers
  <2>3. CASE E \in Away(d)
    <3>1. rep[d].id = disk[d].id
      BY <2>3, Shapes DEF AwayIsSaved, Covers, EmptyDoc
    <3>2. \E a \in disk[d].doc.adds : a.tag = t
      BY <2>3, <3>1 DEF AwayIsSaved, Covers
    <3> QED BY <3>2 DEF DiskIsBehind
  <2> QED BY <2>1, <2>2, <2>3, WhereDocumentsAre
<1> QED BY <1>1, <1>2

(* A step that puts no new add and no new tag anywhere keeps tags unique and *)
(* drawn from the ids handed out.                                            *)
LEMMA NothingMinted ==
    ASSUME TagsAreUnique, TagsComeFromUsedIds, used \subseteq used',
           \A E \in Documents' : \A a \in E.adds : \E F \in Documents : a \in F.adds,
           \A E \in Documents' : \A t \in TagsOf(E) : \E F \in Documents : t \in TagsOf(F)
    PROVE  TagsAreUnique' /\ TagsComeFromUsedIds'
<1>1. TagsAreUnique'
  BY DEF TagsAreUnique
<1>2. TagsComeFromUsedIds'
  BY DEF TagsComeFromUsedIds
<1> QED BY <1>1, <1>2

-----------------------------------------------------------------------------

(* With no replica and nothing in the air the invariant holds. *)
LEMMA InitIInv == Init => IInv
<1> SUFFICES ASSUME Init PROVE IInv
  OBVIOUS
<1> USE DEF Init
<1>1. /\ EmptyDoc \in Doc /\ EmptyDoc.adds = {} /\ EmptyDoc.rems = {}
      /\ NoReplica \in Blob /\ NoReplica.id = 0 /\ NoReplica.doc = EmptyDoc
  BY BoundAssumption DEF EmptyDoc, Doc, NoReplica, Blob
<1>2. \A E \in Documents : E = EmptyDoc
  BY <1>1 DEF Documents
<1>3. TagsOf(EmptyDoc) = {}
  BY DEF EmptyDoc, TagsOf
<1>4. TypeOK
  BY <1>1 DEF TypeOK
<1>5. IdsAreHeldOnce
  BY <1>1 DEF IdsAreHeldOnce
<1>6. TagsComeFromUsedIds
  BY <1>2, <1>3 DEF TagsComeFromUsedIds
<1>7. CountersAhead
  BY <1>1, <1>3 DEF CountersAhead
<1>8. DiskIsBehind
  BY <1>1 DEF DiskIsBehind, Running
<1>9. OwnTagsKnown
  BY <1>1, <1>3 DEF OwnTagsKnown, Covers
<1>10. AwayIsSaved
  <2>1. \A d \in Device : \A E \in Away(d) : E = EmptyDoc
    BY <1>2, WhereDocumentsAre
  <2> QED BY <1>1, <1>3, <2>1 DEF AwayIsSaved, Covers
<1>11. TagsAreUnique
  BY <1>1, <1>2 DEF TagsAreUnique
<1> QED BY <1>4, <1>5, <1>6, <1>7, <1>8, <1>9, <1>10, <1>11 DEF IInv

(* A new id owns nothing anywhere. *)
LEMMA CreateKeepsIInv ==
    ASSUME IInv, NEW d \in Device, NEW i \in Id, Create(d, i)
    PROVE  IInv'
<1> USE DEF IInv, Create
<1>1. rep \in [Device -> Blob] /\ EmptyDoc \in Doc /\ TagsOf(EmptyDoc) = {}
  BY Shapes DEF TypeOK
<1>2. /\ rep'[d] = [id |-> i, issued |-> 0, doc |-> EmptyDoc]
      /\ \A e \in Device \ {d} : rep'[e] = rep[e]
      /\ rep[d] = NoReplica /\ disk[d] = NoReplica
      /\ i # 0
  BY <1>1, IdAssumption DEF DiskIsBehind
<1>3. rep[d].doc = EmptyDoc /\ rep'[d].doc = EmptyDoc /\ rep'[d].id = i /\ rep'[d].issued = 0
  BY <1>2 DEF NoReplica
<1>4. \A e \in Device : rep'[e].doc = rep[e].doc
  BY <1>2, <1>3
<1>5. Documents' = Documents /\ \A e \in Device : Away(e)' = Away(e)
  BY <1>4 DEF Documents, Away
<1>6. TypeOK'
  BY <1>1, <1>2, BoundAssumption DEF TypeOK, Blob
<1>7. IdsAreHeldOnce'
  BY <1>2, <1>3 DEF IdsAreHeldOnce, NoReplica
<1>8. TagsComeFromUsedIds'
  BY <1>5 DEF TagsComeFromUsedIds
<1>9. CountersAhead'
  BY <1>1, <1>2, <1>3 DEF CountersAhead
<1>10. DiskIsBehind'
  BY <1>2, <1>3 DEF DiskIsBehind, NoReplica, Running
<1>11. \A E \in Documents : \A t \in TagsOf(E) : t.id # i
  BY DEF TagsComeFromUsedIds
<1>12. OwnTagsKnown'
  <2>1. Covers(EmptyDoc, EmptyDoc, i) /\ Covers(EmptyDoc, outbox[d], i)
    BY <1>1, <1>11, Shapes, CoversNothing, WhereDocumentsAre
  <2> QED BY <1>2, <1>3, <2>1 DEF OwnTagsKnown
<1>13. AwayIsSaved'
  <2>1. \A E \in Away(d) : Covers(EmptyDoc, E, i)
    BY <1>1, <1>11, Shapes, CoversNothing, WhereDocumentsAre
  <2> QED BY <1>2, <1>3, <1>5, <2>1 DEF AwayIsSaved
<1>14. TagsAreUnique'
  BY <1>5 DEF TagsAreUnique
<1> QED BY <1>6, <1>7, <1>8, <1>9, <1>10, <1>12, <1>13, <1>14

(* Burning a counter leaves every document as it is. *)
LEMMA ObserveRefusedKeepsIInv ==
    ASSUME IInv, NEW d \in Device, ObserveRefused(d)
    PROVE  IInv'
<1> USE DEF IInv, ObserveRefused
<1>1. /\ rep'[d].id = rep[d].id /\ rep'[d].doc = rep[d].doc
      /\ rep'[d].issued = rep[d].issued + 1 /\ rep'[d] \in Blob
      /\ \A e \in Device \ {d} : rep'[e] = rep[e]
  <2>1. rep[d] \in Blob /\ rep[d].issued \in 0..MaxIssued /\ MaxIssued \in Nat
    BY Shapes, BoundAssumption
  <2>2. rep[d].issued + 1 \in 0..MaxIssued
    BY <2>1
  <2> QED BY <2>1, <2>2 DEF TypeOK, Blob
<1>2. \A e \in Device : rep'[e].doc = rep[e].doc /\ rep'[e].id = rep[e].id
  BY <1>1
<1>3. Documents' = Documents /\ \A e \in Device : Away(e)' = Away(e)
  BY <1>2 DEF Documents, Away
<1>4. TypeOK'
  BY <1>1 DEF TypeOK
<1>5. IdsAreHeldOnce'
  BY <1>2 DEF IdsAreHeldOnce
<1>6. TagsComeFromUsedIds'
  BY <1>3 DEF TagsComeFromUsedIds
<1>7. CountersAhead'
  <2>1. \A t \in TagsOf(rep[d].doc) : t.n <= rep'[d].issued
    <3>1. \A t \in TagsOf(rep[d].doc) : t.n \in Nat /\ t.n <= rep[d].issued
      BY Shapes, TagFacts DEF CountersAhead, Tag
    <3> QED BY <1>1, <3>1, Shapes
  <2> QED BY <1>1, <1>2, <2>1 DEF CountersAhead
<1>8. DiskIsBehind'
  BY <1>1, <1>2 DEF DiskIsBehind, Running
<1>9. OwnTagsKnown'
  BY <1>2 DEF OwnTagsKnown
<1>10. AwayIsSaved'
  BY <1>2, <1>3 DEF AwayIsSaved
<1>11. TagsAreUnique'
  BY <1>3 DEF TagsAreUnique
<1> QED BY <1>4, <1>5, <1>6, <1>7, <1>8, <1>9, <1>10, <1>11

(* Fewer documents under way. *)
LEMMA LoseKeepsIInv ==
    ASSUME IInv, NEW m \in air, Lose(m)
    PROVE  IInv'
<1> USE DEF IInv, Lose
<1>1. Documents' \subseteq Documents /\ \A d \in Device : Away(d)' \subseteq Away(d)
  BY DEF Documents, Away
<1>2. TypeOK' /\ IdsAreHeldOnce' /\ CountersAhead' /\ DiskIsBehind' /\ OwnTagsKnown'
  BY DEF TypeOK, IdsAreHeldOnce, CountersAhead, DiskIsBehind, OwnTagsKnown, Running
<1>3. TagsComeFromUsedIds' /\ TagsAreUnique'
  BY <1>1 DEF TagsComeFromUsedIds, TagsAreUnique
<1>4. AwayIsSaved'
  BY <1>1 DEF AwayIsSaved
<1> QED BY <1>2, <1>3, <1>4

(* What a device sends it has saved, so the world learns nothing of the      *)
(* device's own tags that the disk does not hold.                            *)
LEMMA SendKeepsIInv ==
    ASSUME IInv, NEW d \in Device, Send(d)
    PROVE  IInv'
<1> USE DEF IInv
<1>1. PICK m \in {outbox[d], rep[d].doc} :
        air' = air \union {m} /\ UNCHANGED <<rep, disk, outbox, used>>
  BY DEF Send, Put
<1>2. rep[d] = disk[d]
  BY DEF Send, Saved
<1>3. Documents' = Documents /\ m \in Documents /\ m \in Doc
  BY <1>1, Shapes DEF Documents
<1>4. TypeOK' /\ IdsAreHeldOnce' /\ CountersAhead' /\ DiskIsBehind' /\ OwnTagsKnown'
  BY <1>1, <1>3 DEF TypeOK, IdsAreHeldOnce, CountersAhead, DiskIsBehind, OwnTagsKnown, Running
<1>5. TagsComeFromUsedIds' /\ TagsAreUnique'
  BY <1>1, <1>3 DEF TagsComeFromUsedIds, TagsAreUnique
<1>6. AwayIsSaved'
  <2>1. \A e \in Device : Away(e)' = Away(e) \union {m}
    BY <1>1 DEF Away
  <2>2. \A e \in Device \ {d} : m \in Away(e)
    BY <1>1 DEF Away
  <2>3. Covers(disk[d].doc, m, disk[d].id)
    BY <1>1, <1>2 DEF OwnTagsKnown
  <2>4. ASSUME NEW e \in Device, NEW E \in Away(e)'
        PROVE  /\ Covers(disk[e].doc, E, disk[e].id)
               /\ rep[e].id # disk[e].id => Covers(EmptyDoc, E, rep[e].id)
    <3>1. CASE E \in Away(e)
      BY <3>1 DEF AwayIsSaved
    <3>2. CASE e = d /\ E = m
      BY <1>2, <2>3, <3>2
    <3> QED BY <2>1, <2>2, <3>1, <3>2
  <2> QED BY <1>1, <2>4 DEF AwayIsSaved
<1> QED BY <1>4, <1>5, <1>6

(* Saving (Replica::to_bytes stored by the application) keeps the invariant. *)
LEMMA SaveKeepsIInv ==
    ASSUME IInv, NEW d \in Device, Save(d)
    PROVE  IInv'
<1> USE DEF IInv, Save
<1>1. /\ disk'[d] = rep[d] /\ \A e \in Device \ {d} : disk'[e] = disk[e]
      /\ disk' \in [Device -> Blob]
  BY DEF TypeOK
<1>2. Documents' \subseteq Documents
  BY <1>1 DEF Documents
<1>3. TypeOK'
  BY <1>1 DEF TypeOK
<1>4. IdsAreHeldOnce'
  BY <1>1 DEF IdsAreHeldOnce
<1>5. TagsComeFromUsedIds' /\ TagsAreUnique'
  BY <1>2 DEF TagsComeFromUsedIds, TagsAreUnique
<1>6. CountersAhead'
  BY <1>1 DEF CountersAhead
<1>7. DiskIsBehind'
  BY <1>1 DEF DiskIsBehind, Running
<1>8. OwnTagsKnown'
  BY <1>1 DEF OwnTagsKnown
<1>9. AwayIsSaved'
  <2>1. \A e \in Device : Away(e)' \subseteq Away(e) \union {rep[f].doc : f \in Device \ {e}}
    BY <1>1 DEF Away
  <2>2. \A e \in Device : Away(e)' \subseteq Away(e)
    BY <2>1 DEF Away
  <2>3. ASSUME NEW E \in Away(d) PROVE Covers(rep[d].doc, E, rep[d].id)
    <3>1. CASE rep[d].id = disk[d].id
      BY <3>1, CoversGrows DEF AwayIsSaved, DiskIsBehind
    <3>2. CASE rep[d].id # disk[d].id
      BY <3>2, CoversGrows DEF AwayIsSaved, EmptyDoc
    <3> QED BY <3>1, <3>2
  <2> QED BY <1>1, <2>2, <2>3 DEF AwayIsSaved
<1> QED BY <1>3, <1>4, <1>5, <1>6, <1>7, <1>8, <1>9

(* Coming back from the disk forgets only what no other device has heard of. *)
LEMMA CrashKeepsIInv ==
    ASSUME IInv, NEW d \in Device, Crash(d)
    PROVE  IInv'
<1> USE DEF IInv, Crash
<1>0. Loads(disk[d])
  BY DEF Loads, Tags, CountersAhead
<1>1. /\ rep'[d] = disk[d] /\ \A e \in Device \ {d} : rep'[e] = rep[e]
      /\ outbox'[d] = EmptyDoc /\ \A e \in Device \ {d} : outbox'[e] = outbox[e]
      /\ rep' \in [Device -> Blob] /\ outbox' \in [Device -> Doc]
      /\ EmptyDoc \in Doc /\ TagsOf(EmptyDoc) = {} /\ EmptyDoc.adds = {}
  BY <1>0, Shapes DEF TypeOK, EmptyDoc
<1>2. Documents' \subseteq Documents \union {EmptyDoc}
  BY <1>1 DEF Documents
<1>3. TypeOK'
  BY <1>1 DEF TypeOK
<1>4. IdsAreHeldOnce'
  BY <1>1 DEF IdsAreHeldOnce
<1>5. TagsComeFromUsedIds' /\ TagsAreUnique'
  BY <1>1, <1>2 DEF TagsComeFromUsedIds, TagsAreUnique
<1>6. CountersAhead'
  BY <1>1 DEF CountersAhead
<1>7. DiskIsBehind'
  BY <1>1 DEF DiskIsBehind, Running, NoReplica
<1>8. OwnTagsKnown'
  BY <1>1 DEF OwnTagsKnown, Covers
<1>9. AwayIsSaved'
  <2>1. \A e \in Device : Away(e)' \subseteq Away(e) \union {EmptyDoc}
    BY <1>1 DEF Away
  <2>2. \A D, i : Covers(D, EmptyDoc, i)
    BY <1>1 DEF Covers
  <2> QED BY <1>1, <2>1, <2>2 DEF AwayIsSaved
<1> QED BY <1>3, <1>4, <1>5, <1>6, <1>7, <1>8, <1>9

(* A fork starts from a saved or a running document, under an id nobody has. *)
LEMMA ForkKeepsIInv ==
    ASSUME IInv, NEW d \in Device, NEW e \in Device, NEW i \in Id, Fork(d, e, i)
    PROVE  IInv'
<1> USE DEF IInv, Fork
<1> DEFINE D == rep[d].doc
<1>0. D \in Doc /\ D \in Documents /\ \A t \in TagsOf(D) : t.n <= MaxIssued /\ t.id # i
  BY Shapes, WhereDocumentsAre DEF TagsComeFromUsedIds
<1>1. HighestCounter(D) \in 0..MaxIssued /\ \A t \in TagsOf(D) : t.n <= HighestCounter(D)
  BY <1>0, HighestCounterFacts
<1>2. /\ rep'[e].id = i /\ rep'[e].doc = D /\ rep'[e].issued = HighestCounter(D)
      /\ \A f \in Device \ {e} : rep'[f] = rep[f]
      /\ rep' \in [Device -> Blob]
      /\ i # 0
  BY <1>0, <1>1, IdAssumption DEF TypeOK, Blob
<1>3. e # d => rep[e] = NoReplica /\ disk[e] = NoReplica
  BY DEF DiskIsBehind
<1>4. Documents' \subseteq Documents
  BY <1>0, <1>2 DEF Documents
<1>5. TypeOK'
  BY <1>2 DEF TypeOK
<1>6. IdsAreHeldOnce'
  BY <1>2 DEF IdsAreHeldOnce
<1>7. TagsComeFromUsedIds' /\ TagsAreUnique'
  BY <1>4 DEF TagsComeFromUsedIds, TagsAreUnique
<1>8. CountersAhead'
  BY <1>1, <1>2 DEF CountersAhead
<1>9. DiskIsBehind'
  <2>1. ASSUME NEW f \in Device \ {e}
        PROVE  /\ disk[f].id # 0 => rep'[f].id # 0
               /\ rep'[f].id = 0 => rep'[f] = NoReplica
               /\ disk[f].id = 0 => disk[f] = NoReplica
               /\ disk[f].doc.adds \subseteq rep'[f].doc.adds
               /\ disk[f].doc.rems \subseteq rep'[f].doc.rems
    BY <1>2 DEF DiskIsBehind, Running
  <2>2. /\ disk[e].id = 0 => disk[e] = NoReplica
        /\ disk[e].doc.adds \subseteq D.adds
        /\ disk[e].doc.rems \subseteq D.rems
    <3>1. CASE e = d
      BY <3>1 DEF DiskIsBehind
    <3>2. CASE e # d
      BY <1>3, <3>2 DEF NoReplica, EmptyDoc
    <3> QED BY <3>1, <3>2
  <2> QED BY <1>2, <2>1, <2>2 DEF DiskIsBehind, Running
<1>10. \A E \in Documents : \A F : Covers(F, E, i)
  <2>1. \A E \in Documents : E \in Doc /\ \A t \in TagsOf(E) : t.id # i
    BY Shapes DEF TagsComeFromUsedIds
  <2> QED BY <2>1, CoversNothing
<1>11. OwnTagsKnown'
  BY <1>0, <1>2, <1>10, WhereDocumentsAre DEF OwnTagsKnown
<1>12. AwayIsSaved'
  <2>1. ASSUME NEW f \in Device \ {e}, NEW E \in Away(f)'
        PROVE  E \in Away(f) \/ (f = d /\ d # e /\ E = D)
    <3>1. E \in Away(f) \/ E = D
      BY <1>2 DEF Away
    <3>2. f # d => D \in Away(f)
      BY DEF Away
    <3> QED BY <3>1, <3>2
  <2>2. d # e => Covers(disk[d].doc, D, disk[d].id) /\ rep[d].id = disk[d].id
    BY DEF OwnTagsKnown
  <2>3. Away(e)' \subseteq Documents
    BY <1>4, <1>2 DEF Away, Documents
  <2>4. ASSUME NEW f \in Device \ {e}, NEW E \in Away(f)'
        PROVE  /\ Covers(disk[f].doc, E, disk[f].id)
               /\ rep[f].id # disk[f].id => Covers(EmptyDoc, E, rep[f].id)
    BY <2>1, <2>2 DEF AwayIsSaved
  <2>5. ASSUME NEW E \in Away(e)'
        PROVE  Covers(disk[e].doc, E, disk[e].id) /\ Covers(EmptyDoc, E, i)
    <3>1. Away(e)' \subseteq Away(e) \union {D}
      BY <1>2 DEF Away
    <3>2. d # e => D \in Away(e)
      BY DEF Away
    <3>3. d = e => Away(e)' \subseteq Away(e)
      BY <1>2 DEF Away
    <3> QED BY <1>10, <2>3, <3>1, <3>2, <3>3 DEF AwayIsSaved
  <2> QED BY <1>2, <2>4, <2>5 DEF AwayIsSaved
<1> QED BY <1>5, <1>6, <1>7, <1>8, <1>9, <1>11, <1>12

(* What a replica writes carries tags nobody has seen; what it retires it    *)
(* holds.                                                                    *)
LEMMA EditKeepsIInv ==
    ASSUME IInv, NEW d \in Device, Running(d),
           NEW W \in SUBSET Write, NEW R \in SUBSET Rem,
           \A r \in R : \E a \in rep[d].doc.adds : a.tag = r.tag,
           Edit(d, W, R)
    PROVE  IInv'
<1> USE DEF IInv
<1> DEFINE D == rep[d].doc
           i == rep[d].id
           delta == Delta(D, i, rep[d].issued, W, R)
           N == Join(D, delta)
<1>0. /\ D \in Doc /\ D \in Documents /\ i \in Id /\ rep[d].issued \in Nat
      /\ i \in used
      /\ Cardinality(W) \in Nat /\ MaxIssued \in Nat
      /\ rep[d].issued + Cardinality(W) \in 0..MaxIssued
  BY Shapes, WhereDocumentsAre, RankIsInjective, BoundAssumption
     DEF Running, Edit, IdsAreHeldOnce
<1>1. /\ delta \in Doc
      /\ \A a \in delta.adds : a.tag.id = i /\ a.tag.n > rep[d].issued
                              /\ a.tag.n <= rep[d].issued + Cardinality(W)
                              /\ a.tag.n <= MaxIssued
      /\ \A a, b \in delta.adds : a.tag = b.tag => a = b
      /\ \A r \in delta.rems : \E a \in D.adds : a.tag = r.tag
  <2>1. /\ delta \in Doc
        /\ \A a \in delta.adds : a.tag.id = i
                /\ a.tag.n \in rep[d].issued + 1..rep[d].issued + Cardinality(W)
        /\ \A a, b \in delta.adds : a.tag = b.tag => a = b
        /\ delta.rems \subseteq R
    BY <1>0, DeltaFacts
  <2> HIDE DEF delta
  <2> QED BY <1>0, <2>1
<1>2. \A t \in TagsOf(D) : t.n \in Nat /\ t.n <= rep[d].issued
  BY <1>0, TagFacts DEF CountersAhead, Tag
<1> HIDE DEF delta
<1>3. /\ N \in Doc /\ N.adds = D.adds \union delta.adds /\ N.rems = D.rems \union delta.rems
  <2>1. \A a \in D.adds, b \in delta.adds : a.tag # b.tag
    BY <1>0, <1>1, <1>2, TagFacts
  <2> QED BY <1>0, <1>1, <2>1, JoinIsUnion
<1> HIDE DEF N
<1>4. \A t \in TagsOf(delta) : t \in TagsOf(D) \/ \E a \in delta.adds : a.tag = t
  BY <1>1 DEF TagsOf
<1>5. TagsOf(N) = TagsOf(D) \union TagsOf(delta)
  BY <1>3 DEF TagsOf
<1>6. /\ rep'[d].id = i /\ rep'[d].doc = N
      /\ rep'[d].issued = rep[d].issued + Cardinality(W)
      /\ \A e \in Device \ {d} : rep'[e] = rep[e]
      /\ rep' \in [Device -> Blob]
  <2>1. rep' = [rep EXCEPT ![d].issued = rep[d].issued + Cardinality(W), ![d].doc = N]
    BY DEF Edit, N, delta, TypeOK, Blob
  <2>2. rep'[d] = [id |-> i, issued |-> rep[d].issued + Cardinality(W), doc |-> N]
    BY <2>1 DEF TypeOK, Blob
  <2>3. \A e \in Device \ {d} : rep'[e] = rep[e]
    BY <2>1 DEF TypeOK
  <2>4. rep'[d] \in Blob
    BY <1>0, <1>3, <2>2 DEF Blob
  <2>5. rep' \in [Device -> Blob]
    BY <2>1, <2>3, <2>4 DEF TypeOK
  <2> QED BY <2>2, <2>3, <2>5
<1>7. /\ UNCHANGED <<disk, air, used>>
      /\ outbox'[d] \in {delta, EmptyDoc}
      /\ \A e \in Device \ {d} : outbox'[e] = outbox[e]
      /\ outbox' \in [Device -> Doc]
  BY <1>1, Shapes DEF Edit, delta, TypeOK
<1>8. EmptyDoc \in Doc /\ TagsOf(EmptyDoc) = {} /\ EmptyDoc.adds = {} /\ EmptyDoc.rems = {}
  BY Shapes DEF EmptyDoc
<1>9. Documents' \subseteq Documents \union {N, delta, EmptyDoc}
  BY <1>6, <1>7 DEF Documents
<1>10. TypeOK'
  BY <1>6, <1>7 DEF TypeOK
<1>11. IdsAreHeldOnce'
  <2>1. \A e \in Device : rep'[e].id = rep[e].id
    BY <1>6
  <2> QED BY <1>7, <2>1 DEF IdsAreHeldOnce
<1>12. TagsComeFromUsedIds'
  <2>1. \A t \in TagsOf(D) : t.id \in used /\ t.n <= MaxIssued
    BY <1>0 DEF TagsComeFromUsedIds
  <2>2. \A t \in TagsOf(delta) : t.id \in used /\ t.n <= MaxIssued
    BY <1>0, <1>1, <1>4, <2>1
  <2> QED BY <1>5, <1>7, <1>8, <1>9, <2>1, <2>2 DEF TagsComeFromUsedIds
<1>13. CountersAhead'
  <2>1. \A t \in TagsOf(D) : t.n <= rep'[d].issued
    BY <1>0, <1>2, <1>6
  <2>2. \A t \in TagsOf(N) : t.n <= rep'[d].issued
    BY <1>1, <1>4, <1>5, <1>6, <2>1
  <2> QED BY <1>6, <1>7, <2>2 DEF CountersAhead
<1>14. DiskIsBehind'
  BY <1>3, <1>6, <1>7 DEF DiskIsBehind, Running
<1>15. OwnTagsKnown'
  <2>1. Covers(N, delta, i) /\ Covers(N, D, i)
    BY <1>1, <1>3, <1>4 DEF Covers, OwnTagsKnown
  <2>2. Covers(N, N, i)
    BY <1>3, <1>5, <2>1 DEF Covers
  <2>3. Covers(N, EmptyDoc, i)
    BY <1>8 DEF Covers
  <2> QED BY <1>6, <1>7, <2>1, <2>2, <2>3 DEF OwnTagsKnown
<1>16. AwayIsSaved'
  <2>1. Away(d)' = Away(d)
    BY <1>6, <1>7 DEF Away
  <2>2. ASSUME NEW e \in Device \ {d}, NEW j \in {rep[e].id, disk[e].id}, NEW F,
               Covers(F, D, j)
        PROVE  Covers(F, N, j) /\ Covers(F, delta, j) /\ Covers(F, EmptyDoc, j)
    <3>1. \A a \in delta.adds : a.tag.id # j
      BY <1>0, <1>1, IdAssumption DEF IdsAreHeldOnce
    <3>2. \A t \in TagsOf(delta) : t.id = j => t \in TagsOf(D)
      BY <1>4, <3>1
    <3>3. Covers(F, delta, j)
      BY <2>2, <3>1, <3>2, CoversSmaller
    <3>4. Covers(F, N, j)
      BY <1>3, <1>5, <2>2, <3>3 DEF Covers
    <3> QED BY <1>8, <3>3, <3>4 DEF Covers
  <2>3. \A e \in Device \ {d} : D \in Away(e) /\ Away(e)' \subseteq Away(e) \union {N, delta, EmptyDoc}
    BY <1>6, <1>7 DEF Away
  <2>4. ASSUME NEW e \in Device \ {d}, NEW E \in Away(e)'
        PROVE  /\ Covers(disk[e].doc, E, disk[e].id)
               /\ rep[e].id # disk[e].id => Covers(EmptyDoc, E, rep[e].id)
    BY <2>2, <2>3 DEF AwayIsSaved
  <2> QED BY <1>6, <1>7, <2>1, <2>4 DEF AwayIsSaved
<1>17. TagsAreUnique'
  <2>1. ASSUME NEW E \in Documents, NEW a \in E.adds PROVE \A b \in delta.adds : a.tag # b.tag
    <3>1. E \in Doc /\ a.tag \in TagsOf(E) /\ a.tag.n \in Nat
      BY Shapes, TagFacts DEF Tag
    <3>2. a.tag.id = i => a.tag.n <= rep[d].issued
      BY <3>1, OwnTagsAreBehind
    <3> QED BY <1>0, <1>1, <3>1, <3>2
  <2>2. \A E \in Documents' : \A a \in E.adds :
            a \in delta.adds \/ \E F \in Documents : a \in F.adds
    BY <1>0, <1>3, <1>8, <1>9
  <2>3. \A a, b : (\E E \in Documents : a \in E.adds) /\ (\E F \in Documents : b \in F.adds)
                    => (a.tag = b.tag => a = b)
    BY DEF TagsAreUnique
  <2> QED BY <1>1, <2>1, <2>2, <2>3 DEF TagsAreUnique
<1> QED BY <1>10, <1>11, <1>12, <1>13, <1>14, <1>15, <1>16, <1>17

(* A merge learns only what is already under way, and follows its counter. *)
LEMMA MergeKeepsIInv ==
    ASSUME IInv, NEW d \in Device, NEW m \in air, Merge(d, m)
    PROVE  IInv'
<1> USE DEF IInv
<1> DEFINE D == rep[d].doc
           i == rep[d].id
           N == Join(D, m)
           issued == IF HighestCounter(m) > rep[d].issued THEN HighestCounter(m)
                                                         ELSE rep[d].issued
<1>0. /\ D \in Doc /\ D \in Documents /\ m \in Doc /\ m \in Documents
      /\ rep[d].issued \in 0..MaxIssued /\ MaxIssued \in Nat
  BY Shapes, WhereDocumentsAre, BoundAssumption
<1>1. /\ HighestCounter(m) \in 0..MaxIssued
      /\ \A t \in TagsOf(m) : t.n \in Nat /\ t.n <= HighestCounter(m)
  BY <1>0, HighestCounterFacts, TagFacts DEF TagsComeFromUsedIds, Tag
<1>2. \A t \in TagsOf(D) : t.n \in Nat /\ t.n <= rep[d].issued
  BY <1>0, TagFacts DEF CountersAhead, Tag
<1>3. /\ issued \in 0..MaxIssued
      /\ \A t \in TagsOf(D) \union TagsOf(m) : t.n <= issued
  BY <1>0, <1>1, <1>2
<1>4. /\ N \in Doc /\ N.adds = D.adds \union m.adds /\ N.rems = D.rems \union m.rems
  <2>1. \A a \in D.adds, b \in m.adds : a.tag = b.tag => a = b
    BY <1>0 DEF TagsAreUnique
  <2> QED BY <1>0, <2>1, JoinIsUnion
<1>5. rep' = [rep EXCEPT ![d].issued = issued, ![d].doc = N]
  BY DEF Merge, TypeOK, Blob
<1> HIDE DEF N, issued
<1>6. TagsOf(N) = TagsOf(D) \union TagsOf(m)
  BY <1>4 DEF TagsOf
<1>7. /\ rep'[d].id = i /\ rep'[d].doc = N /\ rep'[d].issued = issued
      /\ \A e \in Device \ {d} : rep'[e] = rep[e]
      /\ rep' \in [Device -> Blob]
  <2>1. rep'[d] = [id |-> i, issued |-> issued, doc |-> N]
    BY <1>5 DEF TypeOK, Blob
  <2>2. \A e \in Device \ {d} : rep'[e] = rep[e]
    BY <1>5 DEF TypeOK
  <2>3. rep'[d] \in Blob
    BY <1>3, <1>4, <2>1, Shapes DEF Blob
  <2>4. rep' \in [Device -> Blob]
    BY <1>5, <2>2, <2>3 DEF TypeOK
  <2> QED BY <2>1, <2>2, <2>4
<1>8. UNCHANGED <<disk, outbox, air, used>>
  BY DEF Merge
<1>9. Documents' \subseteq Documents \union {N}
  BY <1>7, <1>8 DEF Documents
<1>10. TypeOK'
  BY <1>7, <1>8 DEF TypeOK
<1>11. IdsAreHeldOnce'
  <2>1. \A e \in Device : rep'[e].id = rep[e].id
    BY <1>7
  <2> QED BY <1>8, <2>1 DEF IdsAreHeldOnce
<1>12. TagsAreUnique' /\ TagsComeFromUsedIds'
  <2>1. \A E \in Documents' : \A a \in E.adds : \E F \in Documents : a \in F.adds
    BY <1>0, <1>4, <1>9
  <2>2. \A E \in Documents' : \A t \in TagsOf(E) : \E F \in Documents : t \in TagsOf(F)
    BY <1>0, <1>6, <1>9
  <2> QED BY <1>8, <2>1, <2>2, NothingMinted
<1>13. CountersAhead'
  BY <1>3, <1>6, <1>7, <1>8 DEF CountersAhead
<1>14. DiskIsBehind'
  BY <1>4, <1>7, <1>8 DEF DiskIsBehind, Running, Merge
<1>15. OwnTagsKnown'
  <2>1. \A t \in TagsOf(m) : t.id = i => \E a \in D.adds : a.tag = t
    BY <1>0, OwnTagsAreBehind
  <2>2. \A a \in N.adds : a.tag.id = i => a \in N.adds
    OBVIOUS
  <2>3. \A t \in TagsOf(N) : t.id = i => \E a \in N.adds : a.tag = t
    BY <1>4, <1>6, <2>1 DEF OwnTagsKnown, Covers
  <2>4. Covers(N, N, i)
    BY <2>2, <2>3 DEF Covers
  <2>5. Covers(N, outbox[d], i)
    BY <1>4, CoversGrows DEF OwnTagsKnown
  <2> QED BY <1>7, <1>8, <2>4, <2>5 DEF OwnTagsKnown
<1>16. AwayIsSaved'
  <2>1. Away(d)' = Away(d)
    BY <1>7, <1>8 DEF Away
  <2>2. \A F, j : Covers(F, D, j) /\ Covers(F, m, j) => Covers(F, N, j)
    BY <1>4, <1>6 DEF Covers
  <2>3. \A e \in Device \ {d} : D \in Away(e) /\ m \in Away(e)
                                /\ Away(e)' \subseteq Away(e) \union {N}
    BY <1>7, <1>8 DEF Away
  <2>4. ASSUME NEW e \in Device \ {d}, NEW E \in Away(e)'
        PROVE  /\ Covers(disk[e].doc, E, disk[e].id)
               /\ rep[e].id # disk[e].id => Covers(EmptyDoc, E, rep[e].id)
    BY <2>2, <2>3 DEF AwayIsSaved
  <2> QED BY <1>7, <1>8, <2>1, <2>4 DEF AwayIsSaved
<1> QED BY <1>10, <1>11, <1>12, <1>13, <1>14, <1>15, <1>16

-----------------------------------------------------------------------------
(* The changes an application makes are edits of the kind above. *)

(* Replica::observe is an edit: it keeps the invariant. *)
LEMMA ObserveKeepsIInv ==
    ASSUME IInv, NEW d \in Device, NEW s \in State, Observe(d, s)
    PROVE  IInv'
<1>1. rep[d].doc \in Doc
  BY Shapes DEF IInv
<1> DEFINE W == Writes(rep[d].doc, s)
           R == Retirements(rep[d].doc, s)
<1>2. W \in SUBSET Write /\ R \in SUBSET Rem /\ \A r \in R : \E a \in rep[d].doc.adds : a.tag = r.tag
  BY <1>1, ObservationFacts
<1>3. Running(d) /\ Edit(d, W, R)
  BY DEF Observe
<1> HIDE DEF W, R
<1> QED BY <1>2, <1>3, EditKeepsIInv

(* Resolving conflicts is an edit: it keeps the invariant. *)
LEMMA ResolveKeepsIInv ==
    ASSUME IInv, NEW d \in Device, Resolve(d)
    PROVE  IInv'
<1> DEFINE D == rep[d].doc
<1>1. D \in Doc
  BY Shapes DEF IInv
<1>2. ASSUME NEW c \in ValueConflicts(D), NEW v \in c.sides, ResolveValue(d, c, v)
      PROVE  IInv'
  <2>1. {<<c.place, v>>} \in SUBSET Write
    BY <1>1, ValueConflictFacts
  <2>2. c.place \in Place
    BY <2>1 DEF Write
  <2>3. /\ Retire(D, c.place, Value) \in SUBSET Rem
        /\ \A r \in Retire(D, c.place, Value) : \E a \in D.adds : a.tag = r.tag
    BY <1>1, <2>2, RetireFacts
  <2>4. Running(d) /\ Edit(d, {<<c.place, v>>}, Retire(D, c.place, Value))
    BY <1>2 DEF ResolveValue
  <2> QED BY <2>1, <2>3, <2>4, EditKeepsIInv
<1>3. ASSUME NEW c \in DeletedWhileEdited(D), ResolveKept(d, c) \/ ResolveDeleted(d, c)
      PROVE  IInv'
  <2>1. c.obj \in Obj
    BY DEF DeletedWhileEdited
  <2>2. {<<Presence(c.obj), Null>>} \in SUBSET Write /\ {} \in SUBSET Write /\ {} \in SUBSET Rem
    BY <2>1, PlaceFacts, ValueAssumption DEF Write
  <2>3. /\ Removal(D, c.obj) \in SUBSET Rem
        /\ \A r \in Removal(D, c.obj) : \E a \in D.adds : a.tag = r.tag
    BY <1>1, <2>1, RemovalFacts
  <2>4. CASE ResolveKept(d, c)
    BY <2>2, <2>4, EditKeepsIInv DEF ResolveKept
  <2>5. CASE ResolveDeleted(d, c)
    BY <2>2, <2>3, <2>5, EditKeepsIInv DEF ResolveDeleted
  <2> QED BY <1>3, <2>4, <2>5
<1> QED BY <1>2, <1>3 DEF Resolve

-----------------------------------------------------------------------------
(* The theorems. *)

(* Every step keeps the invariant, one case for each action. *)
LEMMA NextKeepsIInv ==
    ASSUME IInv, [Next]_vars
    PROVE  IInv'
<1>1. CASE \E d \in Device, i \in Id : Create(d, i)
  BY <1>1, CreateKeepsIInv
<1>2. CASE \E d, e \in Device, i \in Id : Fork(d, e, i)
  BY <1>2, ForkKeepsIInv
<1>3. CASE \E d \in Device, s \in State : Observe(d, s)
  BY <1>3, ObserveKeepsIInv
<1>4. CASE \E d \in Device : ObserveRefused(d)
  BY <1>4, ObserveRefusedKeepsIInv
<1>5. CASE \E d \in Device : Resolve(d)
  BY <1>5, ResolveKeepsIInv
<1>6. CASE \E d \in Device, m \in air : Merge(d, m)
  BY <1>6, MergeKeepsIInv
<1>7. CASE \E d \in Device : Send(d)
  BY <1>7, SendKeepsIInv
<1>8. CASE \E m \in air : Lose(m)
  BY <1>8, LoseKeepsIInv
<1>9. CASE \E d \in Device : Save(d)
  BY <1>9, SaveKeepsIInv
<1>10. CASE \E d \in Device : Crash(d)
  BY <1>10, CrashKeepsIInv
<1>11. CASE UNCHANGED vars
  BY <1>11 DEF vars, IInv, TypeOK, IdsAreHeldOnce, TagsComeFromUsedIds, CountersAhead,
               DiskIsBehind, OwnTagsKnown, AwayIsSaved, TagsAreUnique, Documents, Away, Running
<1> QED BY <1>1, <1>2, <1>3, <1>4, <1>5, <1>6, <1>7, <1>8, <1>9, <1>10, <1>11 DEF Next

(* What is in the air is covered by what its writer saved, so `merge` raises no alarm. *)
LEMMA IInvImpliesNoFalseCollision == IInv => NoFalseCollision
<1> SUFFICES ASSUME IInv, NEW d \in Device, Running(d), NEW m \in air
             PROVE  ~Collides(d, m) /\ Accepts(d, m)
  BY DEF NoFalseCollision
<1> USE DEF IInv
<1>1. m \in Documents /\ rep[d].doc \in Documents
  BY WhereDocumentsAre
<1>2. ASSUME NEW t \in Tags(m, rep[d].id)
      PROVE  ~CanLookForeign(rep[d].doc, m, t) /\ CanLookOwn(rep[d].doc, m, t)
  <2>0. t \in TagsOf(m) /\ t.id = rep[d].id
    BY DEF Tags
  <2>1. \E a \in rep[d].doc.adds : a.tag = t
    BY <1>1, <2>0, OwnTagsAreBehind
  <2>2. t \in TagsOf(rep[d].doc) /\ Named(rep[d].doc, t) # {}
    BY <2>1 DEF TagsOf, Named
  <2>3. \A x \in Named(m, t), y \in Named(rep[d].doc, t) : x = y
    BY <1>1 DEF Named, TagsAreUnique
  <2> QED BY <2>2, <2>3 DEF CanLookForeign, CanLookOwn
<1> QED BY <1>2 DEF Collides, Accepts

(* Documents whose tags are unique join alike in either order. *)
LEMMA IInvImpliesJoinCommutes == IInv => JoinCommutes
<1> SUFFICES ASSUME IInv, NEW D \in Documents, NEW E \in Documents
             PROVE  Join(D, E) = Join(E, D)
  BY DEF JoinCommutes
<1>1. D \in Doc /\ E \in Doc
  BY Shapes DEF IInv
<1>2. \A a \in D.adds, b \in E.adds : a.tag = b.tag => a = b
  BY DEF IInv, TagsAreUnique
<1>3. \A a \in E.adds, b \in D.adds : a.tag = b.tag => a = b
  BY <1>2
<1>4. Join(D, E).adds = D.adds \union E.adds /\ Join(E, D).adds = E.adds \union D.adds
  BY <1>1, <1>2, <1>3, JoinIsUnion
<1> QED BY <1>4 DEF Join

(* The counters clause of the invariant, for memory and disk. *)
LEMMA IInvImpliesCounterAhead == IInv => CounterAhead
BY DEF IInv, CountersAhead, CounterAhead, Loads, Tags

(* The invariant that carries the three theorems below: every tag in the    *)
(* world that names a replica's id is one the replica has saved or still    *)
(* holds, so neither a crash nor an old message can make it foreign.        *)
THEOREM InductiveInvariant == Spec => []IInv
<1>1. Init => IInv
  BY InitIInv
<1>2. IInv /\ [Next]_vars => IInv'
  BY NextKeepsIInv
<1> QED BY <1>1, <1>2, PTL DEF Spec

(* Every variable keeps the shape the code gives it: id_ an id, issued_ a   *)
(* number the format can hold, doc_ a document whose leaves are OR-Sets.    *)
THEOREM TypeCorrect == Spec => []TypeOK
<1>1. IInv => TypeOK
  BY DEF IInv
<1> QED BY <1>1, InductiveInvariant, PTL

(* `merge` never reports an identity collision to an application that saves *)
(* before it sends, whatever is lost, repeated, overtaken, forked or        *)
(* restored from the last save (replica.cpp, merge).                        *)
THEOREM NoFalseAlarm == Spec => []NoFalseCollision
BY IInvImpliesNoFalseCollision, InductiveInvariant, PTL

(* No tag ever names two adds, so the removal of one value cannot retire    *)
(* another (replica.cpp, Editor::mint).                                     *)
THEOREM TagsNameOneAdd == Spec => []TagsAreUnique
<1>1. IInv => TagsAreUnique
  BY DEF IInv
<1> QED BY <1>1, InductiveInvariant, PTL

(* The counter stays ahead of the document it stamps, in memory and on disk *)
(* (replica.cpp, merge and fork follow it, from_bytes demands it).          *)
THEOREM CounterStaysAhead == Spec => []CounterAhead
BY IInvImpliesCounterAhead, InductiveInvariant, PTL

(* Any two documents a run holds join to the same document in either order  *)
(* (orset.cpp and document.cpp, join).                                      *)
THEOREM OrderDoesNotMatter == Spec => []JoinCommutes
BY IInvImpliesJoinCommutes, InductiveInvariant, PTL

-----------------------------------------------------------------------------
(* Replicas as an implementation of Knowledge. *)

(* The delta of the last change is part of the document it changed. *)
OutboxIsKnown ==
    \A d \in Device :
        /\ outbox[d].adds \subseteq rep[d].doc.adds
        /\ outbox[d].rems \subseteq rep[d].doc.rems

(* No fact is both an add and a retired tag: their records differ. *)
LEMMA AddsAreNoRems == \A x \in Add : x \notin Rem
<1> SUFFICES ASSUME NEW x \in Add, x \in Rem PROVE FALSE
  OBVIOUS
<1>1. DOMAIN x = {"place", "tag", "val"}
  BY DEF Add
<1>2. DOMAIN x = {"place", "tag"}
  BY DEF Rem
<1> QED BY <1>1, <1>2

(* What is somewhere in Knowledge is in some document; an add among it is one *)
(* of that document's adds.                                                   *)
LEMMA WhereFactsAre ==
    ASSUME TypeOK, NEW y \in K!Somewhere, y \in Add
    PROVE  \E E \in Documents : E \in Doc /\ y \in E.adds
<1>1. \E E \in Documents : y \in Facts(E)
  BY DEF K!Somewhere, Known, Kept, Said, Documents
<1>2. PICK E \in Documents : y \in Facts(E)
  BY <1>1
<1>3. E \in Doc
  BY Shapes
<1> QED BY <1>2, <1>3, AddsAreNoRems DEF Facts, Doc

(* An edit adds what it writes and retires to the document, and nothing else. *)
LEMMA EditAddsTheDelta ==
    ASSUME IInv, NEW d \in Device, Running(d),
           NEW W \in SUBSET Write, NEW R \in SUBSET Rem,
           Edit(d, W, R)
    PROVE  \E delta \in Doc :
              /\ rep'[d].doc.adds = rep[d].doc.adds \union delta.adds
              /\ rep'[d].doc.rems = rep[d].doc.rems \union delta.rems
              /\ \A a \in delta.adds : a.tag.id = rep[d].id /\ a.tag.n > rep[d].issued
              /\ outbox'[d] \in {delta, EmptyDoc}
              /\ \A e \in Device \ {d} : rep'[e] = rep[e] /\ outbox'[e] = outbox[e]
              /\ UNCHANGED <<disk, air>>
<1> USE DEF IInv
<1> DEFINE D == rep[d].doc
           delta == Delta(D, rep[d].id, rep[d].issued, W, R)
           N == Join(D, delta)
<1>0. /\ D \in Doc /\ rep[d].id \in Id /\ rep[d].issued \in Nat /\ Cardinality(W) \in Nat
  BY Shapes, RankIsInjective, BoundAssumption DEF Running
<1>1. /\ delta \in Doc
      /\ \A a \in delta.adds : a.tag.id = rep[d].id
            /\ a.tag.n \in rep[d].issued + 1..rep[d].issued + Cardinality(W)
  BY <1>0, DeltaFacts
<1>2. /\ rep'[d].doc = N
      /\ \A e \in Device \ {d} : rep'[e] = rep[e]
  BY DEF Edit, TypeOK, Blob
<1>3. /\ outbox'[d] \in {delta, EmptyDoc}
      /\ \A e \in Device \ {d} : outbox'[e] = outbox[e]
      /\ UNCHANGED <<disk, air>>
  BY DEF Edit, TypeOK
<1> HIDE DEF delta
<1>4. \A a \in delta.adds : a.tag.n > rep[d].issued
  BY <1>0, <1>1
<1>5. \A t \in TagsOf(D) : t.n \in Nat /\ t.n <= rep[d].issued
  BY <1>0, TagFacts DEF CountersAhead, Tag
<1>6. \A a \in D.adds, b \in delta.adds : a.tag # b.tag
  BY <1>0, <1>4, <1>5, TagFacts
<1>7. N.adds = D.adds \union delta.adds /\ N.rems = D.rems \union delta.rems
  BY <1>0, <1>1, <1>6, JoinIsUnion
<1> HIDE DEF N
<1> QED BY <1>1, <1>2, <1>3, <1>4, <1>7

(* An edit makes facts that contradict none: their tags are new under an id   *)
(* whose tags, wherever they are, are behind the counter.                     *)
LEMMA EditMakes ==
    ASSUME IInv, OutboxIsKnown, NEW d \in Device, Running(d),
           NEW W \in SUBSET Write, NEW R \in SUBSET Rem,
           Edit(d, W, R)
    PROVE  K!Make(d) /\ OutboxIsKnown'
<1>1. PICK delta \in Doc :
              /\ rep'[d].doc.adds = rep[d].doc.adds \union delta.adds
              /\ rep'[d].doc.rems = rep[d].doc.rems \union delta.rems
              /\ \A a \in delta.adds : a.tag.id = rep[d].id /\ a.tag.n > rep[d].issued
              /\ outbox'[d] \in {delta, EmptyDoc}
              /\ \A e \in Device \ {d} : rep'[e] = rep[e] /\ outbox'[e] = outbox[e]
              /\ UNCHANGED <<disk, air>>
  BY EditAddsTheDelta
<1>2. Known' = [Known EXCEPT ![d] = Known'[d]]
  BY <1>1 DEF Known
<1>3. Known'[d] = Known[d] \union Facts(delta)
  BY <1>1 DEF Known, Facts
<1>4. UNCHANGED <<Kept, Said>>
  BY <1>1 DEF Kept, Said
<1>5. ASSUME NEW x \in Facts(delta), NEW y \in K!Somewhere, SameTag(x, y)
      PROVE  FALSE
  <2>1. x \in delta.adds
    BY <1>5, AddsAreNoRems DEF SameTag, Facts, Doc
  <2>2. PICK E \in Documents : E \in Doc /\ y \in E.adds
    BY <1>5, WhereFactsAre DEF SameTag, IInv
  <2>3. y.tag \in TagsOf(E) /\ y.tag.id = rep[d].id /\ y.tag.n > rep[d].issued
    BY <1>1, <1>5, <2>1, <2>2, TagFacts DEF SameTag
  <2>4. y.tag.n <= rep[d].issued
    BY <2>2, <2>3, OwnTagsAreBehind
  <2>5. y.tag.n \in Nat /\ rep[d].issued \in Nat
    BY <2>2, <2>3, TagFacts, Shapes, BoundAssumption DEF IInv, Tag
  <2> QED BY <2>3, <2>4, <2>5
<1>6. OutboxIsKnown'
  BY <1>1 DEF OutboxIsKnown, EmptyDoc
<1>7. K!Make(d)
  BY <1>2, <1>3, <1>4, <1>5 DEF K!Make
<1> QED BY <1>6, <1>7

(* Observing and resolving are edits. *)
LEMMA ObserveMakes ==
    ASSUME IInv, OutboxIsKnown, NEW d \in Device, NEW s \in State, Observe(d, s)
    PROVE  K!Make(d) /\ OutboxIsKnown'
<1> DEFINE W == Writes(rep[d].doc, s)
           R == Retirements(rep[d].doc, s)
<1>1. W \in SUBSET Write /\ R \in SUBSET Rem
  BY Shapes, ObservationFacts DEF IInv
<1>2. Running(d) /\ Edit(d, W, R)
  BY DEF Observe
<1> HIDE DEF W, R
<1> QED BY <1>1, <1>2, EditMakes

LEMMA ResolveMakes ==
    ASSUME IInv, OutboxIsKnown, NEW d \in Device, Resolve(d)
    PROVE  K!Make(d) /\ OutboxIsKnown'
<1> DEFINE D == rep[d].doc
<1>1. D \in Doc
  BY Shapes DEF IInv
<1>2. ASSUME NEW c \in ValueConflicts(D), NEW v \in c.sides, ResolveValue(d, c, v)
      PROVE  K!Make(d) /\ OutboxIsKnown'
  <2>1. {<<c.place, v>>} \in SUBSET Write /\ c.place \in Place
    BY <1>1, ValueConflictFacts DEF Write
  <2>2. Retire(D, c.place, Value) \in SUBSET Rem
    BY <1>1, <2>1, RetireFacts
  <2>3. Running(d) /\ Edit(d, {<<c.place, v>>}, Retire(D, c.place, Value))
    BY <1>2 DEF ResolveValue
  <2> QED BY <2>1, <2>2, <2>3, EditMakes
<1>3. ASSUME NEW c \in DeletedWhileEdited(D), ResolveKept(d, c) \/ ResolveDeleted(d, c)
      PROVE  K!Make(d) /\ OutboxIsKnown'
  <2>1. c.obj \in Obj
    BY DEF DeletedWhileEdited
  <2>2. {<<Presence(c.obj), Null>>} \in SUBSET Write /\ {} \in SUBSET Write /\ {} \in SUBSET Rem
    BY <2>1, PlaceFacts, ValueAssumption DEF Write
  <2>3. Removal(D, c.obj) \in SUBSET Rem
    BY <1>1, <2>1, RemovalFacts
  <2>4. CASE ResolveKept(d, c)
    BY <2>2, <2>4, EditMakes DEF ResolveKept
  <2>5. CASE ResolveDeleted(d, c)
    BY <2>2, <2>3, <2>5, EditMakes DEF ResolveDeleted
  <2> QED BY <1>3, <2>4, <2>5
<1> QED BY <1>2, <1>3 DEF Resolve

(* A merge is the union of two documents whose tags agree. *)
LEMMA MergeLearns ==
    ASSUME IInv, OutboxIsKnown, NEW d \in Device, NEW m \in air, Merge(d, m)
    PROVE  K!Learn(d) /\ OutboxIsKnown'
<1> DEFINE D == rep[d].doc
           N == Join(D, m)
<1>1. D \in Doc /\ m \in Doc /\ D \in Documents /\ m \in Documents
  BY Shapes, WhereDocumentsAre DEF IInv
<1>2. \A a \in D.adds, b \in m.adds : a.tag = b.tag => a = b
  BY <1>1 DEF IInv, TagsAreUnique
<1>3. N.adds = D.adds \union m.adds /\ N.rems = D.rems \union m.rems
  BY <1>1, <1>2, JoinIsUnion
<1>4. rep'[d].doc = N /\ \A e \in Device \ {d} : rep'[e] = rep[e]
  BY DEF Merge, IInv, TypeOK, Blob
<1>5. UNCHANGED <<disk, outbox, air>>
  BY DEF Merge
<1> HIDE DEF N
<1>6. Known' = [Known EXCEPT ![d] = @ \union Facts(m)]
  BY <1>3, <1>4 DEF Known, Facts
<1>7. Facts(m) \in Said /\ UNCHANGED <<Kept, Said>>
  BY <1>5 DEF Said, Kept
<1>8. OutboxIsKnown'
  BY <1>3, <1>4, <1>5 DEF OutboxIsKnown
<1> QED BY <1>6, <1>7, <1>8 DEF K!Learn

(* Creating a replica, burning a tag and forking in place show nothing; a     *)
(* fork elsewhere is a copy.                                                  *)
LEMMA OthersAreSilentOrCopy ==
    ASSUME IInv, OutboxIsKnown, NEW d \in Device, NEW e \in Device, NEW i \in Id,
           Create(d, i) \/ ObserveRefused(d) \/ Fork(d, e, i)
    PROVE  (UNCHANGED K!vars \/ K!Copy(e, d)) /\ OutboxIsKnown'
<1> USE DEF IInv
<1>1. CASE Create(d, i) \/ ObserveRefused(d) \/ (Fork(d, e, i) /\ e = d)
  <2>1. \A f \in Device : rep'[f].doc = rep[f].doc
    BY <1>1 DEF Create, ObserveRefused, Fork, TypeOK, Blob, DiskIsBehind, NoReplica
  <2>2. UNCHANGED <<disk, outbox, air>>
    BY <1>1 DEF Create, ObserveRefused, Fork
  <2> QED BY <2>1, <2>2 DEF K!vars, Known, Kept, Said, OutboxIsKnown
<1>2. CASE Fork(d, e, i) /\ e # d
  <2>1. /\ rep'[e].doc = rep[d].doc /\ \A f \in Device \ {e} : rep'[f] = rep[f]
        /\ UNCHANGED <<disk, outbox, air>>
        /\ rep[d] = disk[d] /\ rep[e] = NoReplica /\ disk[e] = NoReplica
    BY <1>2 DEF Fork, TypeOK, DiskIsBehind
  <2>2. Known' = [Known EXCEPT ![e] = Known[d]]
    BY <2>1 DEF Known
  <2>3. Kept[d] = Known[d] /\ Kept[e] = {} /\ UNCHANGED <<Kept, Said>>
    BY <2>1 DEF Kept, Known, Said, Facts, NoReplica, EmptyDoc
  <2>4. OutboxIsKnown'
    BY <2>1 DEF OutboxIsKnown, NoReplica, EmptyDoc
  <2> QED BY <2>2, <2>3, <2>4 DEF K!Copy
<1> QED BY <1>1, <1>2

(* Sending says a part of what was saved. *)
LEMMA SendSays ==
    ASSUME IInv, OutboxIsKnown, NEW d \in Device, Send(d)
    PROVE  K!Say(d) /\ OutboxIsKnown'
<1>1. PICK m \in {rep[d].doc, outbox[d]} : air' = air \union {m}
  BY DEF Send, Put
<1>2. UNCHANGED <<rep, disk, outbox>> /\ rep[d] = disk[d]
  BY DEF Send, Put, Saved
<1>3. Facts(m) \subseteq Known[d] /\ Kept[d] = Known[d] /\ UNCHANGED <<Known, Kept>>
  BY <1>2 DEF Known, Kept, Facts, OutboxIsKnown
<1>4. Said' = Said \union {Facts(m)}
  BY <1>1 DEF Said
<1>5. OutboxIsKnown'
  BY <1>2 DEF OutboxIsKnown
<1> QED BY <1>3, <1>4, <1>5 DEF K!Say

(* Losing a message, saving and crashing are what Knowledge calls them. *)
LEMMA LoseFades ==
    ASSUME OutboxIsKnown, NEW m \in air, Lose(m)
    PROVE  K!Fade /\ OutboxIsKnown'
BY DEF Lose, K!Fade, Known, Kept, Said, OutboxIsKnown

LEMMA SaveKeeps ==
    ASSUME IInv, OutboxIsKnown, NEW d \in Device, Save(d)
    PROVE  K!Keep(d) /\ OutboxIsKnown'
<1>1. Kept' = [Kept EXCEPT ![d] = Known[d]]
  BY DEF Save, Kept, Known, IInv, TypeOK
<1> QED BY <1>1 DEF Save, K!Keep, Known, Said, OutboxIsKnown

LEMMA CrashFallsBack ==
    ASSUME IInv, OutboxIsKnown, NEW d \in Device, Crash(d)
    PROVE  K!FallBack(d) /\ OutboxIsKnown'
<1>1. Loads(disk[d])
  BY DEF IInv, CountersAhead, Loads, Tags
<1>2. rep' = [rep EXCEPT ![d] = disk[d]]
  BY <1>1 DEF Crash
<1>3. Known' = [Known EXCEPT ![d] = Kept[d]]
  BY <1>2 DEF Known, Kept, IInv, TypeOK
<1>4. UNCHANGED <<Kept, Said>>
  BY DEF Crash, Kept, Said
<1>5. OutboxIsKnown'
  BY <1>2 DEF Crash, OutboxIsKnown, IInv, TypeOK, EmptyDoc
<1> QED BY <1>3, <1>4, <1>5 DEF K!FallBack

-----------------------------------------------------------------------------
(* The theorems. *)

(* At the start nobody knows anything. *)
LEMMA InitKnowsNothing == Init => K!Init /\ OutboxIsKnown
BY DEF Init, NoReplica, EmptyDoc, K!Init, Known, Kept, Said, Facts, OutboxIsKnown

(* Every step of the replicas is a step of Knowledge, or shows nothing. *)
LEMMA NextImplements ==
    ASSUME IInv, OutboxIsKnown, [Next]_vars
    PROVE  [K!Next]_K!vars /\ OutboxIsKnown'
<1>1. CASE \E d \in Device, i \in Id : Create(d, i)
  BY <1>1, OthersAreSilentOrCopy DEF K!Next
<1>2. CASE \E d, e \in Device, i \in Id : Fork(d, e, i)
  BY <1>2, OthersAreSilentOrCopy DEF K!Next
<1>3. CASE \E d \in Device, s \in State : Observe(d, s)
  BY <1>3, ObserveMakes DEF K!Next
<1>4. CASE \E d \in Device : ObserveRefused(d)
  <2>1. \A i \in Id : (UNCHANGED K!vars \/ K!Next) /\ OutboxIsKnown'
    BY <1>4, OthersAreSilentOrCopy DEF K!Next
  <2>2. \E i \in Id : TRUE
    BY <1>4, Shapes DEF ObserveRefused, Running, IInv
  <2> QED BY <2>1, <2>2
<1>5. CASE \E d \in Device : Resolve(d)
  BY <1>5, ResolveMakes DEF K!Next
<1>6. CASE \E d \in Device, m \in air : Merge(d, m)
  BY <1>6, MergeLearns DEF K!Next
<1>7. CASE \E d \in Device : Send(d)
  BY <1>7, SendSays DEF K!Next
<1>8. CASE \E m \in air : Lose(m)
  BY <1>8, LoseFades DEF K!Next
<1>9. CASE \E d \in Device : Save(d)
  BY <1>9, SaveKeeps DEF K!Next
<1>10. CASE \E d \in Device : Crash(d)
  BY <1>10, CrashFallsBack DEF K!Next
<1>11. CASE UNCHANGED vars
  BY <1>11 DEF vars, K!vars, Known, Kept, Said, OutboxIsKnown
<1> QED BY <1>1, <1>2, <1>3, <1>4, <1>5, <1>6, <1>7, <1>8, <1>9, <1>10, <1>11 DEF Next

(* Replicas that observe, save, send and merge as replica.hpp says implement  *)
(* Knowledge: a merge only adds to what a device knows, a crash takes it back *)
(* to its last save and no further, and no two facts ever contradict.         *)
THEOREM ReplicasImplementKnowledge == Spec => ImplementsKnowledge
<1>1. Init => K!Init /\ IInv /\ OutboxIsKnown
  BY InitKnowsNothing, InitIInv
<1>2. IInv /\ OutboxIsKnown /\ [Next]_vars
        => IInv' /\ OutboxIsKnown' /\ [K!Next]_K!vars
  BY NextKeepsIInv, NextImplements
<1> QED BY <1>1, <1>2, PTL DEF Spec, ImplementsKnowledge, K!Spec

(* Whatever is under way anywhere, some device has saved: what a peer has     *)
(* merged can never turn out to have been forgotten by everyone who made it   *)
(* (replica.hpp, the loop: save before send).                                 *)
THEOREM NothingSaidIsEverLost == Spec => []K!NothingSaidIsLost
<1>1. Init => IInv /\ OutboxIsKnown /\ K!NothingSaidIsLost
  BY InitIInv, InitKnowsNothing DEF K!Init, K!NothingSaidIsLost
<1>2. ASSUME IInv, OutboxIsKnown, K!NothingSaidIsLost, [Next]_vars
      PROVE  IInv' /\ OutboxIsKnown' /\ K!NothingSaidIsLost'
  <2>1. IInv' /\ OutboxIsKnown' /\ [K!Next]_K!vars
    BY <1>2, NextKeepsIInv, NextImplements
  <2>2. \A d \in Device : Kept[d] \subseteq Known[d]
    BY <1>2 DEF IInv, DiskIsBehind, Kept, Known, Facts
  <2>3. \A d \in Device : Kept[d] \subseteq Kept'[d]
    <3>1. CASE UNCHANGED Kept
      BY <3>1
    <3>2. CASE \E d \in Device : K!Keep(d)
      BY <2>2, <3>2 DEF K!Keep, Kept
    <3> QED BY <2>1, <3>1, <3>2 DEF K!Next, K!vars, K!Make, K!Learn, K!Say, K!FallBack,
                                     K!Copy, K!Fade
  <2>4. \A piece \in Said' : \E d \in Device : piece \subseteq Kept[d]
    <3>1. CASE Said' \subseteq Said
      BY <1>2, <3>1 DEF K!NothingSaidIsLost
    <3>2. CASE \E d \in Device : K!Say(d)
      BY <1>2, <3>2 DEF K!Say, K!NothingSaidIsLost
    <3> QED BY <2>1, <3>1, <3>2 DEF K!Next, K!vars, K!Make, K!Learn, K!Keep, K!FallBack,
                                     K!Copy, K!Fade
  <2>5. K!NothingSaidIsLost'
    BY <2>3, <2>4 DEF K!NothingSaidIsLost
  <2> QED BY <2>1, <2>5
<1> QED BY <1>1, <1>2, PTL DEF Spec

-----------------------------------------------------------------------------
(* The invariant: every fork has a sound document, its counter has passed    *)
(* every tag in it, what was written under its id it has, and what a writer  *)
(* wrote later in a register retired what it wrote there before.             *)

PresenceWasWritten(D) ==
    \A r \in D.rems : \A o \in Obj : r.place = Presence(o) => AddsAt(D, r.place) # {}

(* In D a write of a register retired what the same writer wrote there       *)
(* before, in D or in E.                                                     *)
ReplacesOwn(D, E) ==
    \A p \in Reg : \A a \in AddsAt(D, p), b \in AddsAt(E, p) :
        a.tag.id = b.tag.id /\ b.tag.n < a.tag.n => [place |-> p, tag |-> b.tag] \in D.rems

AgreeOnTags(D, E) == \A a \in D.adds, b \in E.adds : a.tag = b.tag => a = b

Forks ==
    /\ rep \in [Device -> [id : Id, issued : 0..MaxIssued, doc : Doc]]
    /\ \A d \in Device : rep[d].id = IdOn[d]

DocumentsSound ==
    \A d \in Device : Sound(rep[d].doc) /\ PresenceWasWritten(rep[d].doc)

CountersPassed ==
    \A d \in Device : \A t \in TagsOf(rep[d].doc) : t.n <= rep[d].issued

OwnWritesKept ==
    \A d, e \in Device : \A a \in rep[e].doc.adds : a.tag.id = rep[d].id => a \in rep[d].doc.adds

DocumentsAgree ==
    \A d, e \in Device : AgreeOnTags(rep[d].doc, rep[e].doc)

WritersReplace ==
    \A d, e \in Device : ReplacesOwn(rep[d].doc, rep[e].doc)

NothingElseAround ==
    /\ disk = [d \in Device |-> NoReplica] /\ air = {}
    /\ outbox \in [Device -> Doc]
    /\ \A d \in Device : outbox[d].adds \subseteq rep[d].doc.adds

DInv ==
    /\ Forks /\ DocumentsSound /\ CountersPassed /\ OwnWritesKept
    /\ DocumentsAgree /\ WritersReplace /\ NothingElseAround

-----------------------------------------------------------------------------
(* Steps. *)

(* An edit of a fork keeps the invariant.                                    *)
LEMMA EditKeepsDInv ==
    ASSUME DInv, NEW d \in Device, NEW W, NEW R,
           Proper(rep[d].doc, W, R), Edit(d, W, R)
    PROVE  DInv'
<1> DEFINE D == rep[d].doc
           i == rep[d].id
           n == rep[d].issued
           M == Minted(W, i, n)
           delta == Delta(D, i, n, W, R)
           E == Join(D, delta)
           k == n + Cardinality(W)
<1>0. /\ Sound(D) /\ D \in Doc /\ PresenceWasWritten(D) /\ i \in Id /\ i = IdOn[d]
      /\ n \in Nat /\ MaxIssued \in Nat
      /\ W \in SUBSET Write /\ R \in SUBSET Rem /\ HoldsTags(D, R)
      /\ Cardinality(W) \in Nat /\ k \in 0..MaxIssued
  <2>1. i \in Id /\ i = IdOn[d] /\ n \in 0..MaxIssued /\ MaxIssued \in Nat
    BY BoundAssumption DEF DInv, Forks
  <2>2. W \in SUBSET Write /\ R \in SUBSET Rem /\ HoldsTags(D, R)
    BY DEF Proper
  <2>3. Cardinality(W) \in Nat /\ k <= MaxIssued
    BY <2>2, RankIsInjective DEF Edit
  <2> QED BY <2>1, <2>2, <2>3 DEF DInv, DocumentsSound, Sound
<1>1. \A t \in TagsOf(D) : t.n \in Nat /\ t.n <= n /\ t.n <= k
  <2>1. \A t \in TagsOf(D) : t.n \in Nat /\ t.n <= n
    BY <1>0, TagFacts DEF DInv, CountersPassed, Tag
  <2> QED BY <1>0, <2>1
<1>2. /\ M \in SUBSET Add
      /\ \A a \in M : /\ <<a.place, a.val>> \in W
                      /\ a.tag.id = i /\ a.tag.n \in Nat /\ a.tag.n > n /\ a.tag.n <= k
      /\ \A a, b \in M : a.place = b.place /\ a.val = b.val => a = b
  BY <1>0, MintedFacts
<1>3. E \in Doc /\ E.adds = D.adds \union M
  <2>1. /\ D \in Doc /\ i \in Id /\ n \in Nat
        /\ W \in SUBSET Write /\ R \in SUBSET Rem /\ HoldsTags(D, R)
    BY <1>0
  <2>2. Passed(D, n)
    BY <1>1 DEF Passed
  <2>3. E = Join(D, Delta(D, i, n, W, R)) /\ M = Minted(W, i, n)
    OBVIOUS
  <2> HIDE DEF D, i, n, M, E
  <2>4. /\ Join(D, Delta(D, i, n, W, R)) \in Doc
        /\ Join(D, Delta(D, i, n, W, R)).adds = D.adds \union Minted(W, i, n)
    BY <2>1, <2>2, AddsAfterEdit
  <2> QED BY <2>3, <2>4
<1>4. E.adds = D.adds \union M
  BY <1>3
<1>5. E.rems = D.rems \union R
  BY DEF Join, Delta
<1>6. Sound(E)
  BY <1>0, <1>1, EditKeepsSound
<1>7. delta.adds = M /\ delta \in Doc
  BY <1>0, <1>2 DEF Delta, Doc
<1>8. rep' = [rep EXCEPT ![d].issued = k, ![d].doc = E]
  BY DEF Edit, DInv, Forks
<1>9. /\ UNCHANGED <<disk, air>>
      /\ outbox' = [outbox EXCEPT ![d] = IF Deltas THEN delta ELSE EmptyDoc]
  BY DEF Edit
<1> HIDE DEF M, delta, E, k
<1>10. /\ rep'[d].id = i /\ rep'[d].issued = k /\ rep'[d].doc = E
       /\ \A e \in Device \ {d} : rep'[e] = rep[e]
       /\ Forks'
  <2>1. rep \in [Device -> [id : Id, issued : 0..MaxIssued, doc : Doc]]
    BY DEF DInv, Forks
  <2>2. rep'[d] = [id |-> i, issued |-> k, doc |-> E]
    BY <1>8, <2>1
  <2>3. \A e \in Device \ {d} : rep'[e] = rep[e]
    BY <1>8, <2>1
  <2>4. rep'[d] \in [id : Id, issued : 0..MaxIssued, doc : Doc]
    BY <1>0, <1>3, <2>2
  <2>5. rep' \in [Device -> [id : Id, issued : 0..MaxIssued, doc : Doc]]
    BY <1>8, <2>1, <2>3, <2>4
  <2>6. \A e \in Device : rep'[e].id = IdOn[e]
    BY <1>0, <2>2, <2>3 DEF DInv, Forks
  <2> QED BY <2>2, <2>3, <2>5, <2>6 DEF Forks
<1>11. \A e \in Device : rep'[e].id = rep[e].id
  BY <1>10
<1>12. \A p : AddsAt(D, p) \subseteq AddsAt(E, p)
  BY <1>4 DEF AddsAt
<1>13. DocumentsSound'
  <2>1. PresenceWasWritten(E)
    <3> SUFFICES ASSUME NEW r \in E.rems, NEW o \in Obj, r.place = Presence(o)
                 PROVE  AddsAt(E, r.place) # {}
      BY DEF PresenceWasWritten
    <3>1. CASE r \in D.rems
      BY <1>0, <1>12, <3>1 DEF PresenceWasWritten
    <3>2. CASE r \in R
      BY <1>12, <3>2 DEF Proper
    <3> QED BY <1>5, <3>1, <3>2
  <2> QED BY <1>6, <1>10, <2>1 DEF DInv, DocumentsSound
<1>14. CountersPassed'
  <2>1. \A t \in TagsOf(E) : t \in TagsOf(D) \/ \E a \in M : t = a.tag
    BY <1>0, <1>4, <1>5, TagFacts DEF TagsOf, HoldsTags
  <2>2. \A t \in TagsOf(E) : t.n <= k
    BY <1>1, <1>2, <2>1
  <2> QED BY <1>10, <2>2 DEF DInv, CountersPassed
<1>15. \A e \in Device : \A a \in rep[e].doc.adds : a.tag.id = i => a \in D.adds /\ a.tag \in TagsOf(D)
  BY <1>0, TagFacts DEF DInv, OwnWritesKept
<1>16. OwnWritesKept'
  <2> SUFFICES ASSUME NEW x \in Device, NEW y \in Device,
                      NEW a \in rep'[y].doc.adds, a.tag.id = rep[x].id
               PROVE  a \in rep'[x].doc.adds
    BY <1>11 DEF OwnWritesKept
  <2>1. \A z \in Device : rep[z].doc.adds \subseteq rep'[z].doc.adds
    BY <1>4, <1>10
  <2>2. CASE a \in rep[y].doc.adds
    BY <2>1, <2>2 DEF DInv, OwnWritesKept
  <2>3. CASE y = d /\ a \in M
    <3>1. x = d
      BY <1>0, <1>2, <2>3, ForkAssumption DEF DInv, Forks
    <3> QED BY <1>4, <1>10, <2>3, <3>1
  <2> QED BY <1>4, <1>10, <2>2, <2>3
<1>17. DocumentsAgree'
  <2>1. ASSUME NEW e \in Device, NEW a \in E.adds, NEW b \in rep[e].doc.adds, a.tag = b.tag
        PROVE  a = b
    <3>1. CASE a \in D.adds
      BY <2>1, <3>1 DEF DInv, DocumentsAgree, AgreeOnTags
    <3>2. CASE a \in M
      <4>1. b.tag \in TagsOf(D) /\ b.tag.n > n
        BY <1>2, <1>15, <2>1, <3>2
      <4> QED BY <1>0, <1>1, <4>1
    <3> QED BY <1>4, <3>1, <3>2
  <2>2. \A a, b \in E.adds : a.tag = b.tag => a = b
    BY <1>6 DEF Sound, OneAddPerTag
  <2>3. ASSUME NEW x \in Device, NEW y \in Device PROVE AgreeOnTags(rep'[x].doc, rep'[y].doc)
    <3>1. CASE x = d /\ y = d
      BY <1>10, <2>2, <3>1 DEF AgreeOnTags
    <3>2. CASE x = d /\ y # d
      BY <1>10, <2>1, <3>2 DEF AgreeOnTags
    <3>3. CASE x # d /\ y = d
      BY <1>10, <2>1, <3>3 DEF AgreeOnTags
    <3>4. CASE x # d /\ y # d
      BY <1>10, <3>4 DEF DInv, DocumentsAgree
    <3> QED BY <3>1, <3>2, <3>3, <3>4
  <2> QED BY <2>3 DEF DocumentsAgree
<1>18. WritersReplace'
  <2>1. ASSUME NEW e \in Device, NEW p \in Reg,
               NEW a \in AddsAt(E, p), NEW b \in AddsAt(rep[e].doc, p),
               a.tag.id = b.tag.id, b.tag.n < a.tag.n
        PROVE  [place |-> p, tag |-> b.tag] \in E.rems
    <3>1. CASE a \in D.adds
      <4>1. a \in AddsAt(D, p)
        BY <3>1 DEF AddsAt
      <4> QED BY <1>5, <2>1, <4>1 DEF DInv, WritersReplace, ReplacesOwn
    <3>2. CASE a \in M
      <4>1. a.tag.id = i /\ <<p, a.val>> \in W
        BY <1>2, <3>2 DEF AddsAt
      <4>2. b \in AddsAt(D, p) /\ b.val \in Value
        BY <1>0, <1>15, <2>1, <4>1 DEF AddsAt, Doc, Add
      <4>3. [place |-> p, tag |-> b.tag] \in Retire(D, p, Value)
        BY <4>2, RetireAtItsPlace
      <4> QED BY <1>5, <4>1, <4>3 DEF Proper
    <3> QED BY <1>4, <3>1, <3>2 DEF AddsAt
  <2>2. ASSUME NEW e \in Device, NEW p \in Reg,
               NEW a \in AddsAt(rep[e].doc, p), NEW b \in AddsAt(E, p), b \in M,
               a.tag.id = b.tag.id, b.tag.n < a.tag.n
        PROVE  FALSE
    <3>1. a.tag \in TagsOf(D) /\ b.tag.n > n /\ b.tag.n \in Nat
      BY <1>2, <1>15, <2>2 DEF AddsAt
    <3> QED BY <1>0, <1>1, <2>2, <3>1
  <2>3. ASSUME NEW p \in Reg, NEW a \in AddsAt(E, p), NEW b \in AddsAt(E, p), b \in M,
               a.tag.id = b.tag.id, b.tag.n < a.tag.n
        PROVE  FALSE
    <3>1. CASE a \in D.adds
      BY <2>2, <2>3, <3>1 DEF AddsAt
    <3>2. CASE a \in M
      <4>1. a.place = p /\ b.place = p /\ <<p, a.val>> \in W /\ <<p, b.val>> \in W
        BY <1>2, <2>3, <3>2 DEF AddsAt
      <4>2. a.val = b.val
        BY <4>1 DEF Proper
      <4>3. a = b
        BY <1>2, <2>3, <3>2, <4>1, <4>2
      <4>4. b.tag.n \in Nat
        BY <1>2, <2>3
      <4> QED BY <2>3, <4>3, <4>4
    <3> QED BY <1>4, <3>1, <3>2 DEF AddsAt
  <2>4. \A p : \A b \in AddsAt(E, p) : b \in AddsAt(D, p) \/ b \in M
    BY <1>4 DEF AddsAt
  <2>5. ASSUME NEW x \in Device, NEW y \in Device PROVE ReplacesOwn(rep'[x].doc, rep'[y].doc)
    <3>1. CASE x = d /\ y = d
      BY <1>10, <2>1, <2>3, <2>4, <3>1 DEF ReplacesOwn
    <3>2. CASE x = d /\ y # d
      BY <1>10, <2>1, <3>2 DEF ReplacesOwn
    <3>3. CASE x # d /\ y = d
      BY <1>10, <2>2, <2>4, <3>3 DEF DInv, WritersReplace, ReplacesOwn
    <3>4. CASE x # d /\ y # d
      BY <1>10, <3>4 DEF DInv, WritersReplace
    <3> QED BY <3>1, <3>2, <3>3, <3>4
  <2> QED BY <2>5 DEF WritersReplace
<1>19. NothingElseAround'
  <2>1. EmptyDoc \in Doc /\ EmptyDoc.adds = {}
    BY DEF EmptyDoc, Doc
  <2>2. outbox'[d] \in {delta, EmptyDoc} /\ outbox' \in [Device -> Doc]
        /\ \A e \in Device \ {d} : outbox'[e] = outbox[e]
    BY <1>7, <1>9, <2>1 DEF DInv, NothingElseAround
  <2>3. outbox'[d].adds \subseteq E.adds
    BY <1>4, <1>7, <2>1, <2>2
  <2> QED BY <1>9, <1>10, <2>2, <2>3 DEF DInv, NothingElseAround
<1> QED BY <1>10, <1>13, <1>14, <1>16, <1>17, <1>18, <1>19 DEF DInv

(* Two sound documents that agree on their tags join to their union, and it  *)
(* is sound.                                                                 *)
LEMMA JoinKeepsSound ==
    ASSUME NEW D, NEW F, Sound(D), Sound(F), AgreeOnTags(D, F)
    PROVE  /\ Sound(Join(D, F))
           /\ Join(D, F).adds = D.adds \union F.adds
           /\ Join(D, F).rems = D.rems \union F.rems
<1> DEFINE E == Join(D, F)
<1>0. /\ D \in Doc /\ F \in Doc /\ IsFiniteSet(D.adds) /\ IsFiniteSet(F.adds)
      /\ OneAddPerTag(D) /\ OneAddPerTag(F)
      /\ FixedAreWritten(D) /\ FixedAreWritten(F)
      /\ FixedAreReplaced(D) /\ FixedAreReplaced(F)
      /\ \A a \in D.adds, b \in F.adds : a.tag = b.tag => a = b
  BY DEF Sound, AgreeOnTags
<1>1. E \in Doc /\ E.rems = D.rems \union F.rems
  BY <1>0, JoinIsUnion
<1>2. E.adds = D.adds \union F.adds
  BY <1>0, JoinIsUnion
<1> HIDE DEF E
<1>3. IsFiniteSet(E.adds)
  <2>1. IsFiniteSet(D.adds) /\ IsFiniteSet(F.adds)
    BY <1>0
  <2>2. IsFiniteSet(D.adds \union F.adds)
    BY <2>1, FS_Union
  <2> QED BY <1>2, <2>2
<1>4. OneAddPerTag(E)
  BY <1>0, <1>2 DEF OneAddPerTag
<1>5. \A p : AddsAt(E, p) = AddsAt(D, p) \union AddsAt(F, p)
  BY <1>2 DEF AddsAt
<1>6. FixedAreWritten(E)
  BY <1>0, <1>5 DEF FixedAreWritten
<1>7. FixedAreReplaced(E)
  BY <1>0, <1>1, <1>5 DEF FixedAreReplaced
<1> QED BY <1>1, <1>2, <1>3, <1>4, <1>6, <1>7 DEF Sound, E

(* Merging another fork's document keeps the invariant.                      *)
LEMMA MergeKeepsDInv ==
    ASSUME DInv, NEW d \in Device, NEW e \in Device, Merge(d, rep[e].doc)
    PROVE  DInv'
<1> DEFINE D == rep[d].doc
           F == rep[e].doc
           E == Join(D, F)
           high == HighestCounter(F)
           n == rep[d].issued
           k == IF high > n THEN high ELSE n
<1>0. /\ Sound(D) /\ PresenceWasWritten(D) /\ Sound(F) /\ PresenceWasWritten(F)
      /\ D \in Doc /\ F \in Doc /\ AgreeOnTags(D, F)
      /\ n \in 0..MaxIssued /\ MaxIssued \in Nat
      /\ rep[e].issued \in 0..MaxIssued
      /\ rep \in [Device -> [id : Id, issued : 0..MaxIssued, doc : Doc]]
  BY BoundAssumption DEF DInv, Forks, DocumentsSound, DocumentsAgree, Sound
<1>1. Sound(E) /\ E.adds = D.adds \union F.adds /\ E.rems = D.rems \union F.rems
  BY <1>0, JoinKeepsSound
<1>2. \A t \in TagsOf(D) : t.n \in Nat /\ t.n <= n
  BY <1>0, TagFacts DEF DInv, CountersPassed, Tag
<1>3. \A t \in TagsOf(F) : t.n \in Nat /\ t.n <= MaxIssued
  <2>1. \A t \in TagsOf(F) : t.n \in Nat /\ t.n <= rep[e].issued
    BY <1>0, TagFacts DEF DInv, CountersPassed, Tag
  <2> QED BY <1>0, <2>1
<1>4. high \in 0..MaxIssued /\ \A t \in TagsOf(F) : t.n <= high
  BY <1>0, <1>3, HighestCounterFacts
<1>5. rep' = [rep EXCEPT ![d].issued = k, ![d].doc = E] /\ UNCHANGED <<disk, outbox, air>>
  BY <1>0 DEF Merge
<1> HIDE DEF E, high
<1>6. k \in 0..MaxIssued /\ high <= k /\ n <= k
  BY <1>0, <1>4
<1> HIDE DEF k
<1>7. /\ rep'[d].id = rep[d].id /\ rep'[d].issued = k /\ rep'[d].doc = E
      /\ \A z \in Device \ {d} : rep'[z] = rep[z]
      /\ Forks'
  <2>1. rep'[d] = [id |-> rep[d].id, issued |-> k, doc |-> E]
    BY <1>0, <1>5
  <2>2. \A z \in Device \ {d} : rep'[z] = rep[z]
    BY <1>0, <1>5
  <2>3. rep'[d] \in [id : Id, issued : 0..MaxIssued, doc : Doc]
    BY <1>0, <1>1, <1>6, <2>1 DEF Sound
  <2>4. rep' \in [Device -> [id : Id, issued : 0..MaxIssued, doc : Doc]]
    BY <1>0, <1>5, <2>2, <2>3
  <2>5. \A z \in Device : rep'[z].id = IdOn[z]
    BY <2>1, <2>2 DEF DInv, Forks
  <2> QED BY <2>1, <2>2, <2>4, <2>5 DEF Forks
<1>8. \A p : AddsAt(E, p) = AddsAt(D, p) \union AddsAt(F, p)
  BY <1>1 DEF AddsAt
<1>9. DocumentsSound'
  <2>1. PresenceWasWritten(E)
    BY <1>0, <1>1, <1>8 DEF PresenceWasWritten
  <2> QED BY <1>1, <1>7, <2>1 DEF DInv, DocumentsSound
<1>10. CountersPassed'
  <2>1. \A t \in TagsOf(E) : t \in TagsOf(D) \/ t \in TagsOf(F)
    BY <1>1 DEF TagsOf
  <2>2. \A t \in TagsOf(E) : t.n <= k
    <3> SUFFICES ASSUME NEW t \in TagsOf(E) PROVE t.n <= k
      OBVIOUS
    <3>1. t.n \in Nat /\ (t.n <= n \/ t.n <= high)
      BY <1>2, <1>3, <1>4, <2>1
    <3> QED BY <1>0, <1>4, <1>6, <3>1
  <2> QED BY <1>7, <2>2 DEF DInv, CountersPassed
<1>11. \A y \in Device : \A a \in rep'[y].doc.adds : \E z \in Device : a \in rep[z].doc.adds
  BY <1>1, <1>7
<1>12. \A z \in Device : rep[z].doc.adds \subseteq rep'[z].doc.adds
  BY <1>1, <1>7
<1>13. OwnWritesKept'
  <2>1. \A z \in Device : rep'[z].id = rep[z].id
    BY <1>7
  <2> QED BY <1>11, <1>12, <2>1 DEF DInv, OwnWritesKept
<1>14. DocumentsAgree'
  BY <1>11 DEF DInv, DocumentsAgree, AgreeOnTags
<1>15. WritersReplace'
  <2>1. \A y \in Device : \A p : \A a \in AddsAt(rep'[y].doc, p) :
            \E z \in Device : /\ a \in AddsAt(rep[z].doc, p)
                             /\ rep[z].doc.rems \subseteq rep'[y].doc.rems
    <3> SUFFICES ASSUME NEW y \in Device, NEW p, NEW a \in AddsAt(rep'[y].doc, p)
                 PROVE  \E z \in Device : /\ a \in AddsAt(rep[z].doc, p)
                                         /\ rep[z].doc.rems \subseteq rep'[y].doc.rems
      OBVIOUS
    <3>1. CASE y # d
      BY <1>7, <3>1
    <3>2. CASE y = d
      BY <1>1, <1>7, <1>8, <3>2
    <3> QED BY <3>1, <3>2
  <2> SUFFICES ASSUME NEW x \in Device, NEW y \in Device, NEW p \in Reg,
                      NEW a \in AddsAt(rep'[x].doc, p), NEW b \in AddsAt(rep'[y].doc, p),
                      a.tag.id = b.tag.id, b.tag.n < a.tag.n
               PROVE  [place |-> p, tag |-> b.tag] \in rep'[x].doc.rems
    BY DEF WritersReplace, ReplacesOwn
  <2>2. PICK u \in Device : a \in AddsAt(rep[u].doc, p) /\ rep[u].doc.rems \subseteq rep'[x].doc.rems
    BY <2>1
  <2>3. PICK v \in Device : b \in AddsAt(rep[v].doc, p)
    BY <2>1
  <2> QED BY <2>2, <2>3 DEF DInv, WritersReplace, ReplacesOwn
<1>16. NothingElseAround'
  <2>1. \A z \in Device : outbox[z].adds \subseteq rep'[z].doc.adds
    BY <1>12 DEF DInv, NothingElseAround
  <2> QED BY <1>5, <2>1 DEF DInv, NothingElseAround
<1> QED BY <1>7, <1>9, <1>10, <1>13, <1>14, <1>15, <1>16 DEF DInv

(* One change to a state an application can hold makes another one.          *)
LEMMA NearbyAreStates ==
    ASSUME NEW s \in State, NEW t \in Nearby(s)
    PROVE  t \in State
<1>0. /\ s \in [live : SUBSET Obj, reg : [Reg -> Value \union {Absent}], bag : [Bag -> SUBSET Value]]
      /\ \A o \in s.live : Parent[o] \in s.live \union {Root}
      /\ \A p \in Reg : p[1] \notin s.live => s.reg[p] = Absent
      /\ \A p \in Fixed : p[1] \in s.live => s.reg[p] # Absent
      /\ \A p \in Bag : p[1] \notin s.live => s.bag[p] = {}
  BY DEF State, IsState
<1>1. Absent \notin Value /\ Fixed \subseteq Reg
  BY ValueAssumption DEF Absent, Reg
<1>2. ASSUME NEW live \in SUBSET Obj, NEW reg \in [Reg -> Value \union {Absent}],
             NEW bag \in [Bag -> SUBSET Value],
             t = [live |-> live, reg |-> reg, bag |-> bag],
             \A o \in live : Parent[o] \in live \union {Root},
             \A p \in Reg : p[1] \notin live => reg[p] = Absent,
             \A p \in Fixed : p[1] \in live => reg[p] # Absent,
             \A p \in Bag : p[1] \notin live => bag[p] = {}
      PROVE  t \in State
  BY <1>2 DEF State, IsState
<1>3. ASSUME NEW o \in s.live, t = Without(s, o) PROVE t \in State
  <2> DEFINE live == {q \in s.live : q # o /\ Parent[q] # o}
             reg == [p \in Reg |-> IF p[1] \in live THEN s.reg[p] ELSE Absent]
             bag == [p \in Bag |-> IF p[1] \in live THEN s.bag[p] ELSE {}]
  <2>1. live \in SUBSET Obj
    BY <1>0
  <2>2. ASSUME NEW q \in live PROVE Parent[q] \in live \union {Root}
    <3>1. q \in Obj /\ Parent[q] \in s.live \union {Root} /\ Parent[q] # o
      BY <1>0
    <3>2. Parent[q] # Root => Parent[Parent[q]] # o
      BY <1>0, <3>1, ParentAssumption
    <3> QED BY <3>1, <3>2
  <2>3. \A q \in live : q \in s.live
    OBVIOUS
  <2> HIDE DEF live
  <2>4. reg \in [Reg -> Value \union {Absent}] /\ bag \in [Bag -> SUBSET Value]
    BY <1>0
  <2>5. t = [live |-> live, reg |-> reg, bag |-> bag]
    BY <1>3 DEF Without, live
  <2>6. /\ \A p \in Reg : p[1] \notin live => reg[p] = Absent
        /\ \A p \in Fixed : p[1] \in live => reg[p] # Absent
        /\ \A p \in Bag : p[1] \notin live => bag[p] = {}
    BY <1>0, <1>1, <2>3
  <2> HIDE DEF reg, bag
  <2> QED BY <1>2, <2>1, <2>2, <2>4, <2>5, <2>6
<1>4. ASSUME NEW o \in Obj \ s.live, NEW v, Parent[o] \in s.live \union {Root}, t = With(s, o, v)
      PROVE  t \in State
  <2> DEFINE live == s.live \union {o}
             reg == [p \in Reg |-> IF p \in Fixed /\ p[1] = o
                                   THEN IF v \in Takes[p] THEN v ELSE Min(Takes[p])
                                   ELSE s.reg[p]]
  <2>1. \A p \in Fixed : (IF v \in Takes[p] THEN v ELSE Min(Takes[p])) \in Value
    <3> TAKE p \in Fixed
    <3>1. Takes[p] \in SUBSET Nat /\ Takes[p] # {} /\ Takes[p] \subseteq Value
      BY <1>1, TakesAssumption, ValueAssumption
    <3>2. Min(Takes[p]) \in Takes[p]
      BY <3>1, LeastExists
    <3> QED BY <3>1, <3>2
  <2>2. t = [live |-> live, reg |-> reg, bag |-> s.bag]
    BY <1>0, <1>4 DEF With
  <2>3. \A p \in Reg : reg[p] = s.reg[p] \/ (p \in Fixed /\ p[1] = o /\ reg[p] \in Value)
    BY <2>1
  <2>4. reg \in [Reg -> Value \union {Absent}]
    BY <1>0, <2>1
  <2> HIDE DEF reg
  <2>5. live \in SUBSET Obj /\ \A q \in live : Parent[q] \in live \union {Root}
    BY <1>0, <1>4
  <2>6. /\ \A p \in Reg : p[1] \notin live => reg[p] = Absent
        /\ \A p \in Bag : p[1] \notin live => s.bag[p] = {}
    BY <1>0, <2>3
  <2>7. \A p \in Fixed : p[1] = o => reg[p] \in Value
    BY <2>1 DEF reg, Reg
  <2>8. \A p \in Fixed : p[1] \in live => reg[p] # Absent
    BY <1>0, <1>1, <2>3, <2>7
  <2>9. s.bag \in [Bag -> SUBSET Value]
    BY <1>0
  <2> HIDE DEF live
  <2> QED BY <1>2, <2>2, <2>4, <2>5, <2>6, <2>8, <2>9
<1>5. ASSUME NEW p \in Reg, NEW v \in Value \union {Absent}, p[1] \in s.live,
             v \in Takes[p] \/ (v = Absent /\ p \in Keyed),
             t = [s EXCEPT !.reg[p] = v]
      PROVE  t \in State
  <2> DEFINE reg == [s.reg EXCEPT ![p] = v]
  <2>1. t = [live |-> s.live, reg |-> reg, bag |-> s.bag]
    BY <1>0, <1>5
  <2>2. reg \in [Reg -> Value \union {Absent}] /\ reg[p] = v /\ \A q \in Reg \ {p} : reg[q] = s.reg[q]
    BY <1>0
  <2>3. p \in Fixed => v # Absent
    BY <1>1, <1>5, TakesAssumption, PlaceAssumption
  <2> HIDE DEF reg
  <2>4. /\ \A q \in Reg : q[1] \notin s.live => reg[q] = Absent
        /\ \A q \in Fixed : q[1] \in s.live => reg[q] # Absent
    BY <1>0, <1>1, <1>5, <2>2, <2>3
  <2> QED BY <1>0, <1>2, <2>1, <2>2, <2>4
<1>6. ASSUME NEW p \in Bag, NEW v \in Value, p[1] \in s.live,
             t = [s EXCEPT !.bag[p] = Toggled(@, v)]
      PROVE  t \in State
  <2> DEFINE bag == [s.bag EXCEPT ![p] = Toggled(s.bag[p], v)]
  <2>1. t = [live |-> s.live, reg |-> s.reg, bag |-> bag]
    BY <1>0, <1>6
  <2>2. bag \in [Bag -> SUBSET Value] /\ \A q \in Bag \ {p} : bag[q] = s.bag[q]
    BY <1>0 DEF Toggled
  <2> HIDE DEF bag
  <2>3. \A q \in Bag : q[1] \notin s.live => bag[q] = {}
    BY <1>0, <1>6, <2>2
  <2> QED BY <1>0, <1>2, <2>1, <2>2, <2>3
<1>7. \/ \E o \in s.live : t = Without(s, o)
      \/ \E o \in Obj \ s.live : \E v \in Value :
            Parent[o] \in s.live \union {Root} /\ t = With(s, o, v)
      \/ \E p \in Reg : \E v \in Value \union {Absent} :
            /\ p[1] \in s.live /\ (v \in Takes[p] \/ (v = Absent /\ p \in Keyed))
            /\ t = [s EXCEPT !.reg[p] = v]
      \/ \E p \in Bag : \E v \in Value :
            p[1] \in s.live /\ t = [s EXCEPT !.bag[p] = Toggled(@, v)]
  BY Zenon DEF Nearby
<1> QED BY <1>3, <1>4, <1>5, <1>6, <1>7

(* Settling a conflict is a proper edit.                                     *)
LEMMA ResolveKeepsDInv ==
    ASSUME DInv, NEW d \in Device, Resolve(d)
    PROVE  DInv'
<1> DEFINE D == rep[d].doc
<1>0. Sound(D) /\ D \in Doc /\ PresenceWasWritten(D) /\ FixedAreWritten(D)
  BY DEF DInv, DocumentsSound, Sound
<1>1. ASSUME NEW c \in ValueConflicts(D), NEW v \in c.sides, ResolveValue(d, c, v) PROVE DInv'
  <2> DEFINE q == c.place
             W == {<<q, v>>}
             R == Retire(D, q, Value)
  <2>1. q \in Reg /\ q \in Place /\ W \in SUBSET Write
    BY <1>0, ValueConflictFacts, PlaceFacts DEF ValueConflicts
  <2>2. R \in SUBSET Rem /\ HoldsTags(D, R)
    BY <1>0, <2>1, RetireFacts DEF HoldsTags
  <2>3. \A r \in R : r.place = q
    BY DEF Retire
  <2>4. \A p, w : <<p, w>> \in W <=> p = q /\ w = v
    OBVIOUS
  <2>5. Edit(d, W, R)
    BY <1>1 DEF ResolveValue
  <2>6. R = Retire(D, q, Value)
    OBVIOUS
  <2> HIDE DEF D, W, R, q
  <2>7. Proper(D, W, R)
    <3>1. \A o : Presence(o) # q
      BY <2>1, PlacesDiffer
    <3>2. \A p : \A w : <<p, w>> \in W => Retire(D, p, Value) \subseteq R
      BY <2>4, <2>6
    <3>3. <<q, v>> \in W
      BY <2>4
    <3>4. \A r \in R : r.place \in Fixed => \E w : <<r.place, w>> \in W
      BY <2>3, <3>3
    <3>5. \A p \in Reg : \A x : <<p, x>> \in W =>
              /\ Retire(D, p, Value) \subseteq R
              /\ \A w : <<p, w>> \in W => w = x
      BY <2>4, <3>2
    <3>6. \A p \in Fixed : \A w : <<Presence(p[1]), w>> \notin W
      BY <2>4, <3>1
    <3>7. \A r \in R : \A o : r.place # Presence(o)
      BY <2>3, <3>1
    <3> QED BY <2>1, <2>2, <3>4, <3>5, <3>6, <3>7 DEF Proper
  <2> QED BY <2>5, <2>7, EditKeepsDInv DEF D
<1>2. ASSUME NEW c \in DeletedWhileEdited(D), ResolveKept(d, c) \/ ResolveDeleted(d, c)
      PROVE  DInv'
  <2>1. PICK o \in Obj : c.obj = o /\ RemovedAt(D, Presence(o)) # {}
    BY DEF DeletedWhileEdited, RacedByAnEdit
  <2>2. PICK r \in D.rems : r.place = Presence(o)
    BY <2>1 DEF RemovedAt
  <2>3. AddsAt(D, Presence(o)) # {}
    BY <1>0, <2>2 DEF PresenceWasWritten
  <2>4. ASSUME ResolveKept(d, c) PROVE DInv'
    <3> DEFINE W == {<<Presence(o), Null>>}
    <3>1. W \in SUBSET Write
      BY PlaceFacts, ValueAssumption DEF Write
    <3>2. \A p, w : <<p, w>> \in W <=> p = Presence(o) /\ w = Null
      OBVIOUS
    <3>3. Edit(d, W, {})
      BY <2>1, <2>4 DEF ResolveKept
    <3> HIDE DEF W
    <3>4. \A p \in Fixed : Presence(p[1]) = Presence(o) => AddsAt(D, p) # {}
      BY <1>0, <2>3 DEF FixedAreWritten
    <3>5. \A p \in Reg : p # Presence(o)
      BY PlacesDiffer
    <3>6. \A p \in Reg : \A w : <<p, w>> \notin W
      BY <3>2, <3>5
    <3>7. \A p \in Fixed : (\E w : <<Presence(p[1]), w>> \in W) => AddsAt(D, p) # {}
      BY <3>2, <3>4
    <3>8. Proper(D, W, {})
      BY <3>1, <3>6, <3>7 DEF Proper, HoldsTags
    <3> QED BY <3>3, <3>8, EditKeepsDInv
  <2>5. ASSUME ResolveDeleted(d, c) PROVE DInv'
    <3> DEFINE R == Removal(D, o)
    <3>1. R \in SUBSET Rem /\ HoldsTags(D, R)
      BY <1>0, RemovalFacts DEF HoldsTags
    <3>2. \A x \in R : x.place = Presence(o)
      BY DEF Removal, Retire
    <3>3. Edit(d, {}, R)
      BY <2>1, <2>5 DEF ResolveDeleted
    <3> HIDE DEF R
    <3>4. Presence(o) \notin Fixed
      BY PlacesDiffer DEF Reg
    <3>5. Proper(D, {}, R)
      BY <2>3, <3>1, <3>2, <3>4 DEF Proper
    <3> QED BY <3>3, <3>5, EditKeepsDInv
  <2> QED BY <1>2, <2>4, <2>5
<1> QED BY <1>1, <1>2 DEF Resolve

(* So is taking over a state one change away from the one shown.             *)
LEMMA EditOnKeepsDInv ==
    ASSUME DInv, NEW d \in Device, EditOn(d)
    PROVE  DInv'
<1>1. Sound(rep[d].doc)
  BY DEF DInv, DocumentsSound
<1>2. ASSUME NEW s \in Nearby(Flatten(rep[d].doc)), Observe(d, s) PROVE DInv'
  <2>1. s \in State
    BY <1>1, FlattenFacts, NearbyAreStates
  <2>2. Proper(rep[d].doc, Writes(rep[d].doc, s), Retirements(rep[d].doc, s))
    BY <1>1, <2>1, ObservationIsProper
  <2> QED BY <1>2, <2>2, EditKeepsDInv DEF Observe
<1> QED BY <1>2, ResolveKeepsDInv DEF EditOn

(* Every step of the forks keeps the invariant.                              *)
LEMMA NextKeepsDInv ==
    ASSUME DInv, [NextForked]_<<vars, edits>>
    PROVE  DInv'
<1>1. CASE \E d \in Device : EditOn(d)
  BY <1>1, EditOnKeepsDInv
<1>2. CASE \E d, e \in Device : d # e /\ MergeFrom(d, e)
  BY <1>2, MergeKeepsDInv DEF MergeFrom
<1>3. CASE UNCHANGED <<vars, edits>>
  BY <1>3 DEF vars, DInv, Forks, DocumentsSound, CountersPassed, OwnWritesKept, DocumentsAgree,
              WritersReplace, NothingElseAround
<1> QED BY <1>1, <1>2, <1>3 DEF NextForked

-----------------------------------------------------------------------------
(* The start. *)

(* The empty document is sound, and joining it changes nothing.              *)
LEMMA EmptyIsSound ==
    /\ Sound(EmptyDoc) /\ TagsOf(EmptyDoc) = {}
    /\ \A o : ~Alive(EmptyDoc, o)
    /\ \A p : AddsAt(EmptyDoc, p) = {} /\ Values(EmptyDoc, p) = {} /\ Shown(EmptyDoc, p) = Absent
    /\ \A D \in Doc : Join(EmptyDoc, D) = D
<1>1. EmptyDoc \in Doc /\ EmptyDoc.adds = {} /\ EmptyDoc.rems = {}
  BY DEF EmptyDoc, Doc
<1>2. \A p : AddsAt(EmptyDoc, p) = {}
  BY <1>1 DEF AddsAt
<1>3. \A p : LiveAt(EmptyDoc, p) = {}
  BY <1>2 DEF LiveAt
<1>4. \A p : Values(EmptyDoc, p) = {}
  BY <1>3 DEF Values
<1>5. Sound(EmptyDoc)
  BY <1>1, <1>2, FS_EmptySet DEF Sound, OneAddPerTag, FixedAreWritten, FixedAreReplaced
<1>6. TagsOf(EmptyDoc) = {}
  BY <1>1 DEF TagsOf
<1>7. \A D \in Doc : Join(EmptyDoc, D) = D
  BY <1>1 DEF Join, Doc
<1> QED BY <1>2, <1>4, <1>5, <1>6, <1>7 DEF Alive, Shown

(* Making a document from a state is observing the state over nothing.       *)
LEMMA EnrichedIsObserved ==
    ASSUME NEW s \in State, NEW i
    PROVE  Enriched(s, i) = ObserveDelta(EmptyDoc, i, 0, s)
<1> DEFINE there == {<<Presence(o), Null>> : o \in s.live}
                      \union {<<p, s.reg[p]>> : p \in {q \in Reg : s.reg[q] # Absent}}
                      \union {w \in Bag \X Value : w[2] \in s.bag[w[1]]}
<1>0. IsState(s)
  BY DEF State
<1>1. \A q \in Reg : Changed(EmptyDoc, s, q) /\ s.reg[q] # Absent <=> s.reg[q] # Absent
  BY <1>0, EmptyIsSound DEF IsState, Changed
<1>2. {q \in Reg : Changed(EmptyDoc, s, q) /\ s.reg[q] # Absent} = {q \in Reg : s.reg[q] # Absent}
  BY <1>1
<1>3. {q \in s.live : ~Alive(EmptyDoc, q)} = s.live
  BY EmptyIsSound
<1>4. \A w \in Bag \X Value :
         w[1][1] \in s.live /\ w[2] \in s.bag[w[1]] \ Values(EmptyDoc, w[1]) <=> w[2] \in s.bag[w[1]]
  BY <1>0, EmptyIsSound DEF IsState
<1>5. Writes(EmptyDoc, s) = there
  BY <1>2, <1>3, <1>4 DEF Writes
<1>6. Retirements(EmptyDoc, s) = {}
  <2>1. \A p, vs : Retire(EmptyDoc, p, vs) = {}
    BY EmptyIsSound DEF Retire
  <2>2. Gone(EmptyDoc, s) = {}
    BY EmptyIsSound DEF Gone
  <2> QED BY <2>1, <2>2 DEF Retirements
<1> HIDE DEF there
<1>7. Enriched(s, i) = [adds |-> Minted(there, i, 0), rems |-> {}]
  BY DEF Enriched, there
<1> QED BY <1>5, <1>6, <1>7 DEF ObserveDelta, Delta

(* Such a document is sound and shows the state, with one write a register.  *)
LEMMA EnrichedFacts ==
    ASSUME NEW s \in State, NEW i \in Id
    PROVE  /\ Sound(Enriched(s, i)) /\ Flatten(Enriched(s, i)) = s
           /\ Enriched(s, i).rems = {}
           /\ ReplacesOwn(Enriched(s, i), Enriched(s, i))
<1> DEFINE E == Enriched(s, i)
           W == Writes(EmptyDoc, s)
           R == Retirements(EmptyDoc, s)
<1>0. EmptyDoc \in Doc /\ Sound(EmptyDoc) /\ 0 \in Nat /\ \A t \in TagsOf(EmptyDoc) : t.n <= 0
  BY EmptyIsSound DEF Sound
<1>1. Proper(EmptyDoc, W, R)
  BY <1>0, ObservationIsProper
<1>2. E = ObserveDelta(EmptyDoc, i, 0, s) /\ E = Delta(EmptyDoc, i, 0, W, R)
  BY EnrichedIsObserved DEF ObserveDelta
<1>3. E \in Doc
  BY <1>0, <1>1, <1>2, DeltaFacts DEF Proper
<1>4. Join(EmptyDoc, E) = E
  BY <1>3, EmptyIsSound
<1>5. Sound(Join(EmptyDoc, Delta(EmptyDoc, i, 0, W, R)))
  BY <1>0, <1>1, EditKeepsSound
<1>6. Flatten(Join(EmptyDoc, ObserveDelta(EmptyDoc, i, 0, s))) = s
  BY <1>0, ObservedIsFlattened
<1>7. E.rems = {} /\ E.adds = Minted(W, i, 0)
  BY <1>2 DEF Enriched, Delta
<1>8. ReplacesOwn(E, E)
  <2> SUFFICES ASSUME NEW p \in Reg, NEW a \in AddsAt(E, p), NEW b \in AddsAt(E, p), b.tag.n < a.tag.n
               PROVE  FALSE
    BY DEF ReplacesOwn
  <2>0. W \in SUBSET Write
    BY <1>1 DEF Proper
  <2>1. a \in Minted(W, i, 0) /\ b \in Minted(W, i, 0) /\ a.place = p /\ b.place = p
    BY <1>7 DEF AddsAt
  <2>2. <<p, a.val>> \in W /\ <<p, b.val>> \in W /\ a.tag.n \in Nat
    BY <2>0, <2>1, MintedFacts
  <2>3. a.val = b.val
    BY <1>1, <2>2 DEF Proper
  <2>4. a = b
    BY <2>0, <2>1, <2>3, MintedFacts
  <2> QED BY <2>2, <2>4
<1> QED BY <1>2, <1>4, <1>5, <1>6, <1>7, <1>8

(* A proper edit of one document keeps it fit to be shared.                  *)
LEMMA EditKeepsReplacing ==
    ASSUME NEW D, Sound(D), PresenceWasWritten(D), ReplacesOwn(D, D),
           NEW i \in Id, NEW n \in Nat, \A t \in TagsOf(D) : t.n <= n,
           NEW W, NEW R, Proper(D, W, R)
    PROVE  LET E == Join(D, Delta(D, i, n, W, R)) IN
           /\ Sound(E) /\ PresenceWasWritten(E) /\ ReplacesOwn(E, E)
           /\ E.adds = D.adds \union Minted(W, i, n)
           /\ E.rems = D.rems \union R
           /\ \A t \in TagsOf(E) : t.n <= n + Cardinality(W)
<1> DEFINE M == Minted(W, i, n)
           E == Join(D, Delta(D, i, n, W, R))
<1>0. /\ D \in Doc /\ W \in SUBSET Write /\ R \in SUBSET Rem /\ HoldsTags(D, R)
  BY DEF Sound, Proper
<1>1. Sound(E)
  BY EditKeepsSound
<1>2. E.adds = D.adds \union M
  <2>1. \A t \in TagsOf(D) : t.n <= n
    OBVIOUS
  <2> QED BY <1>0, <2>1, AfterEdit
<1>3. E.rems = D.rems \union R
  BY DEF Join, Delta
<1>4. /\ M \in SUBSET Add
      /\ \A a \in M : /\ <<a.place, a.val>> \in W
                      /\ a.tag.n \in Nat /\ a.tag.n > n /\ a.tag.n <= n + Cardinality(W)
      /\ \A a, b \in M : a.place = b.place /\ a.val = b.val => a = b
  BY <1>0, MintedFacts
<1>5. Cardinality(W) \in Nat
  BY <1>0, RankIsInjective
<1> HIDE DEF M, E
<1>6. \A t \in TagsOf(D) : t.n \in Nat /\ t.n <= n
  BY <1>0, TagFacts DEF Tag
<1>7. \A p : AddsAt(E, p) = AddsAt(D, p) \union {a \in M : a.place = p}
  BY <1>2 DEF AddsAt
<1>8. PresenceWasWritten(E)
  <2> SUFFICES ASSUME NEW r \in E.rems, NEW o \in Obj, r.place = Presence(o)
               PROVE  AddsAt(E, r.place) # {}
    BY DEF PresenceWasWritten
  <2>1. AddsAt(D, r.place) # {}
    BY <1>3 DEF PresenceWasWritten, Proper
  <2> QED BY <1>7, <2>1
<1>9. ReplacesOwn(E, E)
  <2> SUFFICES ASSUME NEW p \in Reg, NEW a \in AddsAt(E, p), NEW b \in AddsAt(E, p),
                      a.tag.id = b.tag.id, b.tag.n < a.tag.n
               PROVE  [place |-> p, tag |-> b.tag] \in E.rems
    BY DEF ReplacesOwn
  <2>1. CASE a \in AddsAt(D, p) /\ b \in AddsAt(D, p)
    BY <1>3, <2>1 DEF ReplacesOwn
  <2>2. CASE a \in M /\ b \in AddsAt(D, p)
    <3>1. <<p, a.val>> \in W /\ b.val \in Value
      BY <1>0, <1>4, <1>7, <2>2 DEF AddsAt, Doc, Add
    <3>2. [place |-> p, tag |-> b.tag] \in Retire(D, p, Value)
      BY <2>2, <3>1, RetireAtItsPlace
    <3> QED BY <1>3, <3>1, <3>2 DEF Proper
  <2>3. CASE b \in M
    <3>1. CASE a \in AddsAt(D, p)
      <4>1. a.tag \in TagsOf(D)
        BY <1>0, <3>1, TagFacts DEF AddsAt
      <4>2. a.tag.n \in Nat /\ a.tag.n <= n /\ b.tag.n \in Nat /\ b.tag.n > n
        BY <1>4, <1>6, <2>3, <4>1
      <4> QED BY <4>2
    <3>2. CASE a \in M
      <4>1. a.place = p /\ b.place = p
        BY <1>0, <1>2 DEF AddsAt
      <4>2. <<p, a.val>> \in W /\ <<p, b.val>> \in W
        BY <1>4, <2>3, <3>2, <4>1
      <4>3. a.val = b.val
        BY <4>2 DEF Proper
      <4>4. a = b /\ b.tag.n \in Nat
        BY <1>4, <2>3, <3>2, <4>1, <4>3
      <4> QED BY <4>4
    <3> QED BY <1>7, <3>1, <3>2
  <2> QED BY <1>7, <2>1, <2>2, <2>3
<1>10. \A t \in TagsOf(E) : t.n <= n + Cardinality(W)
  <2>1. \A t \in TagsOf(E) : t \in TagsOf(D) \/ \E a \in M : t = a.tag
    BY <1>0, <1>2, <1>3, TagFacts DEF TagsOf, HoldsTags
  <2> SUFFICES ASSUME NEW t \in TagsOf(E) PROVE t.n <= n + Cardinality(W)
    OBVIOUS
  <2>2. CASE t \in TagsOf(D)
    BY <1>5, <1>6, <2>2
  <2>3. CASE \E a \in M : t = a.tag
    BY <1>4, <2>3
  <2> QED BY <2>1, <2>2, <2>3
<1> QED BY <1>1, <1>2, <1>3, <1>8, <1>9, <1>10 DEF E, M

(* A single write is minted the next tag.                                    *)
LEMMA OneIsMinted ==
    ASSUME NEW p, NEW v, NEW i, NEW n \in Nat, <<p, v>> \in Write
    PROVE  Minted({<<p, v>>}, i, n) = {[place |-> p, tag |-> [id |-> i, n |-> n + 1], val |-> v]}
<1> DEFINE w == <<p, v>>
<1>1. Visit[w] \in Nat
  BY VisitAssumption DEF Write
<1>2. {x \in {w} : Visit[x] <= Visit[w]} = {w}
  BY <1>1
<1>3. Cardinality({w}) = 1
  BY FS_Singleton
<1>4. Rank({w}, w) = 1
  BY <1>2, <1>3 DEF Rank
<1>5. w[1] = p /\ w[2] = v
  OBVIOUS
<1> HIDE DEF w
<1>6. Minted({w}, i, n) = {[place |-> p, tag |-> [id |-> i, n |-> n + 1], val |-> v]}
  BY <1>4, <1>5 DEF Minted
<1> QED BY <1>3, <1>6 DEF w

(* One edit of the document that is shared is a proper edit of it.           *)
LEMMA EditedOnceFacts ==
    ASSUME NEW D, Sound(D), PresenceWasWritten(D), ReplacesOwn(D, D), NEW i \in Id,
           \A t \in TagsOf(D) : t.n < MaxIssued, NEW E \in EditedOnce(D, i)
    PROVE  /\ Sound(E) /\ PresenceWasWritten(E) /\ ReplacesOwn(E, E)
           /\ \A t \in TagsOf(E) : t.n <= MaxIssued
<1> DEFINE n == HighestCounter(D)
<1>0. D \in Doc /\ MaxIssued \in Nat /\ \A t \in TagsOf(D) : t \in Tag /\ t.n \in Nat
  BY TagFacts, BoundAssumption DEF Sound, Tag
<1>1. \A t \in TagsOf(D) : t.n <= MaxIssued
  BY <1>0
<1>2. /\ n \in Nat /\ \A t \in TagsOf(D) : t.n <= n
      /\ n = 0 \/ \E t \in TagsOf(D) : t.n = n
  BY <1>0, <1>1, HighestCounterFacts
<1> HIDE DEF n
<1>3. ASSUME NEW W, NEW R, Proper(D, W, R), n + Cardinality(W) <= MaxIssued,
             E = [adds |-> D.adds \union Minted(W, i, n), rems |-> D.rems \union R]
      PROVE  /\ Sound(E) /\ PresenceWasWritten(E) /\ ReplacesOwn(E, E)
             /\ \A t \in TagsOf(E) : t.n <= MaxIssued
  <2> DEFINE F == Join(D, Delta(D, i, n, W, R))
  <2>0. n \in Nat /\ (\A t \in TagsOf(D) : t.n <= n) /\ Proper(D, W, R)
    BY <1>2, <1>3
  <2>1. /\ Sound(F) /\ PresenceWasWritten(F) /\ ReplacesOwn(F, F)
        /\ F.adds = D.adds \union Minted(W, i, n)
        /\ F.rems = D.rems \union R
        /\ \A t \in TagsOf(F) : t.n <= n + Cardinality(W)
    BY <2>0, EditKeepsReplacing
  <2>2. F \in Doc /\ Cardinality(W) \in Nat
    BY <2>1, <1>3, RankIsInjective DEF Sound, Proper
  <2> HIDE DEF F
  <2>3. F = E
    BY <1>3, <2>1, <2>2 DEF Doc
  <2>4. \A t \in TagsOf(F) : t.n \in Nat
    BY <2>2, TagFacts DEF Tag
  <2>5. \A t \in TagsOf(F) : t.n <= MaxIssued
    BY <1>0, <1>2, <1>3, <2>1, <2>2, <2>4
  <2> QED BY <2>1, <2>3, <2>5
<1>4. ASSUME NEW o, Alive(D, o) PROVE n + 1 <= MaxIssued
  <2>1. PICK a \in D.adds : TRUE
    BY <1>4 DEF Alive, Values, LiveAt, AddsAt
  <2>2. a.tag.n \in Nat /\ a.tag.n < MaxIssued
    BY <1>0, <2>1, TagFacts
  <2>3. n < MaxIssued
    BY <1>0, <1>2, <2>2
  <2> QED BY <1>0, <1>2, <2>3
<1>5. ASSUME NEW p \in Reg, NEW v \in Value, Alive(D, p[1]), E = SetField(D, p, v, i)
      PROVE  /\ Sound(E) /\ PresenceWasWritten(E) /\ ReplacesOwn(E, E)
             /\ \A t \in TagsOf(E) : t.n <= MaxIssued
  <2> DEFINE W == {<<p, v>>}
             R == Retire(D, p, Value)
  <2>0. p \in Place /\ <<p, v>> \in Write /\ n \in Nat
    BY <1>2, PlaceFacts DEF Write
  <2>1. Minted(W, i, n) = {[place |-> p, tag |-> [id |-> i, n |-> n + 1], val |-> v]} /\ Cardinality(W) = 1
    <3>1. Minted(W, i, n) = {[place |-> p, tag |-> [id |-> i, n |-> n + 1], val |-> v]}
      BY <2>0, OneIsMinted
    <3> QED BY <3>1, FS_Singleton
  <2>2. E = [adds |-> D.adds \union Minted(W, i, n), rems |-> D.rems \union R]
    BY <1>0, <1>5, <2>1 DEF SetField, AddTag, NewTag, n, Doc
  <2>3. W \in SUBSET Write /\ R \in SUBSET Rem /\ HoldsTags(D, R)
    BY <1>0, <2>0, RetireFacts DEF HoldsTags
  <2>4. \A r \in R : r.place = p
    BY DEF Retire
  <2>5. \A q, w : <<q, w>> \in W <=> q = p /\ w = v
    OBVIOUS
  <2>6. R = Retire(D, p, Value)
    OBVIOUS
  <2> HIDE DEF W, R
  <2>7. Proper(D, W, R)
    <3>1. \A o : Presence(o) # p
      BY PlacesDiffer
    <3>2. \A r \in R : r.place \in Fixed => \E w : <<r.place, w>> \in W
      BY <2>4, <2>5
    <3>3. \A q \in Reg : \A x : <<q, x>> \in W =>
              /\ Retire(D, q, Value) \subseteq R
              /\ \A w : <<q, w>> \in W => w = x
      BY <2>5, <2>6
    <3>4. \A q \in Fixed : \A w : <<Presence(q[1]), w>> \notin W
      BY <2>5, <3>1
    <3>5. \A r \in R : \A o : r.place # Presence(o)
      BY <2>4, <3>1
    <3> QED BY <2>3, <3>2, <3>3, <3>4, <3>5 DEF Proper
  <2>8. n + Cardinality(W) <= MaxIssued
    BY <1>4, <1>5, <2>1
  <2> QED BY <1>3, <2>2, <2>7, <2>8
<1>6. ASSUME NEW p \in Bag, NEW v \in Value, Alive(D, p[1]), E = AddTag(D, p, v, i)
      PROVE  /\ Sound(E) /\ PresenceWasWritten(E) /\ ReplacesOwn(E, E)
             /\ \A t \in TagsOf(E) : t.n <= MaxIssued
  <2> DEFINE W == {<<p, v>>}
  <2>0. p \in Place /\ <<p, v>> \in Write /\ n \in Nat
    BY <1>2, PlaceFacts DEF Write
  <2>1. Minted(W, i, n) = {[place |-> p, tag |-> [id |-> i, n |-> n + 1], val |-> v]} /\ Cardinality(W) = 1
    <3>1. Minted(W, i, n) = {[place |-> p, tag |-> [id |-> i, n |-> n + 1], val |-> v]}
      BY <2>0, OneIsMinted
    <3> QED BY <3>1, FS_Singleton
  <2>2. E = [adds |-> D.adds \union Minted(W, i, n), rems |-> D.rems \union {}]
    BY <1>0, <1>6, <2>1 DEF AddTag, NewTag, n, Doc
  <2>3. W \in SUBSET Write
    BY <2>0
  <2>4. \A q, w : <<q, w>> \in W <=> q = p /\ w = v
    OBVIOUS
  <2> HIDE DEF W
  <2>5. Proper(D, W, {})
    <3>1. (\A o : Presence(o) # p) /\ p \notin Reg
      BY PlacesDiffer
    <3>2. \A q \in Reg : \A x : <<q, x>> \notin W
      <4> SUFFICES ASSUME NEW q \in Reg, NEW x, <<q, x>> \in W PROVE FALSE
        OBVIOUS
      <4>1. q = p
        BY <2>4
      <4> QED BY <3>1, <4>1
    <3>3. \A q \in Fixed : \A w : <<Presence(q[1]), w>> \notin W
      BY <2>4, <3>1
    <3> QED BY <2>3, <3>2, <3>3 DEF Proper, HoldsTags
  <2>6. n + Cardinality(W) <= MaxIssued
    BY <1>4, <1>6, <2>1
  <2> QED BY <1>3, <2>2, <2>5, <2>6
<1>7. ASSUME NEW p \in Bag, NEW v \in Value, E = RemoveTag(D, p, v)
      PROVE  /\ Sound(E) /\ PresenceWasWritten(E) /\ ReplacesOwn(E, E)
             /\ \A t \in TagsOf(E) : t.n <= MaxIssued
  <2> DEFINE R == Retire(D, p, {v})
  <2>1. Minted({}, i, n) = {} /\ Cardinality({}) = 0
    BY FS_EmptySet DEF Minted
  <2>2. E = [adds |-> D.adds \union Minted({}, i, n), rems |-> D.rems \union R]
    BY <1>0, <1>7, <2>1 DEF RemoveTag, Doc
  <2>3. R \in SUBSET Rem /\ HoldsTags(D, R)
    BY <1>0, PlaceFacts, RetireFacts DEF HoldsTags
  <2>4. \A r \in R : r.place = p
    BY DEF Retire
  <2> HIDE DEF R
  <2>5. Proper(D, {}, R)
    <3>1. (\A o : Presence(o) # p) /\ p \notin Fixed
      BY PlacesDiffer DEF Reg
    <3> QED BY <2>3, <2>4, <3>1 DEF Proper
  <2>6. n + Cardinality({}) <= MaxIssued
    <3>1. n <= MaxIssued
      BY <1>0, <1>1, HighestCounterFacts DEF n
    <3> QED BY <1>2, <2>1, <3>1
  <2> QED BY <1>3, <2>2, <2>5, <2>6
<1>8. \/ \E p \in Reg : \E v \in Value : Alive(D, p[1]) /\ E = SetField(D, p, v, i)
      \/ \E p \in Bag : \E v \in Value : Alive(D, p[1]) /\ E = AddTag(D, p, v, i)
      \/ \E p \in Bag : \E v \in Value : E = RemoveTag(D, p, v)
  BY Zenon DEF EditedOnce
<1> QED BY <1>5, <1>6, <1>7, <1>8

(* The forks of a replica that took in such a document satisfy the invariant. *)
LEMMA InitForkedDInv == InitForked => DInv
<1> DEFINE E == Enriched(First, Author)
<1>1. /\ First \in State /\ Author \in Id
      /\ \A d \in Device : IdOn[d] \in Id
      /\ \A a \in E.adds : a.tag.n < MaxIssued
  BY ForkAssumption DEF State
<1>2. Sound(E) /\ E.rems = {} /\ ReplacesOwn(E, E) /\ E \in Doc
  BY <1>1, EnrichedFacts DEF Sound
<1> HIDE DEF E
<1>3. PresenceWasWritten(E)
  BY <1>2 DEF PresenceWasWritten
<1>4. \A t \in TagsOf(E) : t.n < MaxIssued
  BY <1>1, <1>2 DEF TagsOf
<1>5. \A t \in TagsOf(E) : t.n <= MaxIssued
  <2>1. MaxIssued \in Nat /\ \A t \in TagsOf(E) : t.n \in Nat
    BY <1>2, TagFacts, BoundAssumption DEF Tag
  <2> QED BY <1>4, <2>1
<1> SUFFICES ASSUME NEW D \in {E} \union EditedOnce(E, Author),
                    rep = [d \in Device |->
                             [id |-> IdOn[d], issued |-> HighestCounter(D), doc |-> Join(EmptyDoc, D)]],
                    disk = [d \in Device |-> NoReplica],
                    outbox = [d \in Device |-> EmptyDoc],
                    air = {}
             PROVE  DInv
  BY DEF InitForked, E
<1>6. /\ Sound(D) /\ PresenceWasWritten(D) /\ ReplacesOwn(D, D)
      /\ \A t \in TagsOf(D) : t.n <= MaxIssued
  BY <1>1, <1>2, <1>3, <1>4, <1>5, EditedOnceFacts
<1>7. D \in Doc /\ Join(EmptyDoc, D) = D
  BY <1>6, EmptyIsSound DEF Sound
<1>8. HighestCounter(D) \in 0..MaxIssued /\ \A t \in TagsOf(D) : t.n <= HighestCounter(D)
  BY <1>6, <1>7, HighestCounterFacts
<1>9. \A d \in Device : rep[d] = [id |-> IdOn[d], issued |-> HighestCounter(D), doc |-> D]
  BY <1>7
<1>10. Forks
  BY <1>1, <1>7, <1>8, <1>9 DEF Forks
<1>11. DocumentsSound /\ CountersPassed
  BY <1>6, <1>8, <1>9 DEF DocumentsSound, CountersPassed
<1>12. OwnWritesKept
  BY <1>9 DEF OwnWritesKept
<1>13. DocumentsAgree
  BY <1>6, <1>9 DEF DocumentsAgree, AgreeOnTags, Sound, OneAddPerTag
<1>14. WritersReplace
  BY <1>6, <1>9 DEF WritersReplace
<1>15. NothingElseAround
  BY <1>9 DEF NothingElseAround, EmptyDoc, Doc
<1> QED BY <1>10, <1>11, <1>12, <1>13, <1>14, <1>15 DEF DInv

-----------------------------------------------------------------------------
(* The theorems. *)

(* The invariant that carries the theorems below: every document a fork has *)
(* is sound, agrees with every other on what a tag names, and a writer's    *)
(* later write of a register retired its earlier ones (replica.cpp, Editor  *)
(* and merge; document.cpp, the three edits of one).                         *)
THEOREM ForksStaySound == SpecForked => []DInv
<1>1. InitForked => DInv
  BY InitForkedDInv
<1>2. DInv /\ [NextForked]_<<vars, edits>> => DInv'
  BY NextKeepsDInv
<1> QED BY <1>1, <1>2, PTL DEF SpecForked

(* Rule 2 of replica.hpp: observing what flatten() returned records nothing. *)
THEOREM OwnOutputIsSilent == SpecForked => []ObservingOwnOutputIsSilent
<1>1. DInv => ObservingOwnOutputIsSilent
  BY SelfObservationIsEmpty DEF DInv, DocumentsSound, ObservingOwnOutputIsSilent
<1> QED BY <1>1, ForksStaySound, PTL

(* What a device has, an observation of any neighbouring state has for facts. *)
LEMMA ForkFacts ==
    ASSUME DInv, NEW d \in Device
    PROVE  /\ Sound(rep[d].doc) /\ rep[d].doc \in Doc
           /\ rep[d].id \in Id /\ rep[d].issued \in Nat
           /\ \A t \in TagsOf(rep[d].doc) : t.n <= rep[d].issued
           /\ Flatten(rep[d].doc) \in State
           /\ Nearby(Flatten(rep[d].doc)) \subseteq State
<1>1. Sound(rep[d].doc) /\ rep[d].doc \in Doc /\ rep[d].id \in Id /\ rep[d].issued \in Nat
  BY BoundAssumption DEF DInv, Forks, DocumentsSound, Sound
<1>2. Flatten(rep[d].doc) \in State
  BY <1>1, FlattenFacts
<1>3. \A t \in TagsOf(rep[d].doc) : t.n <= rep[d].issued
  BY DEF DInv, CountersPassed
<1> QED BY <1>1, <1>2, <1>3, NearbyAreStates

(* After an observation flatten() returns the state observed, and a document *)
(* made from what is shown shows the same (replica.cpp, observe_into;        *)
(* document.cpp, enrich).                                                    *)
THEOREM WhatIsObservedIsShown == SpecForked => []ObservedIsShown
<1>1. ASSUME DInv, NEW d \in Device
      PROVE  LET D == rep[d].doc IN
             /\ Flatten(Enriched(Flatten(D), rep[d].id)) = Flatten(D)
             /\ \A s \in Nearby(Flatten(D)) :
                   Flatten(Join(D, ObserveDelta(D, rep[d].id, rep[d].issued, s))) = s
  <2> DEFINE D == rep[d].doc
  <2>1. /\ Sound(D) /\ rep[d].id \in Id /\ rep[d].issued \in Nat
        /\ \A t \in TagsOf(D) : t.n <= rep[d].issued
        /\ Flatten(D) \in State /\ Nearby(Flatten(D)) \subseteq State
    BY <1>1, ForkFacts
  <2>2. Flatten(Enriched(Flatten(D), rep[d].id)) = Flatten(D)
    BY <2>1, EnrichedFacts
  <2>3. ASSUME NEW s \in Nearby(Flatten(D))
        PROVE  Flatten(Join(D, ObserveDelta(D, rep[d].id, rep[d].issued, s))) = s
    BY <2>1, ObservedIsFlattened
  <2> QED BY <2>2, <2>3
<1>2. DInv => ObservedIsShown
  BY <1>1 DEF ObservedIsShown
<1> QED BY <1>2, ForksStaySound, PTL

(* Rule 1 of replica.hpp: an observation that shows nothing new about a      *)
(* conflict does not settle it (replica.cpp, observe_into).                  *)
THEOREM ObservingSettlesNothing == SpecForked => []ConflictsSurviveObserving
<1>1. ASSUME DInv, NEW d \in Device, NEW s \in Nearby(Flatten(rep[d].doc))
      PROVE  LET D == rep[d].doc
                 E == Join(D, ObserveDelta(D, rep[d].id, rep[d].issued, s))
             IN /\ \A c \in ValueConflicts(D) :
                     s.reg[c.place] = Shown(D, c.place) => c \in ValueConflicts(E)
                /\ \A c \in DeletedWhileEdited(D) :
                     (c.obj \notin s.live /\ Parent[c.obj] \in s.live \union {Root})
                         => c \in DeletedWhileEdited(E)
  <2>1. /\ Sound(rep[d].doc) /\ rep[d].id \in Id /\ rep[d].issued \in Nat
        /\ \A t \in TagsOf(rep[d].doc) : t.n <= rep[d].issued
        /\ s \in State
    BY <1>1, ForkFacts
  <2> QED BY <2>1, ConflictsStand
<1>2. DInv => ConflictsSurviveObserving
  BY <1>1 DEF ConflictsSurviveObserving
<1> QED BY <1>2, ForksStaySound, PTL

(* The forks' documents join alike in either order (orset.cpp and            *)
(* document.cpp, join).                                                      *)
THEOREM ForksJoinInAnyOrder == SpecForked => []JoinCommutes
<1>1. ASSUME DInv, NEW D \in Documents, NEW E \in Documents PROVE Join(D, E) = Join(E, D)
  <2>1. \A F \in Documents : F \in Doc /\ \E d \in Device : F.adds \subseteq rep[d].doc.adds
    <3>1. EmptyDoc \in Doc /\ EmptyDoc.adds = {} /\ \A d \in Device : disk[d].doc = EmptyDoc
      BY <1>1 DEF DInv, NothingElseAround, NoReplica, EmptyDoc, Doc
    <3> QED BY <1>1, <3>1 DEF DInv, NothingElseAround, Forks, Documents
  <2>2. \A x, y \in Documents : \A a \in x.adds, b \in y.adds : a.tag = b.tag => a = b
    BY <1>1, <2>1 DEF DInv, DocumentsAgree, AgreeOnTags
  <2>3. Join(D, E).adds = D.adds \union E.adds
    BY <2>1, <2>2, JoinIsUnion
  <2>4. Join(E, D).adds = D.adds \union E.adds
    BY <2>1, <2>2, JoinIsUnion
  <2> QED BY <2>3, <2>4 DEF Join
<1>2. DInv => JoinCommutes
  BY <1>1 DEF JoinCommutes
<1> QED BY <1>2, ForksStaySound, PTL

-----------------------------------------------------------------------------
(* Export. *)

(* What an export leaves in: everything shared that does not leak, and the   *)
(* removals of what is withheld outside of a withheld mantle.                *)
LEMMA ExportFacts ==
    ASSUME NEW D \in Doc
    PROVE  /\ Exportable(D) \in Doc
           /\ Exportable(D).adds \subseteq D.adds /\ Exportable(D).rems \subseteq D.rems
           /\ \A a \in D.adds : Shared(a.place[1]) /\ ~Leaks(D, a) => a \in Exportable(D).adds
           /\ \A r \in D.rems : Shared(r.place[1]) => r \in Exportable(D).rems
           /\ \A o \in Obj : \A r \in D.rems :
                 RemovalOnly(D, o) /\ r.place = Presence(o) => r \in Exportable(D).rems
<1> DEFINE leaves == {p \in Place : \/ Shared(p[1])
                                    \/ p = Presence(p[1]) /\ RemovalOnly(D, p[1])}
           X == [adds |-> {a \in D.adds : a.place \in leaves /\ ~Leaks(D, a)},
                 rems |-> {r \in D.rems : r.place \in leaves}]
<1>1. Exportable(D) = X
  BY DEF Exportable
<1>2. (\A a \in D.adds : a.place \in Place) /\ (\A r \in D.rems : r.place \in Place)
  BY DEF Doc, Add, Rem
<1>3. \A p \in Place : Shared(p[1]) => p \in leaves
  OBVIOUS
<1>4. \A o \in Obj : RemovalOnly(D, o) => Presence(o) \in leaves
  BY PlaceFacts
<1> HIDE DEF leaves
<1>5. X \in Doc
  BY DEF Doc
<1> QED BY <1>1, <1>2, <1>3, <1>4, <1>5

(* A removal is never private: a peer whose writes of a withheld thing the   *)
(* removal saw loses it with the export (export.cpp, removal_only).          *)
THEOREM RemovalsAreExported == SpecForked => []RemovalsTravel
<1>1. ASSUME DInv, NEW d \in Device, NEW e \in Device, NEW o \in Private,
             WasRemoved(rep[d].doc, o), Parent[o] \notin Private,
             {a.tag : a \in LiveAt(rep[e].doc, Presence(o))} \subseteq RemovedAt(rep[d].doc, Presence(o))
      PROVE  ~Alive(Join(rep[e].doc, Exportable(rep[d].doc)), o)
  <2> DEFINE D == rep[d].doc
             E == rep[e].doc
             X == Exportable(D)
             J == Join(E, X)
             p == Presence(o)
  <2>0. D \in Doc /\ E \in Doc /\ o \in Obj
    BY <1>1, ForkFacts, TreeAssumption
  <2>1. X \in Doc /\ X.adds \subseteq D.adds
    BY <2>0, ExportFacts
  <2>2. RemovalOnly(D, o)
    BY <1>1 DEF RemovalOnly
  <2>3. \A r \in D.rems : r.place = p => r \in X.rems
    BY <2>0, <2>2, ExportFacts
  <2>4. J.adds \subseteq E.adds \union D.adds /\ J.rems = E.rems \union X.rems
    BY <2>0, <2>1, JoinIsUnion
  <2>5. LiveAt(D, p) = {} /\ \A a \in LiveAt(E, p) : a.tag \in RemovedAt(D, p)
    BY <1>1 DEF WasRemoved, Alive, Values
  <2> HIDE DEF D, E, X, J, p
  <2>6. RemovedAt(E, p) \subseteq RemovedAt(J, p) /\ RemovedAt(D, p) \subseteq RemovedAt(J, p)
    BY <2>3, <2>4 DEF RemovedAt
  <2>7. ASSUME NEW a \in LiveAt(J, p) PROVE FALSE
    <3>1. a \in AddsAt(J, p) /\ a.tag \notin RemovedAt(J, p)
      BY DEF LiveAt
    <3>2. a \in AddsAt(E, p) \/ a \in AddsAt(D, p)
      BY <2>4, <3>1 DEF AddsAt
    <3>3. CASE a \in AddsAt(E, p)
      BY <2>5, <2>6, <3>1, <3>3 DEF LiveAt
    <3>4. CASE a \in AddsAt(D, p)
      BY <2>5, <2>6, <3>1, <3>4 DEF LiveAt
    <3> QED BY <3>2, <3>3, <3>4
  <2> QED BY <2>7 DEF Alive, Values, D, E, X, J, p
<1>2. DInv => RemovalsTravel
  BY <1>1 DEF RemovalsTravel
<1> QED BY <1>2, ForksStaySound, PTL

(* An export and the whole document merge to the same at shared places: what *)
(* is missing there leaks.                                                   *)
LEMMA SharedPlaces ==
    ASSUME DInv, NEW d \in Device, NEW e \in Device, NEW p \in Place, Shared(p[1])
    PROVE  LET part == Join(rep[e].doc, Exportable(rep[d].doc))
               whole == Join(rep[e].doc, rep[d].doc)
           IN /\ LiveAt(part, p) \subseteq LiveAt(whole, p)
              /\ \A a \in LiveAt(whole, p) : a \in LiveAt(part, p) \/ Leaks(rep[d].doc, a)
              /\ p \notin {EdgesAt(m) : m \in Mantles} => LiveAt(part, p) = LiveAt(whole, p)
<1> DEFINE D == rep[d].doc
           E == rep[e].doc
           X == Exportable(D)
           part == Join(E, X)
           whole == Join(E, D)
<1>0. D \in Doc /\ E \in Doc /\ \A a \in E.adds, b \in D.adds : a.tag = b.tag => a = b
  BY ForkFacts DEF DInv, DocumentsAgree, AgreeOnTags
<1>1. X \in Doc /\ X.adds \subseteq D.adds /\ X.rems \subseteq D.rems
  BY <1>0, ExportFacts
<1>2. \A a \in D.adds : a.place = p /\ ~Leaks(D, a) => a \in X.adds
  BY <1>0, ExportFacts
<1>3. \A r \in D.rems : r.place = p => r \in X.rems
  BY <1>0, ExportFacts
<1>4. whole.adds = E.adds \union D.adds /\ whole.rems = E.rems \union D.rems
  BY <1>0, JoinIsUnion
<1>5. part.adds = E.adds \union X.adds /\ part.rems = E.rems \union X.rems
  <2>1. \A a \in E.adds, b \in X.adds : a.tag = b.tag => a = b
    BY <1>0, <1>1
  <2> QED BY <1>0, <1>1, <2>1, JoinIsUnion
<1> HIDE DEF D, E, X, part, whole
<1>6. RemovedAt(part, p) = RemovedAt(whole, p)
  BY <1>1, <1>3, <1>4, <1>5 DEF RemovedAt
<1>7. LiveAt(part, p) \subseteq LiveAt(whole, p)
  BY <1>1, <1>4, <1>5, <1>6 DEF LiveAt, AddsAt
<1>8. \A a \in LiveAt(whole, p) : a \in LiveAt(part, p) \/ Leaks(D, a)
  BY <1>2, <1>4, <1>5, <1>6 DEF LiveAt, AddsAt
<1>9. \A a \in LiveAt(whole, p) : Leaks(D, a) => p \in {EdgesAt(m) : m \in Mantles}
  BY DEF Leaks, LiveAt, AddsAt
<1> QED BY <1>7, <1>8, <1>9 DEF D, E, X, part, whole

(* What a state shows at a place follows from what is live there.            *)
LEMMA SameReading ==
    ASSUME NEW D, NEW E, NEW p, LiveAt(D, p) = LiveAt(E, p)
    PROVE  Values(D, p) = Values(E, p) /\ Shown(D, p) = Shown(E, p)
BY DEF Values, Shown, Reading, LatestValue

(* Merging an export shows a peer the shared things as merging the whole     *)
(* document would, but for links that name something withheld (export.cpp,   *)
(* exportable).                                                              *)
THEOREM ExportsShowTheSharedPart == SpecForked => []ExportShowsTheSharedPart
<1>1. ASSUME DInv, NEW d \in Device, NEW e \in Device
      PROVE  LET D == rep[d].doc
                 part == Flatten(Join(rep[e].doc, Exportable(D)))
                 whole == Flatten(Join(rep[e].doc, D))
                 shared == {o \in Obj : Shared(o)}
             IN /\ part.live \intersect shared = whole.live \intersect shared
                /\ \A p \in Reg : Shared(p[1]) => part.reg[p] = whole.reg[p]
                /\ \A p \in Bag : Shared(p[1]) =>
                      /\ part.bag[p] \subseteq whole.bag[p]
                      /\ \A a \in LiveAt(D, p) :
                             a.val \in whole.bag[p] \ part.bag[p] => Leaks(D, a)
  <2> DEFINE D == rep[d].doc
             P == Join(rep[e].doc, Exportable(D))
             F == Join(rep[e].doc, D)
             part == Flatten(P)
             whole == Flatten(F)
             edges == {EdgesAt(m) : m \in Mantles}
  <2>1. \A p \in Place : Shared(p[1]) /\ p \notin edges => LiveAt(P, p) = LiveAt(F, p)
    BY <1>1, SharedPlaces
  <2>2. \A p \in Place : Shared(p[1]) => LiveAt(P, p) \subseteq LiveAt(F, p)
    BY <1>1, SharedPlaces
  <2>3. \A p \in Place : Shared(p[1]) =>
           \A a \in LiveAt(F, p) : a \in LiveAt(P, p) \/ Leaks(D, a)
    BY <1>1, SharedPlaces
  <2>4. /\ \A p \in Reg : p \notin edges /\ p \in Place /\ p[1] \in Obj
        /\ \A o \in Obj : Presence(o) \notin edges /\ Presence(o) \in Place /\ Presence(o)[1] = o
        /\ \A p \in Bag : p \in Place /\ p[1] \in Obj
    BY PlaceFacts, TreeAssumption DEF Presence, EdgesAt
  <2> HIDE DEF D, P, F, edges
  <2>5. \A o \in Obj : Shared(o) => (Alive(P, o) <=> Alive(F, o))
    BY <2>1, <2>4, SameReading DEF Alive
  <2>6. \A p \in Reg : Shared(p[1]) => Values(P, p) = Values(F, p) /\ Shown(P, p) = Shown(F, p)
    BY <2>1, <2>4, SameReading
  <2>7. \A o \in Obj : Shared(o) => (Outermost(P, o) <=> Outermost(F, o))
    <3> TAKE o \in Obj
    <3>1. Parent[o] # Root => Parent[o] \in Obj /\ Parent[Parent[o]] = Root
      BY ParentAssumption
    <3>2. Root \notin Private
      BY ParentAssumption, TreeAssumption
    <3> QED BY <2>5, <3>1, <3>2 DEF Outermost, Shared
  <2>8. \A o : Shared(o) => (o \in part.live <=> o \in whole.live)
    <3>1. \A o \in Obj : Shared(o) =>
             ((\A p \in Fixed : p[1] = o => Values(P, p) # {})
                <=> (\A p \in Fixed : p[1] = o => Values(F, p) # {}))
      BY <2>6 DEF Reg
    <3> QED BY <2>5, <2>7, <3>1 DEF Flatten
  <2>9. \A p \in Reg : Shared(p[1]) => part.reg[p] = whole.reg[p]
    BY <2>6, <2>8 DEF Flatten
  <2>10. \A p \in Bag : /\ part.bag[p] = IF p[1] \in part.live THEN Values(P, p) ELSE {}
                        /\ whole.bag[p] = IF p[1] \in whole.live THEN Values(F, p) ELSE {}
    BY DEF Flatten
  <2> HIDE DEF part, whole
  <2>11. ASSUME NEW p \in Bag, Shared(p[1])
         PROVE  /\ part.bag[p] \subseteq whole.bag[p]
                /\ \A a \in LiveAt(D, p) :
                       a.val \in whole.bag[p] \ part.bag[p] => Leaks(D, a)
    <3>1. Values(P, p) \subseteq Values(F, p)
      BY <2>2, <2>4, <2>11 DEF Values
    <3>2. part.bag[p] \subseteq whole.bag[p]
      BY <2>8, <2>10, <2>11, <3>1
    <3>3. ASSUME NEW a \in LiveAt(D, p), a.val \in whole.bag[p], a.val \notin part.bag[p]
          PROVE  Leaks(D, a)
      <4>0. a.val \in Values(F, p)
        BY <2>10, <3>3
      <4>1. PICK b \in LiveAt(F, p) : b.val = a.val
        BY <4>0 DEF Values
      <4>2. p[1] \in part.live
        BY <2>8, <2>10, <2>11, <3>3
      <4>3. b \notin LiveAt(P, p)
        BY <2>10, <3>3, <4>1, <4>2 DEF Values
      <4>4. Leaks(D, b) /\ b.place = a.place
        BY <2>3, <2>4, <2>11, <4>3 DEF LiveAt, AddsAt
      <4> QED BY <4>1, <4>4 DEF Leaks
    <3> QED BY <3>2, <3>3
  <2> QED BY <2>8, <2>9, <2>11 DEF D, P, F, part, whole
<1>2. DInv => ExportShowsTheSharedPart
  BY <1>1 DEF ExportShowsTheSharedPart
<1> QED BY <1>2, ForksStaySound, PTL

-----------------------------------------------------------------------------
(* Anomalies. *)

(* The runes of a mantle that is alive show their names in the state exactly *)
(* as the index holds them; a mantle that is not alive has none there.       *)
LEMMA ShowingIsHolding ==
    ASSUME NEW D, Sound(D), NEW m \in Mantles, NEW n
    PROVE  LET s == Flatten(D)
               showing == {r \in RunesOf(m) \intersect s.live : s.reg[NameAt(r)] = n}
           IN /\ Alive(D, m) => showing = Holding(D, m, n)
              /\ ~Alive(D, m) => showing = {}
              /\ Alive(D, m) => \A r \in RunesOf(m) : Alive(D, r) => r \in s.live
<1> DEFINE s == Flatten(D)
           showing == {r \in RunesOf(m) \intersect s.live : s.reg[NameAt(r)] = n}
<1>1. /\ \A o : o \in s.live <=> o \in Obj /\ Alive(D, o) /\ Outermost(D, o)
      /\ \A p \in Reg : s.reg[p] = IF p[1] \in s.live THEN Shown(D, p) ELSE Absent
  BY FlattenFacts
<1> HIDE DEF s
<1>2. ASSUME NEW r \in RunesOf(m)
      PROVE  /\ r \in s.live <=> Alive(D, r) /\ Alive(D, m)
             /\ r \in s.live => s.reg[NameAt(r)] = Shown(D, NameAt(r))
  <2>1. r \in Obj /\ Parent[r] = m /\ m # Root
    BY ParentAssumption DEF RunesOf, Mantles
  <2>2. NameAt(r) \in Reg /\ NameAt(r)[1] = r
    BY <2>1, TreeAssumption DEF NameAt, Reg
  <2> QED BY <1>1, <2>1, <2>2 DEF Outermost
<1>3. ASSUME Alive(D, m) PROVE \A r : r \in showing <=> r \in Holding(D, m, n)
  BY <1>2, <1>3 DEF Holding
<1>4. ASSUME ~Alive(D, m) PROVE showing = {}
  BY <1>2, <1>4
<1>5. Alive(D, m) => showing = Holding(D, m, n)
  <2>1. ASSUME Alive(D, m) PROVE showing \subseteq Holding(D, m, n) /\ Holding(D, m, n) \subseteq showing
    BY <1>3, <2>1
  <2> QED BY <2>1
<1> QED BY <1>2, <1>4, <1>5 DEF s

(* Anomalies speak of what flatten shows (anomaly.cpp, anomalies).           *)
THEOREM AnomaliesAreOfTheState == SpecForked => []AnomaliesMatchTheState
<1>1. ASSUME DInv, NEW d \in Device
      PROVE  LET D == rep[d].doc
                 s == Flatten(D)
                 showing(m, n) == {r \in RunesOf(m) \intersect s.live : s.reg[NameAt(r)] = n}
             IN /\ \A m \in Mantles, n \in Value \ {Null} :
                      Cardinality(showing(m, n)) > 1 <=>
                         \E a \in DuplicateNames(D) : a.mantle = m /\ a.subject = n
                /\ \A a \in LinksBroken(D) :
                      showing(a.subject[1], a.subject[2]) = {} /\ a.runes # {}
                /\ \A a \in TypesRemoved(D) : a.subject \notin s.live /\ a.runes \subseteq s.live
  <2> DEFINE D == rep[d].doc
             s == Flatten(D)
             showing(m, n) == {r \in RunesOf(m) \intersect s.live : s.reg[NameAt(r)] = n}
  <2>0. Sound(D) /\ \A o : o \in s.live => Alive(D, o)
    BY <1>1, ForkFacts, FlattenFacts
  <2>1. ASSUME NEW m \in Mantles, NEW n
        PROVE  /\ Alive(D, m) => showing(m, n) = Holding(D, m, n)
               /\ ~Alive(D, m) => showing(m, n) = {}
               /\ Alive(D, m) => \A r \in RunesOf(m) : Alive(D, r) => r \in s.live
    BY <2>0, ShowingIsHolding
  <2> HIDE DEF D, s, showing
  <2>2. ASSUME NEW m \in Mantles, NEW n \in Value \ {Null}
        PROVE  Cardinality(showing(m, n)) > 1 <=>
                  \E a \in DuplicateNames(D) : a.mantle = m /\ a.subject = n
    <3>1. (\E a \in DuplicateNames(D) : a.mantle = m /\ a.subject = n)
            <=> Alive(D, m) /\ Cardinality(Holding(D, m, n)) > 1
      <4>1. ASSUME NEW a \in DuplicateNames(D), a.mantle = m, a.subject = n
            PROVE  Alive(D, m) /\ Cardinality(Holding(D, m, n)) > 1
        BY <4>1 DEF DuplicateNames, LiveMantles
      <4>2. ASSUME Alive(D, m), Cardinality(Holding(D, m, n)) > 1
            PROVE  \E a \in DuplicateNames(D) : a.mantle = m /\ a.subject = n
        <5> DEFINE y == <<m, n>>
                   a == [kind |-> "duplicate_name", mantle |-> y[1], subject |-> y[2],
                         runes |-> Holding(D, y[1], y[2])]
        <5>1. y \in LiveMantles(D) \X (Value \ {Null}) /\ Cardinality(Holding(D, y[1], y[2])) > 1
          BY <4>2 DEF LiveMantles
        <5>2. a \in DuplicateNames(D)
          BY <5>1 DEF DuplicateNames
        <5> QED BY <5>2
      <4> QED BY <4>1, <4>2
    <3>2. CASE Alive(D, m)
      BY <2>1, <3>1, <3>2
    <3>3. CASE ~Alive(D, m)
      <4>1. showing(m, n) = {} /\ Cardinality({}) = 0
        BY <2>1, <3>3, FS_EmptySet
      <4> QED BY <3>1, <3>3, <4>1
    <3> QED BY <3>2, <3>3
  <2>3. ASSUME NEW a \in LinksBroken(D)
        PROVE  showing(a.subject[1], a.subject[2]) = {} /\ a.runes # {}
    <3>1. PICK z \in LiveMantles(D) \X (Mantles \X Value) :
             /\ z[2][1] \in LiveMantles(D)
             /\ Holding(D, z[2][1], z[2][2]) = {}
             /\ Cause(D, z[2]) # "none"
             /\ a = [kind |-> "link_broken", mantle |-> z[1], subject |-> z[2], cause |-> Cause(D, z[2]),
                     runes |-> IF Cause(D, z[2]) = "removed" THEN Lost(D, z[2][1], z[2][2])
                               ELSE Renamed(D, z[2][1], z[2][2])]
      BY DEF LinksBroken
    <3>2. z[2][1] \in Mantles /\ Alive(D, z[2][1]) /\ a.subject = z[2]
      BY <3>1 DEF LiveMantles
    <3>3. showing(z[2][1], z[2][2]) = {}
      BY <2>1, <3>1, <3>2
    <3>4. a.runes # {}
      BY <3>1 DEF Cause
    <3> QED BY <3>2, <3>3, <3>4
  <2>4. ASSUME NEW a \in TypesRemoved(D)
        PROVE  a.subject \notin s.live /\ a.runes \subseteq s.live
    <3>1. PICK x \in LiveMantles(D) \X Glyph :
             WasRemoved(D, x[2]) /\ a.subject = x[2] /\ a.runes = OfType(D, x[1], x[2])
      BY DEF TypesRemoved
    <3>2. a.subject \notin s.live
      BY <2>0, <3>1 DEF WasRemoved
    <3>3. x[1] \in Mantles /\ Alive(D, x[1])
      BY <3>1 DEF LiveMantles
    <3>4. \A r \in OfType(D, x[1], x[2]) : r \in RunesOf(x[1]) /\ Alive(D, r)
      BY DEF OfType
    <3> QED BY <2>1, <3>1, <3>2, <3>3, <3>4
  <2> QED BY <2>2, <2>3, <2>4 DEF D, s, showing
<1>2. DInv => AnomaliesMatchTheState
  BY <1>1 DEF AnomaliesMatchTheState
<1> QED BY <1>2, ForksStaySound, PTL

(* What a merge of two forks brings together.                                *)
LEMMA MergedFacts ==
    ASSUME DInv, NEW d \in Device, NEW e \in Device, Merge(d, rep[e].doc)
    PROVE  /\ Sound(rep'[d].doc)
           /\ rep'[d].doc.adds = rep[d].doc.adds \union rep[e].doc.adds
           /\ rep'[d].doc.rems = rep[d].doc.rems \union rep[e].doc.rems
<1>1. rep'[d].doc = Join(rep[d].doc, rep[e].doc)
  BY DEF DInv, Forks, Merge
<1>2. Sound(rep[d].doc) /\ Sound(rep[e].doc) /\ AgreeOnTags(rep[d].doc, rep[e].doc)
  BY DEF DInv, DocumentsSound, DocumentsAgree
<1> QED BY <1>1, <1>2, JoinKeepsSound

(* Of at most one thing, any two are the same.                               *)
LEMMA AtMostOne ==
    ASSUME NEW S, IsFiniteSet(S), Cardinality(S) <= 1, NEW x \in S, NEW y \in S
    PROVE  x = y
<1>1. Cardinality(S) \in Nat /\ Cardinality(S) # 0
  BY FS_CardinalityType, FS_EmptySet
<1>2. Cardinality(S) = 1
  BY <1>1
<1> QED BY <1>2, FS_Singleton

(* What was live and is not live after a merge was removed.                  *)
LEMMA LiveOrRemoved ==
    ASSUME NEW D, NEW E, D.adds \subseteq E.adds, NEW p, NEW a \in LiveAt(D, p)
    PROVE  a \in AddsAt(E, p) /\ (a \in LiveAt(E, p) \/ a.tag \in RemovedAt(E, p))
BY DEF LiveAt, AddsAt

(* A removal that arrives with a merge never takes unannounced what neither  *)
(* side's removals had seen (conflict.cpp, conflicts).                       *)
THEOREM LostEditsAreReported == SpecForked => MergeReportsLostEdits
<1>1. ASSUME DInv, NEW d \in Device, NEW e \in Device, Merge(d, rep[e].doc), NEW o \in Obj,
             Alive(rep[d].doc, o),
             ~(LiveTagsBeneath(rep[d].doc, o)
                    \subseteq TagsOf(rep[e].doc) \union RemovedAt(rep[d].doc, Presence(o))),
             Outermost(rep'[d].doc, o), ~Alive(rep'[d].doc, o)
      PROVE  \E c \in DeletedWhileEdited(rep'[d].doc) : c.obj = o
  <2> DEFINE D == rep[d].doc
             F == rep[e].doc
             E == rep'[d].doc
             q == Presence(o)
  <2>1. E.adds = D.adds \union F.adds /\ E.rems = D.rems \union F.rems
    BY <1>1, MergedFacts
  <2>2. PICK t \in LiveTagsBeneath(D, o) : t \notin TagsOf(F) /\ t \notin RemovedAt(D, q)
    BY <1>1
  <2>3. Alive(D, o) /\ ~Alive(E, o) /\ Outermost(E, o)
    BY <1>1
  <2> HIDE DEF D, E, F
  <2>4. PICK p \in Beneath(o) : \E a \in LiveAt(D, p) : a.tag = t
    BY DEF LiveTagsBeneath
  <2>5. PICK a \in LiveAt(D, p) : a.tag = t
    BY <2>4
  <2>6. \A r \in F.rems : r.tag # t
    BY <2>2 DEF TagsOf
  <2>7. t \notin RemovedAt(E, p) /\ t \notin RemovedAt(E, q)
    BY <2>1, <2>2, <2>5, <2>6 DEF RemovedAt, LiveAt
  <2>8. a \in LiveAt(E, p)
    BY <2>1, <2>5, <2>7, LiveOrRemoved
  <2>9. t \in LiveTagsBeneath(E, o)
    BY <2>4, <2>5, <2>8 DEF LiveTagsBeneath
  <2>10. RemovedAt(E, q) # {}
    <3>1. PICK b \in LiveAt(D, q) : TRUE
      BY <2>3 DEF Alive, Values
    <3>2. b \notin LiveAt(E, q)
      BY <2>3 DEF Alive, Values
    <3> QED BY <2>1, <3>1, <3>2, LiveOrRemoved
  <2>11. RacedByAnEdit(E, o)
    BY <2>3, <2>7, <2>9, <2>10 DEF RacedByAnEdit
  <2>12. [kind |-> "deleted_while_edited", obj |-> o] \in DeletedWhileEdited(E)
    BY <2>3, <2>11 DEF DeletedWhileEdited
  <2> QED BY <2>12 DEF E
<1>2. DInv => [\A d, e \in Device : d # e /\ Merge(d, rep[e].doc) =>
          \A o \in Obj :
              (/\ Alive(rep[d].doc, o)
               /\ ~(LiveTagsBeneath(rep[d].doc, o)
                        \subseteq TagsOf(rep[e].doc) \union RemovedAt(rep[d].doc, Presence(o)))
               /\ Outermost(rep'[d].doc, o))
              => Alive(rep'[d].doc, o)
                    \/ \E c \in DeletedWhileEdited(rep'[d].doc) : c.obj = o]_rep
  BY <1>1
<1> QED BY <1>2, ForksStaySound, PTL DEF MergeReportsLostEdits

(* A link that held before a merge and leads nowhere after it is explained   *)
(* (anomaly.cpp, anomalies).                                                 *)
THEOREM BrokenLinksAreReported == SpecForked => BrokenLinksAreExplained
<1>1. ASSUME DInv, NEW d \in Device, NEW e \in Device, Merge(d, rep[e].doc),
             NEW m \in LiveMantles(rep[d].doc) \intersect LiveMantles(rep'[d].doc),
             NEW x \in EndsOf(rep'[d].doc, m),
             x[1] \in LiveMantles(rep[d].doc) \intersect LiveMantles(rep'[d].doc),
             Holding(rep[d].doc, x[1], x[2]) # {}, Holding(rep'[d].doc, x[1], x[2]) = {}
      PROVE  LET E == rep'[d].doc IN
             \/ \E a \in LinksBroken(E) : a.mantle = m /\ a.subject = x
             \/ \E c \in ValueConflicts(E) :
                   \E r \in RunesOf(x[1]) : c.place = NameAt(r) /\ x[2] \in Values(E, c.place)
             \/ \E r \in RunesOf(x[1]) :
                   Policy[NameAt(r)] # "Conflict" /\ x[2] \in Values(E, NameAt(r))
             \/ \E r \in RunesOf(x[1]) :
                   /\ WasRemoved(E, r) /\ x[2] # Shown(E, NameAt(r))
                   /\ x[2] \in {a.val : a \in AddsAt(E, NameAt(r))}
  <2> DEFINE D == rep[d].doc
             E == rep'[d].doc
  <2>0. /\ Sound(D) /\ D \in Doc /\ Sound(E) /\ E \in Doc
        /\ D.adds \subseteq E.adds
        /\ IsFiniteSet(D.adds) /\ IsFiniteSet(E.adds)
    BY <1>1, ForkFacts, MergedFacts DEF Sound
  <2>1. /\ m \in LiveMantles(E) /\ x[1] \in LiveMantles(E) /\ x \in EndsOf(E, m)
        /\ Holding(D, x[1], x[2]) # {} /\ Holding(E, x[1], x[2]) = {}
    BY <1>1
  <2> HIDE DEF D, E
  <2>2. x \in Mantles \X Value
    <3>1. PICK v \in Values(E, EdgesAt(m)) : x \in Ends[v]
      BY <2>1 DEF EndsOf
    <3>2. v \in Value
      BY <2>0, <3>1, ValueFacts
    <3> QED BY <3>1, <3>2, TreeAssumption
  <2>3. PICK r \in RunesOf(x[1]) : Alive(D, r) /\ Shown(D, NameAt(r)) = x[2]
    BY <2>1 DEF Holding
  <2> DEFINE p == NameAt(r)
  <2>4. r \in Obj /\ Parent[r] = x[1] /\ x[1] # Root /\ p \in Fixed /\ p \in Reg /\ p[1] = r
    <3>1. r \in Obj /\ Parent[r] = x[1] /\ x[1] # Root
      BY <2>2, ParentAssumption DEF RunesOf, Mantles
    <3> QED BY <3>1, TreeAssumption DEF NameAt, Reg
  <2> HIDE DEF p
  <2>5. x[2] \in Values(D, p)
    <3>1. Values(D, p) # {}
      BY <2>0, <2>3, <2>4, FixedHasValue
    <3> QED BY <2>0, <2>3, <2>4, <3>1, ReadingFacts DEF p
  <2>6. PICK a \in LiveAt(D, p) : a.val = x[2]
    BY <2>5 DEF Values
  <2>7. a \in AddsAt(E, p) /\ (a \in LiveAt(E, p) \/ a.tag \in RemovedAt(E, p))
    BY <2>0, LiveOrRemoved
  <2> DEFINE y == <<m, x>>
             b == [kind |-> "link_broken", mantle |-> y[1], subject |-> y[2], cause |-> Cause(E, y[2]),
                   runes |-> IF Cause(E, y[2]) = "removed" THEN Lost(E, y[2][1], y[2][2])
                             ELSE Renamed(E, y[2][1], y[2][2])]
  <2>8. ASSUME Cause(E, x) # "none"
         PROVE  \E b1 \in LinksBroken(E) : b1.mantle = m /\ b1.subject = x
    <3>1. /\ y \in LiveMantles(E) \X (Mantles \X Value) /\ y[2] \in EndsOf(E, y[1])
          /\ y[2][1] \in LiveMantles(E) /\ Holding(E, y[2][1], y[2][2]) = {}
          /\ Cause(E, y[2]) # "none"
      BY <2>1, <2>2, <2>8
    <3>2. b \in LinksBroken(E)
      BY <3>1 DEF LinksBroken
    <3>3. b.mantle = m /\ b.subject = x
      OBVIOUS
    <3> QED BY <3>2, <3>3
  <2> HIDE DEF y, b
  <2>9. CASE ~Alive(E, r)
    <3>1. PICK c \in LiveAt(D, Presence(r)) : TRUE
      BY <2>3 DEF Alive, Values
    <3>2. c \notin LiveAt(E, Presence(r))
      BY <2>9 DEF Alive, Values
    <3>3. RemovedAt(E, Presence(r)) # {}
      BY <2>0, <3>1, <3>2, LiveOrRemoved
    <3>4. WasRemoved(E, r)
      BY <2>9, <3>3 DEF WasRemoved
    <3>5. CASE Shown(E, p) = x[2]
      <4>1. r \in Lost(E, x[1], x[2])
        BY <3>4, <3>5 DEF Lost, p
      <4>2. Cause(E, x) # "none"
        BY <4>1 DEF Cause
      <4> QED BY <4>2, <2>8 DEF E
    <3>6. CASE Shown(E, p) # x[2]
      <4>1. x[2] \in {a1.val : a1 \in AddsAt(E, NameAt(r))}
        BY <2>6, <2>7 DEF p
      <4> QED BY <3>4, <3>6, <4>1 DEF E, p
    <3> QED BY <3>5, <3>6
  <2>10. CASE Alive(E, r) /\ x[2] \in Values(E, p)
    <3>1. Shown(E, p) # x[2]
      BY <2>1, <2>10 DEF Holding, p
    <3>2. CASE Policy[p] # "Conflict"
      BY <2>10, <3>2 DEF p, E
    <3>3. CASE Policy[p] = "Conflict"
      <4>1. Reading(E, p) = Values(E, p) /\ Shown(E, p) \in Values(E, p)
        BY <2>0, <2>4, <2>10, <3>3, ReadingFacts
      <4>2. ~(Cardinality(Values(E, p)) <= 1)
        BY <2>0, <2>10, <3>1, <4>1, ValueFacts, AtMostOne
      <4>3. Conflicted(E, p)
        BY <2>0, <4>1, <4>2, ValueFacts DEF Conflicted
      <4>4. Outermost(E, r)
        BY <2>1, <2>4 DEF Outermost, LiveMantles
      <4>5. [kind |-> "values", place |-> p, sides |-> Reading(E, p)] \in ValueConflicts(E)
        BY <2>4, <2>10, <4>3, <4>4 DEF ValueConflicts
      <4> QED BY <2>10, <4>5 DEF p, E
    <3> QED BY <3>2, <3>3
  <2>11. CASE Alive(E, r) /\ x[2] \notin Values(E, p)
    <3>1. a.tag \in RemovedAt(E, p)
      BY <2>6, <2>7, <2>11 DEF Values
    <3>2. x[2] \in Former(E, p) /\ x[2] # Shown(E, p)
      <4>1. Shown(E, p) # x[2]
        BY <2>1, <2>11 DEF Holding, p
      <4> QED BY <2>6, <2>7, <2>11, <3>1, <4>1 DEF Former
    <3>3. r \in Renamed(E, x[1], x[2])
      BY <2>11, <3>2 DEF Renamed, p
    <3>4. Cause(E, x) # "none"
      BY <3>3 DEF Cause
    <3> QED BY <3>4, <2>8 DEF E
  <2> QED BY <2>9, <2>10, <2>11
<1>2. DInv => [\A d, e \in Device : d # e /\ Merge(d, rep[e].doc) =>
          LET D == rep[d].doc
              E == rep'[d].doc
          IN \A m \in LiveMantles(D) \intersect LiveMantles(E) : \A x \in EndsOf(E, m) :
                (/\ x[1] \in LiveMantles(D) \intersect LiveMantles(E)
                 /\ Holding(D, x[1], x[2]) # {} /\ Holding(E, x[1], x[2]) = {})
                => \/ \E a \in LinksBroken(E) : a.mantle = m /\ a.subject = x
                   \/ \E c \in ValueConflicts(E) :
                         \E r \in RunesOf(x[1]) : c.place = NameAt(r) /\ x[2] \in Values(E, c.place)
                   \/ \E r \in RunesOf(x[1]) :
                         Policy[NameAt(r)] # "Conflict" /\ x[2] \in Values(E, NameAt(r))
                   \/ \E r \in RunesOf(x[1]) :
                         /\ WasRemoved(E, r) /\ x[2] # Shown(E, NameAt(r))
                         /\ x[2] \in {a.val : a \in AddsAt(E, NameAt(r))}]_rep
  BY <1>1
<1> QED BY <1>2, ForksStaySound, PTL DEF BrokenLinksAreExplained

-----------------------------------------------------------------------------
(* Provenance. *)

(* The stamp of a value is the highest counter it was written with.          *)
LEMMA StampFacts ==
    ASSUME NEW D \in Doc, IsFiniteSet(D.adds), NEW p, NEW v \in Values(D, p),
           NEW stamp, stamp = Max({a.tag.n : a \in {b \in LiveAt(D, p) : b.val = v}})
    PROVE  /\ stamp \in Nat
           /\ stamp \in {a.tag.n : a \in {b \in LiveAt(D, p) : b.val = v}}
           /\ \A a \in LiveAt(D, p) : a.val = v => a.tag.n <= stamp
<1> DEFINE T == {b \in LiveAt(D, p) : b.val = v}
           stamps == {a.tag.n : a \in T}
           f == [a \in T |-> a.tag.n]
<1>1. LiveAt(D, p) \in SUBSET D.adds /\ LiveAt(D, p) \in SUBSET Add
  BY ValueFacts
<1>2. IsFiniteSet(T)
  <2>1. T \subseteq D.adds
    BY <1>1
  <2> QED BY <2>1, FS_Subset
<1>3. f \in Surjection(T, stamps)
  BY DEF Surjection
<1>4. IsFiniteSet(stamps)
  BY <1>2, <1>3, FS_Surjection
<1>5. stamps \in SUBSET Nat
  BY <1>1 DEF Add, Tag
<1>6. stamps # {}
  BY DEF Values
<1>7. \A a \in T : a.tag.n \in stamps
  OBVIOUS
<1>8. \A k \in stamps : \E a \in T : a.tag.n = k
  OBVIOUS
<1>9. stamp = Max(stamps)
  OBVIOUS
<1> HIDE DEF stamps, f
<1>10. Max(stamps) \in stamps /\ \A w \in stamps : w <= Max(stamps)
  BY <1>4, <1>5, <1>6, GreatestExists
<1>11. stamp \in stamps /\ \A w \in stamps : w <= stamp
  BY <1>9, <1>10
<1> QED BY <1>5, <1>7, <1>11 DEF stamps

(* Provenance explains every conflict and every choice (provenance.cpp,      *)
(* writers).                                                                 *)
THEOREM WritersAreExplained == SpecForked => []WritersExplainTheReading
<1>1. ASSUME DInv, NEW d \in Device, NEW p \in Reg
      PROVE  LET D == rep[d].doc IN
             /\ \A w, x \in Writers(D, p) : w # x => w.writers \intersect x.writers = {}
             /\ Policy[p] = "Latest" =>
                   \A w, x \in Writers(D, p) : w.value = Shown(D, p) => w.stamp >= x.stamp
  <2> DEFINE D == rep[d].doc
             T(v) == {b \in LiveAt(D, p) : b.val = v}
             row(v) == [value   |-> v,
                        writers |-> {a.tag.id : a \in T(v)},
                        stamp   |-> Max({a.tag.n : a \in T(v)})]
  <2>0. Sound(D) /\ D \in Doc /\ IsFiniteSet(D.adds) /\ OneAddPerTag(D) /\ ReplacesOwn(D, D)
    BY <1>1, ForkFacts DEF Sound, DInv, WritersReplace
  <2>1. \A w \in Writers(D, p) : \E v \in Values(D, p) : w = row(v)
    BY DEF Writers
  <2>2. \A v \in Values(D, p) :
           /\ row(v).stamp \in Nat
           /\ \E a \in LiveAt(D, p) : a.val = v /\ a.tag.n = row(v).stamp
           /\ \A a \in LiveAt(D, p) : a.val = v => a.tag.n <= row(v).stamp
    <3> TAKE v \in Values(D, p)
    <3>1. row(v).stamp = Max({a.tag.n : a \in {b \in LiveAt(D, p) : b.val = v}})
      OBVIOUS
    <3> HIDE DEF row
    <3>2. D \in Doc /\ IsFiniteSet(D.adds)
      BY <2>0
    <3> HIDE DEF D
    <3>3. row(v).stamp \in Nat
      BY <3>1, <3>2, StampFacts
    <3>4. \E a \in LiveAt(D, p) : a.val = v /\ a.tag.n = row(v).stamp
      <4>1. row(v).stamp \in {a.tag.n : a \in {b \in LiveAt(D, p) : b.val = v}}
        BY <3>1, <3>2, StampFacts
      <4> QED BY <4>1
    <3>5. \A a \in LiveAt(D, p) : a.val = v => a.tag.n <= row(v).stamp
      BY <3>1, <3>2, StampFacts
    <3> QED BY <3>3, <3>4, <3>5
  <2>3. \A v : /\ \A i \in row(v).writers : \E a \in LiveAt(D, p) : a.val = v /\ a.tag.id = i
               /\ row(v).value = v
    OBVIOUS
  <2> HIDE DEF D, row
  <2>4. \A a \in LiveAt(D, p) :
           /\ a \in D.adds /\ a \in AddsAt(D, p) /\ a.tag \notin RemovedAt(D, p)
           /\ a.tag = [id |-> a.tag.id, n |-> a.tag.n] /\ a.tag.n \in Nat /\ a.tag.id \in Id
    BY <2>0 DEF LiveAt, AddsAt, Doc, Add, Tag
  <2>5. ASSUME NEW a \in LiveAt(D, p), NEW b \in LiveAt(D, p), a.tag.id = b.tag.id
        PROVE  ~(b.tag.n < a.tag.n)
    <3> SUFFICES ASSUME b.tag.n < a.tag.n PROVE FALSE
      OBVIOUS
    <3>1. [place |-> p, tag |-> b.tag] \in D.rems
      BY <2>0, <2>4, <2>5 DEF ReplacesOwn
    <3>2. b.tag \in RemovedAt(D, p)
      BY <3>1 DEF RemovedAt
    <3> QED BY <2>4, <3>2
  <2>6. ASSUME NEW w \in Writers(D, p), NEW x \in Writers(D, p), w # x,
               NEW i \in w.writers, i \in x.writers
        PROVE  FALSE
    <3>1. PICK v \in Values(D, p), u \in Values(D, p) : w = row(v) /\ x = row(u)
      BY <2>1
    <3>2. PICK a \in LiveAt(D, p) : a.val = v /\ a.tag.id = i
      BY <2>3, <2>6, <3>1
    <3>3. PICK b \in LiveAt(D, p) : b.val = u /\ b.tag.id = i
      BY <2>3, <2>6, <3>1
    <3>4. a.tag.n = b.tag.n
      <4>1. ~(a.tag.n < b.tag.n) /\ ~(b.tag.n < a.tag.n)
        BY <2>5, <3>2, <3>3
      <4>2. a.tag.n \in Nat /\ b.tag.n \in Nat
        BY <2>4
      <4> QED BY <4>1, <4>2
    <3>5. a = b
      BY <2>0, <2>4, <3>2, <3>3, <3>4 DEF OneAddPerTag
    <3> QED BY <2>6, <3>1, <3>2, <3>3, <3>5
  <2>7. ASSUME Policy[p] = "Latest", NEW w \in Writers(D, p), NEW x \in Writers(D, p),
               w.value = Shown(D, p)
        PROVE  w.stamp >= x.stamp
    <3>1. PICK v \in Values(D, p), u \in Values(D, p) : w = row(v) /\ x = row(u)
      BY <2>1
    <3>2. v = Shown(D, p) /\ row(v).stamp \in Nat /\ row(u).stamp \in Nat
      BY <2>2, <2>3, <2>7, <3>1
    <3>3. CASE Cardinality(Values(D, p)) <= 1
      <4>1. u = v
        BY <2>0, <3>3, ValueFacts, AtMostOne
      <4> QED BY <3>1, <3>2, <4>1
    <3>4. CASE ~(Cardinality(Values(D, p)) <= 1)
      <4>1. Reading(D, p) = {LatestValue(D, p)} /\ Shown(D, p) \in Reading(D, p)
        BY <2>0, <2>7, <3>1, <3>4, ReadingFacts
      <4>2. LiveAt(D, p) # {}
        BY <3>1 DEF Values
      <4>3. PICK a \in LiveAt(D, p) : /\ LatestValue(D, p) = a.val
                                      /\ \A b \in LiveAt(D, p) : ~Outranks(b.tag, a.tag)
        BY <2>0, <4>2, LatestFacts
      <4>4. PICK b \in LiveAt(D, p) : b.val = u /\ b.tag.n = row(u).stamp
        BY <2>2
      <4>5. a.val = v /\ a.tag.n <= row(v).stamp
        BY <2>2, <3>2, <4>1, <4>3
      <4>6. a.tag.n \in Nat /\ b.tag.n \in Nat /\ ~(b.tag.n > a.tag.n)
        BY <2>4, <4>3 DEF Outranks
      <4>7. b.tag.n <= a.tag.n
        BY <4>6
      <4> QED BY <3>1, <3>2, <4>4, <4>5, <4>6, <4>7
    <3> QED BY <3>3, <3>4
  <2>8. \A w, x \in Writers(D, p) : w # x => w.writers \intersect x.writers = {}
    BY <2>6
  <2> QED BY <2>7, <2>8 DEF D
<1>2. DInv => WritersExplainTheReading
  BY <1>1 DEF WritersExplainTheReading
<1> QED BY <1>2, ForksStaySound, PTL

=============================================================================
