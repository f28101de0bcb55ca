------------------------------ MODULE LinksProofs ------------------------------
(***************************************************************************)
(* What check_links reports is right for any document: the union-find      *)
(* forest is the smallest equivalence the links generate, capacity is      *)
(* counted on its classes, and the explicit-stack search closes exactly    *)
(* the strongly connected components.                                      *)
(***************************************************************************)
EXTENDS Links, WellFoundedInduction, FiniteSetTheorems, TLAPS

-----------------------------------------------------------------------------
(* The invariant of the union-find pass: a parent is not greater, runes under *)
(* one root are tied, and the ends of a link already united have one root.    *)

Descending(par) == par \in [Rune -> Rune] /\ \A x \in Rune : par[x] <= x

FuseInv ==
    /\ Descending(parent)
    /\ todo \subseteq Under(Equivalence)
    /\ \A x, y \in Rune : Representative(x) = Representative(y) => Same(x, y)
    /\ pass # "open" =>
          \A l \in Under(Equivalence) \ todo : Representative(l.from) = Representative(l.to)
    /\ pass \in {"search", "done"} => todo = {}
    /\ pass = "open" => parent = [r \in Rune |-> r] /\ todo = {}

-----------------------------------------------------------------------------
(* The invariant of the search. *)

OnStack == {stack[k] : k \in DOMAIN stack}
Closed == UNION comps
Comes(x, y) == x = y \/ Reaches(x, y)
Frame == [at : Rune, rest : SUBSET Rune]

SearchTypes ==
    /\ pass \in {"open", "fuse", "search", "done"}
    /\ edges \subseteq Edge
    /\ Met \subseteq Searched
    /\ index \in [Met -> Nat] /\ low \in [Met -> Nat]
    /\ stack \in Seq(Rune)
    /\ work \in Seq(Frame)
    /\ pass \in {"open", "fuse"} => Met = {} /\ stack = <<>> /\ work = <<>> /\ comps = {}
    /\ pass = "done" => work = <<>> /\ Searched \subseteq Met

(* What is met is on the stack or closed, and the stack is in the order in   *)
(* which its runes were met.                                                 *)
StackInOrder ==
    /\ \A v \in Met : index[v] < Cardinality(Met)
    /\ Met = OnStack \union Closed /\ OnStack \intersect Closed = {}
    /\ \A i, j \in DOMAIN stack : i < j => index[stack[i]] < index[stack[j]]

(* The frames lie on the stack, in its order; no frame, nothing on it.       *)
WorkInOrder ==
    /\ \A k \in DOMAIN work :
          work[k].at \in OnStack /\ work[k].rest \subseteq Targets(work[k].at)
    /\ \A i, j \in DOMAIN work : i < j => index[work[i].at] < index[work[j].at]
    /\ work = <<>> => stack = <<>>

(* An arc that has not been looked at waits in a frame.                      *)
Waits(v, t) == \E k \in DOMAIN work : work[k].at = v /\ t \in work[k].rest
ArcsAreSeen == \A v \in Met : \A t \in Targets(v) : t \in Met \/ Waits(v, t)

(* What is closed is whole: its components are the strongly connected ones   *)
(* and no arc leaves it.                                                     *)
Component(x) == {y \in Rune : y = x \/ (Reaches(x, y) /\ Reaches(y, x))}
ClosedIsWhole ==
    /\ \A v \in Closed : Targets(v) \subseteq Closed
    /\ \A c \in comps : c # {} /\ \A x \in c : c = Component(x)

(* A frame's rune leads to all above it on the stack, and each rune on the   *)
(* stack leads to a frame's at or below it.                                  *)
FramesLead ==
    \A k \in DOMAIN work : \A x \in OnStack :
        index[work[k].at] <= index[x] => Comes(work[k].at, x)
StackLeadsBack ==
    \A x \in OnStack : \E k \in DOMAIN work :
        index[work[k].at] <= index[x] /\ Comes(x, work[k].at)

(* low is the index of a rune on the stack that can be reached ...           *)
LowIsReached ==
    \A v \in OnStack : \E u \in OnStack :
        low[v] = index[u] /\ index[u] <= index[v] /\ Comes(v, u)

(* ... and no arc looked at from a frame's rune, or from what was met after  *)
(* it and before the next frame's, leads below it.                           *)
Zone(k) ==
    {x \in OnStack : /\ index[work[k].at] <= index[x]
                     /\ k < Len(work) => index[x] < index[work[k + 1].at]}
LowIsLeast ==
    \A k \in DOMAIN work : \A x \in Zone(k) : \A t \in Targets(x) \intersect OnStack :
        low[work[k].at] <= index[t] \/ (x = work[k].at /\ t \in work[k].rest)

SearchInv ==
    /\ SearchTypes /\ StackInOrder /\ WorkInOrder /\ ArcsAreSeen /\ ClosedIsWhole
    /\ FramesLead /\ StackLeadsBack /\ LowIsReached /\ LowIsLeast

LInv == FuseInv /\ SearchInv

-----------------------------------------------------------------------------
(* Least elements, and the relation Leads. *)

(* A nonempty set of naturals has a least element, and Min chooses it.       *)
LEMMA LeastIsChosen ==
    ASSUME NEW S \in SUBSET Nat, S # {}
    PROVE  Min(S) \in S /\ \A y \in S : Min(S) <= y
<1>1. PICK x \in S : \A y \in S : ~(<<y, x>> \in OpToRel(<, Nat))
  BY NatLessThanWellFounded, WFMin
<1>2. \A y \in S : ~(y < x)
  BY <1>1 DEF OpToRel
<1>3. \A y \in S : x <= y
  BY <1>2
<1> QED BY <1>3 DEF Min

(* Min and Max of two naturals.                                              *)
LEMMA MinMaxOfTwo ==
    ASSUME NEW a \in Nat, NEW b \in Nat
    PROVE  /\ Min({a, b}) = IF a <= b THEN a ELSE b
           /\ Max({a, b}) = IF a <= b THEN b ELSE a
<1>1. Min({a, b}) = IF a <= b THEN a ELSE b
  BY DEF Min
<1>2. Max({a, b}) = IF a <= b THEN b ELSE a
  BY DEF Max
<1> QED BY <1>1, <1>2

(* A step leads there; a step can be put before or after what leads on.      *)
LEMMA LeadsBySteps ==
    ASSUME NEW R \in SUBSET (Rune \X Rune)
    PROVE  /\ \A x, y \in Rune : <<x, y>> \in R => Leads(R, x, y)
           /\ \A x, y, z \in Rune : Leads(R, x, y) /\ Leads(R, y, z) => Leads(R, x, z)
           /\ \A x, y, z \in Rune : <<x, y>> \in R /\ Leads(R, y, z) => Leads(R, x, z)
<1>1. \A x, y \in Rune : <<x, y>> \in R => Leads(R, x, y)
  BY DEF Leads
<1>2. ASSUME NEW x \in Rune, NEW y \in Rune, NEW z \in Rune, Leads(R, x, y), Leads(R, y, z)
      PROVE  Leads(R, x, z)
  <2> SUFFICES ASSUME NEW S \in SUBSET Rune,
                      \A p \in R : p[1] = x \/ p[1] \in S => p[2] \in S
               PROVE  z \in S
    BY DEF Leads
  <2>1. y \in S
    BY <1>2 DEF Leads
  <2>2. \A p \in R : p[1] = y \/ p[1] \in S => p[2] \in S
    BY <2>1
  <2> QED BY <1>2, <2>2 DEF Leads
<1> QED BY <1>1, <1>2

(* What holds of every step from x, and of the next step with each, holds of *)
(* all x leads to.                                                           *)
LEMMA LeadsWithin ==
    ASSUME NEW R \in SUBSET (Rune \X Rune), NEW x \in Rune, NEW y \in Rune, Leads(R, x, y),
           NEW S, \A p \in R : p[1] = x \/ p[1] \in S => p[2] \in S
    PROVE  y \in S
<1>1. \A p \in R : p[1] = x \/ p[1] \in (S \intersect Rune) => p[2] \in (S \intersect Rune)
  OBVIOUS
<1>2. y \in S \intersect Rune
  BY <1>1 DEF Leads
<1> QED BY <1>2

(* A relation that goes both ways leads back.                                *)
LEMMA LeadsBack ==
    ASSUME NEW R \in SUBSET (Rune \X Rune), \A p \in R : <<p[2], p[1]>> \in R,
           NEW x \in Rune, NEW y \in Rune, Leads(R, x, y)
    PROVE  Leads(R, y, x)
<1> DEFINE S == {z \in Rune : Leads(R, z, x)}
<1>1. ASSUME NEW p \in R, p[1] = x \/ p[1] \in S PROVE p[2] \in S
  <2>1. p[1] \in Rune /\ p[2] \in Rune /\ <<p[2], p[1]>> \in R
    OBVIOUS
  <2>2. CASE p[1] = x
    BY <2>1, <2>2, LeadsBySteps
  <2>3. CASE p[1] \in S
    BY <2>1, <2>3, LeadsBySteps
  <2> QED BY <1>1, <2>2, <2>3
<1> HIDE DEF S
<1>2. y \in S
  BY <1>1, LeadsWithin
<1> QED BY <1>2 DEF S

(* The first step of what leads from x to y.                                 *)
LEMMA FirstStep ==
    ASSUME NEW R \in SUBSET (Rune \X Rune), NEW x \in Rune, NEW y \in Rune, Leads(R, x, y)
    PROVE  \E z \in Rune : <<x, z>> \in R /\ (z = y \/ Leads(R, z, y))
<1> DEFINE S == {w \in Rune : \E z \in Rune : <<x, z>> \in R /\ (z = w \/ Leads(R, z, w))}
<1>1. ASSUME NEW p \in R, p[1] = x \/ p[1] \in S PROVE p[2] \in S
  <2>1. p[1] \in Rune /\ p[2] \in Rune /\ <<p[1], p[2]>> \in R
    OBVIOUS
  <2>2. CASE p[1] = x
    BY <2>1, <2>2
  <2>3. CASE p[1] \in S
    <3>1. PICK z \in Rune : <<x, z>> \in R /\ (z = p[1] \/ Leads(R, z, p[1]))
      BY <2>3
    <3>2. Leads(R, z, p[2])
      BY <2>1, <3>1, LeadsBySteps
    <3> QED BY <2>1, <3>1, <3>2
  <2> QED BY <1>1, <2>2, <2>3
<1> HIDE DEF S
<1>2. y \in S
  BY <1>1, LeadsWithin
<1> QED BY <1>2 DEF S

(* The last step of what leads from x to y.                                  *)
LEMMA LastStep ==
    ASSUME NEW R \in SUBSET (Rune \X Rune), NEW x \in Rune, NEW y \in Rune, Leads(R, x, y)
    PROVE  \E z \in Rune : <<z, y>> \in R
<1> DEFINE S == {w \in Rune : \E z \in Rune : <<z, w>> \in R}
<1>1. \A p \in R : p[1] = x \/ p[1] \in S => p[2] \in S
  OBVIOUS
<1> HIDE DEF S
<1>2. y \in S
  BY <1>1, LeadsWithin
<1> QED BY <1>2 DEF S

-----------------------------------------------------------------------------
(* The links of a document join runes. *)

(* A resolved link has runes at both ends.                                   *)
LEMMA LinksJoinRunes ==
    ASSUME edges \subseteq Edge
    PROVE  Links \subseteq [from : Rune, to : Rune, label : Label, note : Note]
<1> SUFFICES ASSUME NEW e \in edges, Resolves(e)
             PROVE  /\ RuneNamed(e.from) \in Rune /\ RuneNamed(e.to) \in Rune
                    /\ e.label \in Label /\ e.note \in Note
  BY DEF Links
<1>1. ASSUME NEW n, Cardinality(Holders(n)) = 1 PROVE RuneNamed(n) \in Rune
  <2>1. IsFiniteSet(Holders(n))
    BY FS_Subset, RuneAssumption DEF Holders
  <2>2. PICK r : Holders(n) = {r}
    BY <1>1, <2>1, FS_Singleton
  <2>3. r \in Rune
    BY <2>2 DEF Holders
  <2> QED BY <2>2, <2>3 DEF RuneNamed
<1> QED BY <1>1 DEF Resolves, Edge

(* So has one under some of the labels.                                      *)
LEMMA UnderTypes ==
    ASSUME edges \subseteq Edge, NEW labels
    PROVE  Under(labels) \subseteq [from : Rune, to : Rune, label : Label, note : Note]
BY LinksJoinRunes DEF Under

-----------------------------------------------------------------------------
(* The union-find forest. *)

(* Every way up ends in one root, at or below where it starts.               *)
LEMMA WayHasRoot ==
    ASSUME NEW par, Descending(par), NEW x \in Rune
    PROVE  /\ Find(par, x) \in Way(par, x) /\ par[Find(par, x)] = Find(par, x)
           /\ Find(par, x) \in Rune /\ Find(par, x) <= x
<1> DEFINE W == Way(par, x)
<1>1. x \in W /\ W \subseteq Rune
  BY DEF Way
<1>2. \A y \in W : par[y] \in W
  <2> SUFFICES ASSUME NEW y \in W PROVE par[y] \in W
    OBVIOUS
  <2>1. par[y] \in Rune
    BY <1>1 DEF Descending
  <2>2. ASSUME NEW S \in SUBSET Rune, x \in S, \A z \in S : par[z] \in S PROVE par[y] \in S
    BY <2>2 DEF Way
  <2> QED BY <2>1, <2>2 DEF Way
<1>3. \A y \in W : y <= x
  <2> DEFINE S == {y \in Rune : y <= x}
  <2>1. \A z \in Rune : z \in Nat /\ par[z] \in Rune /\ par[z] \in Nat /\ par[z] <= z
    BY RuneAssumption DEF Descending
  <2>2. x \in S /\ S \in SUBSET Rune
    BY <2>1
  <2>3. ASSUME NEW z \in S PROVE par[z] \in S
    BY <2>1
  <2> QED BY <2>2, <2>3 DEF Way
<1> HIDE DEF W
<1>4. W \in SUBSET Nat /\ W # {}
  BY <1>1, RuneAssumption
<1>5. PICK m \in W : \A y \in W : m <= y
  BY <1>4, LeastIsChosen
<1>6. par[m] = m
  <2>1. par[m] \in W /\ par[m] <= m /\ m <= par[m] /\ m \in Nat /\ par[m] \in Nat
    BY <1>1, <1>2, <1>4, <1>5 DEF Descending
  <2> QED BY <2>1
<1>7. Find(par, x) \in W /\ par[Find(par, x)] = Find(par, x)
  BY <1>5, <1>6 DEF Find, W
<1> QED BY <1>1, <1>3, <1>7 DEF W

(* A function that is the same for a rune and its parent, and is the root    *)
(* itself at a root, is Find.                                                *)
LEMMA FindIs ==
    ASSUME NEW par, Descending(par), NEW G,
           \A x \in Rune : G[par[x]] = G[x] /\ (par[x] = x => G[x] = x)
    PROVE  \A x \in Rune : Find(par, x) = G[x]
<1> SUFFICES ASSUME NEW x \in Rune PROVE Find(par, x) = G[x]
  OBVIOUS
<1> DEFINE S == {y \in Rune : G[y] = G[x]}
<1>1. x \in S /\ S \in SUBSET Rune /\ \A z \in S : par[z] \in S
  BY DEF Descending
<1>2. Find(par, x) \in S
  BY <1>1, WayHasRoot DEF Way
<1> QED BY <1>2, WayHasRoot

(* A rune and its parent have the same root; a root is its own.              *)
LEMMA FindSteps ==
    ASSUME NEW par, Descending(par)
    PROVE  \A x \in Rune : /\ Find(par, par[x]) = Find(par, x)
                           /\ par[x] = x => Find(par, x) = x
                           /\ \A y \in Way(par, x) : Find(par, y) = Find(par, x)
<1>1. ASSUME NEW x \in Rune, NEW y \in Way(par, x) PROVE y \in Rune /\ Way(par, y) \subseteq Way(par, x)
  <2>1. y \in Rune
    BY DEF Way
  <2>2. ASSUME NEW w \in Way(par, y), NEW S \in SUBSET Rune, x \in S, \A z \in S : par[z] \in S
        PROVE  w \in S
    <3>1. y \in S
      BY <2>2 DEF Way
    <3> QED BY <2>2, <3>1 DEF Way
  <2>3. \A w \in Way(par, y) : w \in Rune
    BY DEF Way
  <2> QED BY <2>1, <2>2, <2>3 DEF Way
<1>2. ASSUME NEW x \in Rune, NEW r \in Way(par, x), NEW s \in Way(par, x),
             par[r] = r, par[s] = s
      PROVE  r = s
  <2> DEFINE S == {y \in Rune : r \in Way(par, y)}
  <2>1. x \in S
    OBVIOUS
  <2>2. ASSUME NEW z \in S PROVE par[z] \in S
    <3>1. par[z] \in Rune /\ r \in Rune
      BY <1>1 DEF Descending
    <3>2. CASE r = z
      BY <1>2, <3>2
    <3>3. CASE r # z
      <4>1. ASSUME NEW T \in SUBSET Rune, par[z] \in T, \A w \in T : par[w] \in T PROVE r \in T
        <5>1. z \in T \union {z} /\ T \union {z} \in SUBSET Rune
               /\ \A w \in T \union {z} : par[w] \in T \union {z}
          BY <4>1
        <5>2. r \in T \union {z}
          BY <5>1 DEF Way
        <5> QED BY <3>3, <5>2
      <4> QED BY <3>1, <4>1 DEF Way
    <3> QED BY <3>2, <3>3
  <2> HIDE DEF S
  <2>3. s \in S
    BY <2>1, <2>2 DEF Way, S
  <2>4. r \in Way(par, s)
    BY <2>3 DEF S
  <2>5. {s} \in SUBSET Rune /\ s \in {s} /\ \A z \in {s} : par[z] \in {s}
    BY <1>1, <1>2
  <2> QED BY <2>4, <2>5 DEF Way
<1>3. ASSUME NEW x \in Rune, NEW y \in Way(par, x) PROVE Find(par, y) = Find(par, x)
  <2>1. y \in Rune /\ Find(par, y) \in Way(par, x) /\ Find(par, x) \in Way(par, x)
    BY <1>1, WayHasRoot
  <2> QED BY <1>2, <2>1, WayHasRoot
<1>4. \A x \in Rune : x \in Way(par, x) /\ par[x] \in Way(par, x)
  BY DEF Way, Descending
<1>5. ASSUME NEW x \in Rune, par[x] = x PROVE Find(par, x) = x
  BY <1>2, <1>4, <1>5, WayHasRoot
<1> QED BY <1>3, <1>4, <1>5

(* What unite does to the roots: the greater of the two gives way.           *)
LEMMA UnitedRoots ==
    ASSUME NEW par, Descending(par), NEW a \in Rune, NEW b \in Rune
    PROVE  LET ra == Find(par, a)
               rb == Find(par, b)
               m == IF ra <= rb THEN ra ELSE rb
           IN /\ Descending(United(par, a, b))
              /\ \A x \in Rune : Find(United(par, a, b), x) =
                     IF Find(par, x) \in {ra, rb} THEN m ELSE Find(par, x)
<1> DEFINE ra == Find(par, a)
           rb == Find(par, b)
           m == IF ra <= rb THEN ra ELSE rb
           top == IF ra <= rb THEN rb ELSE ra
           flat == [x \in Rune |->
                   IF x \in Way(par, a) THEN ra ELSE IF x \in Way(par, b) THEN rb ELSE par[x]]
           new == [flat EXCEPT ![top] = m]
           G == [x \in Rune |-> IF Find(par, x) \in {ra, rb} THEN m ELSE Find(par, x)]
<1>1. ra \in Rune /\ rb \in Rune /\ ra \in Nat /\ rb \in Nat /\ par[ra] = ra /\ par[rb] = rb
  BY WayHasRoot, RuneAssumption
<1>2. United(par, a, b) = new
  BY <1>1, MinMaxOfTwo DEF United
<1>3. \A x \in Rune : /\ x \in Way(par, a) => Find(par, x) = ra
                      /\ x \in Way(par, b) => Find(par, x) = rb
  BY FindSteps
<1>4. \A x \in Rune : Find(par, x) \in Rune /\ Find(par, x) <= x /\ x \in Nat
  BY WayHasRoot, RuneAssumption
<1>5. Find(par, ra) = ra /\ Find(par, rb) = rb
  BY <1>1, FindSteps
<1>6. \A x \in Rune : par[x] \in Rune /\ par[x] <= x /\ Find(par, par[x]) = Find(par, x)
          /\ (par[x] = x => Find(par, x) = x)
  BY FindSteps DEF Descending
<1> HIDE DEF ra, rb
<1>7. new \in [Rune -> Rune] /\ top \in Rune /\ m \in Rune /\ m <= top
  BY <1>1, <1>6
<1>8. \A x \in Rune : new[x] = IF x = top THEN m ELSE flat[x]
  BY <1>7
<1>9. Descending(new)
  <2> SUFFICES ASSUME NEW x \in Rune PROVE new[x] <= x
    BY <1>7 DEF Descending
  <2>1. CASE x = top
    BY <1>7, <1>8, <2>1
  <2>2. CASE x # top
    <3>1. new[x] = flat[x]
      BY <1>8, <2>2
    <3>2. flat[x] = ra \/ flat[x] = rb \/ flat[x] = par[x]
      OBVIOUS
    <3>3. x \in Way(par, a) => flat[x] = ra /\ ra <= x
      BY <1>3, <1>4
    <3>4. x \notin Way(par, a) /\ x \in Way(par, b) => flat[x] = rb /\ rb <= x
      BY <1>3, <1>4
    <3> QED BY <1>6, <3>1, <3>3, <3>4
  <2> QED BY <2>1, <2>2
<1>10. ASSUME NEW x \in Rune PROVE G[new[x]] = G[x] /\ (new[x] = x => G[x] = x)
  <2>1. G[ra] = m /\ G[rb] = m /\ G[m] = m /\ G[top] = m
    BY <1>1, <1>5
  <2>2. CASE x = top
    BY <1>7, <1>8, <2>1, <2>2
  <2>3. CASE x # top /\ x \in Way(par, a)
    <3>1. new[x] = ra /\ Find(par, x) = ra /\ G[x] = m
      BY <1>3, <1>8, <2>3
    <3>2. ra # top => ra = m
      BY <1>1
    <3> QED BY <2>1, <2>3, <3>1, <3>2
  <2>4. CASE x # top /\ x \notin Way(par, a) /\ x \in Way(par, b)
    <3>1. new[x] = rb /\ Find(par, x) = rb /\ G[x] = m
      BY <1>3, <1>8, <2>4
    <3>2. rb # top => rb = m
      BY <1>1
    <3> QED BY <2>1, <2>4, <3>1, <3>2
  <2>5. CASE x # top /\ x \notin Way(par, a) /\ x \notin Way(par, b)
    <3>1. new[x] = par[x]
      BY <1>8, <2>5
    <3>2. G[par[x]] = G[x]
      BY <1>6
    <3>3. par[x] = x => Find(par, x) = x
      BY <1>6
    <3>4. x \in {ra, rb} => x = m
      BY <1>1, <2>5
    <3> QED BY <3>1, <3>2, <3>3, <3>4
  <2> QED BY <2>2, <2>3, <2>4, <2>5
<1> HIDE DEF new, G, m
<1>11. \A x \in Rune : Find(new, x) = G[x]
  BY <1>9, <1>10, FindIs
<1> QED BY <1>2, <1>9, <1>11 DEF G, ra, rb, m

-----------------------------------------------------------------------------
(* The relations the properties speak of. *)

ArcPairs == {<<l.from, l.to>> : l \in Arcs}

(* Ties and arcs are pairs of runes, and ties go both ways.                  *)
LEMMA PairTypes ==
    ASSUME edges \subseteq Edge
    PROVE  /\ Ties \in SUBSET (Rune \X Rune) /\ ArcPairs \in SUBSET (Rune \X Rune)
           /\ \A p \in Ties : <<p[2], p[1]>> \in Ties
           /\ \A l \in Under(Equivalence) : /\ l.from \in Rune /\ l.to \in Rune
                                            /\ <<l.from, l.to>> \in Ties
           /\ \A v \in Rune : /\ Targets(v) \subseteq Rune
                              /\ \A w \in Rune : w \in Targets(v) <=> <<v, w>> \in ArcPairs
           /\ Searched \subseteq Rune
           /\ \A v \in Rune : \A w \in Targets(v) : v \in Searched /\ w \in Searched
<1> DEFINE E == Under(Equivalence)
           A == Arcs
<1>1. E \subseteq [from : Rune, to : Rune, label : Label, note : Note]
  BY UnderTypes
<1>2. A \subseteq [from : Rune, to : Rune, label : Label, note : Note]
  BY UnderTypes DEF Arcs
<1> HIDE DEF E, A
<1>3. \A l \in E : l.from \in Rune /\ l.to \in Rune
  BY <1>1
<1>4. \A l \in A : l.from \in Rune /\ l.to \in Rune
  BY <1>2
<1>5. Ties = {<<l.from, l.to>> : l \in E} \union {<<l.to, l.from>> : l \in E}
  BY DEF Ties, E
<1>6. ArcPairs = {<<l.from, l.to>> : l \in A} /\ Searched = {l.from : l \in A} \union {l.to : l \in A}
  BY DEF ArcPairs, Searched, A
<1>7. \A v : Targets(v) = {l.to : l \in {x \in A : x.from = v}}
  BY DEF Targets, A
<1>8. Ties \in SUBSET (Rune \X Rune) /\ \A p \in Ties : <<p[2], p[1]>> \in Ties
  BY <1>3, <1>5
<1>9. ArcPairs \in SUBSET (Rune \X Rune) /\ Searched \subseteq Rune
  BY <1>4, <1>6
<1>10. \A v \in Rune : Targets(v) \subseteq Rune /\ \A w \in Targets(v) : v \in Searched /\ w \in Searched
  BY <1>4, <1>6, <1>7
<1>11. ASSUME NEW v \in Rune, NEW w \in Rune PROVE w \in Targets(v) <=> <<v, w>> \in ArcPairs
  <2>1. w \in Targets(v) => <<v, w>> \in ArcPairs
    BY <1>6, <1>7
  <2>2. ASSUME <<v, w>> \in ArcPairs PROVE w \in Targets(v)
    <3>1. PICK l \in A : <<v, w>> = <<l.from, l.to>>
      BY <1>6, <2>2
    <3>2. l.from = v /\ l.to = w
      BY <3>1
    <3> QED BY <1>7, <3>2
  <2> QED BY <2>1, <2>2
<1> QED BY <1>3, <1>5, <1>8, <1>9, <1>10, <1>11 DEF E

(* Same is an equivalence; ties are in it.                                   *)
LEMMA SameIsEquivalence ==
    ASSUME edges \subseteq Edge
    PROVE  /\ \A x, y, z \in Rune : Same(x, y) /\ Same(y, z) => Same(x, z)
           /\ \A x, y \in Rune : Same(x, y) => Same(y, x)
           /\ \A l \in Under(Equivalence) : Same(l.from, l.to)
<1>1. Ties \in SUBSET (Rune \X Rune) /\ \A p \in Ties : <<p[2], p[1]>> \in Ties
  BY PairTypes
<1>2. \A x, y, z \in Rune : Same(x, y) /\ Same(y, z) => Same(x, z)
  BY <1>1, LeadsBySteps DEF Same
<1>3. \A x, y \in Rune : Same(x, y) => Same(y, x)
  BY <1>1, LeadsBack DEF Same
<1>4. \A l \in Under(Equivalence) : Same(l.from, l.to)
  BY <1>1, PairTypes, LeadsBySteps DEF Same
<1> QED BY <1>2, <1>3, <1>4

(* Arcs, and Reaches and Comes.                                              *)
LEMMA ReachesBySteps ==
    ASSUME edges \subseteq Edge
    PROVE  /\ \A x \in Rune : \A y \in Targets(x) : Reaches(x, y)
           /\ \A x, y, z \in Rune : Reaches(x, y) /\ Comes(y, z) => Reaches(x, z)
           /\ \A x, y, z \in Rune : Comes(x, y) /\ Reaches(y, z) => Reaches(x, z)
           /\ \A x, y, z \in Rune : Comes(x, y) /\ Comes(y, z) => Comes(x, z)
           /\ \A x, y \in Rune : Reaches(x, y) => \E z \in Targets(x) : Comes(z, y)
           /\ \A x, y \in Rune : Reaches(x, y) => x \in Searched
           /\ \A x, y \in Rune : \A S : Comes(x, y) /\ x \in S /\ (\A z \in S : Targets(z) \subseteq S)
                                            => y \in S
<1>1. ArcPairs \in SUBSET (Rune \X Rune)
  BY PairTypes
<1>2. \A x \in Rune : Targets(x) \subseteq Rune /\ \A y \in Rune : y \in Targets(x) <=> <<x, y>> \in ArcPairs
  BY PairTypes
<1>3. \A x, y : Reaches(x, y) = Leads(ArcPairs, x, y)
  BY DEF Reaches, ArcPairs
<1>4. \A x \in Rune : \A y \in Targets(x) : Reaches(x, y)
  BY <1>1, <1>2, <1>3, LeadsBySteps
<1>5. \A x, y, z \in Rune : Reaches(x, y) /\ Reaches(y, z) => Reaches(x, z)
  BY <1>1, <1>3, LeadsBySteps
<1>6. ASSUME NEW x \in Rune, NEW y \in Rune, Reaches(x, y)
      PROVE  \E z \in Targets(x) : Comes(z, y)
  <2>1. \E z \in Rune : <<x, z>> \in ArcPairs /\ (z = y \/ Leads(ArcPairs, z, y))
    BY <1>1, <1>3, <1>6, FirstStep
  <2> QED BY <1>2, <1>3, <2>1 DEF Comes
<1>7. \A x, y \in Rune : Reaches(x, y) => x \in Searched
  BY <1>2, <1>6, PairTypes
<1>8. ASSUME NEW x \in Rune, NEW y \in Rune, NEW S, Reaches(x, y), x \in S,
             \A z \in S : Targets(z) \subseteq S
      PROVE  y \in S
  <2>1. \A p \in ArcPairs : p[1] \in Rune /\ p[2] \in Rune /\ p[2] \in Targets(p[1])
    BY <1>1, <1>2
  <2>2. \A p \in ArcPairs : p[1] = x \/ p[1] \in S => p[2] \in S
    BY <1>8, <2>1
  <2> QED BY <1>1, <1>3, <1>8, <2>2, LeadsWithin
<1> QED BY <1>4, <1>5, <1>6, <1>7, <1>8 DEF Comes

-----------------------------------------------------------------------------
(* The union-find pass keeps its invariant. *)

(* Before any link is united every rune is its own class.                    *)
LEMMA FuseInit == Init => FuseInv
<1> SUFFICES ASSUME Init PROVE FuseInv
  OBVIOUS
<1>1. parent = [r \in Rune |-> r] /\ todo = {} /\ pass = "open"
  BY DEF Init
<1>2. Descending(parent)
  BY <1>1, RuneAssumption DEF Descending
<1>3. \A x \in Rune : Representative(x) = x
  BY <1>1, <1>2, FindSteps DEF Representative
<1> QED BY <1>1, <1>2, <1>3 DEF FuseInv, Same

(* Nothing but the pass and the document is changed.                         *)
LEMMA FuseKept ==
    ASSUME FuseInv, UNCHANGED <<edges, todo, parent>>,
           pass' # "open" => pass # "open",
           pass' \in {"search", "done"} => todo = {}, pass' = "open" => pass = "open"
    PROVE  FuseInv'
<1>1. Under(Equivalence)' = Under(Equivalence) /\ Ties' = Ties
  BY DEF Under, Ties, Links
<1>2. \A x, y : Same(x, y)' = Same(x, y)
  BY <1>1 DEF Same, Leads
<1>3. \A x : Representative(x)' = Representative(x)
  BY DEF Representative, Find, Way
<1> QED BY <1>1, <1>2, <1>3 DEF FuseInv

(* check_links starts the equivalence pass with every link to unite.         *)
LEMMA FuseBegun ==
    ASSUME FuseInv, CheckLinks
    PROVE  FuseInv'
<1>1. /\ Under(Equivalence)' = Under(Equivalence) /\ Ties' = Ties
      /\ todo' = Under(Equivalence) /\ pass' = "fuse" /\ parent' = parent
  BY DEF Under, Ties, Links, CheckLinks
<1>2. \A x, y : Same(x, y)' = Same(x, y)
  BY <1>1 DEF Same, Leads
<1>3. \A x : Representative(x)' = Representative(x)
  BY <1>1 DEF Representative, Find, Way
<1> QED BY <1>1, <1>2, <1>3 DEF FuseInv

(* While the document is put together every rune is by itself.               *)
LEMMA FuseHeld ==
    ASSUME FuseInv, NEW e, Hold(e)
    PROVE  FuseInv'
<1>1. parent' = [r \in Rune |-> r] /\ todo' = {} /\ pass' = "open" /\ parent' = parent
  BY DEF Hold, FuseInv
<1>2. Descending(parent')
  BY <1>1 DEF FuseInv
<1>3. \A x \in Rune : Representative(x)' = x
  BY <1>1, <1>2, FindSteps DEF Representative
<1> QED BY <1>1, <1>2, <1>3 DEF FuseInv, Same

(* Uniting the ends of one link adds its tie and nothing else.               *)
LEMMA FuseUnited ==
    ASSUME FuseInv, edges \subseteq Edge, NEW l \in todo, Unite(l)
    PROVE  FuseInv'
<1> DEFINE ra == Find(parent, l.from)
           rb == Find(parent, l.to)
           m == IF ra <= rb THEN ra ELSE rb
<1>1. /\ Under(Equivalence)' = Under(Equivalence) /\ Ties' = Ties
      /\ todo' = todo \ {l} /\ pass = "fuse" /\ pass' = "fuse"
      /\ parent' = United(parent, l.from, l.to)
  BY DEF Under, Ties, Links, Unite
<1>2. \A x, y : Same(x, y)' = Same(x, y)
  BY <1>1 DEF Same, Leads
<1>3. l \in Under(Equivalence) /\ l.from \in Rune /\ l.to \in Rune /\ Same(l.from, l.to)
  BY PairTypes, SameIsEquivalence DEF FuseInv
<1>4. Descending(parent) /\ \A x \in Rune : Find(parent, x) = Representative(x)
  BY DEF FuseInv, Representative
<1>5. /\ Descending(parent')
      /\ \A x \in Rune : Representative(x)' =
             IF Representative(x) \in {ra, rb} THEN m ELSE Representative(x)
  BY <1>1, <1>3, <1>4, UnitedRoots DEF Representative
<1>6. ra = Representative(l.from) /\ rb = Representative(l.to)
  BY <1>3, <1>4
<1> HIDE DEF ra, rb
<1>7. m \in {ra, rb}
  OBVIOUS
<1> HIDE DEF m
<1>8. ASSUME NEW x \in Rune, NEW y \in Rune, Representative(x)' = Representative(y)' PROVE Same(x, y)
  <2>1. \A u, v \in Rune : Representative(u) = Representative(v) => Same(u, v)
    BY DEF FuseInv
  <2>2. CASE Representative(x) = Representative(y)
    BY <2>1, <2>2
  <2>3. CASE Representative(x) # Representative(y)
    <3>1. Representative(x) \in {ra, rb} /\ Representative(y) \in {ra, rb}
      BY <1>5, <1>7, <1>8, <2>3
    <3>2. /\ Same(x, l.from) \/ Same(x, l.to)
          /\ Same(y, l.from) \/ Same(y, l.to)
      BY <1>3, <1>6, <2>1, <3>1
    <3>3. Same(l.from, l.to) /\ Same(l.to, l.from)
      BY <1>3, SameIsEquivalence
    <3>4. Same(x, l.from) /\ Same(l.from, y)
      BY <1>3, <3>2, <3>3, SameIsEquivalence
    <3> QED BY <1>3, <3>4, SameIsEquivalence
  <2> QED BY <2>2, <2>3
<1>9. ASSUME NEW k \in Under(Equivalence) \ todo' PROVE Representative(k.from)' = Representative(k.to)'
  <2>1. k.from \in Rune /\ k.to \in Rune
    BY PairTypes
  <2>2. CASE k = l
    BY <1>5, <1>6, <2>1, <2>2
  <2>3. CASE k # l
    <3>1. Representative(k.from) = Representative(k.to)
      BY <1>1, <2>3 DEF FuseInv
    <3> QED BY <1>5, <2>1, <3>1
  <2> QED BY <2>2, <2>3
<1>10. todo' \subseteq Under(Equivalence)'
  BY <1>1 DEF FuseInv
<1> QED BY <1>1, <1>2, <1>5, <1>8, <1>9, <1>10 DEF FuseInv

-----------------------------------------------------------------------------
(* What FuseInv says once every link is united. *)

(* A representative is a rune, at or below what it represents, and           *)
(* represents itself.                                                        *)
LEMMA RepresentativeTypes ==
    ASSUME FuseInv
    PROVE  \A x \in Rune : Representative(x) \in Rune /\ Representative(x) <= x
                           /\ Representative(Representative(x)) = Representative(x)
<1>1. Descending(parent)
  BY DEF FuseInv
<1>2. \A x \in Rune : /\ Representative(x) \in Rune /\ Representative(x) <= x
                      /\ parent[Representative(x)] = Representative(x)
  BY <1>1, WayHasRoot DEF Representative
<1> QED BY <1>1, <1>2, FindSteps DEF Representative

(* When no link is left to unite, one representative means tied together.    *)
LEMMA FusedIsSame ==
    ASSUME FuseInv, edges \subseteq Edge, pass \in {"search", "done"}
    PROVE  \A x, y \in Rune : Representative(x) = Representative(y) <=> Same(x, y)
<1>1. ASSUME NEW x \in Rune, NEW y \in Rune, Leads(Ties, x, y)
      PROVE  Representative(x) = Representative(y)
  <2> DEFINE S == {z \in Rune : Representative(x) = Representative(z)}
  <2>1. Ties \in SUBSET (Rune \X Rune)
    BY PairTypes
  <2>2. ASSUME NEW p \in Ties, p[1] = x \/ p[1] \in S PROVE p[2] \in S
    <3>1. p[1] \in Rune /\ p[2] \in Rune
      BY <2>1
    <3>2. PICK l \in Under(Equivalence) : p = <<l.from, l.to>> \/ p = <<l.to, l.from>>
      BY DEF Ties
    <3>3. Representative(l.from) = Representative(l.to)
      BY DEF FuseInv
    <3>4. Representative(p[1]) = Representative(p[2])
      BY <3>2, <3>3
    <3> QED BY <2>2, <3>1, <3>4
  <2> HIDE DEF S
  <2>3. y \in S
    BY <1>1, <2>1, <2>2, LeadsWithin
  <2> QED BY <2>3 DEF S
<1> QED BY <1>1 DEF FuseInv, Same

(* The quotient property from the invariant.                                 *)
LEMMA QuotientFollows ==
    ASSUME FuseInv, edges \subseteq Edge
    PROVE  QuotientIsSmallest
<1> SUFFICES ASSUME pass \in {"search", "done"}
             PROVE  /\ \A x, y \in Rune : Representative(x) = Representative(y) <=> Same(x, y)
                    /\ \A x, y \in Rune : Same(x, y) => Representative(x) <= y
                    /\ Classes = {c \in {{y \in Rune : Same(x, y)} : x \in Rune} : Cardinality(c) >= 2}
  BY DEF QuotientIsSmallest
<1>1. \A x, y \in Rune : Representative(x) = Representative(y) <=> Same(x, y)
  BY FusedIsSame
<1>2. \A x, y \in Rune : Same(x, y) => Representative(x) <= y
  BY <1>1, RepresentativeTypes
<1>3. ASSUME NEW r \in Rune, Cardinality(Class(r)) >= 2
      PROVE  \E x \in Rune : Class(r) = {y \in Rune : Same(x, y)}
  <2>1. Class(r) # {}
    BY <1>3, FS_EmptySet
  <2>2. PICK x \in Rune : Representative(x) = r
    BY <2>1 DEF Class
  <2>3. Class(r) = {y \in Rune : Same(x, y)}
    BY <1>1, <2>2 DEF Class
  <2> QED BY <2>3
<1>4. ASSUME NEW x \in Rune PROVE \E r \in Rune : Class(r) = {y \in Rune : Same(x, y)}
  <2>1. Class(Representative(x)) = {y \in Rune : Same(x, y)}
    BY <1>1 DEF Class
  <2> QED BY <2>1, RepresentativeTypes
<1>5. Classes = {c \in {{y \in Rune : Same(x, y)} : x \in Rune} : Cardinality(c) >= 2}
  BY <1>3, <1>4 DEF Classes
<1> QED BY <1>1, <1>2, <1>5

(* What occupies something occupies a rune.                                  *)
LEMMA EndsTypes ==
    ASSUME edges \subseteq Edge, NEW h \in AllEnds
    PROVE  h.rune \in Rune
<1>1. PICK l \in Occupying : h \in EndsOf(l)
  BY DEF AllEnds
<1>2. l.from \in Rune /\ l.to \in Rune
  BY UnderTypes DEF Occupying
<1>3. h.rune = l.from \/ h.rune = l.to
  BY <1>1 DEF EndsOf
<1> QED BY <1>2, <1>3

(* The capacity property from the quotient.                                  *)
LEMMA CapacityFollows ==
    ASSUME FuseInv, edges \subseteq Edge
    PROVE  CapacityIsOfTheClass
<1> SUFFICES ASSUME pass = "done", NEW h \in AllEnds
             PROVE  LET class == {x \in Rune : Same(x, h.rune)}
                        held == {g \in UNION {EndsOf(l) : l \in Under(Counted)} :
                                   /\ g.link.label \notin Equivalence
                                   /\ g.rune \in class /\ g.port = h.port}
                    IN <<Min(class), h.port>> \in OverCapacity <=> Cardinality(held) > Limit
  BY DEF CapacityIsOfTheClass
<1> DEFINE class == {x \in Rune : Same(x, h.rune)}
           held == {g \in UNION {EndsOf(l) : l \in Under(Counted)} :
                                   /\ g.link.label \notin Equivalence
                                   /\ g.rune \in class /\ g.port = h.port}
           r == Representative(h.rune)
<1>1. h.rune \in Rune
  BY EndsTypes
<1>2. \A x \in Rune : x \in class <=> Representative(x) = r
  BY <1>1, FusedIsSame
<1>3. Min(class) = r
  <2>1. r \in class /\ \A x \in class : r <= x
    BY <1>1, <1>2, RepresentativeTypes
  <2>2. class \in SUBSET Nat
    BY RuneAssumption
  <2> HIDE DEF class, r
  <2>3. Min(class) \in class /\ \A y \in class : Min(class) <= y
    BY <2>1, <2>2, LeastIsChosen
  <2>4. Min(class) <= r /\ r <= Min(class) /\ Min(class) \in Nat /\ r \in Nat
    BY <2>1, <2>2, <2>3
  <2> QED BY <2>4
<1>4. held = Held(r, h.port)
  <2>1. \A l : \A g \in EndsOf(l) : g.link = l
    BY DEF EndsOf
  <2>2. \A l : l \in Occupying <=> l \in Under(Counted) /\ l.label \notin Equivalence
    BY DEF Occupying, Under
  <2>3. \A g : g \in AllEnds <=> g \in UNION {EndsOf(l) : l \in Under(Counted)} /\ g.link.label \notin Equivalence
    BY <2>1, <2>2 DEF AllEnds
  <2>4. \A g \in AllEnds : g.rune \in class <=> Representative(g.rune) = r
    BY <1>2, EndsTypes
  <2> HIDE DEF class, r
  <2> QED BY <2>3, <2>4 DEF Held
<1> HIDE DEF class, held
<1>5. <<r, h.port>> \in OverCapacity <=> Cardinality(Held(r, h.port)) > Limit
  <2> DEFINE s == <<r, h.port>>
  <2>1. s \in {<<Representative(g.rune), g.port>> : g \in AllEnds}
    OBVIOUS
  <2>2. s[1] = r /\ s[2] = h.port
    OBVIOUS
  <2> HIDE DEF s
  <2> QED BY <2>1, <2>2 DEF OverCapacity, s
<1> QED BY <1>3, <1>4, <1>5 DEF class, held

-----------------------------------------------------------------------------
(* The search: before it, and what its invariant says of stack and frames.   *)

(* What the search is about depends on the edges alone.                      *)
LEMMA ArcsKept ==
    ASSUME edges' = edges
    PROVE  /\ Searched' = Searched
           /\ \A v : Targets(v)' = Targets(v)
           /\ \A x, y : Reaches(x, y)' = Reaches(x, y) /\ Comes(x, y)' = Comes(x, y)
           /\ \A x : Component(x)' = Component(x)
<1>1. Arcs' = Arcs
  BY DEF Arcs, Under, Links
<1>2. Searched' = Searched /\ \A v : Targets(v)' = Targets(v)
  BY <1>1 DEF Searched, Targets
<1>3. \A x, y : Reaches(x, y)' = Reaches(x, y)
  BY <1>1 DEF Reaches, Leads
<1>4. \A x, y : Comes(x, y)' = Comes(x, y)
  BY <1>3 DEF Comes
<1>5. \A x : Component(x)' = Component(x)
  BY <1>3 DEF Component
<1> QED BY <1>2, <1>3, <1>4, <1>5

(* The search invariant holds of a search that has not begun,                *)
LEMMA SearchInit == Init => SearchInv
<1> SUFFICES ASSUME Init PROVE SearchInv
  OBVIOUS
<1>1. /\ edges = {} /\ pass = "open" /\ index = <<>> /\ low = <<>> /\ stack = <<>>
      /\ work = <<>> /\ comps = {}
  BY DEF Init
<1>2. Met = {} /\ OnStack = {} /\ Closed = {} /\ DOMAIN work = {} /\ DOMAIN stack = {} /\ DOMAIN low = {}
  BY <1>1 DEF Met, OnStack, Closed
<1>3. index \in [Met -> Nat] /\ low \in [Met -> Nat]
  BY <1>1, <1>2
<1>4. SearchTypes
  BY <1>1, <1>2, <1>3 DEF SearchTypes
<1>5. StackInOrder /\ WorkInOrder /\ ArcsAreSeen
  BY <1>1, <1>2 DEF StackInOrder, WorkInOrder, ArcsAreSeen
<1>6. ClosedIsWhole
  BY <1>1, <1>2 DEF ClosedIsWhole
<1>7. FramesLead /\ StackLeadsBack /\ LowIsReached /\ LowIsLeast
  BY <1>1, <1>2 DEF FramesLead, StackLeadsBack, LowIsReached, LowIsLeast
<1> QED BY <1>4, <1>5, <1>6, <1>7 DEF SearchInv

(* and while the document is put together.                                   *)
LEMMA SearchHeld ==
    ASSUME SearchInv, NEW e \in Edge, Hold(e)
    PROVE  SearchInv'
<1>1. /\ edges' \subseteq Edge /\ pass = "open" /\ pass' = "open" /\ index' = index /\ low' = low
      /\ stack' = <<>> /\ work' = <<>> /\ comps' = {} /\ Met = {}
  BY DEF Hold, SearchInv, SearchTypes, search
<1>2. Met' = {} /\ OnStack' = {} /\ Closed' = {} /\ DOMAIN work' = {} /\ DOMAIN stack' = {}
  BY <1>1 DEF Met, OnStack, Closed
<1>3. index' \in [Met' -> Nat] /\ low' \in [Met' -> Nat]
  BY <1>1, <1>2 DEF SearchInv, SearchTypes
<1>4. SearchTypes'
  BY <1>1, <1>2, <1>3 DEF SearchTypes
<1>5. StackInOrder' /\ WorkInOrder' /\ ArcsAreSeen'
  BY <1>1, <1>2 DEF StackInOrder, WorkInOrder, ArcsAreSeen
<1>6. ClosedIsWhole'
  BY <1>1, <1>2 DEF ClosedIsWhole
<1>7. FramesLead' /\ StackLeadsBack' /\ LowIsReached' /\ LowIsLeast'
  BY <1>1, <1>2 DEF FramesLead, StackLeadsBack, LowIsReached, LowIsLeast
<1> QED BY <1>4, <1>5, <1>6, <1>7 DEF SearchInv

(* A step that leaves the search as it is: only the types mention the pass.  *)
LEMMA SearchKept ==
    ASSUME SearchInv, edges' = edges, UNCHANGED search,
           SearchTypes'
    PROVE  SearchInv'
<1>1. /\ index' = index /\ low' = low /\ stack' = stack /\ work' = work /\ comps' = comps
  BY DEF search
<1>2. /\ Met' = Met /\ OnStack' = OnStack /\ Closed' = Closed /\ \A k : Zone(k)' = Zone(k)
      /\ \A v, t : Waits(v, t)' = Waits(v, t)
  BY <1>1 DEF Met, OnStack, Closed, Zone, Waits
<1>3. StackInOrder' /\ WorkInOrder' /\ ArcsAreSeen'
  BY <1>1, <1>2, ArcsKept DEF SearchInv, StackInOrder, WorkInOrder, ArcsAreSeen
<1>4. ClosedIsWhole'
  BY <1>1, <1>2, ArcsKept DEF SearchInv, ClosedIsWhole
<1>5. FramesLead' /\ StackLeadsBack'
  BY <1>1, <1>2, ArcsKept DEF SearchInv, FramesLead, StackLeadsBack
<1>6. LowIsReached'
  BY <1>1, <1>2, ArcsKept DEF SearchInv, LowIsReached
<1>7. LowIsLeast'
  BY <1>1, <1>2, ArcsKept DEF SearchInv, LowIsLeast
<1> QED BY <1>3, <1>4, <1>5, <1>6, <1>7 DEF SearchInv

(* What the later lemmas read off the invariant at once.                     *)
LEMMA StackFacts ==
    ASSUME SearchInv
    PROVE  /\ OnStack \subseteq Met /\ Met \subseteq Rune /\ IsFiniteSet(Met)
           /\ \A x \in Met : index[x] \in Nat /\ low[x] \in Nat
           /\ \A x \in OnStack : low[x] <= index[x]
           /\ \A x, y \in OnStack : index[x] = index[y] => x = y
           /\ \A v \in Rune : Targets(v) \subseteq Rune
           /\ \A k \in DOMAIN work :
                 /\ work[k].at \in OnStack /\ work[k].rest \subseteq Rune /\ work[k] \in Frame
                 /\ index[work[1].at] <= index[work[k].at]
           /\ \A j, k \in DOMAIN work :
                 /\ work[j].at = work[k].at => j = k
                 /\ index[work[j].at] <= index[work[k].at] <=> j <= k
<1> USE DEF SearchInv
<1>1. OnStack \subseteq Met /\ Met \subseteq Rune
  BY PairTypes DEF StackInOrder, SearchTypes
<1>2. IsFiniteSet(Met)
  BY <1>1, FS_Subset, RuneAssumption
<1>3. \A x \in Met : index[x] \in Nat /\ low[x] \in Nat
  BY DEF SearchTypes
<1>4. \A x \in OnStack : low[x] <= index[x]
  BY DEF LowIsReached
<1>5. ASSUME NEW x \in OnStack, NEW y \in OnStack, index[x] = index[y] PROVE x = y
  <2>1. PICK i \in DOMAIN stack : stack[i] = x
    BY DEF OnStack
  <2>2. PICK j \in DOMAIN stack : stack[j] = y
    BY DEF OnStack
  <2>3. i \in Nat /\ j \in Nat
    BY DEF SearchTypes
  <2>4. ~(i < j) /\ ~(j < i)
    BY <1>1, <1>3, <1>5, <2>1, <2>2 DEF StackInOrder
  <2>5. i = j
    BY <2>3, <2>4
  <2> QED BY <2>1, <2>2, <2>5
<1>6. \A v \in Rune : Targets(v) \subseteq Rune
  BY PairTypes DEF SearchTypes
<1>7. \A k \in DOMAIN work : work[k].at \in OnStack /\ work[k] \in Frame /\ work[k].rest \subseteq Rune
  <2>1. \A k \in DOMAIN work : work[k] \in Frame
    BY DEF SearchTypes
  <2> QED BY <2>1 DEF WorkInOrder, Frame
<1>8. \A k \in DOMAIN work : work[k].at \in Met /\ index[work[k].at] \in Nat /\ k \in Nat
  BY <1>1, <1>3, <1>7 DEF SearchTypes
<1>9. ASSUME NEW j \in DOMAIN work, NEW k \in DOMAIN work
      PROVE  /\ work[j].at = work[k].at => j = k
             /\ index[work[j].at] <= index[work[k].at] <=> j <= k
  <2>1. j < k => index[work[j].at] < index[work[k].at]
    BY DEF WorkInOrder
  <2>2. k < j => index[work[k].at] < index[work[j].at]
    BY DEF WorkInOrder
  <2>3. j < k \/ j = k \/ k < j
    BY <1>8
  <2> QED BY <1>8, <2>1, <2>2, <2>3
<1>10. \A k \in DOMAIN work : 1 \in DOMAIN work /\ 1 <= k
  <2>1. work \in Seq(Frame)
    BY DEF SearchTypes
  <2> QED BY <2>1
<1> QED BY <1>1, <1>2, <1>3, <1>4, <1>5, <1>6, <1>7, <1>9, <1>10

(* The stack above v is what was met from v on; popping leaves the rest.     *)
LEMMA PopFacts ==
    ASSUME SearchInv, NEW v \in OnStack
    PROVE  /\ Above(v) = {x \in OnStack : index[v] <= index[x]}
           /\ LET s == SubSeq(stack, 1, Depth(v) - 1)
              IN /\ s \in Seq(Rune)
                 /\ \A i \in DOMAIN s : i \in DOMAIN stack /\ s[i] = stack[i]
                 /\ {s[i] : i \in DOMAIN s} = OnStack \ Above(v)
                 /\ index[v] <= index[stack[1]] => s = <<>>
<1> USE DEF SearchInv
<1> DEFINE d == Depth(v)
           s == SubSeq(stack, 1, d - 1)
<1>1. stack \in Seq(Rune) /\ \A i \in DOMAIN stack : stack[i] \in OnStack
  BY DEF SearchTypes, OnStack
<1>2. d \in DOMAIN stack /\ stack[d] = v
  BY DEF Depth, OnStack
<1>3. d \in 1..Len(stack) /\ Len(stack) \in Nat /\ DOMAIN stack = 1..Len(stack)
  BY <1>1, <1>2
<1> HIDE DEF d
<1>4. \A i \in DOMAIN stack : index[stack[i]] \in Nat
  BY <1>1, StackFacts
<1>5. \A i \in DOMAIN stack : index[v] <= index[stack[i]] <=> d <= i
  <2> SUFFICES ASSUME NEW i \in DOMAIN stack PROVE index[v] <= index[stack[i]] <=> d <= i
    OBVIOUS
  <2>1. i < d => index[stack[i]] < index[v]
    BY <1>2 DEF StackInOrder
  <2>2. d < i => index[v] < index[stack[i]]
    BY <1>2 DEF StackInOrder
  <2>3. i \in Nat /\ d \in Nat /\ index[v] \in Nat /\ index[stack[i]] \in Nat
    BY <1>2, <1>3, <1>4
  <2>4. i = d => index[v] = index[stack[i]]
    BY <1>2
  <2> QED BY <2>1, <2>2, <2>3, <2>4
<1>6. Above(v) = {x \in OnStack : index[v] <= index[x]}
  <2>1. Above(v) = {stack[k] : k \in d..Len(stack)}
    BY DEF Above, d
  <2>2. \A k \in DOMAIN stack : k \in d..Len(stack) <=> d <= k
    BY <1>3
  <2>3. d..Len(stack) \subseteq DOMAIN stack
    BY <1>3
  <2> QED BY <1>1, <1>5, <2>1, <2>2, <2>3 DEF OnStack
<1>7. s \in Seq(Rune) /\ DOMAIN s = 1..(d - 1) /\ \A i \in 1..(d - 1) : s[i] = stack[i]
  BY <1>1, <1>3
<1>8. \A i \in DOMAIN stack : i \in 1..(d - 1) <=> ~(d <= i)
  BY <1>3
<1>9. \A i \in 1..(d - 1) : i \in DOMAIN stack
  BY <1>3
<1>10. {s[i] : i \in DOMAIN s} = OnStack \ Above(v)
  <2>1. ASSUME NEW x \in OnStack \ Above(v) PROVE \E i \in DOMAIN s : s[i] = x
    <3>1. PICK i \in DOMAIN stack : stack[i] = x
      BY DEF OnStack
    <3>2. i \in 1..(d - 1)
      BY <1>5, <1>6, <1>8, <2>1, <3>1
    <3> QED BY <1>7, <3>1, <3>2
  <2>2. ASSUME NEW i \in DOMAIN s PROVE s[i] \in OnStack \ Above(v)
    BY <1>1, <1>5, <1>6, <1>7, <1>8, <1>9
  <2> QED BY <2>1, <2>2
<1>11. ASSUME index[v] <= index[stack[1]] PROVE s = <<>>
  <2>1. 1 \in DOMAIN stack
    BY <1>3
  <2>2. d = 1
    BY <1>3, <1>5, <1>11, <2>1
  <2> QED BY <1>7, <2>2
<1> QED BY <1>6, <1>7, <1>9, <1>10, <1>11 DEF d

-----------------------------------------------------------------------------
(* A rune is met. *)

(* Meeting a rune puts it on the stack, above all the others.                *)
LEMMA MeetKeeps ==
    ASSUME SearchInv, edges' = edges, comps' = comps, NEW v \in Searched \ Met, Meet(v)
    PROVE  /\ Met' = Met \union {v} /\ OnStack' = OnStack \union {v} /\ Closed' = Closed
           /\ v \notin OnStack /\ v \notin Closed
           /\ \A x \in Met : index'[x] = index[x] /\ low'[x] = low[x] /\ index'[x] < index'[v]
           /\ index'[v] \in Nat /\ low'[v] = index'[v]
           /\ index' \in [Met' -> Nat] /\ low' \in [Met' -> Nat]
           /\ stack' \in Seq(Rune) /\ stack' # <<>>
           /\ Met' \subseteq Searched' /\ StackInOrder'
<1> USE DEF SearchInv
<1> DEFINE n == Cardinality(Met)
<1>1. /\ stack \in Seq(Rune) /\ v \in Rune /\ DOMAIN low = Met /\ DOMAIN index = Met
  BY PairTypes DEF SearchTypes, Met
<1>2. n \in Nat /\ Cardinality(Met \union {v}) = n + 1
  <2>1. IsFiniteSet(Met) /\ v \notin Met
    BY StackFacts
  <2> QED BY <2>1, FS_AddElement, FS_CardinalityType
<1> HIDE DEF n
<1>3. /\ index' = [y \in Met \union {v} |-> IF y = v THEN n ELSE index[y]]
      /\ low' = [y \in Met \union {v} |-> IF y = v THEN n ELSE low[y]]
      /\ stack' = Append(stack, v)
  BY <1>1 DEF Meet, With, n
<1>4. Met' = Met \union {v}
  BY <1>3 DEF Met
<1>5. /\ stack' \in Seq(Rune) /\ stack' # <<>> /\ Len(stack') = Len(stack) + 1
      /\ stack'[Len(stack) + 1] = v /\ \A i \in DOMAIN stack : stack'[i] = stack[i]
      /\ Len(stack) \in Nat /\ DOMAIN stack = 1..Len(stack) /\ DOMAIN stack' = 1..(Len(stack) + 1)
  BY <1>1, <1>3
<1>6. \A i \in DOMAIN stack' : i \in DOMAIN stack \/ i = Len(stack) + 1
  BY <1>5
<1>7. OnStack' = OnStack \union {v}
  BY <1>5, <1>6 DEF OnStack
<1>8. Closed' = Closed
  BY DEF Closed
<1>9. v \notin OnStack /\ v \notin Closed
  BY DEF StackInOrder
<1>10. \A x \in Met : index'[x] = index[x] /\ low'[x] = low[x] /\ index'[x] < n
  BY <1>3 DEF StackInOrder, n
<1>11. index'[v] = n /\ low'[v] = n
  BY <1>3
<1>12. index' \in [Met' -> Nat] /\ low' \in [Met' -> Nat]
  BY <1>2, <1>3, <1>4, StackFacts
<1>13. Met' \subseteq Searched'
  BY <1>4, ArcsKept DEF SearchTypes
<1>14. \A i \in DOMAIN stack : stack[i] \in OnStack /\ stack[i] \in Met
  BY StackFacts DEF OnStack
<1>15. ASSUME NEW i \in DOMAIN stack', NEW j \in DOMAIN stack', i < j
       PROVE  index'[stack'[i]] < index'[stack'[j]]
  <2>1. i \in DOMAIN stack /\ stack'[i] = stack[i]
    BY <1>5, <1>15
  <2>2. CASE j \in DOMAIN stack
    BY <1>5, <1>10, <1>14, <1>15, <2>1, <2>2 DEF StackInOrder
  <2>3. CASE j = Len(stack) + 1
    BY <1>5, <1>10, <1>11, <1>14, <2>1, <2>3
  <2> QED BY <1>6, <2>2, <2>3
<1>16. \A x \in Met' : index'[x] < Cardinality(Met')
  <2>1. \A x \in Met : index'[x] < n /\ index'[x] \in Nat
    BY <1>10, StackFacts
  <2>2. Cardinality(Met') = n + 1
    BY <1>2, <1>4
  <2> QED BY <1>2, <1>4, <1>11, <2>1, <2>2
<1>17. Met' = OnStack' \union Closed' /\ OnStack' \intersect Closed' = {}
  BY <1>4, <1>7, <1>8, <1>9 DEF StackInOrder
<1>18. StackInOrder'
  BY <1>15, <1>16, <1>17 DEF StackInOrder
<1> QED BY <1>2, <1>4, <1>5, <1>7, <1>8, <1>9, <1>10, <1>11, <1>12, <1>13, <1>18

(* What is closed stays as it is while components stay.                      *)
LEMMA ClosedKept ==
    ASSUME SearchInv, edges' = edges, comps' = comps
    PROVE  ClosedIsWhole'
<1>1. Closed' = Closed
  BY DEF Closed
<1> QED BY <1>1, ArcsKept DEF SearchInv, ClosedIsWhole

(* The search begins anew: one frame, one rune on the stack.                 *)
LEMMA SearchBegun ==
    ASSUME SearchInv, Begin
    PROVE  SearchInv'
<1> USE DEF SearchInv
<1> DEFINE v == Min(Searched \ Met)
<1>1. /\ pass = "search" /\ pass' = "search" /\ edges' = edges /\ comps' = comps
      /\ work = <<>> /\ Searched \ Met # {}
      /\ Meet(v) /\ work' = <<[at |-> v, rest |-> Targets(v)]>>
  BY DEF Begin
<1>2. v \in Searched \ Met /\ v \in Rune /\ v \in Nat
  <2>1. Searched \subseteq Rune
    BY PairTypes DEF SearchTypes
  <2>2. (Searched \ Met) \in SUBSET Nat
    BY <2>1, RuneAssumption
  <2>3. v \in Searched \ Met
    BY <1>1, <2>2, LeastIsChosen
  <2> QED BY <2>1, <2>2, <2>3
<1> HIDE DEF v
<1>3. /\ Met' = Met \union {v} /\ OnStack' = OnStack \union {v} /\ Closed' = Closed
      /\ v \notin OnStack /\ v \notin Closed
      /\ \A x \in Met : index'[x] = index[x] /\ low'[x] = low[x] /\ index'[x] < index'[v]
      /\ index'[v] \in Nat /\ low'[v] = index'[v]
      /\ index' \in [Met' -> Nat] /\ low' \in [Met' -> Nat]
      /\ stack' \in Seq(Rune) /\ stack' # <<>>
      /\ Met' \subseteq Searched' /\ StackInOrder'
  BY <1>1, <1>2, MeetKeeps
<1>4. stack = <<>> /\ OnStack = {}
  BY <1>1 DEF WorkInOrder, OnStack
<1>5. OnStack' = {v}
  BY <1>3, <1>4
<1>6. /\ work' \in Seq(Frame) /\ DOMAIN work' = {1} /\ Len(work') = 1
      /\ work'[1].at = v /\ work'[1].rest = Targets(v) /\ work' # <<>>
  BY <1>1, <1>2, PairTypes DEF Frame, SearchTypes
<1>7. SearchTypes'
  BY <1>1, <1>3, <1>6 DEF SearchTypes
<1>8. WorkInOrder'
  BY <1>1, <1>5, <1>6, ArcsKept DEF WorkInOrder
<1>9. ArcsAreSeen'
  <2> SUFFICES ASSUME NEW x \in Met', NEW t \in Targets(x) PROVE t \in Met' \/ Waits(x, t)'
    BY <1>1, ArcsKept DEF ArcsAreSeen
  <2>1. CASE x = v
    BY <1>6, <2>1 DEF Waits
  <2>2. CASE x \in Met
    BY <1>1, <1>3, <2>2 DEF ArcsAreSeen, Waits
  <2> QED BY <1>3, <2>1, <2>2
<1>10. ClosedIsWhole'
  BY <1>1, ClosedKept
<1>11. FramesLead' /\ StackLeadsBack' /\ LowIsReached'
  BY <1>3, <1>5, <1>6 DEF FramesLead, StackLeadsBack, LowIsReached, Comes
<1>12. LowIsLeast'
  <2> SUFFICES ASSUME NEW k \in DOMAIN work', NEW x \in OnStack', NEW t \in Targets(x)
               PROVE  x = work'[k].at /\ t \in work'[k].rest
    BY <1>1, ArcsKept DEF LowIsLeast, Zone
  <2> QED BY <1>5, <1>6
<1> QED BY <1>3, <1>7, <1>8, <1>9, <1>10, <1>11, <1>12

(* The frames while one looks at w from the last: only its rest shrinks.     *)
LEMMA TryingFacts ==
    ASSUME SearchInv, work # <<>>, NEW w
    PROVE  /\ Trying(w) \in Seq(Frame) /\ Len(Trying(w)) = Len(work) /\ Len(work) \in Nat \ {0}
           /\ DOMAIN Trying(w) = DOMAIN work /\ DOMAIN work = 1..Len(work)
           /\ Len(work) \in DOMAIN work
           /\ \A k \in DOMAIN work : Trying(w)[k].at = work[k].at
           /\ \A k \in DOMAIN work : k # Len(work) => Trying(w)[k].rest = work[k].rest
           /\ Trying(w)[Len(work)].rest = work[Len(work)].rest \ {w}
           /\ Last(work) = work[Len(work)]
<1>1. work \in Seq(Frame) /\ Len(work) \in Nat \ {0} /\ DOMAIN work = 1..Len(work)
  BY DEF SearchInv, SearchTypes
<1>2. work[Len(work)] \in Frame /\ Len(work) \in DOMAIN work
  BY <1>1
<1> DEFINE f == [work[Len(work)] EXCEPT !.rest = @ \ {w}]
<1>3. f \in Frame /\ f.at = work[Len(work)].at /\ f.rest = work[Len(work)].rest \ {w}
  BY <1>2 DEF Frame
<1>4. Trying(w) = [work EXCEPT ![Len(work)] = f]
  BY <1>2 DEF Trying
<1> HIDE DEF f
<1>5. Trying(w) \in Seq(Frame) /\ Len(Trying(w)) = Len(work) /\ DOMAIN Trying(w) = DOMAIN work
  BY <1>1, <1>2, <1>3, <1>4
<1>6. \A k \in DOMAIN work : Trying(w)[k] = IF k = Len(work) THEN f ELSE work[k]
  BY <1>4
<1> QED BY <1>1, <1>2, <1>3, <1>5, <1>6 DEF Last

(* The search goes down to a rune not met before.                            *)
LEMMA SearchDescended ==
    ASSUME SearchInv, NEW w \in Rune, Descend(w)
    PROVE  SearchInv'
<1> USE DEF SearchInv
<1> DEFINE n == Len(work)
           v == work[n].at
<1>1. /\ pass = "search" /\ pass' = "search" /\ edges' = edges /\ comps' = comps
      /\ work # <<>> /\ w \in Last(work).rest \ Met /\ Meet(w)
      /\ work' = Append(Trying(w), [at |-> w, rest |-> Targets(w)])
  BY DEF Descend, Working
<1>2. /\ n \in Nat \ {0} /\ n \in DOMAIN work /\ DOMAIN work = 1..n
      /\ DOMAIN work' = 1..(n + 1) /\ work' \in Seq(Frame) /\ Len(work') = n + 1
      /\ \A k \in DOMAIN work : work'[k].at = work[k].at
      /\ \A k \in DOMAIN work : k # n => work'[k].rest = work[k].rest
      /\ work'[n].rest = work[n].rest \ {w}
      /\ work'[n + 1].at = w /\ work'[n + 1].rest = Targets(w)
  <2>1. [at |-> w, rest |-> Targets(w)] \in Frame
    BY StackFacts DEF Frame
  <2>2. /\ Trying(w) \in Seq(Frame) /\ Len(Trying(w)) = n /\ n \in Nat \ {0}
        /\ DOMAIN Trying(w) = DOMAIN work /\ DOMAIN work = 1..n
        /\ n \in DOMAIN work
        /\ \A k \in DOMAIN work : Trying(w)[k].at = work[k].at
        /\ \A k \in DOMAIN work : k # n => Trying(w)[k].rest = work[k].rest
        /\ Trying(w)[n].rest = work[n].rest \ {w}
    BY <1>1, TryingFacts
  <2> HIDE DEF n
  <2>3. /\ work' \in Seq(Frame) /\ Len(work') = n + 1 /\ DOMAIN work' = 1..(n + 1)
        /\ work'[n + 1] = [at |-> w, rest |-> Targets(w)]
        /\ \A k \in DOMAIN work : work'[k] = Trying(w)[k]
    BY <1>1, <2>1, <2>2
  <2> QED BY <2>2, <2>3
<1>3. w \in work[n].rest /\ w \notin Met /\ v \in OnStack /\ v \in Met /\ v \in Rune
  BY <1>1, <1>2, StackFacts DEF Last
<1>4. w \in Targets(v) /\ w \in Searched
  <2>1. w \in Targets(v)
    BY <1>2, <1>3 DEF WorkInOrder
  <2> QED BY <1>3, <2>1, PairTypes DEF SearchTypes
<1> HIDE DEF n, v
<1>5. /\ Met' = Met \union {w} /\ OnStack' = OnStack \union {w} /\ Closed' = Closed
      /\ w \notin OnStack /\ w \notin Closed
      /\ \A x \in Met : index'[x] = index[x] /\ low'[x] = low[x] /\ index'[x] < index'[w]
      /\ index'[w] \in Nat /\ low'[w] = index'[w]
      /\ index' \in [Met' -> Nat] /\ low' \in [Met' -> Nat]
      /\ stack' \in Seq(Rune) /\ stack' # <<>>
      /\ Met' \subseteq Searched' /\ StackInOrder'
  BY <1>1, <1>3, <1>4, MeetKeeps
<1>6. \A k \in DOMAIN work' : (k \in DOMAIN work /\ k <= n) \/ k = n + 1
  BY <1>2
<1>7. /\ \A k \in DOMAIN work : work[k].at \in OnStack /\ work[k].at \in Met /\ k \in Nat
      /\ \A x \in OnStack : x \in Met /\ x \in Rune /\ index[x] \in Nat /\ low[x] \in Nat /\ low[x] <= index[x]
  BY <1>2, StackFacts
<1>8. SearchTypes'
  BY <1>1, <1>2, <1>5 DEF SearchTypes
<1>9. WorkInOrder'
  <2>1. \A k \in DOMAIN work' : work'[k].at \in OnStack'
    BY <1>2, <1>5, <1>6, <1>7
  <2>2. ASSUME NEW i \in DOMAIN work', NEW j \in DOMAIN work', i < j
        PROVE  index'[work'[i].at] < index'[work'[j].at]
    <3>1. i \in DOMAIN work /\ work'[i].at = work[i].at
      BY <1>2, <2>2
    <3>2. CASE j \in DOMAIN work
      BY <1>2, <1>5, <1>7, <2>2, <3>1, <3>2 DEF WorkInOrder
    <3>3. CASE j = n + 1
      BY <1>2, <1>5, <1>7, <3>1, <3>3
    <3> QED BY <1>6, <3>2, <3>3
  <2>3. work' # <<>>
    BY <1>2
  <2>4. ASSUME NEW k \in DOMAIN work' PROVE work'[k].rest \subseteq Targets(work'[k].at)
    <3>1. CASE k = n + 1
      BY <1>2, <3>1
    <3>2. CASE k \in DOMAIN work
      <4>1. work'[k].rest \subseteq work[k].rest /\ work[k].rest \subseteq Targets(work[k].at)
        BY <1>2, <3>2 DEF WorkInOrder
      <4> QED BY <1>2, <3>2, <4>1
    <3> QED BY <1>6, <3>1, <3>2
  <2> QED BY <1>1, <2>1, <2>2, <2>3, <2>4, ArcsKept DEF WorkInOrder
<1>10. \A x \in Met : \A t : Waits(x, t) /\ t # w => Waits(x, t)'
  <2> SUFFICES ASSUME NEW x \in Met, NEW t, t # w, NEW k \in DOMAIN work,
                      work[k].at = x, t \in work[k].rest
               PROVE  k \in DOMAIN work' /\ work'[k].at = x /\ t \in work'[k].rest
    BY DEF Waits
  <2> QED BY <1>2
<1>11. ArcsAreSeen'
  <2> SUFFICES ASSUME NEW x \in Met', NEW t \in Targets(x) PROVE t \in Met' \/ Waits(x, t)'
    BY <1>1, ArcsKept DEF ArcsAreSeen
  <2>1. CASE x = w
    <3>1. n + 1 \in DOMAIN work' /\ work'[n + 1].at = x /\ t \in work'[n + 1].rest
      BY <1>2, <2>1
    <3> QED BY <3>1 DEF Waits
  <2>2. CASE x \in Met
    BY <1>5, <1>10, <2>2 DEF ArcsAreSeen
  <2> QED BY <1>5, <2>1, <2>2
<1>12. ClosedIsWhole'
  BY <1>1, ClosedKept
<1>13. \A x, y : Comes(x, y)' = Comes(x, y)
  BY <1>1, ArcsKept
<1>14. \A k \in DOMAIN work : Comes(work[k].at, v) /\ Comes(work[k].at, w)
  <2> SUFFICES ASSUME NEW k \in DOMAIN work PROVE Comes(work[k].at, v) /\ Comes(work[k].at, w)
    OBVIOUS
  <2>1. index[work[k].at] <= index[v]
    <3>1. k <= n
      BY <1>2
    <3> QED BY <1>2, <3>1, StackFacts DEF v
  <2>2. Comes(work[k].at, v)
    BY <1>3, <2>1 DEF FramesLead
  <2>3. Reaches(v, w)
    BY <1>3, <1>4, ReachesBySteps DEF SearchTypes
  <2>4. Reaches(work[k].at, w)
    BY <1>3, <1>7, <2>2, <2>3, ReachesBySteps DEF SearchTypes
  <2> QED BY <2>2, <2>4 DEF Comes
<1>15. FramesLead'
  <2> SUFFICES ASSUME NEW k \in DOMAIN work', NEW x \in OnStack',
                      index'[work'[k].at] <= index'[x]
               PROVE  Comes(work'[k].at, x)
    BY <1>13 DEF FramesLead
  <2>1. CASE k \in DOMAIN work /\ x \in OnStack
    BY <1>2, <1>5, <1>7, <2>1 DEF FramesLead
  <2>2. CASE k \in DOMAIN work /\ x = w
    BY <1>2, <1>14, <2>2
  <2>3. CASE k = n + 1
    <3>1. x = w
      <4>1. x \in OnStack => index'[x] < index'[w] /\ index'[x] \in Nat
        BY <1>5, <1>7
      <4>2. index'[w] <= index'[x]
        BY <1>2, <2>3
      <4> QED BY <1>5, <4>1, <4>2
    <3> QED BY <1>2, <2>3, <3>1 DEF Comes
  <2> QED BY <1>5, <1>6, <2>1, <2>2, <2>3
<1>16. StackLeadsBack'
  <2> SUFFICES ASSUME NEW x \in OnStack'
               PROVE  \E k \in DOMAIN work' : index'[work'[k].at] <= index'[x] /\ Comes(x, work'[k].at)
    BY <1>13 DEF StackLeadsBack
  <2>1. CASE x = w
    <3>1. n + 1 \in DOMAIN work' /\ work'[n + 1].at = x
      BY <1>2, <2>1
    <3> QED BY <1>5, <2>1, <3>1 DEF Comes
  <2>2. CASE x \in OnStack
    <3>1. PICK k \in DOMAIN work : index[work[k].at] <= index[x] /\ Comes(x, work[k].at)
      BY <2>2 DEF StackLeadsBack
    <3>2. k \in DOMAIN work' /\ work'[k].at = work[k].at
      BY <1>2
    <3>3. index'[work'[k].at] <= index'[x]
      BY <1>5, <1>7, <2>2, <3>1, <3>2
    <3> QED BY <3>1, <3>2, <3>3
  <2> QED BY <1>5, <2>1, <2>2
<1>17. LowIsReached'
  <2> SUFFICES ASSUME NEW x \in OnStack'
               PROVE  \E u \in OnStack' : low'[x] = index'[u] /\ index'[u] <= index'[x] /\ Comes(x, u)
    BY <1>13 DEF LowIsReached
  <2>1. CASE x = w
    BY <1>5, <2>1 DEF Comes
  <2>2. CASE x \in OnStack
    <3>1. PICK u \in OnStack : low[x] = index[u] /\ index[u] <= index[x] /\ Comes(x, u)
      BY <2>2 DEF LowIsReached
    <3>2. u \in OnStack' /\ low'[x] = index'[u] /\ index'[u] <= index'[x]
      BY <1>5, <1>7, <2>2, <3>1
    <3> QED BY <3>1, <3>2
  <2> QED BY <1>5, <2>1, <2>2
<1>18. LowIsLeast'
  <2> SUFFICES ASSUME NEW k \in DOMAIN work', NEW x \in Zone(k)', NEW t \in Targets(x), t \in OnStack'
               PROVE  low'[work'[k].at] <= index'[t] \/ (x = work'[k].at /\ t \in work'[k].rest)
    BY <1>1, ArcsKept DEF LowIsLeast
  <2>1. x \in OnStack' /\ index'[work'[k].at] <= index'[x]
    BY DEF Zone
  <2>2. CASE k = n + 1
    <3>1. x = w
      <4>1. x \in OnStack => index'[x] < index'[w] /\ index'[x] \in Nat
        BY <1>5, <1>7
      <4>2. index'[w] <= index'[x]
        BY <1>2, <2>1, <2>2
      <4> QED BY <1>5, <2>1, <4>1, <4>2
    <3> QED BY <1>2, <2>2, <3>1
  <2>3. CASE k \in DOMAIN work
    <3>1. k + 1 \in DOMAIN work' /\ k < Len(work') /\ k <= n
      BY <1>2, <2>3
    <3>2. index'[x] < index'[work'[k + 1].at]
      BY <3>1 DEF Zone
    <3>3. x \in OnStack
      <4>1. index'[work'[k + 1].at] <= index'[w] /\ index'[work'[k + 1].at] \in Nat
        <5>1. CASE k + 1 \in DOMAIN work
          BY <1>2, <1>5, <1>7, <5>1
        <5>2. CASE k + 1 = n + 1
          BY <1>2, <1>5, <5>2
        <5> QED BY <1>6, <3>1, <5>1, <5>2
      <4>2. x # w
        BY <1>5, <3>2, <4>1
      <4> QED BY <1>5, <2>1, <4>2
    <3>4. x \in Zone(k)
      <4>1. index[work[k].at] <= index[x]
        BY <1>2, <1>5, <1>7, <2>1, <2>3, <3>3
      <4>2. ASSUME k < Len(work) PROVE index[x] < index[work[k + 1].at]
        <5>1. k + 1 \in DOMAIN work
          BY <1>2, <2>3, <4>2 DEF n
        <5> QED BY <1>2, <1>5, <1>7, <3>2, <3>3, <5>1
      <4> QED BY <3>3, <4>1, <4>2 DEF Zone
    <3>5. low'[work'[k].at] = low[work[k].at] /\ work'[k].at = work[k].at
      BY <1>2, <1>5, <1>7, <2>3
    <3>6. CASE t \in OnStack /\ t # w
      <4>1. low[work[k].at] <= index[t] \/ (x = work[k].at /\ t \in work[k].rest)
        BY <2>3, <3>4, <3>6 DEF LowIsLeast
      <4>2. index'[t] = index[t]
        BY <1>5, <1>7, <3>6
      <4>3. t \in work[k].rest => t \in work'[k].rest
        BY <1>2, <2>3, <3>6
      <4> QED BY <3>5, <4>1, <4>2, <4>3
    <3>7. CASE t = w
      <4>1. PICK j \in DOMAIN work : work[j].at = x /\ t \in work[j].rest
        BY <1>3, <1>7, <3>3, <3>7 DEF ArcsAreSeen, Waits
      <4>2. j = k
        <5>1. k <= j
          BY <2>3, <3>4, <4>1, StackFacts DEF Zone
        <5>2. ~(k < j)
          <6> SUFFICES ASSUME k < j PROVE FALSE
            OBVIOUS
          <6>1. k + 1 \in DOMAIN work /\ k + 1 <= j /\ k < Len(work)
            BY <1>2, <1>7, <2>3 DEF n
          <6>2. index[work[k + 1].at] <= index[work[j].at]
            BY <6>1, StackFacts
          <6>3. index[x] < index[work[k + 1].at]
            BY <3>4, <6>1 DEF Zone
          <6> QED BY <1>7, <4>1, <6>1, <6>2, <6>3
        <5> QED BY <1>7, <2>3, <5>1, <5>2
      <4>3. CASE k = n
        <5>1. low[v] <= index[v] /\ index'[v] = index[v] /\ index'[v] < index'[w]
              /\ index[v] \in Nat /\ low[v] \in Nat
          BY <1>3, <1>5, <1>7
        <5> QED BY <1>5, <3>5, <3>7, <4>3, <5>1 DEF v
      <4>4. CASE k # n
        BY <1>2, <2>3, <3>5, <4>1, <4>2, <4>4
      <4> QED BY <4>3, <4>4
    <3> QED BY <1>5, <3>6, <3>7
  <2> QED BY <1>6, <2>2, <2>3
<1> QED BY <1>5, <1>8, <1>9, <1>11, <1>12, <1>15, <1>16, <1>17, <1>18

(* The search looks at a rune it has met.                                    *)
LEMMA SearchLooked ==
    ASSUME SearchInv, NEW w \in Rune, Look(w)
    PROVE  SearchInv'
<1> USE DEF SearchInv
<1> DEFINE n == Len(work)
           v == work[n].at
           stays == w \in OnStack
<1>1. /\ pass = "search" /\ pass' = "search" /\ edges' = edges /\ comps' = comps
      /\ index' = index /\ stack' = stack
      /\ work # <<>> /\ w \in Last(work).rest /\ w \in Met /\ work' = Trying(w)
  BY DEF Look, Working
<1>2. /\ n \in Nat \ {0} /\ n \in DOMAIN work /\ DOMAIN work = 1..n
      /\ DOMAIN work' = DOMAIN work /\ work' \in Seq(Frame) /\ Len(work') = n
      /\ \A k \in DOMAIN work : work'[k].at = work[k].at
      /\ \A k \in DOMAIN work : k # n => work'[k].rest = work[k].rest
      /\ work'[n].rest = work[n].rest \ {w} /\ Last(work) = work[n]
  BY <1>1, TryingFacts
<1>3. w \in work[n].rest /\ v \in OnStack /\ v \in Met /\ v \in Rune /\ w \in Targets(v)
  BY <1>1, <1>2, StackFacts DEF WorkInOrder
<1>4. /\ Met' = Met /\ OnStack' = OnStack /\ Closed' = Closed
      /\ \A x \in Met : index[x] \in Nat /\ low[x] \in Nat
      /\ \A x \in OnStack : x \in Met /\ x \in Rune /\ low[x] <= index[x]
      /\ \A k \in DOMAIN work : work[k].at \in OnStack /\ k \in Nat
  BY <1>1, <1>2, StackFacts DEF Met, OnStack, Closed
<1>5. /\ low' \in [Met -> Nat]
      /\ \A x \in Met : low'[x] = IF x = v /\ stays /\ index[w] < low[v] THEN index[w] ELSE low[x]
  <2>1. ToSet(stack) = OnStack /\ Here = v
    BY <1>2 DEF ToSet, OnStack, Here
  <2>2. low' = IF stays THEN [low EXCEPT ![v] = Min({@, index[w]})] ELSE low
    BY <2>1 DEF Look
  <2>3. low \in [Met -> Nat] /\ index[w] \in Nat /\ low[v] \in Nat
    BY <1>1, <1>3, <1>4 DEF SearchTypes
  <2>4. Min({low[v], index[w]}) = IF low[v] <= index[w] THEN low[v] ELSE index[w]
    BY <2>3, MinMaxOfTwo
  <2>5. v \in Met /\ w \in Met
    BY <1>1, <1>3
  <2> HIDE DEF stays, v, n
  <2>6. CASE stays
    <3> DEFINE m == IF low[v] <= index[w] THEN low[v] ELSE index[w]
    <3>1. low' = [low EXCEPT ![v] = m] /\ m \in Nat
      BY <2>2, <2>3, <2>4, <2>6
    <3> HIDE DEF m
    <3>2. low' \in [Met -> Nat] /\ \A x \in Met : low'[x] = IF x = v THEN m ELSE low[x]
      BY <2>3, <2>5, <3>1
    <3>3. m = IF index[w] < low[v] THEN index[w] ELSE low[v]
      BY <2>3 DEF m
    <3> QED BY <2>6, <3>2, <3>3
  <2>7. CASE ~stays
    BY <2>2, <2>3, <2>7
  <2> QED BY <2>6, <2>7
<1> HIDE DEF n, v, stays
<1>6. \A x \in Met : low'[x] <= low[x]
  BY <1>1, <1>3, <1>4, <1>5
<1>7. SearchTypes'
  BY <1>1, <1>2, <1>4, <1>5, ArcsKept DEF SearchTypes
<1>8. StackInOrder'
  BY <1>1, <1>4 DEF StackInOrder
<1>9. WorkInOrder'
  <2>1. \A k \in DOMAIN work : work'[k].rest \subseteq work[k].rest
    BY <1>2
  <2>2. work' # <<>>
    BY <1>2
  <2> QED BY <1>1, <1>2, <1>4, <2>1, <2>2, ArcsKept DEF WorkInOrder
<1>10. ArcsAreSeen'
  <2> SUFFICES ASSUME NEW x \in Met, NEW t \in Targets(x), t \notin Met PROVE Waits(x, t)'
    BY <1>1, <1>4, ArcsKept DEF ArcsAreSeen
  <2>1. PICK k \in DOMAIN work : work[k].at = x /\ t \in work[k].rest
    BY DEF ArcsAreSeen, Waits
  <2>2. k \in DOMAIN work' /\ work'[k].at = x /\ t \in work'[k].rest
    BY <1>1, <1>2, <2>1
  <2> QED BY <2>2 DEF Waits
<1>11. ClosedIsWhole'
  BY <1>1, ClosedKept
<1>12. FramesLead' /\ StackLeadsBack'
  <2>1. \A x, y : Comes(x, y)' = Comes(x, y)
    BY <1>1, ArcsKept
  <2>2. FramesLead'
    BY <1>1, <1>2, <1>4, <2>1 DEF FramesLead
  <2>3. StackLeadsBack'
    <3> SUFFICES ASSUME NEW x \in OnStack
                 PROVE  \E k \in DOMAIN work' : index[work'[k].at] <= index[x] /\ Comes(x, work'[k].at)
      BY <1>1, <1>4, <2>1 DEF StackLeadsBack
    <3>1. PICK k \in DOMAIN work : index[work[k].at] <= index[x] /\ Comes(x, work[k].at)
      BY DEF StackLeadsBack
    <3> QED BY <1>2, <3>1
  <2> QED BY <2>2, <2>3
<1>13. LowIsReached'
  <2> SUFFICES ASSUME NEW x \in OnStack
               PROVE  \E u \in OnStack : low'[x] = index[u] /\ index[u] <= index[x] /\ Comes(x, u)
    BY <1>1, <1>4, ArcsKept DEF LowIsReached
  <2>1. CASE x = v /\ stays /\ index[w] < low[v]
    <3>1. low'[x] = index[w] /\ w \in OnStack
      BY <1>4, <1>5, <2>1 DEF stays
    <3>2. index[w] <= index[x]
      BY <1>1, <1>3, <1>4, <2>1
    <3>3. Comes(x, w)
      BY <1>3, <2>1, ReachesBySteps DEF Comes, SearchTypes
    <3> QED BY <3>1, <3>2, <3>3
  <2>2. CASE ~(x = v /\ stays /\ index[w] < low[v])
    <3>1. low'[x] = low[x]
      BY <1>4, <1>5, <2>2
    <3> QED BY <3>1 DEF LowIsReached
  <2> QED BY <2>1, <2>2
<1>14. LowIsLeast'
  <2>1. ASSUME NEW k \in DOMAIN work PROVE Zone(k)' = Zone(k)
    <3>1. \A j \in DOMAIN work : work'[j].at = work[j].at
      BY <1>2
    <3>2. k < Len(work) => k + 1 \in DOMAIN work
      BY <1>2, <1>4 DEF n
    <3>3. Len(work') = Len(work)
      BY <1>2 DEF n
    <3> QED BY <1>1, <1>4, <3>1, <3>2, <3>3 DEF Zone
  <2> SUFFICES ASSUME NEW k \in DOMAIN work, NEW x \in Zone(k), NEW t \in Targets(x), t \in OnStack
               PROVE  low'[work[k].at] <= index[t] \/ (x = work[k].at /\ t \in work'[k].rest)
    BY <1>1, <1>2, <1>4, <2>1, ArcsKept DEF LowIsLeast
  <2>2. /\ low'[work[k].at] <= low[work[k].at] /\ low'[work[k].at] \in Nat
        /\ low[work[k].at] \in Nat /\ index[t] \in Nat
    BY <1>4, <1>5, <1>6
  <2>3. low[work[k].at] <= index[t] \/ (x = work[k].at /\ t \in work[k].rest)
    BY DEF LowIsLeast
  <2>4. CASE low[work[k].at] <= index[t]
    BY <2>2, <2>4
  <2>5. CASE x = work[k].at /\ t \in work[k].rest /\ k = n /\ t = w
    <3>1. work[k].at = v /\ stays
      BY <2>5 DEF v, stays
    <3>2. low'[v] <= index[w]
      BY <1>1, <1>3, <1>4, <1>5, <3>1
    <3> QED BY <2>5, <3>1, <3>2
  <2>6. CASE x = work[k].at /\ t \in work[k].rest /\ (k # n \/ t # w)
    BY <1>2, <2>6
  <2> QED BY <2>3, <2>4, <2>5, <2>6
<1> QED BY <1>7, <1>8, <1>9, <1>10, <1>11, <1>12, <1>13, <1>14

(* The search goes back from a rune whose targets are all looked at. The      *)
(* frames below it stay as they are.                                         *)
LEMMA FrontFacts ==
    ASSUME SearchInv, work # <<>>
    PROVE  LET n == Len(work)
               f == Front(work)
           IN /\ n \in Nat \ {0} /\ n \in DOMAIN work /\ DOMAIN work = 1..n
              /\ Last(work) = work[n]
              /\ f \in Seq(Frame) /\ Len(f) = n - 1 /\ DOMAIN f = 1..(n - 1)
              /\ \A k \in DOMAIN f : k \in DOMAIN work /\ k < n /\ f[k] = work[k]
              /\ n = 1 => f = <<>>
<1> DEFINE n == Len(work)
           f == Front(work)
<1>1. work \in Seq(Frame) /\ n \in Nat \ {0} /\ DOMAIN work = 1..n
  BY DEF SearchInv, SearchTypes
<1>2. f = SubSeq(work, 1, n - 1)
  BY DEF Front
<1>3. f \in Seq(Frame) /\ Len(f) = n - 1 /\ \A k \in 1..(n - 1) : f[k] = work[k]
  BY <1>1, <1>2
<1>4. DOMAIN f = 1..(n - 1)
  BY <1>3
<1> HIDE DEF f, n
<1>5. n \in DOMAIN work /\ \A k \in 1..(n - 1) : k \in DOMAIN work /\ k < n
  BY <1>1
<1>6. n = 1 => f = <<>>
  BY <1>3
<1>7. Last(work) = work[n]
  BY DEF Last, n
<1> QED BY <1>1, <1>3, <1>4, <1>5, <1>6, <1>7 DEF n, f

(* From v and what is above it every arc leads to what is there or closed,   *)
(* when low[v] equals index[v].                                              *)
LEMMA AboveIsSealed ==
    ASSUME SearchInv, Working, Last(work).rest = {}, low[Here] = index[Here]
    PROVE  /\ \A x \in Above(Here) : Targets(x) \subseteq Above(Here) \union Closed
           /\ \A x \in Above(Here) : Above(Here) = Component(x)
           /\ Here \in Above(Here) /\ Here \in OnStack
<1> USE DEF SearchInv
<1> DEFINE n == Len(work)
           v == work[n].at
           A == {x \in OnStack : index[v] <= index[x]}
<1>1. /\ n \in Nat \ {0} /\ n \in DOMAIN work /\ DOMAIN work = 1..n
      /\ Here = v /\ work[n].rest = {}
  BY FrontFacts DEF Working, Here
<1>2. v \in OnStack /\ low[v] = index[v] /\ Above(v) = A
  BY <1>1, StackFacts, PopFacts
<1>3. /\ \A x \in OnStack : x \in Met /\ x \in Rune /\ index[x] \in Nat /\ Targets(x) \subseteq Rune
      /\ \A k \in DOMAIN work : work[k].at \in OnStack /\ k \in Nat /\ k <= n
  BY <1>1, StackFacts
<1> HIDE DEF n, v
<1>4. v \in A
  BY <1>2, <1>3
<1>5. \A k \in DOMAIN work : index[v] <= index[work[k].at] => k = n
  <2> SUFFICES ASSUME NEW k \in DOMAIN work, index[v] <= index[work[k].at] PROVE k = n
    OBVIOUS
  <2>1. n <= k
    BY <1>1, StackFacts DEF v
  <2> QED BY <1>1, <1>3, <2>1
<1>6. \A x \in A : x \in Zone(n)
  BY <1>3 DEF Zone, n, v
<1>7. ASSUME NEW x \in A, NEW t \in Targets(x) PROVE t \in A \union Closed
  <2>1. t \in Met
    <3>1. ASSUME Waits(x, t) PROVE FALSE
      <4>1. PICK k \in DOMAIN work : work[k].at = x /\ t \in work[k].rest
        BY <3>1 DEF Waits
      <4>2. k = n
        BY <1>5, <4>1
      <4> QED BY <1>1, <4>1, <4>2
    <3> QED BY <1>3, <3>1 DEF ArcsAreSeen
  <2>2. ASSUME t \in OnStack PROVE t \in A
    <3>1. low[v] <= index[t] \/ t \in work[n].rest
      BY <1>1, <1>6, <2>2 DEF LowIsLeast, v
    <3> QED BY <1>1, <1>2, <2>2, <3>1
  <2> QED BY <2>1, <2>2 DEF StackInOrder
<1>8. \A x \in A : \A y \in Rune : Comes(x, y) => y \in A \union Closed
  <2>1. \A z \in A \union Closed : Targets(z) \subseteq A \union Closed
    BY <1>7 DEF ClosedIsWhole
  <2> QED BY <1>3, <2>1, ReachesBySteps DEF SearchTypes
<1>9. ASSUME NEW x \in A PROVE Comes(x, v) /\ Comes(v, x)
  <2>1. Comes(v, x)
    BY <1>1 DEF FramesLead, v
  <2>2. PICK k \in DOMAIN work : index[work[k].at] <= index[x] /\ Comes(x, work[k].at)
    BY DEF StackLeadsBack
  <2>3. work[k].at \in A
    BY <1>3, <1>8, <2>2 DEF StackInOrder
  <2>4. k = n
    BY <1>5, <2>3
  <2> QED BY <2>1, <2>2, <2>4 DEF v
<1>10. ASSUME NEW x \in A PROVE A = Component(x)
  <2>1. ASSUME NEW y \in A, y # x PROVE y \in Component(x)
    <3>1. Comes(x, y) /\ Comes(y, x)
      BY <1>3, <1>4, <1>9, ReachesBySteps DEF SearchTypes
    <3> QED BY <1>3, <2>1, <3>1 DEF Component, Comes
  <2>2. ASSUME NEW y \in Component(x) PROVE y \in A
    <3>1. y \in Rune /\ Comes(x, y) /\ Comes(y, x)
      BY <2>2, <1>3 DEF Component, Comes
    <3>2. CASE y \in Closed
      <4>1. x \in Closed
        BY <1>3, <3>1, <3>2, ReachesBySteps DEF ClosedIsWhole, SearchTypes
      <4> QED BY <4>1 DEF StackInOrder
    <3> QED BY <1>8, <3>1, <3>2
  <2>3. x \in Component(x)
    BY <1>3 DEF Component
  <2> QED BY <2>1, <2>2, <2>3
<1> HIDE DEF A
<1> QED BY <1>1, <1>2, <1>4, <1>7, <1>10

(* low after Leave: what the rune reaches is passed on to the one before.    *)
LEMMA LeaveFacts ==
    ASSUME SearchInv, Leave
    PROVE  LET n == Len(work)
               v == work[n].at
               p == work[n - 1].at
           IN /\ low' \in [Met -> Nat]
              /\ \A x \in Met : low'[x] = IF n > 1 /\ x = p /\ low[v] < low[p] THEN low[v] ELSE low[x]
<1> USE DEF SearchInv
<1> DEFINE n == Len(work)
           v == work[n].at
           p == work[n - 1].at
           m == IF low[v] < low[p] THEN low[v] ELSE low[p]
<1>1. /\ n \in Nat \ {0} /\ n \in DOMAIN work /\ DOMAIN work = 1..n /\ Here = v
  BY FrontFacts DEF Leave, Working, Here
<1>2. low \in [Met -> Nat] /\ v \in Met /\ low[v] \in Nat
  BY <1>1, StackFacts DEF SearchTypes
<1>3. low' = IF n = 1 THEN low ELSE [low EXCEPT ![p] = Min({@, low[v]})]
  BY <1>1 DEF Leave
<1>4. ASSUME n # 1 PROVE p \in Met /\ low[p] \in Nat
  <2>1. n - 1 \in DOMAIN work
    BY <1>1, <1>4
  <2> QED BY <2>1, StackFacts
<1> HIDE DEF p, v, n
<1>5. CASE n = 1
  BY <1>2, <1>3, <1>5 DEF n, p, v
<1>6. CASE n # 1
  <2>1. Min({low[p], low[v]}) = m
    BY <1>2, <1>4, <1>6, MinMaxOfTwo
  <2>2. low' = [low EXCEPT ![p] = m] /\ m \in Nat
    BY <1>2, <1>3, <1>4, <1>6, <2>1
  <2>3. n > 1
    BY <1>1, <1>6
  <2> HIDE DEF m
  <2>4. low' \in [Met -> Nat] /\ \A x \in Met : low'[x] = IF x = p THEN m ELSE low[x]
    BY <1>2, <1>4, <1>6, <2>2
  <2> QED BY <2>3, <2>4 DEF m, n, p, v
<1> QED BY <1>5, <1>6

(* The search goes back: the rune keeps its place on the stack, or closes a  *)
(* component.                                                                *)
LEMMA SearchLeft ==
    ASSUME SearchInv, Leave
    PROVE  SearchInv'
<1> USE DEF SearchInv
<1> DEFINE n == Len(work)
           v == work[n].at
           p == work[n - 1].at
           closes == low[v] = index[v]
           A == {x \in OnStack : index[v] <= index[x]}
<1>1. /\ pass = "search" /\ pass' = "search" /\ edges' = edges
      /\ index' = index /\ work # <<>> /\ Last(work).rest = {} /\ work' = Front(work) /\ Working
  BY DEF Leave, Working
<1>2. /\ n \in Nat \ {0} /\ n \in DOMAIN work /\ DOMAIN work = 1..n /\ Here = v /\ work[n].rest = {}
      /\ work' \in Seq(Frame) /\ Len(work') = n - 1 /\ DOMAIN work' = 1..(n - 1)
      /\ \A k \in DOMAIN work' : k \in DOMAIN work /\ k < n /\ work'[k] = work[k]
      /\ n = 1 => work' = <<>>
  BY <1>1, FrontFacts DEF Here
<1>3. /\ low' \in [Met -> Nat]
      /\ \A x \in Met : low'[x] = IF n > 1 /\ x = p /\ low[v] < low[p] THEN low[v] ELSE low[x]
  BY LeaveFacts
<1>4. /\ \A x \in OnStack : /\ x \in Met /\ x \in Rune /\ index[x] \in Nat /\ Targets(x) \subseteq Rune
                            /\ low[x] \in Nat /\ low[x] <= index[x]
      /\ \A k \in DOMAIN work : work[k].at \in OnStack /\ k \in Nat /\ k <= n
      /\ Met' = Met
  BY <1>1, <1>2, StackFacts DEF Met
<1>5. v \in OnStack /\ Above(v) = A
  BY <1>2, StackFacts, PopFacts
<1>6. n > 1 => n - 1 \in DOMAIN work /\ p \in OnStack /\ index[p] < index[v]
  <2> SUFFICES ASSUME n > 1 PROVE n - 1 \in DOMAIN work /\ p \in OnStack /\ index[p] < index[v]
    OBVIOUS
  <2>1. n - 1 \in DOMAIN work /\ n - 1 < n
    BY <1>2
  <2> QED BY <1>2, <1>4, <2>1 DEF WorkInOrder
<1>7. IF closes THEN comps' = comps \union {Above(v)} /\ stack' = SubSeq(stack, 1, Depth(v) - 1)
      ELSE comps' = comps /\ stack' = stack
  BY <1>2 DEF Leave, Close
<1>8. \A k \in DOMAIN work : index[work[k].at] < index[v] => k < n /\ k \in DOMAIN work'
  <2> SUFFICES ASSUME NEW k \in DOMAIN work, index[work[k].at] < index[v] PROVE k < n /\ k \in DOMAIN work'
    OBVIOUS
  <2>1. k # n
    BY <1>4, <1>5
  <2> QED BY <1>2, <1>4, <2>1
<1> HIDE DEF n, v, p, closes
<1>9. /\ OnStack' = IF closes THEN OnStack \ A ELSE OnStack
      /\ Closed' = IF closes THEN Closed \union A ELSE Closed
      /\ stack' \in Seq(Rune)
      /\ \A i \in DOMAIN stack' : i \in DOMAIN stack /\ stack'[i] = stack[i]
  <2>1. CASE closes
    <3>1. stack' = SubSeq(stack, 1, Depth(v) - 1) /\ comps' = comps \union {A}
      BY <1>5, <1>7, <2>1
    <3>2. Closed' = Closed \union A
      BY <3>1 DEF Closed
    <3>3. OnStack' = OnStack \ A /\ stack' \in Seq(Rune)
          /\ \A i \in DOMAIN stack' : i \in DOMAIN stack /\ stack'[i] = stack[i]
      BY <1>5, <3>1, PopFacts DEF OnStack
    <3> QED BY <2>1, <3>2, <3>3
  <2>2. CASE ~closes
    BY <1>7, <2>2 DEF OnStack, Closed, SearchTypes
  <2> QED BY <2>1, <2>2
<1>10. closes => /\ \A x \in A : Targets(x) \subseteq A \union Closed
                 /\ \A x \in A : A = Component(x)
                 /\ v \in A
  BY <1>1, <1>2, <1>5, AboveIsSealed DEF closes
<1>11. \A x \in OnStack' : x \in OnStack /\ (closes => index[x] < index[v])
  BY <1>4, <1>5, <1>9
<1>12. \A x, y : Comes(x, y)' = Comes(x, y)
  BY <1>1, ArcsKept
<1>13. SearchTypes'
  BY <1>1, <1>2, <1>3, <1>4, <1>9, ArcsKept DEF SearchTypes
<1>14. StackInOrder'
  <2>1. Met' = OnStack' \union Closed' /\ OnStack' \intersect Closed' = {}
    BY <1>4, <1>9 DEF StackInOrder
  <2>2. \A i, j \in DOMAIN stack' : i < j => index'[stack'[i]] < index'[stack'[j]]
    BY <1>1, <1>9 DEF StackInOrder
  <2>3. \A x \in Met' : index'[x] < Cardinality(Met')
    BY <1>1, <1>4 DEF StackInOrder
  <2> QED BY <2>1, <2>2, <2>3 DEF StackInOrder
<1>15. \A k \in DOMAIN work' : work'[k].at \in OnStack'
  <2> SUFFICES ASSUME NEW k \in DOMAIN work' PROVE work[k].at \in OnStack'
    BY <1>2
  <2>1. index[work[k].at] < index[v]
    BY <1>2 DEF WorkInOrder, v
  <2>2. work[k].at \in OnStack /\ work[k].at \notin A
    BY <1>2, <1>4, <1>5, <2>1
  <2> QED BY <1>9, <2>2
<1>16. WorkInOrder'
  <2>1. \A k \in DOMAIN work' : work'[k].rest \subseteq Targets(work'[k].at)
    BY <1>2 DEF WorkInOrder
  <2>2. \A i, j \in DOMAIN work' : i < j => index'[work'[i].at] < index'[work'[j].at]
    BY <1>1, <1>2 DEF WorkInOrder
  <2>3. ASSUME work' = <<>> PROVE stack' = <<>>
    <3>1. n = 1
      BY <1>2, <2>3
    <3>2. closes
      <4> SUFFICES ASSUME ~closes PROVE FALSE
        OBVIOUS
      <4>1. PICK u \in OnStack : low[v] = index[u] /\ index[u] <= index[v] /\ Comes(v, u)
        BY <1>5 DEF LowIsReached
      <4>2. PICK k \in DOMAIN work : index[work[k].at] <= index[u]
        BY DEF StackLeadsBack
      <4>3. index[u] < index[v]
        BY <1>4, <1>5, <4>1 DEF closes
      <4>4. k < n
        BY <1>4, <1>5, <1>8, <4>2, <4>3
      <4> QED BY <1>2, <3>1, <4>4
    <3>3. \A x \in OnStack : index[v] <= index[x]
      <4> SUFFICES ASSUME NEW x \in OnStack PROVE index[v] <= index[x]
        OBVIOUS
      <4>1. PICK k \in DOMAIN work : index[work[k].at] <= index[x]
        BY DEF StackLeadsBack
      <4>2. k = n
        BY <1>2, <3>1
      <4> QED BY <4>1, <4>2 DEF v
    <3>4. stack[1] \in OnStack
      <4>1. stack # <<>> /\ stack \in Seq(Rune)
        BY <1>5 DEF OnStack, SearchTypes
      <4>2. 1 \in DOMAIN stack
        BY <4>1
      <4> QED BY <4>2 DEF OnStack
    <3> QED BY <1>5, <1>7, <3>2, <3>3, <3>4, PopFacts
  <2> QED BY <1>1, <1>15, <2>1, <2>2, <2>3, ArcsKept DEF WorkInOrder
<1>17. ArcsAreSeen'
  <2> SUFFICES ASSUME NEW x \in Met, NEW t \in Targets(x), t \notin Met PROVE Waits(x, t)'
    BY <1>1, <1>4, ArcsKept DEF ArcsAreSeen
  <2>1. PICK k \in DOMAIN work : work[k].at = x /\ t \in work[k].rest
    BY DEF ArcsAreSeen, Waits
  <2>2. k # n
    BY <1>2, <2>1
  <2>3. k \in DOMAIN work' /\ work'[k] = work[k]
    BY <1>2, <1>4, <2>2
  <2> QED BY <2>1, <2>3 DEF Waits
<1>18. ClosedIsWhole'
  <2>1. CASE ~closes
    BY <1>1, <1>7, <2>1, ClosedKept
  <2>2. CASE closes
    <3>1. \A x \in Closed' : Targets(x) \subseteq Closed'
      BY <1>9, <1>10, <2>2 DEF ClosedIsWhole
    <3>2. \A c \in comps' : c # {} /\ \A x \in c : c = Component(x)
      <4>1. comps' = comps \union {A}
        BY <1>5, <1>7, <2>2
      <4>2. A # {} /\ \A x \in A : A = Component(x)
        BY <1>10, <2>2
      <4> HIDE DEF A
      <4> QED BY <4>1, <4>2 DEF ClosedIsWhole
    <3> QED BY <1>1, <3>1, <3>2, ArcsKept DEF ClosedIsWhole
  <2> QED BY <2>1, <2>2
<1>19. FramesLead'
  BY <1>1, <1>2, <1>11, <1>12 DEF FramesLead
<1>20. StackLeadsBack'
  <2> SUFFICES ASSUME NEW x \in OnStack'
               PROVE  \E k \in DOMAIN work' : index[work'[k].at] <= index[x] /\ Comes(x, work'[k].at)
    BY <1>1, <1>12 DEF StackLeadsBack
  <2>1. PICK k \in DOMAIN work : index[work[k].at] <= index[x] /\ Comes(x, work[k].at)
    BY <1>11 DEF StackLeadsBack
  <2>2. CASE k # n
    BY <1>2, <1>4, <2>1, <2>2
  <2>3. CASE k = n
    <3>0. work[k].at = v
      BY <2>3 DEF v
    <3>9. x \in OnStack /\ (closes => index[x] < index[v])
      BY <1>11
    <3>10. index[v] <= index[x] /\ index[x] \in Nat /\ index[v] \in Nat
      BY <1>4, <1>5, <2>1, <3>0, <3>9
    <3>11. ~(index[x] < index[v])
      BY <3>10
    <3>1. ~closes /\ x \in OnStack /\ work[k].at = v
      BY <3>0, <3>9, <3>11
    <3>2. PICK u \in OnStack : low[v] = index[u] /\ index[u] <= index[v] /\ Comes(v, u)
      BY <1>5 DEF LowIsReached
    <3>3. index[u] < index[v]
      BY <1>4, <1>5, <3>1, <3>2 DEF closes
    <3>4. PICK j \in DOMAIN work : index[work[j].at] <= index[u] /\ Comes(u, work[j].at)
      BY DEF StackLeadsBack
    <3>5. j \in DOMAIN work' /\ work'[j] = work[j]
      BY <1>2, <1>4, <1>5, <1>8, <3>3, <3>4
    <3>6. Comes(x, work[j].at)
      <4>1. Comes(v, work[j].at)
        BY <1>4, <1>5, <3>2, <3>4, ReachesBySteps DEF SearchTypes
      <4> QED BY <1>4, <1>5, <2>1, <3>1, <4>1, ReachesBySteps DEF SearchTypes
    <3>7. index[work[j].at] <= index[x]
      BY <1>4, <1>5, <2>1, <3>1, <3>3, <3>4
    <3> QED BY <3>5, <3>6, <3>7
  <2> QED BY <2>2, <2>3
<1>21. LowIsReached'
  <2> SUFFICES ASSUME NEW x \in OnStack'
               PROVE  \E u \in OnStack' : low'[x] = index[u] /\ index[u] <= index[x] /\ Comes(x, u)
    BY <1>1, <1>12 DEF LowIsReached
  <2>1. CASE low'[x] = low[x]
    <3>1. PICK u \in OnStack : low[x] = index[u] /\ index[u] <= index[x] /\ Comes(x, u)
      BY <1>11 DEF LowIsReached
    <3>2. u \in OnStack'
      BY <1>4, <1>5, <1>9, <1>11, <3>1
    <3> QED BY <2>1, <3>1, <3>2
  <2>2. CASE low'[x] # low[x]
    <3>1. n > 1 /\ x = p /\ low[v] < low[p] /\ low'[x] = low[v]
      BY <1>3, <1>4, <1>11, <2>2
    <3>2. low[v] < index[p] /\ index[p] < index[v]
      BY <1>4, <1>5, <1>6, <3>1
    <3>3. ~closes
      BY <1>4, <1>5, <1>6, <3>1, <3>2 DEF closes
    <3>4. PICK u \in OnStack : low[v] = index[u] /\ index[u] <= index[v] /\ Comes(v, u)
      BY <1>5 DEF LowIsReached
    <3>5. Comes(p, v)
      BY <1>4, <1>5, <1>6, <3>1, <3>2 DEF FramesLead, p
    <3>6. Comes(p, u)
      BY <1>4, <1>5, <1>6, <3>1, <3>4, <3>5, ReachesBySteps DEF SearchTypes
    <3>7. index[u] <= index[p]
      BY <1>4, <1>6, <3>1, <3>2, <3>4
    <3> QED BY <1>9, <3>1, <3>3, <3>4, <3>6, <3>7
  <2> QED BY <2>1, <2>2
<1>22. LowIsLeast'
  <2> SUFFICES ASSUME NEW k \in DOMAIN work', NEW x \in Zone(k)', NEW t \in Targets(x), t \in OnStack'
               PROVE  low'[work'[k].at] <= index[t] \/ (x = work'[k].at /\ t \in work'[k].rest)
    BY <1>1, ArcsKept DEF LowIsLeast
  <2> DEFINE f == work[k].at
  <2>1. /\ k \in DOMAIN work /\ k < n /\ work'[k] = work[k] /\ k \in Nat
        /\ x \in OnStack' /\ x \in OnStack /\ index[f] <= index[x] /\ t \in OnStack /\ f \in OnStack
    BY <1>1, <1>2, <1>4, <1>11 DEF Zone
  <2>2. low'[f] <= low[f] /\ low'[f] \in Nat
    BY <1>3, <1>4, <1>5, <1>6, <2>1
  <2>3. CASE x \in Zone(k)
    <3>1. low[f] <= index[t] \/ (x = f /\ t \in work[k].rest)
      BY <2>1, <2>3 DEF LowIsLeast
    <3> QED BY <1>4, <2>1, <2>2, <3>1
  <2>4. CASE x \notin Zone(k)
    <3>1. k + 1 \in DOMAIN work /\ k < Len(work) /\ ~(index[x] < index[work[k + 1].at])
      BY <1>2, <2>1, <2>4 DEF Zone, n
    <3>2. k = n - 1
      <4>1. ASSUME k < n - 1 PROVE FALSE
        <5>1. k < Len(work') /\ k + 1 \in DOMAIN work' /\ work'[k + 1] = work[k + 1]
          BY <1>2, <2>1, <4>1
        <5>2. index[x] < index[work[k + 1].at]
          BY <1>1, <5>1 DEF Zone
        <5> QED BY <3>1, <5>2
      <4> QED BY <1>2, <2>1, <4>1
    <3>3. f = p /\ n > 1 /\ work[k + 1].at = v /\ k + 1 = n
      <4>1. k + 1 = n /\ n > 1
        BY <1>2, <2>1, <3>2
      <4> QED BY <3>2, <4>1 DEF p, v
    <3>4. index[v] <= index[x]
      BY <1>4, <1>5, <2>1, <3>1, <3>3
    <3>5. x \in Zone(n)
      BY <1>2, <2>1, <3>4 DEF Zone, n, v
    <3>6. low[v] <= index[t]
      BY <1>2, <2>1, <3>5 DEF LowIsLeast, v
    <3>7. low'[p] <= low[v]
      BY <1>3, <1>4, <1>5, <1>6, <3>3
    <3> QED BY <1>4, <1>5, <2>1, <2>2, <3>3, <3>6, <3>7
  <2> QED BY <2>3, <2>4
<1> QED BY <1>13, <1>14, <1>16, <1>17, <1>18, <1>19, <1>20, <1>21, <1>22

-----------------------------------------------------------------------------
(* The invariant, and what it says when the search is done. *)

(* A pair of different things has two members.                               *)
LEMMA PairHasTwo ==
    ASSUME NEW x, NEW z, x # z
    PROVE  Cardinality({x, z}) = 2
<1>1. IsFiniteSet({x}) /\ Cardinality({x}) = 1
  BY FS_Singleton
<1>2. Cardinality({x} \union {z}) = Cardinality({x}) + 1
  BY <1>1, FS_AddElement
<1>3. {x} \union {z} = {x, z}
  OBVIOUS
<1> QED BY <1>1, <1>2, <1>3

(* The cycle property from the invariant: at the end every rune met is       *)
(* closed.                                                                   *)
LEMMA CyclesFollow ==
    ASSUME SearchInv
    PROVE  CyclesAreExact
<1> USE DEF SearchInv
<1> SUFFICES ASSUME pass = "done"
             PROVE  /\ UNION Cycles = {x \in Rune : Reaches(x, x)}
                    /\ \A c \in Cycles : \A x \in c :
                          c = {y \in Rune : Reaches(x, y) /\ Reaches(y, x)}
  BY DEF CyclesAreExact
<1>1. OnStack = {} /\ Met = Closed /\ Searched \subseteq Met /\ edges \subseteq Edge
  BY DEF SearchTypes, WorkInOrder, StackInOrder, OnStack
<1>2. Closed \subseteq Rune
  BY <1>1, StackFacts
<1>3. \A c \in comps : c \subseteq Rune /\ IsFiniteSet(c) /\ \A x \in c : c = Component(x)
  BY <1>2, RuneAssumption, FS_Subset DEF ClosedIsWhole, Closed
<1>4. ASSUME NEW c \in comps, NEW x \in c, Reaches(x, x) PROVE c \in Cycles
  <2>1. x \in Rune /\ c = Component(x)
    BY <1>3
  <2>2. CASE x \in Targets(x)
    BY <2>2 DEF Cycles
  <2>3. CASE x \notin Targets(x)
    <3>1. PICK z \in Targets(x) : Comes(z, x)
      BY <1>1, <1>4, <2>1, ReachesBySteps
    <3>2. z \in Rune /\ Reaches(x, z) /\ z # x
      BY <1>1, <2>1, <2>3, PairTypes, ReachesBySteps
    <3>3. z \in c
      BY <2>1, <3>1, <3>2 DEF Component, Comes
    <3>4. {x, z} \subseteq c /\ Cardinality({x, z}) = 2
      BY <3>2, <3>3, PairHasTwo
    <3>5. Cardinality(c) >= 2
      <4>1. Cardinality({x, z}) <= Cardinality(c)
        BY <1>3, <3>4, FS_Subset
      <4>2. Cardinality(c) \in Nat
        BY <1>3, FS_CardinalityType
      <4> QED BY <3>4, <4>1, <4>2
    <3> QED BY <3>5 DEF Cycles
  <2> QED BY <2>2, <2>3
<1>5. ASSUME NEW c \in Cycles, NEW x \in c PROVE Reaches(x, x) /\ x \in Rune /\ c = Component(x)
  <2>1. c \in comps /\ (Cardinality(c) >= 2 \/ \E v \in c : v \in Targets(v))
    BY DEF Cycles
  <2>2. c \subseteq Rune /\ \A y \in c : c = Component(y)
    BY <1>3, <2>1
  <2>3. ASSUME NEW y \in c, y # x PROVE Reaches(x, x)
    <3>1. Reaches(x, y) /\ Reaches(y, x)
      BY <2>2, <2>3 DEF Component
    <3> QED BY <1>1, <2>2, <3>1, ReachesBySteps DEF Comes
  <2>4. CASE \E y \in c : y # x
    BY <2>2, <2>3, <2>4
  <2>5. CASE ~ \E y \in c : y # x
    <3>1. c = {x}
      BY <2>5
    <3>2. Cardinality(c) = 1
      BY <3>1, FS_Singleton
    <3>3. x \in Targets(x)
      BY <2>1, <3>1, <3>2
    <3> QED BY <1>1, <2>2, <3>3, ReachesBySteps
  <2> QED BY <2>4, <2>5
<1>6. ASSUME NEW x \in Rune, Reaches(x, x) PROVE x \in UNION Cycles
  <2>1. x \in Closed
    BY <1>1, <1>6, ReachesBySteps
  <2>2. PICK c \in comps : x \in c
    BY <2>1 DEF Closed
  <2> QED BY <1>4, <1>6, <2>2
<1>7. UNION Cycles = {x \in Rune : Reaches(x, x)}
  BY <1>5, <1>6
<1>8. ASSUME NEW c \in Cycles, NEW x \in c PROVE c = {y \in Rune : Reaches(x, y) /\ Reaches(y, x)}
  BY <1>5 DEF Component
<1> QED BY <1>7, <1>8

(* Every step keeps the invariant.                                           *)
LEMMA LStep == LInv /\ [Next]_vars => LInv'
<1> SUFFICES ASSUME LInv, [Next]_vars PROVE LInv'
  OBVIOUS
<1>1. FuseInv /\ SearchInv /\ edges \subseteq Edge
  BY DEF LInv, SearchInv, SearchTypes
<1>2. ASSUME NEW e \in Edge, Hold(e) PROVE LInv'
  BY <1>1, <1>2, FuseHeld, SearchHeld DEF LInv
<1>3. CASE CheckLinks
  <2>1. edges' = edges /\ UNCHANGED search /\ pass = "open" /\ pass' = "fuse"
    BY <1>3 DEF CheckLinks
  <2>2. SearchTypes'
    BY <1>1, <2>1, ArcsKept DEF SearchInv, SearchTypes, search, Met
  <2> QED BY <1>1, <1>3, <2>1, <2>2, FuseBegun, SearchKept DEF LInv
<1>4. ASSUME NEW l \in todo, Unite(l) PROVE LInv'
  <2>1. edges' = edges /\ UNCHANGED search /\ pass = "fuse" /\ pass' = pass
    BY <1>4 DEF Unite
  <2>2. SearchTypes'
    BY <1>1, <2>1, ArcsKept DEF SearchInv, SearchTypes, search, Met
  <2> QED BY <1>1, <1>4, <2>1, <2>2, FuseUnited, SearchKept DEF LInv
<1>5. CASE Fused
  <2>1. edges' = edges /\ UNCHANGED <<search, todo, parent>> /\ pass = "fuse" /\ pass' = "search" /\ todo = {}
    BY <1>5 DEF Fused
  <2>2. SearchTypes'
    BY <1>1, <2>1, ArcsKept DEF SearchInv, SearchTypes, search, Met
  <2>3. FuseInv'
    BY <1>1, <2>1, FuseKept
  <2> QED BY <1>1, <2>1, <2>2, <2>3, SearchKept DEF LInv
<1>6. CASE Begin
  <2>1. FuseInv'
    BY <1>1, <1>6, FuseKept DEF Begin, FuseInv
  <2> QED BY <1>1, <1>6, <2>1, SearchBegun DEF LInv
<1>7. ASSUME NEW w \in Rune, Descend(w) PROVE LInv'
  <2>1. FuseInv'
    BY <1>1, <1>7, FuseKept DEF Descend, Working, FuseInv
  <2> QED BY <1>1, <1>7, <2>1, SearchDescended DEF LInv
<1>8. ASSUME NEW w \in Rune, Look(w) PROVE LInv'
  <2>1. FuseInv'
    BY <1>1, <1>8, FuseKept DEF Look, Working, FuseInv
  <2> QED BY <1>1, <1>8, <2>1, SearchLooked DEF LInv
<1>9. CASE Leave
  <2>1. FuseInv'
    BY <1>1, <1>9, FuseKept DEF Leave, Working, FuseInv
  <2> QED BY <1>1, <1>9, <2>1, SearchLeft DEF LInv
<1>10. CASE Done
  <2>1. /\ edges' = edges /\ UNCHANGED <<search, todo, parent>> /\ pass = "search" /\ pass' = "done"
        /\ work = <<>> /\ Searched \subseteq Met
    BY <1>10 DEF Done
  <2>2. SearchTypes'
    BY <1>1, <2>1, ArcsKept DEF SearchInv, SearchTypes, search, Met
  <2>3. FuseInv'
    BY <1>1, <2>1, FuseKept DEF FuseInv
  <2> QED BY <1>1, <2>1, <2>2, <2>3, SearchKept DEF LInv
<1>11. CASE UNCHANGED vars
  <2>1. UNCHANGED <<edges, pass, todo, parent, search>>
    BY <1>11 DEF vars, search
  <2>2. SearchTypes'
    BY <1>1, <2>1, ArcsKept DEF SearchInv, SearchTypes, search, Met
  <2>3. FuseInv'
    BY <1>1, <2>1, FuseKept DEF FuseInv
  <2> QED BY <1>1, <2>1, <2>2, <2>3, SearchKept DEF LInv
<1> QED BY <1>2, <1>3, <1>4, <1>5, <1>6, <1>7, <1>8, <1>9, <1>10, <1>11 DEF Next, Pass

(* The invariant holds in every behaviour.                                   *)
LEMMA LInvAlways == Spec => []LInv
<1>1. Init => LInv
  BY FuseInit, SearchInit DEF LInv
<1> QED BY <1>1, LStep, PTL DEF Spec

(* Whatever the links and the order in which they are united: after the      *)
(* equivalence pass two runes have one representative exactly when links     *)
(* tie them together, it is the least of its class, and the classes listed   *)
(* are all of two or more.                                                   *)
THEOREM QuotientIsTheEquivalence == Spec => []QuotientIsSmallest
<1>1. LInv => QuotientIsSmallest
  BY QuotientFollows DEF LInv, SearchInv, SearchTypes
<1> QED BY <1>1, LInvAlways, PTL

(* Whatever the slot, the ports and the limit: a slot is reported exactly    *)
(* when the links that do not fuse hold more ends at its class than allowed. *)
THEOREM CapacityCountsTheClass == Spec => []CapacityIsOfTheClass
<1>1. LInv => CapacityIsOfTheClass
  BY CapacityFollows DEF LInv, SearchInv, SearchTypes
<1> QED BY <1>1, LInvAlways, PTL

(* Whatever the arcs and the order in which they are looked at: the search   *)
(* with its own stack of frames reports every rune that comes back to        *)
(* itself, with exactly the runes it is in a cycle with, and no other.       *)
THEOREM CyclesAreComponents == Spec => []CyclesAreExact
<1>1. LInv => CyclesAreExact
  BY CyclesFollow DEF LInv
<1> QED BY <1>1, LInvAlways, PTL

=============================================================================
