---------------------------- MODULE SequenceProofs ----------------------------
(***************************************************************************)
(* Every document reads its elements in one order, runs typed at one spot  *)
(* do not interleave and insertions land where they were typed, for any    *)
(* number of devices and elements, whatever is erased, merged or started   *)
(* over. The order is a relation on the nodes, defined from what the nodes *)
(* say; the traversal of any document that holds its nodes' parents lists  *)
(* the document by it.                                                     *)
(***************************************************************************)
EXTENDS Sequence, SequenceTheorems, FiniteSetTheorems, WellFoundedInduction, TLAPS

-----------------------------------------------------------------------------
(* Trees. *)

(* What nodes may say: parents are nodes or the root, and whoever goes up     *)
(* from parent to parent gets out of any set of nodes.                        *)
IsTree(E) ==
    /\ DOMAIN E \subseteq Node
    /\ \A n \in DOMAIN E : E[n].parent \in DOMAIN E \union {Top} /\ E[n].side \in {"left", "right"}
    /\ \A S \in SUBSET DOMAIN E : S # {} => \E n \in S : E[n].parent \notin S

(* S holds with every node its parent. *)
Upward(E, S) == \A z \in S : E[z].parent \in S \union {Top}

(* Node a and all that it hangs under. *)
Up(E, a) == {y \in DOMAIN E : \A S \in SUBSET DOMAIN E : a \in S /\ Upward(E, S) => y \in S}

(* The root is not a node.                                                   *)
LEMMA TopIsNoNode == Top \notin Node
BY DEF Top, Node

(* Up is upward closed, and the least such set.                              *)
LEMMA UpIsLeast ==
    ASSUME NEW E, IsTree(E), NEW a \in DOMAIN E
    PROVE  /\ Up(E, a) \subseteq DOMAIN E /\ a \in Up(E, a) /\ Upward(E, Up(E, a))
           /\ \A S \in SUBSET DOMAIN E : a \in S /\ Upward(E, S) => Up(E, a) \subseteq S
<1>1. Up(E, a) \subseteq DOMAIN E /\ a \in Up(E, a)
  BY DEF Up
<1>2. \A S \in SUBSET DOMAIN E : a \in S /\ Upward(E, S) => Up(E, a) \subseteq S
  BY DEF Up
<1>3. ASSUME NEW z \in Up(E, a), E[z].parent # Top PROVE E[z].parent \in Up(E, a)
  <2>1. E[z].parent \in DOMAIN E
    BY <1>1, <1>3 DEF IsTree
  <2>2. ASSUME NEW S \in SUBSET DOMAIN E, a \in S, Upward(E, S) PROVE E[z].parent \in S
    <3>1. z \in S
      BY <1>2, <2>2
    <3> QED BY <1>3, <2>2, <3>1 DEF Upward
  <2> QED BY <2>1, <2>2 DEF Up
<1> QED BY <1>1, <1>2, <1>3 DEF Upward

(* What is above something above a is above a.                               *)
LEMMA UpTransitive ==
    ASSUME NEW E, IsTree(E), NEW a \in DOMAIN E, NEW x \in Up(E, a)
    PROVE  Up(E, x) \subseteq Up(E, a)
BY UpIsLeast

(* What is above a and is not a is above its parent.                         *)
LEMMA UpByParent ==
    ASSUME NEW E, IsTree(E), NEW a \in DOMAIN E, NEW y \in Up(E, a), y # a
    PROVE  E[a].parent \in DOMAIN E /\ y \in Up(E, E[a].parent)
<1> DEFINE p == E[a].parent
           S == {z \in DOMAIN E : z = a \/ (p # Top /\ z \in Up(E, p))}
<1>1. p \in DOMAIN E \union {Top}
  BY DEF IsTree
<1>2. Upward(E, S)
  <2> SUFFICES ASSUME NEW z \in S PROVE E[z].parent \in S \union {Top}
    BY DEF Upward
  <2>1. CASE z = a
    BY <1>1, <2>1, UpIsLeast
  <2>2. CASE z # a
    <3>1. p \in DOMAIN E /\ z \in Up(E, p)
      BY <1>1, <2>2
    <3>2. E[z].parent \in Up(E, p) \union {Top} /\ Up(E, p) \subseteq DOMAIN E
      BY <3>1, UpIsLeast DEF Upward
    <3>3. p # Top
      BY <3>1, TopIsNoNode DEF IsTree
    <3> QED BY <3>2, <3>3
  <2> QED BY <2>1, <2>2
<1>3. y \in S
  <2>1. S \in SUBSET DOMAIN E /\ a \in S
    OBVIOUS
  <2> HIDE DEF S
  <2> QED BY <1>2, <2>1, UpIsLeast
<1> QED BY <1>1, <1>3

(* No two nodes are above each other.                                        *)
LEMMA UpAntisymmetric ==
    ASSUME NEW E, IsTree(E), NEW x \in DOMAIN E, NEW y \in Up(E, x), x \in Up(E, y)
    PROVE  x = y
<1> SUFFICES ASSUME x # y PROVE FALSE
  OBVIOUS
<1> DEFINE S == {z \in Up(E, x) : x \in Up(E, z)}
<1>1. S \in SUBSET DOMAIN E /\ x \in S
  BY UpIsLeast
<1>2. ASSUME NEW z \in S PROVE E[z].parent \in S
  <2>1. z \in DOMAIN E /\ x \in Up(E, z) /\ y \in DOMAIN E
    BY <1>1, UpIsLeast
  <2>2. CASE z = x
    <3>1. E[x].parent \in DOMAIN E /\ y \in Up(E, E[x].parent)
      BY UpByParent
    <3>2. x \in Up(E, E[x].parent)
      BY <3>1, UpTransitive
    <3>3. E[x].parent \in Up(E, x)
      <4>1. E[x].parent # Top
        BY <3>1, TopIsNoNode DEF IsTree
      <4> QED BY <4>1, UpIsLeast DEF Upward
    <3> QED BY <2>2, <3>2, <3>3
  <2>3. CASE z # x
    <3>1. E[z].parent \in DOMAIN E /\ x \in Up(E, E[z].parent)
      BY <2>1, <2>3, UpByParent
    <3>2. E[z].parent \in Up(E, x)
      <4>1. E[z].parent # Top
        BY <3>1, TopIsNoNode DEF IsTree
      <4> QED BY <4>1, UpIsLeast DEF Upward
    <3> QED BY <3>1, <3>2
  <2> QED BY <2>2, <2>3
<1> HIDE DEF S
<1> QED BY <1>1, <1>2 DEF IsTree

(* Of two nodes above a third, one is above the other.                       *)
LEMMA UpIsAChain ==
    ASSUME NEW E, IsTree(E), NEW a \in DOMAIN E, NEW x \in Up(E, a), NEW y \in Up(E, a)
    PROVE  x \in Up(E, y) \/ y \in Up(E, x)
<1> DEFINE S == {z \in Up(E, a) : z \in Up(E, y) \/ y \in Up(E, z)}
<1>1. S \in SUBSET DOMAIN E /\ a \in S /\ y \in DOMAIN E
  BY UpIsLeast
<1>2. Upward(E, S)
  <2> SUFFICES ASSUME NEW z \in S, E[z].parent # Top PROVE E[z].parent \in S
    BY DEF Upward
  <2>1. z \in DOMAIN E
    BY <1>1
  <2>2. E[z].parent \in Up(E, a)
    BY UpIsLeast DEF Upward
  <2>3. CASE z \in Up(E, y)
    <3>1. E[z].parent \in Up(E, y)
      BY <1>1, <2>3, UpIsLeast DEF Upward
    <3> QED BY <2>2, <3>1
  <2>4. CASE z \notin Up(E, y)
    <3>1. y \in Up(E, z) /\ y # z
      BY <1>1, <2>4, UpIsLeast
    <3>2. y \in Up(E, E[z].parent)
      BY <2>1, <3>1, UpByParent
    <3> QED BY <2>2, <3>2
  <2> QED BY <2>3, <2>4
<1>3. Up(E, a) \subseteq S
  <2> HIDE DEF S
  <2> QED BY <1>1, <1>2, UpIsLeast
<1> QED BY <1>3

(* A node is not above itself through its parent.                            *)
LEMMA UpNoLoop ==
    ASSUME NEW E, IsTree(E), NEW a \in DOMAIN E, NEW c \in Up(E, a)
    PROVE  E[c].parent # a
<1> SUFFICES ASSUME E[c].parent = a PROVE FALSE
  OBVIOUS
<1>1. c \in DOMAIN E /\ a # Top
  BY UpIsLeast, TopIsNoNode DEF IsTree
<1>2. a \in Up(E, c)
  BY <1>1, UpIsLeast DEF Upward
<1>3. a = c
  BY <1>2, UpAntisymmetric
<1>4. {a} \in SUBSET DOMAIN E /\ {a} # {}
  OBVIOUS
<1> QED BY <1>3, <1>4 DEF IsTree

(* Of the children of one parent at most one is above a node.                *)
LEMMA UpOneChild ==
    ASSUME NEW E, IsTree(E), NEW a \in DOMAIN E, NEW c \in Up(E, a), NEW e \in Up(E, a),
           E[c].parent = E[e].parent
    PROVE  c = e
<1>1. c \in DOMAIN E /\ e \in DOMAIN E
  BY UpIsLeast
<1>2. ASSUME NEW x \in DOMAIN E, NEW y \in Up(E, x), E[x].parent = E[y].parent PROVE x = y
  <2> SUFFICES ASSUME x # y PROVE FALSE
    OBVIOUS
  <2>1. E[x].parent \in DOMAIN E /\ y \in Up(E, E[x].parent)
    BY UpByParent
  <2> QED BY <1>2, <2>1, UpNoLoop
<1> QED BY <1>1, <1>2, UpIsAChain

(* The way up to a proper ancestor leads through a child of it.              *)
LEMMA UpThroughAChild ==
    ASSUME NEW E, IsTree(E), NEW a \in DOMAIN E, NEW p \in Up(E, a), p # a
    PROVE  \E c \in Up(E, a) : E[c].parent = p
<1> DEFINE S == {z \in Up(E, a) : z = a \/ \E c \in Up(E, a) : E[c].parent = z}
<1>1. S \in SUBSET DOMAIN E /\ a \in S
  BY UpIsLeast
<1>2. Upward(E, S)
  BY UpIsLeast DEF Upward
<1>3. Up(E, a) \subseteq S
  <2> HIDE DEF S
  <2> QED BY <1>1, <1>2, UpIsLeast
<1> QED BY <1>3

-----------------------------------------------------------------------------
(* The order of the nodes. *)

(* Sibling c comes before sibling e. *)
Elder(E, c, e) ==
    /\ E[c].parent = E[e].parent
    /\ \/ E[c].side = "left" /\ E[e].side = "right"
       \/ E[c].side = E[e].side /\ c < e

(* Where the ways up from a and b part, a's comes before b's; or a hangs to   *)
(* the left of b; or b to the right of a.                                     *)
Apart(E, a, b) == \E c \in Up(E, a), e \in Up(E, b) : Elder(E, c, e)
LeftOf(E, a, b) == \E c \in Up(E, a) : E[c].parent = b /\ E[c].side = "left"
RightOf(E, b, a) == \E e \in Up(E, b) : E[e].parent = a /\ E[e].side = "right"

Lt(E, a, b) == Apart(E, a, b) \/ LeftOf(E, a, b) \/ RightOf(E, b, a)

(* A node that hangs under b has b above it.                                 *)
LEMMA HangsUnder ==
    ASSUME NEW E, IsTree(E), NEW a \in DOMAIN E, NEW b \in DOMAIN E,
           \E c \in Up(E, a) : E[c].parent = b
    PROVE  b \in Up(E, a) /\ Up(E, b) \subseteq Up(E, a) /\ a # b
<1>1. PICK c \in Up(E, a) : E[c].parent = b
  OBVIOUS
<1>2. b # Top
  BY TopIsNoNode DEF IsTree
<1>3. b \in Up(E, a)
  BY <1>1, <1>2, UpIsLeast DEF Upward
<1> QED BY <1>1, <1>3, UpTransitive, UpNoLoop

(* The ways up from two nodes part only once.                                *)
LEMMA ApartOnce ==
    ASSUME NEW E, IsTree(E), NEW a \in DOMAIN E, NEW b \in DOMAIN E,
           NEW c \in Up(E, a), NEW e \in Up(E, b), E[c].parent = E[e].parent, c # e,
           NEW f \in Up(E, a), NEW g \in Up(E, b), E[f].parent = E[g].parent, f # g
    PROVE  c = f /\ e = g
<1>0. c \in DOMAIN E /\ e \in DOMAIN E /\ f \in DOMAIN E /\ g \in DOMAIN E
  BY UpIsLeast
<1>1. ASSUME NEW x \in Up(E, a), NEW y \in Up(E, a), NEW z \in Up(E, b), NEW w \in Up(E, b),
             E[x].parent = E[z].parent, E[y].parent = E[w].parent, x # z, x # y, x \in Up(E, y)
      PROVE  FALSE
  <2>0. y \in DOMAIN E /\ w \in DOMAIN E /\ x \in DOMAIN E
    BY UpIsLeast
  <2>1. E[y].parent \in DOMAIN E /\ x \in Up(E, E[y].parent)
    BY <1>1, <2>0, UpByParent
  <2>2. E[w].parent \in Up(E, w)
    <3>1. E[w].parent # Top
      BY <1>1, <2>1, TopIsNoNode DEF IsTree
    <3> QED BY <2>0, <3>1, UpIsLeast DEF Upward
  <2>3. x \in Up(E, w)
    BY <1>1, <2>0, <2>1, <2>2, UpTransitive
  <2>4. x \in Up(E, b)
    BY <2>3, UpTransitive
  <2> QED BY <1>1, <2>4, UpOneChild
<1>2. c = f
  <2>1. c \in Up(E, f) \/ f \in Up(E, c)
    BY UpIsAChain
  <2> QED BY <1>1, <2>1
<1> QED BY <1>2, UpOneChild

(* A node apart from b hangs on neither side of it.                          *)
LEMMA ApartIsNotUnder ==
    ASSUME NEW E, IsTree(E), NEW a \in DOMAIN E, NEW b \in DOMAIN E,
           NEW c \in Up(E, a), NEW e \in Up(E, b), E[c].parent = E[e].parent, c # e
    PROVE  /\ ~\E f \in Up(E, a) : E[f].parent = b
           /\ ~\E f \in Up(E, b) : E[f].parent = a
<1>1. ASSUME \E f \in Up(E, a) : E[f].parent = b PROVE FALSE
  <2>1. e \in Up(E, a)
    BY <1>1, HangsUnder
  <2> QED BY <2>1, UpOneChild
<1>2. ASSUME \E f \in Up(E, b) : E[f].parent = a PROVE FALSE
  <2>1. c \in Up(E, b)
    BY <1>2, HangsUnder
  <2> QED BY <2>1, UpOneChild
<1> QED BY <1>1, <1>2

(* Sibling order is an order.                                                *)
LEMMA ElderIsStrict ==
    ASSUME NEW E, IsTree(E), NEW c \in DOMAIN E, NEW e \in DOMAIN E, Elder(E, c, e)
    PROVE  c # e /\ ~Elder(E, e, c) /\ E[c].parent = E[e].parent
<1>1. c \in Nat /\ e \in Nat
  BY BoundAssumption DEF IsTree, Node
<1> QED BY <1>1 DEF Elder

(* No two nodes come before each other, and none before itself.              *)
LEMMA LtIsAsymmetric ==
    ASSUME NEW E, IsTree(E), NEW a \in DOMAIN E, NEW b \in DOMAIN E, Lt(E, a, b)
    PROVE  ~Lt(E, b, a)
<1>1. CASE Apart(E, a, b)
  <2>1. PICK c \in Up(E, a), e \in Up(E, b) : Elder(E, c, e)
    BY <1>1 DEF Apart
  <2>2. c # e /\ ~Elder(E, e, c) /\ E[c].parent = E[e].parent
    BY <2>1, UpIsLeast, ElderIsStrict
  <2>3. ASSUME NEW g \in Up(E, b), NEW f \in Up(E, a), Elder(E, g, f) PROVE FALSE
    <3>1. g # f /\ E[f].parent = E[g].parent
      BY <2>3, UpIsLeast, ElderIsStrict
    <3>2. c = f /\ e = g
      BY <2>2, <3>1, ApartOnce
    <3> QED BY <2>2, <2>3, <3>2
  <2>4. ~LeftOf(E, b, a) /\ ~RightOf(E, a, b)
    BY <2>2, ApartIsNotUnder DEF LeftOf, RightOf
  <2> QED BY <2>3, <2>4 DEF Lt, Apart
<1>2. ASSUME NEW x \in DOMAIN E, NEW y \in DOMAIN E, Apart(E, y, x) PROVE ~LeftOf(E, x, y) /\ ~RightOf(E, y, x)
  <2>1. PICK c \in Up(E, y), e \in Up(E, x) : Elder(E, c, e)
    BY <1>2 DEF Apart
  <2>2. c # e /\ E[c].parent = E[e].parent
    BY <2>1, UpIsLeast, ElderIsStrict
  <2> QED BY <2>2, ApartIsNotUnder DEF LeftOf, RightOf
<1>3. CASE LeftOf(E, a, b)
  <2>1. PICK c \in Up(E, a) : E[c].parent = b /\ E[c].side = "left"
    BY <1>3 DEF LeftOf
  <2>2. b \in Up(E, a) /\ a # b
    BY <2>1, HangsUnder
  <2>3. ~LeftOf(E, b, a)
    <3>1. ASSUME LeftOf(E, b, a) PROVE FALSE
      <4>1. a \in Up(E, b)
        BY <3>1, HangsUnder DEF LeftOf
      <4> QED BY <2>2, <4>1, UpAntisymmetric
    <3> QED BY <3>1
  <2>4. ~RightOf(E, a, b)
    <3>1. ASSUME NEW e \in Up(E, a), E[e].parent = b, E[e].side = "right" PROVE FALSE
      <4>1. c = e
        BY <2>1, <3>1, UpOneChild
      <4> QED BY <2>1, <3>1, <4>1
    <3> QED BY <3>1 DEF RightOf
  <2> QED BY <1>2, <1>3, <2>3, <2>4 DEF Lt
<1>4. CASE RightOf(E, b, a)
  <2>1. PICK c \in Up(E, b) : E[c].parent = a /\ E[c].side = "right"
    BY <1>4 DEF RightOf
  <2>2. a \in Up(E, b) /\ a # b
    BY <2>1, HangsUnder
  <2>3. ~RightOf(E, a, b)
    <3>1. ASSUME RightOf(E, a, b) PROVE FALSE
      <4>1. b \in Up(E, a)
        BY <3>1, HangsUnder DEF RightOf
      <4> QED BY <2>2, <4>1, UpAntisymmetric
    <3> QED BY <3>1
  <2>4. ~LeftOf(E, b, a)
    <3>1. ASSUME NEW e \in Up(E, b), E[e].parent = a, E[e].side = "left" PROVE FALSE
      <4>1. c = e
        BY <2>1, <3>1, UpOneChild
      <4> QED BY <2>1, <3>1, <4>1
    <3> QED BY <3>1 DEF LeftOf
  <2> QED BY <1>2, <1>4, <2>3, <2>4 DEF Lt
<1> QED BY <1>1, <1>3, <1>4 DEF Lt

(* A node that comes between x and something to the right under x is to the  *)
(* right under x too.                                                        *)
LEMMA RightIsConvex ==
    ASSUME NEW E, IsTree(E), NEW x \in DOMAIN E, NEW y \in DOMAIN E, NEW z \in DOMAIN E,
           RightOf(E, y, x), Lt(E, x, z), Lt(E, z, y)
    PROVE  RightOf(E, z, x)
<1>1. Up(E, x) \subseteq Up(E, y)
  BY HangsUnder DEF RightOf
<1>2. CASE Apart(E, x, z)
  <2>1. Apart(E, y, z)
    BY <1>1, <1>2 DEF Apart
  <2> QED BY <2>1, LtIsAsymmetric DEF Lt
<1>3. CASE LeftOf(E, x, z)
  <2>1. LeftOf(E, y, z)
    BY <1>1, <1>3 DEF LeftOf
  <2> QED BY <2>1, LtIsAsymmetric DEF Lt
<1> QED BY <1>2, <1>3 DEF Lt

-----------------------------------------------------------------------------
(* Lists in the order of a tree. *)

(* Sequence s lists the nodes in S in the order of E. *)
Lists(E, s, S) ==
    /\ s \in Seq(S)
    /\ \A x \in S : \E k \in 1..Len(s) : s[k] = x
    /\ \A j, k \in 1..Len(s) : j < k => Lt(E, s[j], s[k])

(* What is listed stands at one place.                                       *)
LEMMA ListedOnce ==
    ASSUME NEW E, IsTree(E), NEW S \in SUBSET DOMAIN E, NEW s, Lists(E, s, S)
    PROVE  /\ Len(s) \in Nat /\ \A j \in 1..Len(s) : s[j] \in S
           /\ \A j, k \in 1..Len(s) : s[j] = s[k] => j = k
           /\ \A j, k \in 1..Len(s) : Lt(E, s[j], s[k]) <=> j < k
<1>1. Len(s) \in Nat /\ \A j \in 1..Len(s) : s[j] \in S
  BY LenProperties DEF Lists
<1>2. ASSUME NEW j \in 1..Len(s), NEW k \in 1..Len(s)
      PROVE  (s[j] = s[k] => j = k) /\ (Lt(E, s[j], s[k]) <=> j < k)
  <2>1. j < k => Lt(E, s[j], s[k])
    BY DEF Lists
  <2>2. k < j => Lt(E, s[k], s[j])
    BY DEF Lists
  <2>3. ~(Lt(E, s[j], s[k]) /\ Lt(E, s[k], s[j])) /\ ~Lt(E, s[j], s[j])
    BY <1>1, LtIsAsymmetric
  <2>4. j < k \/ k < j \/ j = k
    OBVIOUS
  <2> QED BY <2>1, <2>2, <2>3, <2>4
<1> QED BY <1>1, <1>2

(* A nonempty set of naturals has a least element.                           *)
LEMMA LeastOf ==
    ASSUME NEW S \in SUBSET Nat, S # {}
    PROVE  Min(S) \in S /\ \A y \in S : Min(S) <= y
<1>1. PICK x \in S : \A y \in S : ~(<<y, x>> \in OpToRel(<, Nat))
  BY NatLessThanWellFounded, WFMin
<1>2. \A y \in S : ~(y < x)
  BY <1>1 DEF OpToRel
<1>3. \A y \in S : x <= y
  BY <1>2
<1> QED BY <1>3 DEF Min

(* Lists s and t hold the same before k. *)
AgreeBefore(s, t, k) == \A j \in 1..(k - 1) : j \in 1..Len(t) /\ s[j] = t[j]

(* A place up to which two lists of one set agree is a place of both and     *)
(* holds the same in both.                                                   *)
LEMMA ListsAgreeAt ==
    ASSUME NEW E, IsTree(E), NEW S \in SUBSET DOMAIN E,
           NEW s, Lists(E, s, S), NEW t, Lists(E, t, S), NEW k \in 1..Len(s),
           AgreeBefore(s, t, k)
    PROVE  k \in 1..Len(t) /\ s[k] = t[k]
<1>s. \A i, j \in 1..Len(s) : s[i] = s[j] => i = j
  BY ListedOnce
<1>t. \A i, j \in 1..Len(t) : t[i] = t[j] => i = j
  BY ListedOnce
<1>0. Len(s) \in Nat /\ Len(t) \in Nat /\ s[k] \in S
  BY LenProperties DEF Lists
<1>1. PICK m \in 1..Len(t) : t[m] = s[k]
  BY <1>0 DEF Lists
<1>2. k <= m
  <2> SUFFICES ASSUME m < k PROVE FALSE
    BY <1>0
  <2>1. m \in 1..(k - 1) /\ m \in 1..Len(s)
    BY <1>0
  <2>2. s[m] = s[k]
    BY <1>1, <2>1 DEF AgreeBefore
  <2> QED BY <1>0, <1>s, <2>1, <2>2
<1>3. k \in 1..Len(t)
  BY <1>0, <1>2
<1>4. CASE m = k
  BY <1>1, <1>3, <1>4
<1>5. CASE k < m
  <2>1. Lt(E, t[k], t[m]) /\ t[k] \in S
    BY <1>3, <1>5, ListedOnce
  <2>2. PICK n \in 1..Len(s) : s[n] = t[k]
    BY <2>1 DEF Lists
  <2>3. n < k
    <3>1. Lt(E, s[n], s[k])
      BY <1>1, <2>1, <2>2
    <3> QED BY <3>1, ListedOnce
  <2>4. n \in 1..(k - 1)
    BY <2>3, <1>0
  <2>5. n \in 1..Len(t) /\ t[n] = t[k]
    BY <2>2, <2>4 DEF AgreeBefore
  <2> QED BY <1>0, <1>t, <1>3, <2>3, <2>5
<1> QED BY <1>0, <1>2, <1>4, <1>5

(* There is one list of a set of nodes in the order of a tree.               *)
LEMMA ListsAreOne ==
    ASSUME NEW E, IsTree(E), NEW S \in SUBSET DOMAIN E,
           NEW s, Lists(E, s, S), NEW t, Lists(E, t, S)
    PROVE  s = t
<1>1. ASSUME NEW a, Lists(E, a, S), NEW b, Lists(E, b, S)
      PROVE  \A k \in 1..Len(a) : k \in 1..Len(b) /\ a[k] = b[k]
  <2> DEFINE Off == {k \in 1..Len(a) : ~(k \in 1..Len(b) /\ a[k] = b[k])}
  <2>0. Len(a) \in Nat
    BY <1>1, LenProperties DEF Lists
  <2> SUFFICES ASSUME Off # {} PROVE FALSE
    OBVIOUS
  <2>1. Off \in SUBSET Nat
    OBVIOUS
  <2>2. PICK k \in Off : \A j \in Off : k <= j
    <3> HIDE DEF Off
    <3> QED BY <2>1, LeastOf
  <2>3. \A j \in 1..(k - 1) : j \in 1..Len(b) /\ a[j] = b[j]
    <3> SUFFICES ASSUME NEW j \in 1..(k - 1) PROVE j \notin Off /\ j \in 1..Len(a)
      OBVIOUS
    <3>1. j < k /\ k \in Nat /\ j \in Nat /\ j \in 1..Len(a)
      BY <2>0
    <3> HIDE DEF Off
    <3> QED BY <2>2, <3>1
  <2>4. k \in 1..Len(a)
    OBVIOUS
  <2>5. k \in 1..Len(b) /\ a[k] = b[k]
    BY <1>1, <2>3, <2>4, ListsAgreeAt DEF AgreeBefore
  <2> QED BY <2>5
<1>2. \A k \in 1..Len(s) : k \in 1..Len(t) /\ s[k] = t[k]
  BY <1>1
<1>3. \A k \in 1..Len(t) : k \in 1..Len(s)
  BY <1>1
<1>4. Len(s) \in Nat /\ Len(t) \in Nat /\ s \in Seq(S) /\ t \in Seq(S)
  BY LenProperties DEF Lists
<1>5. Len(s) = Len(t)
  <2>1. Len(s) > 0 => Len(s) \in 1..Len(s)
    BY <1>4
  <2>2. Len(t) > 0 => Len(t) \in 1..Len(t)
    BY <1>4
  <2> QED BY <1>2, <1>3, <1>4, <2>1, <2>2
<1> QED BY <1>2, <1>4, <1>5, SeqEqual

-----------------------------------------------------------------------------
(* Loops as functions of the number of turns. *)

(* What is true of 0, and of n + 1 whenever of n, is true of every natural.  *)
LEMMA EveryNatural ==
    ASSUME NEW S, 0 \in S, \A n \in Nat : n \in S => n + 1 \in S
    PROVE  \A n \in Nat : n \in S
<1> SUFFICES ASSUME Nat \ S # {} PROVE FALSE
  OBVIOUS
<1>1. PICK x \in Nat \ S : \A y \in Nat \ S : x <= y
  BY LeastOf
<1>2. x # 0 /\ x - 1 \in Nat /\ x - 1 < x
  BY <1>1
<1>3. x - 1 \in S
  BY <1>1, <1>2
<1>4. (x - 1) + 1 \in S
  BY <1>2, <1>3
<1> QED BY <1>1, <1>4

(* The first n steps on S from s0; which step is taken may depend on when.   *)
Runs(S, step, s0, n, h) ==
    /\ h \in [0..n -> S] /\ h[0] = s0
    /\ \A i \in 0..(n - 1) : h[i + 1] = step[i][h[i]]

(* Steps that stay in S can be taken any number of times.                    *)
LEMMA RunsExist ==
    ASSUME NEW S, NEW step \in [Nat -> [S -> S]], NEW s0 \in S
    PROVE  \A n \in Nat : \E h : Runs(S, step, s0, n, h)
<1> DEFINE Has == {n \in Nat : \E h : Runs(S, step, s0, n, h)}
<1>1. 0 \in Has
  <2>1. Runs(S, step, s0, 0, [i \in 0..0 |-> s0])
    BY DEF Runs
  <2> QED BY <2>1
<1>2. ASSUME NEW n \in Nat, n \in Has PROVE n + 1 \in Has
  <2>1. PICK h : Runs(S, step, s0, n, h)
    BY <1>2
  <2> DEFINE g == [i \in 0..(n + 1) |-> IF i = n + 1 THEN step[n][h[n]] ELSE h[i]]
  <2>2. g \in [0..(n + 1) -> S]
    <3>1. h[n] \in S /\ step[n] \in [S -> S]
      BY <2>1 DEF Runs
    <3>2. step[n][h[n]] \in S
      BY <3>1
    <3>3. \A i \in 0..(n + 1) : i # n + 1 => i \in 0..n
      OBVIOUS
    <3> QED BY <2>1, <3>2, <3>3 DEF Runs
  <2>3. g[0] = s0
    BY <2>1 DEF Runs
  <2>4. ASSUME NEW i \in 0..((n + 1) - 1) PROVE g[i + 1] = step[i][g[i]]
    <3>1. CASE i = n
      BY <3>1
    <3>2. CASE i # n
      <4>1. i \in 0..(n - 1) /\ i + 1 \in 0..n /\ i + 1 # n + 1 /\ i # n + 1
        BY <3>2
      <4>2. h[i + 1] = step[i][h[i]]
        BY <2>1, <4>1 DEF Runs
      <4>3. g[i + 1] = h[i + 1] /\ g[i] = h[i]
        BY <4>1
      <4> QED BY <4>2, <4>3
    <3> QED BY <3>1, <3>2
  <2> HIDE DEF g
  <2>5. Runs(S, step, s0, n + 1, g)
    BY <2>2, <2>3, <2>4 DEF Runs
  <2> QED BY <2>5
<1> HIDE DEF Has
<1>3. \A n \in Nat : n \in Has
  BY <1>1, <1>2, EveryNatural
<1> QED BY <1>3 DEF Has

(* Where two runs both get to is the same.                                   *)
LEMMA RunsAgree ==
    ASSUME NEW S, NEW step, NEW s0
    PROVE  \A n, m, k \in Nat : \A g, h :
               n <= m /\ n <= k /\ Runs(S, step, s0, m, g) /\ Runs(S, step, s0, k, h)
                   => g[n] = h[n]
<1> DEFINE Agree(n) == \A m, k \in Nat : \A g, h :
               n <= m /\ n <= k /\ Runs(S, step, s0, m, g) /\ Runs(S, step, s0, k, h)
                   => g[n] = h[n]
           Same == {n \in Nat : Agree(n)}
<1>1. 0 \in Same
  BY DEF Runs
<1>2. ASSUME NEW n \in Nat, n \in Same PROVE n + 1 \in Same
  <2> SUFFICES ASSUME NEW m \in Nat, NEW k \in Nat, NEW g, NEW h, n + 1 <= m, n + 1 <= k,
                      Runs(S, step, s0, m, g), Runs(S, step, s0, k, h)
               PROVE  g[n + 1] = h[n + 1]
    OBVIOUS
  <2>1. n <= m /\ n <= k /\ n \in 0..(m - 1) /\ n \in 0..(k - 1)
    OBVIOUS
  <2>2. g[n] = h[n]
    BY <1>2, <2>1
  <2> QED BY <2>1, <2>2 DEF Runs
<1> HIDE DEF Same
<1>3. \A n \in Nat : n \in Same
  BY <1>1, <1>2, EveryNatural
<1> QED BY <1>3 DEF Same

(* All the steps on S from s0.                                               *)
Repeats(S, step, s0, f) ==
    /\ f \in [Nat -> S] /\ f[0] = s0
    /\ \A n \in Nat : f[n + 1] = step[n][f[n]]

(* So they can be taken for ever.                                            *)
LEMMA StepsRepeat ==
    ASSUME NEW S, NEW step \in [Nat -> [S -> S]], NEW s0 \in S
    PROVE  \E f : Repeats(S, step, s0, f)
<1> DEFINE run(n) == CHOOSE h : Runs(S, step, s0, n, h)
           f == [n \in Nat |-> run(n)[n]]
<1>1. \A n \in Nat : Runs(S, step, s0, n, run(n))
  BY RunsExist
<1>2. \A n \in Nat : f[n] = run(n)[n]
  OBVIOUS
<1> HIDE DEF run
<1>3. \A n \in Nat : run(n)[n] \in S
  BY <1>1 DEF Runs
<1>4. f \in [Nat -> S]
  BY <1>3
<1> HIDE DEF f
<1>5. f[0] = s0
  BY <1>1, <1>2 DEF Runs
<1>6. ASSUME NEW n \in Nat PROVE f[n + 1] = step[n][f[n]]
  <2>1. n + 1 \in Nat /\ n <= n /\ n <= n + 1 /\ n \in 0..((n + 1) - 1)
    OBVIOUS
  <2>2. Runs(S, step, s0, n, run(n)) /\ Runs(S, step, s0, n + 1, run(n + 1))
    BY <1>1, <2>1
  <2>3. run(n)[n] = run(n + 1)[n]
    BY <2>1, <2>2, RunsAgree
  <2>4. run(n + 1)[n + 1] = step[n][run(n + 1)[n]]
    BY <2>1, <2>2 DEF Runs
  <2> QED BY <1>2, <2>1, <2>3, <2>4
<1> QED BY <1>4, <1>5, <1>6 DEF Repeats

-----------------------------------------------------------------------------
(* Leaving out. *)

(* The empty list lists nothing.                                             *)
LEMMA EmptyLists ==
    ASSUME NEW E
    PROVE  Lists(E, <<>>, {})
BY EmptySeq DEF Lists

(* A node after all that are listed goes to the end of the list.             *)
LEMMA AppendLists ==
    ASSUME NEW E, NEW S, NEW s, Lists(E, s, S), NEW x, \A w \in S : Lt(E, w, x)
    PROVE  Lists(E, Append(s, x), S \union {x})
<1> DEFINE t == Append(s, x)
<1>1. s \in Seq(S) /\ s \in Seq(S \union {x})
  BY SeqMonotonic DEF Lists
<1>2. /\ t \in Seq(S \union {x}) /\ Len(t) = Len(s) + 1 /\ Len(s) \in Nat
      /\ \A k \in 1..Len(s) : t[k] = s[k] /\ s[k] \in S
      /\ t[Len(s) + 1] = x
  BY <1>1, AppendProperties, LenProperties
<1> HIDE DEF t
<1>3. ASSUME NEW y \in S \union {x} PROVE \E k \in 1..Len(t) : t[k] = y
  <2>1. CASE y = x
    <3>1. Len(s) + 1 \in 1..Len(t)
      BY <1>2
    <3> QED BY <1>2, <2>1, <3>1
  <2>2. CASE y \in S
    <3>1. PICK k \in 1..Len(s) : s[k] = y
      BY <2>2 DEF Lists
    <3>2. k \in 1..Len(t)
      BY <1>2
    <3> QED BY <1>2, <3>1, <3>2
  <2> QED BY <2>1, <2>2
<1>4. ASSUME NEW j \in 1..Len(t), NEW k \in 1..Len(t), j < k PROVE Lt(E, t[j], t[k])
  <2>1. j \in 1..Len(s)
    BY <1>2, <1>4
  <2>2. CASE k = Len(s) + 1
    BY <1>2, <2>1, <2>2
  <2>3. CASE k # Len(s) + 1
    <3>1. k \in 1..Len(s)
      BY <1>2, <2>3
    <3> QED BY <1>2, <1>4, <2>1, <3>1 DEF Lists
  <2> QED BY <2>2, <2>3
<1>5. Lists(E, t, S \union {x})
  BY <1>2, <1>3, <1>4 DEF Lists
<1> QED BY <1>5 DEF t

(* u is what Kept has kept after any number of places.                       *)
KeepsThrough(s, S, u) ==
    /\ Kept(s, S) = u[Len(s)] /\ u[0] = <<>>
    /\ \A k \in Nat : u[k + 1] = IF s[k + 1] \in S THEN Append(u[k], s[k + 1]) ELSE u[k]

(* Kept goes through the list one place at a time.                           *)
LEMMA KeptRun ==
    ASSUME NEW s, NEW S
    PROVE  \E u : KeepsThrough(s, S, u)
<1> DEFINE Body(a) == [k \in Nat |-> IF k = 0 THEN <<>>
                                     ELSE IF s[k] \in S THEN Append(a[k - 1], s[k]) ELSE a[k - 1]]
           u == CHOOSE a : a = Body(a)
           step == [k \in Nat |-> [v \in Seq(S) |-> IF s[k + 1] \in S THEN Append(v, s[k + 1]) ELSE v]]
<1>1. step \in [Nat -> [Seq(S) -> Seq(S)]]
  <2>1. ASSUME NEW k \in Nat, NEW v \in Seq(S)
        PROVE  (IF s[k + 1] \in S THEN Append(v, s[k + 1]) ELSE v) \in Seq(S)
    BY AppendProperties
  <2> QED BY <2>1
<1>2. PICK f : Repeats(Seq(S), step, <<>>, f)
  <2> DEFINE V == Seq(S)
             e == <<>>
  <2>1. e \in V
    BY EmptySeq
  <2>2. step \in [Nat -> [V -> V]]
    BY <1>1
  <2> HIDE DEF step, V, e, Body, u
  <2>3. \E f : Repeats(V, step, e, f)
    BY <2>1, <2>2, StepsRepeat
  <2> QED BY <2>3 DEF V, e
<1>2a. f \in [Nat -> Seq(S)] /\ f[0] = <<>> /\ \A n \in Nat : f[n + 1] = step[n][f[n]]
  <2> HIDE DEF step
  <2> QED BY <1>2 DEF Repeats
<1>3. ASSUME NEW n \in Nat
      PROVE  f[n + 1] = IF s[n + 1] \in S THEN Append(f[n], s[n + 1]) ELSE f[n]
  <2>1. step[n][f[n]] = IF s[n + 1] \in S THEN Append(f[n], s[n + 1]) ELSE f[n]
    BY <1>2a
  <2> HIDE DEF step
  <2> QED BY <1>2a, <2>1
<1>4. f = Body(f)
  <2>1. ASSUME NEW k \in Nat, k # 0
        PROVE  f[k] = IF s[k] \in S THEN Append(f[k - 1], s[k]) ELSE f[k - 1]
    <3>1. k - 1 \in Nat /\ (k - 1) + 1 = k
      BY <2>1
    <3> QED BY <1>3, <3>1
  <2>2. \A k \in Nat : f[k] = IF k = 0 THEN <<>>
                              ELSE IF s[k] \in S THEN Append(f[k - 1], s[k]) ELSE f[k - 1]
    BY <1>2a, <2>1
  <2> QED BY <1>2a, <2>2
<1>5. u = Body(u)
  <2> HIDE DEF Body
  <2> QED BY <1>4
<1>6. Kept(s, S) = u[Len(s)]
  BY DEF Kept
<1>7. u[0] = <<>>
  <2> HIDE DEF u
  <2> QED BY <1>5
<1>8. ASSUME NEW k \in Nat PROVE u[k + 1] = IF s[k + 1] \in S THEN Append(u[k], s[k + 1]) ELSE u[k]
  <2> HIDE DEF u
  <2>1. k + 1 \in Nat /\ k + 1 # 0 /\ (k + 1) - 1 = k
    OBVIOUS
  <2> QED BY <1>5, <2>1
<1> HIDE DEF u, Body, step
<1>9. KeepsThrough(s, S, u)
  BY <1>6, <1>7, <1>8 DEF KeepsThrough
<1> QED BY <1>9

(* What is kept of a list is listed.                                         *)
LEMMA KeptLists ==
    ASSUME NEW E, NEW N, NEW s, Lists(E, s, N), NEW S
    PROVE  Lists(E, Kept(s, S), N \intersect S)
<1>0. Len(s) \in Nat /\ \A k \in 1..Len(s) : s[k] \in N
  BY LenProperties DEF Lists
<1>1a. PICK u : KeepsThrough(s, S, u)
  BY KeptRun
<1>1. /\ Kept(s, S) = u[Len(s)] /\ u[0] = <<>>
      /\ \A k \in Nat : u[k + 1] = IF s[k + 1] \in S THEN Append(u[k], s[k + 1]) ELSE u[k]
  BY <1>1a DEF KeepsThrough
<1> DEFINE Of(k) == {s[j] : j \in 1..k} \intersect S
           Good == {k \in Nat : k <= Len(s) => Lists(E, u[k], Of(k))}
<1>2. 0 \in Good
  <2>1. Of(0) = {}
    OBVIOUS
  <2> HIDE DEF Of
  <2> QED BY <1>1, <2>1, EmptyLists
<1>3. ASSUME NEW k \in Nat, k \in Good PROVE k + 1 \in Good
  <2> SUFFICES ASSUME k + 1 <= Len(s) PROVE Lists(E, u[k + 1], Of(k + 1))
    OBVIOUS
  <2>1. Lists(E, u[k], Of(k))
    BY <1>0, <1>3
  <2>2. {s[j] : j \in 1..(k + 1)} = {s[j] : j \in 1..k} \union {s[k + 1]}
    <3>1. \A j \in 1..(k + 1) : j \in 1..k \/ j = k + 1
      OBVIOUS
    <3>2. \A j \in 1..k : j \in 1..(k + 1)
      OBVIOUS
    <3>3. k + 1 \in 1..(k + 1)
      OBVIOUS
    <3> QED BY <3>1, <3>2, <3>3
  <2>3. CASE s[k + 1] \in S
    <3>1. \A w \in Of(k) : Lt(E, w, s[k + 1])
      <4> SUFFICES ASSUME NEW j \in 1..k PROVE Lt(E, s[j], s[k + 1])
        OBVIOUS
      <4>1. j \in 1..Len(s) /\ k + 1 \in 1..Len(s) /\ j < k + 1
        BY <1>0
      <4> QED BY <4>1 DEF Lists
    <3>2. Of(k + 1) = Of(k) \union {s[k + 1]}
      BY <2>2, <2>3
    <3>3. u[k + 1] = Append(u[k], s[k + 1])
      BY <1>1, <2>3
    <3> HIDE DEF Of
    <3> QED BY <2>1, <3>1, <3>2, <3>3, AppendLists
  <2>4. CASE s[k + 1] \notin S
    <3>1. Of(k + 1) = Of(k)
      BY <2>2, <2>4
    <3>2. u[k + 1] = u[k]
      BY <1>1, <2>4
    <3> HIDE DEF Of
    <3> QED BY <2>1, <3>1, <3>2
  <2> QED BY <2>3, <2>4
<1>4. Lists(E, u[Len(s)], Of(Len(s)))
  <2> HIDE DEF Good
  <2>1. Len(s) \in Good
    BY <1>0, <1>2, <1>3, EveryNatural
  <2> QED BY <1>0, <2>1 DEF Good
<1>5. Of(Len(s)) = N \intersect S
  <2>1. {s[j] : j \in 1..Len(s)} = N
    BY <1>0 DEF Lists
  <2> QED BY <2>1
<1> HIDE DEF Of
<1> QED BY <1>1, <1>4, <1>5

-----------------------------------------------------------------------------
(* What the traversal still has to list. *)

(* N is what some document holds of the nodes of E. *)
IsPart(E, N) == IsTree(E) /\ N \in SUBSET DOMAIN E /\ Upward(E, N)

(* Siblings not begun stand for all that hangs under them; a node that was    *)
(* begun for itself and what hangs to its right.                              *)
Beneath(E, N, S) == {z \in N : \E c \in S : c \in Up(E, z)}
Onward(E, N, n) == {z \in N : z = n \/ RightOf(E, z, n)}

(* Everything in A comes before everything in B. *)
Ahead(E, A, B) == \A x \in A, y \in B : Lt(E, x, y)

(* The children of p that a document with the nodes N holds on one side. *)
Kids(E, N, p, side) == {n \in N : E[n].parent = p /\ E[n].side = side}

(* S is a set of siblings. *)
Siblings(E, N, S) ==
    S \in SUBSET N /\ \A x, y \in S : E[x].parent = E[y].parent /\ E[x].side = E[y].side

(* A document's tree has just these children.                                *)
LEMMA ChildrenAreKids ==
    ASSUME NEW E, NEW N \in SUBSET DOMAIN E, NEW p, NEW side
    PROVE  /\ Children([n \in N |-> E[n]], p, side) = Kids(E, N, p, side)
           /\ Siblings(E, N, Kids(E, N, p, side))
BY DEF Children, Kids, Siblings

(* With a node a document holds all above it; somewhere above it the root is *)
(* the parent.                                                               *)
LEMMA UpInPart ==
    ASSUME NEW E, NEW N, IsPart(E, N), NEW z \in N
    PROVE  /\ z \in DOMAIN E /\ Up(E, z) \subseteq N /\ z \in Up(E, z)
           /\ \E c \in Up(E, z) : E[c].parent = Top
<1>1. IsTree(E) /\ N \in SUBSET DOMAIN E /\ Upward(E, N) /\ z \in DOMAIN E
  BY DEF IsPart
<1>2. Up(E, z) \subseteq N /\ z \in Up(E, z) /\ Up(E, z) \in SUBSET DOMAIN E /\ Upward(E, Up(E, z))
  BY <1>1, UpIsLeast
<1>3. PICK c \in Up(E, z) : E[c].parent \notin Up(E, z)
  BY <1>1, <1>2 DEF IsTree
<1>4. E[c].parent = Top
  BY <1>2, <1>3 DEF Upward
<1> QED BY <1>1, <1>2, <1>4

(* A node to be gone on with is itself, then what hangs under its children   *)
(* on the right.                                                             *)
LEMMA OnwardSplits ==
    ASSUME NEW E, NEW N, IsPart(E, N), NEW n \in N
    PROVE  /\ Onward(E, N, n) = {n} \union Beneath(E, N, Kids(E, N, n, "right"))
           /\ Ahead(E, {n}, Beneath(E, N, Kids(E, N, n, "right")))
<1>1. \A z \in N : RightOf(E, z, n) <=> z \in Beneath(E, N, Kids(E, N, n, "right"))
  BY UpInPart DEF RightOf, Beneath, Kids
<1>2. Beneath(E, N, Kids(E, N, n, "right")) \subseteq N
  BY DEF Beneath
<1> QED BY <1>1, <1>2 DEF Onward, Ahead, Lt

(* What hangs under siblings is what hangs to the left of the least, then    *)
(* that and what hangs to its right, then what hangs under the others.       *)
LEMMA BeneathSplits ==
    ASSUME NEW E, NEW N, IsPart(E, N), NEW S, Siblings(E, N, S), S # {}
    PROVE  LET n == Min(S)
               left == Beneath(E, N, Kids(E, N, n, "left"))
               others == Beneath(E, N, S \ {n})
           IN /\ n \in S /\ n \in N
              /\ Beneath(E, N, S) = left \union Onward(E, N, n) \union others
              /\ Ahead(E, left, Onward(E, N, n))
              /\ Ahead(E, left \union Onward(E, N, n), others)
<1> DEFINE n == Min(S)
           left == Beneath(E, N, Kids(E, N, n, "left"))
           others == Beneath(E, N, S \ {n})
<1>0. IsTree(E) /\ N \in SUBSET DOMAIN E /\ N \in SUBSET Nat /\ S \in SUBSET N
  BY BoundAssumption DEF IsPart, IsTree, Node, Siblings
<1>1. n \in S /\ n \in N /\ \A y \in S : n <= y
  BY <1>0, LeastOf
<1> HIDE DEF n
<1>2. ASSUME NEW z \in N, n \in Up(E, z) PROVE z \in left \/ z \in Onward(E, N, n)
  <2>1. CASE z = n
    BY <2>1 DEF Onward
  <2>2. CASE z # n
    <3>1. PICK c \in Up(E, z) : E[c].parent = n
      BY <1>0, <1>2, <2>2, UpThroughAChild
    <3>2. c \in N /\ E[c].side \in {"left", "right"}
      BY <1>0, UpInPart DEF IsTree
    <3>3. CASE E[c].side = "left"
      BY <3>1, <3>2, <3>3 DEF Beneath, Kids
    <3>4. CASE E[c].side = "right"
      BY <3>1, <3>2, <3>4 DEF Onward, RightOf
    <3> QED BY <3>2, <3>3, <3>4
  <2> QED BY <2>1, <2>2
<1>3. ASSUME NEW z \in N, z \in left \/ z \in Onward(E, N, n) PROVE n \in Up(E, z)
  <2>1. CASE z = n
    BY <2>1, UpInPart
  <2>2. CASE \E c \in Up(E, z) : E[c].parent = n
    BY <1>0, <1>1, <2>2, HangsUnder
  <2> QED BY <1>3, <2>1, <2>2 DEF Beneath, Kids, Onward, RightOf
<1>4. Beneath(E, N, S) = left \union Onward(E, N, n) \union others
  <2>1. \A z \in N : z \in Beneath(E, N, S) <=> n \in Up(E, z) \/ z \in others
    BY <1>1 DEF Beneath
  <2>2. /\ Beneath(E, N, S) \subseteq N /\ left \subseteq N
        /\ Onward(E, N, n) \subseteq N /\ others \subseteq N
    BY DEF Beneath, Onward
  <2> HIDE DEF left, others
  <2> QED BY <1>2, <1>3, <2>1, <2>2
<1>5. Ahead(E, left, Onward(E, N, n))
  <2> SUFFICES ASSUME NEW x \in left, NEW y \in Onward(E, N, n) PROVE Lt(E, x, y)
    BY DEF Ahead
  <2>1. PICK c \in Up(E, x) : E[c].parent = n /\ E[c].side = "left"
    BY DEF Beneath, Kids
  <2>2. CASE y = n
    BY <2>1, <2>2 DEF Lt, LeftOf
  <2>3. CASE RightOf(E, y, n)
    <3>1. PICK e \in Up(E, y) : E[e].parent = n /\ E[e].side = "right"
      BY <2>3 DEF RightOf
    <3>2. Elder(E, c, e)
      BY <2>1, <3>1 DEF Elder
    <3> QED BY <3>2 DEF Lt, Apart
  <2> QED BY <2>2, <2>3 DEF Onward
<1>6. Ahead(E, left \union Onward(E, N, n), others)
  <2> SUFFICES ASSUME NEW x \in left \union Onward(E, N, n), NEW y \in others PROVE Lt(E, x, y)
    BY DEF Ahead
  <2>1. n \in Up(E, x)
    BY <1>3 DEF Beneath, Onward
  <2>2. PICK m \in S \ {n} : m \in Up(E, y)
    BY DEF Beneath
  <2>3. Elder(E, n, m)
    <3>1. n < m
      BY <1>0, <1>1, <2>2
    <3> QED BY <1>1, <3>1 DEF Elder, Siblings
  <2> QED BY <2>1, <2>2, <2>3 DEF Lt, Apart
<1> QED BY <1>1, <1>4, <1>5, <1>6 DEF n

-----------------------------------------------------------------------------
(* The stack of the traversal. *)

Frame == [of : SUBSET Node, begun : BOOLEAN]

(* What a frame stands for. *)
Pending(E, N, f) ==
    IF f.begun THEN {z \in N : \E n \in f.of : z \in Onward(E, N, n)} ELSE Beneath(E, N, f.of)

GoodFrame(E, N, f) ==
    /\ f \in Frame /\ f.of \in SUBSET N /\ f.of # {}
    /\ IF f.begun THEN \E n \in N : f.of = {n} ELSE Siblings(E, N, f.of)

(* What the frames of a stack stand for, what a higher one stands for before  *)
(* what a lower one does; and the nodes that were begun.                      *)
Held(E, N, st) == {z \in N : \E k \in 1..Len(st) : z \in Pending(E, N, st[k])}
Begun(st) == {n \in Node : \E k \in 1..Len(st) : st[k].begun /\ n \in st[k].of}

Stacked(E, N, st) ==
    /\ st \in Seq(Frame)
    /\ \A k \in 1..Len(st) : GoodFrame(E, N, st[k])
    /\ \A j, k \in 1..Len(st) : j < k => Ahead(E, Pending(E, N, st[k]), Pending(E, N, st[j]))

(* The empty stack stands for nothing.                                       *)
LEMMA EmptyStacked ==
    ASSUME NEW E, NEW N
    PROVE  Stacked(E, N, <<>>) /\ Held(E, N, <<>>) = {} /\ Begun(<<>>) = {}
BY EmptySeq DEF Stacked, Held, Begun

(* What a stack stands for with one frame more.                              *)
LEMMA AppendHolds ==
    ASSUME NEW E, NEW N, NEW st \in Seq(Frame), NEW f \in Frame
    PROVE  /\ Held(E, N, Append(st, f)) = Held(E, N, st) \union (N \intersect Pending(E, N, f))
           /\ Begun(Append(st, f)) = Begun(st) \union (IF f.begun THEN f.of ELSE {})
<1> DEFINE t == Append(st, f)
<1>1. /\ Len(t) = Len(st) + 1 /\ Len(st) \in Nat
      /\ \A k \in 1..Len(st) : t[k] = st[k] /\ k \in 1..Len(t)
      /\ t[Len(st) + 1] = f /\ Len(st) + 1 \in 1..Len(t)
      /\ \A k \in 1..Len(t) : k \in 1..Len(st) \/ k = Len(st) + 1
  <2>1. /\ Len(t) = Len(st) + 1 /\ Len(st) \in Nat
        /\ \A k \in 1..Len(st) : t[k] = st[k]
        /\ t[Len(st) + 1] = f
    BY AppendProperties, LenProperties
  <2> HIDE DEF t
  <2> QED BY <2>1
<1> HIDE DEF t
<1>2. \A z : (\E k \in 1..Len(t) : z \in Pending(E, N, t[k]))
               <=> (\E k \in 1..Len(st) : z \in Pending(E, N, st[k])) \/ z \in Pending(E, N, f)
  <2> SUFFICES ASSUME NEW z
               PROVE (\E k \in 1..Len(t) : z \in Pending(E, N, t[k]))
                       <=> (\E k \in 1..Len(st) : z \in Pending(E, N, st[k])) \/ z \in Pending(E, N, f)
    OBVIOUS
  <2> QED BY <1>1
<1>3. \A n : (\E k \in 1..Len(t) : t[k].begun /\ n \in t[k].of)
               <=> (\E k \in 1..Len(st) : st[k].begun /\ n \in st[k].of) \/ (f.begun /\ n \in f.of)
  <2> SUFFICES ASSUME NEW n
               PROVE (\E k \in 1..Len(t) : t[k].begun /\ n \in t[k].of)
                       <=> (\E k \in 1..Len(st) : st[k].begun /\ n \in st[k].of) \/ (f.begun /\ n \in f.of)
    OBVIOUS
  <2> QED BY <1>1
<1>4. Held(E, N, t) = Held(E, N, st) \union (N \intersect Pending(E, N, f))
  BY <1>2 DEF Held
<1>5. Begun(t) = Begun(st) \union (IF f.begun THEN f.of ELSE {})
  <2>1. f.of \subseteq Node
    BY DEF Frame
  <2> QED BY <1>3, <2>1 DEF Begun
<1> QED BY <1>4, <1>5 DEF t

(* A frame ahead of all that a stack holds can go on top.                    *)
LEMMA AppendStacked ==
    ASSUME NEW E, NEW N, NEW st, Stacked(E, N, st), NEW f, GoodFrame(E, N, f),
           Ahead(E, Pending(E, N, f), Held(E, N, st))
    PROVE  /\ Stacked(E, N, Append(st, f))
           /\ Held(E, N, Append(st, f)) = Held(E, N, st) \union Pending(E, N, f)
           /\ Begun(Append(st, f)) = Begun(st) \union (IF f.begun THEN f.of ELSE {})
<1> DEFINE t == Append(st, f)
<1>1. /\ st \in Seq(Frame) /\ f \in Frame /\ t \in Seq(Frame)
      /\ Len(t) = Len(st) + 1 /\ Len(st) \in Nat
      /\ \A k \in 1..Len(st) : t[k] = st[k]
      /\ t[Len(st) + 1] = f
  BY AppendProperties, LenProperties DEF Stacked, GoodFrame
<1>2. Pending(E, N, f) \subseteq N
  BY DEF Pending, Beneath
<1>3. /\ Held(E, N, t) = Held(E, N, st) \union Pending(E, N, f)
      /\ Begun(t) = Begun(st) \union (IF f.begun THEN f.of ELSE {})
  BY <1>1, <1>2, AppendHolds
<1> HIDE DEF t
<1>4. ASSUME NEW k \in 1..Len(t) PROVE GoodFrame(E, N, t[k])
  <2>1. CASE k \in 1..Len(st)
    BY <1>1, <2>1 DEF Stacked
  <2>2. CASE k = Len(st) + 1
    BY <1>1, <2>2
  <2> QED BY <1>1, <2>1, <2>2
<1>5. ASSUME NEW j \in 1..Len(t), NEW k \in 1..Len(t), j < k
      PROVE  Ahead(E, Pending(E, N, t[k]), Pending(E, N, t[j]))
  <2>1. j \in 1..Len(st) /\ t[j] = st[j]
    BY <1>1, <1>5
  <2>2. CASE k \in 1..Len(st)
    BY <1>1, <1>5, <2>1, <2>2 DEF Stacked
  <2>3. CASE k = Len(st) + 1
    <3>1. Pending(E, N, st[j]) \subseteq N
      BY DEF Pending, Beneath
    <3>2. Pending(E, N, st[j]) \subseteq Held(E, N, st)
      BY <2>1, <3>1 DEF Held
    <3>3. t[k] = f
      BY <1>1, <2>3
    <3> QED BY <2>1, <3>2, <3>3 DEF Ahead
  <2> QED BY <1>1, <2>2, <2>3
<1>6. Stacked(E, N, t)
  BY <1>1, <1>4, <1>5 DEF Stacked
<1> QED BY <1>3, <1>6 DEF t

(* Pushing siblings, if there are any.                                       *)
LEMMA PushStacked ==
    ASSUME NEW E, NEW N \in SUBSET Node, NEW st, Stacked(E, N, st), NEW S, Siblings(E, N, S),
           Ahead(E, Beneath(E, N, S), Held(E, N, st))
    PROVE  /\ Stacked(E, N, Push(st, S))
           /\ Held(E, N, Push(st, S)) = Held(E, N, st) \union Beneath(E, N, S)
           /\ Begun(Push(st, S)) = Begun(st)
<1>1. CASE S = {}
  BY <1>1 DEF Push, Beneath
<1>2. CASE S # {}
  <2> DEFINE f == [of |-> S, begun |-> FALSE]
  <2>1. f.of = S /\ f.begun = FALSE /\ GoodFrame(E, N, f) /\ Pending(E, N, f) = Beneath(E, N, S)
    BY <1>2 DEF GoodFrame, Frame, Siblings, Pending
  <2>2. Push(st, S) = Append(st, f)
    BY <1>2 DEF Push
  <2>3. Ahead(E, Pending(E, N, f), Held(E, N, st))
    BY <2>1
  <2> HIDE DEF f
  <2>4. /\ Stacked(E, N, Append(st, f))
        /\ Held(E, N, Append(st, f)) = Held(E, N, st) \union Pending(E, N, f)
        /\ Begun(Append(st, f)) = Begun(st) \union (IF f.begun THEN f.of ELSE {})
    BY <2>1, <2>3, AppendStacked
  <2> QED BY <2>1, <2>2, <2>4
<1> QED BY <1>1, <1>2

(* A sequence that is not empty is its front and its last element.           *)
LEMMA FrontAndLast ==
    ASSUME NEW S, NEW s \in Seq(S), s # <<>>
    PROVE  Front(s) \in Seq(S) /\ Last(s) \in S /\ s = Append(Front(s), Last(s))
<1> DEFINE n == Len(s)
           r == Front(s)
           e == Last(s)
<1>1. n \in Nat \ {0} /\ DOMAIN s = 1..n
  BY LenProperties, EmptySeq
<1>2. r = SubSeq(s, 1, n - 1) /\ e = s[n]
  BY DEF Front, Last
<1>3. r \in Seq(S) /\ Len(r) = n - 1 /\ \A k \in 1..(n - 1) : r[k] = s[k]
  BY <1>1, <1>2
<1>4. e \in S
  BY <1>1, <1>2
<1> HIDE DEF r, e
<1>5. s = Append(r, e)
  <2>1. /\ Append(r, e) \in Seq(S) /\ Len(Append(r, e)) = (n - 1) + 1
        /\ \A k \in 1..(n - 1) : Append(r, e)[k] = r[k]
        /\ Append(r, e)[(n - 1) + 1] = e
    BY <1>3, <1>4, AppendProperties
  <2> HIDE DEF n
  <2>2. Append(r, e) \in Seq(S) /\ Len(Append(r, e)) = n /\ \A k \in 1..n : Append(r, e)[k] = s[k]
    <3>1. \A k \in 1..n : k \in 1..(n - 1) \/ k = n
      BY <1>1
    <3> QED BY <1>1, <1>2, <1>3, <2>1, <3>1
  <2> QED BY <1>1, <2>2, SeqEqual DEF n
<1> QED BY <1>3, <1>4, <1>5 DEF r, e

(* Under the top frame is what was stacked before it.                        *)
LEMMA UnderTheTop ==
    ASSUME NEW E, NEW N, NEW rest \in Seq(Frame), NEW f \in Frame, Stacked(E, N, Append(rest, f))
    PROVE  /\ Stacked(E, N, rest) /\ GoodFrame(E, N, f)
           /\ Held(E, N, Append(rest, f)) = Held(E, N, rest) \union Pending(E, N, f)
           /\ Ahead(E, Pending(E, N, f), Held(E, N, rest))
           /\ Begun(Append(rest, f)) = Begun(rest) \union (IF f.begun THEN f.of ELSE {})
<1> DEFINE t == Append(rest, f)
           n == Len(rest)
<1>1. /\ n \in Nat /\ Len(t) = n + 1
      /\ \A k \in 1..n : t[k] = rest[k]
      /\ t[n + 1] = f
  BY AppendProperties, LenProperties
<1>2. /\ Held(E, N, t) = Held(E, N, rest) \union (N \intersect Pending(E, N, f))
      /\ Begun(t) = Begun(rest) \union (IF f.begun THEN f.of ELSE {})
  <2>1. Held(E, N, t) = Held(E, N, rest) \union (N \intersect Pending(E, N, f))
    BY AppendHolds, SMT
  <2>2. Begun(t) = Begun(rest) \union (IF f.begun THEN f.of ELSE {})
    BY AppendHolds, Zenon
  <2> QED BY <2>1, <2>2
<1>3. /\ \A k \in 1..Len(t) : GoodFrame(E, N, t[k])
      /\ \A j, k \in 1..Len(t) : j < k => Ahead(E, Pending(E, N, t[k]), Pending(E, N, t[j]))
  BY DEF Stacked
<1> HIDE DEF t
<1>4. Pending(E, N, f) \subseteq N
  BY DEF Pending, Beneath
<1> HIDE DEF n
<1>5. \A k \in 1..n : k \in 1..Len(t) /\ k < n + 1
  BY <1>1
<1>6. n + 1 \in 1..Len(t)
  BY <1>1
<1>7. GoodFrame(E, N, f) /\ \A k \in 1..n : GoodFrame(E, N, rest[k])
  BY <1>1, <1>3, <1>5, <1>6
<1>8. \A j, k \in 1..n : j < k => Ahead(E, Pending(E, N, rest[k]), Pending(E, N, rest[j]))
  BY <1>1, <1>3, <1>5
<1>9. \A j \in 1..n : Ahead(E, Pending(E, N, f), Pending(E, N, rest[j]))
  BY <1>1, <1>3, <1>5, <1>6
<1>10. Ahead(E, Pending(E, N, f), Held(E, N, rest))
  BY <1>9 DEF Ahead, Held, n
<1>11. Stacked(E, N, rest)
  BY <1>7, <1>8 DEF Stacked, n
<1> QED BY <1>2, <1>4, <1>7, <1>10, <1>11 DEF t

(* Taking the top frame off.                                                 *)
LEMMA PopStacked ==
    ASSUME NEW E, NEW N, NEW st, Stacked(E, N, st), st # <<>>
    PROVE  /\ Stacked(E, N, Front(st)) /\ GoodFrame(E, N, Last(st))
           /\ Held(E, N, st) = Held(E, N, Front(st)) \union Pending(E, N, Last(st))
           /\ Ahead(E, Pending(E, N, Last(st)), Held(E, N, Front(st)))
           /\ Begun(st) = Begun(Front(st)) \union (IF Last(st).begun THEN Last(st).of ELSE {})
<1>1. st \in Seq(Frame)
  BY DEF Stacked
<1>2. Front(st) \in Seq(Frame) /\ Last(st) \in Frame /\ st = Append(Front(st), Last(st))
  BY <1>1, FrontAndLast
<1>3. ASSUME NEW r \in Seq(Frame), NEW f \in Frame, st = Append(r, f)
      PROVE  /\ Stacked(E, N, r) /\ GoodFrame(E, N, f)
             /\ Held(E, N, st) = Held(E, N, r) \union Pending(E, N, f)
             /\ Ahead(E, Pending(E, N, f), Held(E, N, r))
             /\ Begun(st) = Begun(r) \union (IF f.begun THEN f.of ELSE {})
  <2>1. Stacked(E, N, Append(r, f))
    BY <1>3
  <2>2. /\ Stacked(E, N, r) /\ GoodFrame(E, N, f)
        /\ Held(E, N, Append(r, f)) = Held(E, N, r) \union Pending(E, N, f)
        /\ Ahead(E, Pending(E, N, f), Held(E, N, r))
        /\ Begun(Append(r, f)) = Begun(r) \union (IF f.begun THEN f.of ELSE {})
    BY <2>1, UnderTheTop
  <2> QED BY <1>3, <2>2
<1> QED BY <1>2, <1>3

-----------------------------------------------------------------------------
(* The traversal lists a document in the order of the tree. *)

(* What the traversal has listed, and what it has met.                       *)
Done(E, N, st) == N \ Held(E, N, st)
Met(E, N, st) == Done(E, N, st) \union Begun(st)

(* What was begun is still held.                                             *)
LEMMA BegunIsHeld ==
    ASSUME NEW E, NEW N, NEW st, Stacked(E, N, st)
    PROVE  Begun(st) \subseteq Held(E, N, st)
<1> SUFFICES ASSUME NEW k \in 1..Len(st), st[k].begun, NEW n \in st[k].of PROVE n \in Held(E, N, st)
  BY DEF Begun
<1>1. GoodFrame(E, N, st[k])
  BY DEF Stacked
<1>2. n \in N /\ n \in Onward(E, N, n)
  BY <1>1 DEF GoodFrame, Onward
<1>3. n \in Pending(E, N, st[k])
  BY <1>2 DEF Pending
<1> QED BY <1>2, <1>3 DEF Held

(* Nothing is ahead of itself.                                               *)
LEMMA AheadIsApart ==
    ASSUME NEW E, IsTree(E), NEW A \in SUBSET DOMAIN E, NEW B, Ahead(E, A, B), NEW x \in A
    PROVE  x \notin B
BY LtIsAsymmetric DEF Ahead

(* The frame to be taken off, and what is under it.                          *)
TopFrame(E, N, rest, f) ==
    /\ Stacked(E, N, rest) /\ GoodFrame(E, N, f)
    /\ Ahead(E, Pending(E, N, f), Held(E, N, rest))

(* Node n is begun, or taken, when f is taken off rest and the stack is st.   *)
BeginsOne(E, N, rest, f, n, st) ==
    /\ n \in N /\ Stacked(E, N, st)
    /\ Held(E, N, st) = Held(E, N, rest) \union Pending(E, N, f)
    /\ Begun(st) = Begun(rest) \union {n}
    /\ n \in Pending(E, N, f) /\ n \notin Begun(rest)
TakesOne(E, N, rest, f, n, st) ==
    /\ n \in N /\ Stacked(E, N, st)
    /\ Held(E, N, rest) \union Pending(E, N, f) = Held(E, N, st) \union {n}
    /\ Begun(st) = Begun(rest)
    /\ n \notin Held(E, N, st) /\ Ahead(E, {n}, Held(E, N, st))

(* Siblings on top: the least is begun, and what hangs to its left put first. *)
LEMMA SiblingTurn ==
    ASSUME NEW E, NEW N, IsPart(E, N), NEW rest, NEW f, TopFrame(E, N, rest, f), f.begun = FALSE,
           NEW n, n = Min(f.of),
           NEW st, st = Push(Append(Push(rest, f.of \ {n}), [of |-> {n}, begun |-> TRUE]),
                             Kids(E, N, n, "left"))
    PROVE  BeginsOne(E, N, rest, f, n, st)
<1> DEFINE S == f.of
           left == Beneath(E, N, Kids(E, N, n, "left"))
           others == Beneath(E, N, S \ {n})
           g == [of |-> {n}, begun |-> TRUE]
           st1 == Push(rest, S \ {n})
           st2 == Append(st1, g)
<1>a. /\ Stacked(E, N, rest) /\ GoodFrame(E, N, f)
      /\ Ahead(E, Pending(E, N, f), Held(E, N, rest))
  BY DEF TopFrame
<1>0. IsTree(E) /\ N \in SUBSET DOMAIN E /\ N \in SUBSET Node
  BY DEF IsPart, IsTree
<1>1. Siblings(E, N, S) /\ S # {} /\ S \in SUBSET N
  BY <1>a DEF GoodFrame
<1>2. /\ n \in S /\ n \in N
      /\ Beneath(E, N, S) = left \union Onward(E, N, n) \union others
      /\ Ahead(E, left, Onward(E, N, n))
      /\ Ahead(E, left \union Onward(E, N, n), others)
  BY <1>1, BeneathSplits
<1>3. Pending(E, N, f) = Beneath(E, N, S)
  BY DEF Pending
<1>4. Siblings(E, N, S \ {n}) /\ Siblings(E, N, Kids(E, N, n, "left"))
  <2>1. Siblings(E, N, S \ {n})
    <3> HIDE DEF S
    <3> QED BY <1>1 DEF Siblings
  <2> QED BY <1>0, <2>1, ChildrenAreKids
<1> HIDE DEF left, others, S
<1>5. Ahead(E, others, Held(E, N, rest))
  BY <1>a, <1>2, <1>3 DEF Ahead
<1>6. Stacked(E, N, st1) /\ Held(E, N, st1) = Held(E, N, rest) \union others /\ Begun(st1) = Begun(rest)
  BY <1>a, <1>0, <1>4, <1>5, PushStacked DEF others
<1>7. GoodFrame(E, N, g) /\ Pending(E, N, g) = Onward(E, N, n) /\ g.of = {n} /\ g.begun = TRUE
  <2>1. g \in Frame /\ g.of = {n} /\ g.begun = TRUE
    BY <1>0, <1>2 DEF Frame
  <2>2. Onward(E, N, n) \subseteq N
    BY DEF Onward
  <2> HIDE DEF g
  <2> QED BY <1>2, <2>1, <2>2 DEF GoodFrame, Pending
<1>8. Ahead(E, Onward(E, N, n), Held(E, N, st1))
  BY <1>a, <1>2, <1>3, <1>6 DEF Ahead
<1> HIDE DEF st1, g
<1>9. /\ Stacked(E, N, st2) /\ Held(E, N, st2) = Held(E, N, st1) \union Onward(E, N, n)
      /\ Begun(st2) = Begun(st1) \union {n}
  <2>1. Ahead(E, Pending(E, N, g), Held(E, N, st1))
    BY <1>7, <1>8
  <2>2. /\ Stacked(E, N, Append(st1, g))
        /\ Held(E, N, Append(st1, g)) = Held(E, N, st1) \union Pending(E, N, g)
        /\ Begun(Append(st1, g)) = Begun(st1) \union (IF g.begun THEN g.of ELSE {})
    BY <1>6, <1>7, <2>1, AppendStacked
  <2> QED BY <1>7, <2>2
<1>10. Ahead(E, left, Held(E, N, st2))
  BY <1>a, <1>2, <1>3, <1>6, <1>9 DEF Ahead
<1>11. st = Push(st2, Kids(E, N, n, "left"))
  BY DEF st1, g, S
<1> HIDE DEF st2
<1>12. Stacked(E, N, st) /\ Held(E, N, st) = Held(E, N, st2) \union left /\ Begun(st) = Begun(st2)
  <2> DEFINE K == Kids(E, N, n, "left")
  <2>1. Siblings(E, N, K) /\ Ahead(E, Beneath(E, N, K), Held(E, N, st2)) /\ st = Push(st2, K)
    BY <1>4, <1>10, <1>11 DEF left
  <2> HIDE DEF K
  <2>2. /\ Stacked(E, N, Push(st2, K)) /\ Begun(Push(st2, K)) = Begun(st2)
        /\ Held(E, N, Push(st2, K)) = Held(E, N, st2) \union Beneath(E, N, K)
    <3>1. N \in SUBSET Node /\ Stacked(E, N, st2)
      BY <1>0, <1>9
    <3> QED BY <2>1, <3>1, PushStacked
  <2> QED BY <2>1, <2>2 DEF K, left
<1>13. n \in Pending(E, N, f)
  BY <1>2, <1>3 DEF Onward
<1>14. n \notin Begun(rest)
  <2>1. Begun(rest) \subseteq Held(E, N, rest)
    BY <1>a, BegunIsHeld
  <2>2. Pending(E, N, f) \in SUBSET DOMAIN E
    BY <1>0, <1>3 DEF Beneath
  <2> QED BY <1>a, <1>0, <1>13, <2>1, <2>2, AheadIsApart
<1>15. Held(E, N, st) = Held(E, N, rest) \union Pending(E, N, f)
  <2>1. Held(E, N, st) = ((Held(E, N, rest) \union others) \union Onward(E, N, n)) \union left
    BY <1>6, <1>9, <1>12
  <2>2. Pending(E, N, f) = left \union Onward(E, N, n) \union others
    BY <1>2, <1>3
  <2> QED BY <2>1, <2>2
<1>16. Begun(st) = Begun(rest) \union {n}
  BY <1>6, <1>9, <1>12
<1> QED BY <1>2, <1>12, <1>13, <1>14, <1>15, <1>16 DEF BeginsOne

(* The node of a frame that was begun.                                       *)
LEMMA OwnFrame ==
    ASSUME NEW E, NEW N \in SUBSET Node, NEW f, GoodFrame(E, N, f), f.begun = TRUE
    PROVE  Min(f.of) \in N /\ f.of = {Min(f.of)}
<1>1. PICK m \in N : f.of = {m}
  BY DEF GoodFrame
<1>2. {m} \in SUBSET Nat /\ {m} # {}
  BY BoundAssumption DEF Node
<1>3. Min({m}) \in {m}
  BY <1>2, LeastOf
<1> QED BY <1>1, <1>3

(* A node that was begun on top: it is next, and what hangs to its right goes *)
(* before the rest.                                                          *)
LEMMA OwnTurn ==
    ASSUME NEW E, NEW N, IsPart(E, N), NEW rest, NEW f, TopFrame(E, N, rest, f), f.begun = TRUE,
           NEW n, n = Min(f.of),
           NEW st, st = Push(rest, Kids(E, N, n, "right"))
    PROVE  TakesOne(E, N, rest, f, n, st)
<1> DEFINE right == Beneath(E, N, Kids(E, N, n, "right"))
<1>a. /\ Stacked(E, N, rest) /\ GoodFrame(E, N, f)
      /\ Ahead(E, Pending(E, N, f), Held(E, N, rest))
  BY DEF TopFrame
<1>0. IsTree(E) /\ N \in SUBSET DOMAIN E /\ N \in SUBSET Node /\ Node \in SUBSET Nat
  BY BoundAssumption DEF IsPart, IsTree, Node
<1>1. f.of = {n} /\ n \in N
  BY <1>a, <1>0, OwnFrame
<1>2. Pending(E, N, f) = Onward(E, N, n)
  BY <1>1 DEF Pending, Onward
<1>3. Onward(E, N, n) = {n} \union right /\ Ahead(E, {n}, right)
  BY <1>1, OnwardSplits
<1>4. Siblings(E, N, Kids(E, N, n, "right"))
  BY <1>0, ChildrenAreKids
<1> HIDE DEF right
<1>5. Ahead(E, right, Held(E, N, rest)) /\ Ahead(E, {n}, Held(E, N, rest))
  BY <1>a, <1>2, <1>3 DEF Ahead
<1>6. Stacked(E, N, st) /\ Held(E, N, st) = Held(E, N, rest) \union right /\ Begun(st) = Begun(rest)
  BY <1>a, <1>0, <1>4, <1>5, PushStacked DEF right
<1>7. Ahead(E, {n}, Held(E, N, st))
  BY <1>3, <1>5, <1>6 DEF Ahead
<1>8. n \notin Held(E, N, st)
  BY <1>0, <1>1, <1>7, AheadIsApart
<1>9. Held(E, N, rest) \union Pending(E, N, f) = Held(E, N, st) \union {n}
  BY <1>2, <1>3, <1>6
<1> QED BY <1>1, <1>6, <1>7, <1>8, <1>9 DEF TakesOne

(* A document of E that holds the nodes N. *)
Copy(E, N) == [n \in N |-> E[n]]

(* Where the traversal of such a document may be: what it has listed is all  *)
(* that the stack does not stand for, and comes before what it stands for.   *)
Going(E, N, s) ==
    /\ s \in Traversal
    /\ Stacked(E, N, s.stack)
    /\ Lists(E, s.out, Done(E, N, s.stack))
    /\ Ahead(E, Done(E, N, s.stack), Held(E, N, s.stack))

(* A turn meets a node for the first time, or lists one.                     *)
Forward(E, N, st, next) ==
    \E n \in N :
       \/ /\ Done(E, N, next) = Done(E, N, st)
          /\ n \notin Met(E, N, st) /\ Met(E, N, next) = Met(E, N, st) \union {n}
       \/ /\ n \notin Done(E, N, st) /\ Done(E, N, next) = Done(E, N, st) \union {n}
          /\ Met(E, N, next) = Met(E, N, st)

(* Every turn of the loop goes forward.                                      *)
LEMMA TurnGoesOn ==
    ASSUME NEW E, NEW N, IsPart(E, N), NEW s, Going(E, N, s), s.stack # <<>>
    PROVE  /\ Going(E, N, Turn(Copy(E, N))[s])
           /\ Forward(E, N, s.stack, Turn(Copy(E, N))[s].stack)
<1> DEFINE T == Copy(E, N)
           st == s.stack
           rest == Front(st)
           f == Last(st)
           n == Min(f.of)
           R == Turn(T)[s]
<1>0. IsTree(E) /\ N \in SUBSET DOMAIN E /\ N \in SUBSET Node
  BY DEF IsPart, IsTree
<1>1. s \in Traversal /\ Stacked(E, N, st) /\ s.out \in Seq(Node)
  BY DEF Going, Traversal
<1>2. /\ Stacked(E, N, rest) /\ GoodFrame(E, N, f)
      /\ Held(E, N, st) = Held(E, N, rest) \union Pending(E, N, f)
      /\ Ahead(E, Pending(E, N, f), Held(E, N, rest))
      /\ Begun(st) = Begun(rest) \union (IF f.begun THEN f.of ELSE {})
  BY <1>1, PopStacked
<1>3. Held(E, N, st) \subseteq N /\ f.begun \in BOOLEAN
  BY <1>2 DEF Held, GoodFrame, Frame
<1>4. \A side : Children(T, n, side) = Kids(E, N, n, side)
  BY <1>0, ChildrenAreKids DEF Copy
<1>5. R = IF f.begun
          THEN [stack |-> Push(rest, Children(T, n, "right")), out |-> Append(s.out, n)]
          ELSE [stack |-> Push(Append(Push(rest, f.of \ {n}), [of |-> {n}, begun |-> TRUE]),
                               Children(T, n, "left")),
                out |-> s.out]
  BY <1>1 DEF Turn
<1> HIDE DEF T, rest, f, R
<1>6. CASE f.begun = FALSE
  <2> DEFINE next == Push(Append(Push(rest, f.of \ {n}), [of |-> {n}, begun |-> TRUE]),
                          Kids(E, N, n, "left"))
  <2>1. R = [stack |-> next, out |-> s.out]
    BY <1>4, <1>5, <1>6
  <2>2. R.stack = next /\ R.out = s.out
    BY <2>1
  <2>3. /\ n \in N /\ Stacked(E, N, next)
        /\ Held(E, N, next) = Held(E, N, rest) \union Pending(E, N, f)
        /\ Begun(next) = Begun(rest) \union {n}
        /\ n \in Pending(E, N, f) /\ n \notin Begun(rest)
    <3>1. /\ n = Min(f.of)
          /\ next = Push(Append(Push(rest, f.of \ {n}), [of |-> {n}, begun |-> TRUE]),
                         Kids(E, N, n, "left"))
      OBVIOUS
    <3>2. TopFrame(E, N, rest, f)
      BY <1>2 DEF TopFrame
    <3> HIDE DEF next, n
    <3>3. BeginsOne(E, N, rest, f, n, next)
      BY <1>6, <3>1, <3>2, SiblingTurn
    <3> QED BY <3>3 DEF BeginsOne
  <2> HIDE DEF next, n
  <2>4. Held(E, N, next) = Held(E, N, st) /\ Done(E, N, next) = Done(E, N, st)
    BY <1>2, <2>3 DEF Done
  <2>5. n \notin Met(E, N, st) /\ Met(E, N, next) = Met(E, N, st) \union {n}
    BY <1>2, <1>6, <2>3, <2>4 DEF Met, Done
  <2>6. R \in Traversal
    BY <1>1, <2>1, <2>3 DEF Traversal, Stacked, Frame
  <2>7. Going(E, N, R)
    BY <2>2, <2>3, <2>4, <2>6 DEF Going
  <2>8. Forward(E, N, st, R.stack)
    BY <2>2, <2>3, <2>4, <2>5 DEF Forward
  <2> QED BY <2>7, <2>8 DEF R, T
<1>7. CASE f.begun = TRUE
  <2> DEFINE next == Push(rest, Kids(E, N, n, "right"))
  <2>0. f.of = {n}
    BY <1>0, <1>2, <1>7, OwnFrame
  <2>1. R = [stack |-> next, out |-> Append(s.out, n)]
    BY <1>4, <1>5, <1>7
  <2>2. R.stack = next /\ R.out = Append(s.out, n)
    BY <2>1
  <2>3. /\ n \in N /\ Stacked(E, N, next)
        /\ Held(E, N, rest) \union Pending(E, N, f) = Held(E, N, next) \union {n}
        /\ Begun(next) = Begun(rest)
        /\ n \notin Held(E, N, next) /\ Ahead(E, {n}, Held(E, N, next))
    <3>1. n = Min(f.of) /\ next = Push(rest, Kids(E, N, n, "right"))
      OBVIOUS
    <3>2. TopFrame(E, N, rest, f)
      BY <1>2 DEF TopFrame
    <3> HIDE DEF next, n
    <3>3. TakesOne(E, N, rest, f, n, next)
      BY <1>7, <3>1, <3>2, OwnTurn
    <3> QED BY <3>3 DEF TakesOne
  <2> HIDE DEF next, n
  <2>4. Held(E, N, st) = Held(E, N, next) \union {n}
    BY <1>2, <2>3
  <2>5. n \notin Done(E, N, st) /\ Done(E, N, next) = Done(E, N, st) \union {n}
    BY <1>3, <2>3, <2>4 DEF Done
  <2>6. Begun(st) = Begun(next) \union {n}
    BY <1>2, <1>7, <2>0, <2>3
  <2>7. Met(E, N, next) = Met(E, N, st)
    BY <2>5, <2>6 DEF Met
  <2>8. \A w \in Done(E, N, st) : Lt(E, w, n)
    BY <2>4 DEF Going, Ahead
  <2>9. Lists(E, R.out, Done(E, N, next))
    <3>1. Lists(E, s.out, Done(E, N, st))
      BY DEF Going
    <3>2. Lists(E, Append(s.out, n), Done(E, N, st) \union {n})
      BY <2>8, <3>1, AppendLists
    <3> QED BY <2>2, <2>5, <3>2
  <2>10. Ahead(E, Done(E, N, next), Held(E, N, next))
    BY <2>3, <2>4, <2>5 DEF Going, Ahead
  <2>11. R \in Traversal
    <3>1. Append(s.out, n) \in Seq(Node)
      BY <1>0, <1>1, <2>3, AppendProperties
    <3> QED BY <2>1, <2>3, <3>1 DEF Traversal, Stacked, Frame
  <2>12. Going(E, N, R)
    BY <2>2, <2>3, <2>9, <2>10, <2>11 DEF Going
  <2>13. Forward(E, N, st, R.stack)
    BY <2>2, <2>3, <2>5, <2>7 DEF Forward
  <2> QED BY <2>12, <2>13 DEF R, T
<1> QED BY <1>3, <1>6, <1>7

(* It starts with everything to be listed.                                   *)
LEMMA StartIsGoing ==
    ASSUME NEW E, NEW N, IsPart(E, N)
    PROVE  /\ Going(E, N, Start(Copy(E, N)))
           /\ Done(E, N, Start(Copy(E, N)).stack) = {} /\ Met(E, N, Start(Copy(E, N)).stack) = {}
<1> DEFINE T == Copy(E, N)
           L == Kids(E, N, Top, "left")
           R == Kids(E, N, Top, "right")
           st1 == Push(<<>>, R)
           st == Push(st1, L)
<1>0. IsTree(E) /\ N \in SUBSET DOMAIN E /\ N \in SUBSET Node
  BY DEF IsPart, IsTree
<1>1. \A side : /\ Children(T, Top, side) = Kids(E, N, Top, side)
                /\ Siblings(E, N, Kids(E, N, Top, side))
  BY <1>0, ChildrenAreKids DEF Copy
<1>2. Siblings(E, N, L) /\ Siblings(E, N, R)
  BY <1>1
<1>3. Start(T) = [stack |-> st, out |-> <<>>]
  BY <1>1 DEF Start
<1>4. \A x \in Beneath(E, N, L), y \in Beneath(E, N, R) : Lt(E, x, y)
  <2> SUFFICES ASSUME NEW x \in Beneath(E, N, L), NEW y \in Beneath(E, N, R) PROVE Lt(E, x, y)
    OBVIOUS
  <2>1. PICK c \in Up(E, x) : E[c].parent = Top /\ E[c].side = "left"
    BY DEF Beneath, Kids
  <2>2. PICK e \in Up(E, y) : E[e].parent = Top /\ E[e].side = "right"
    BY DEF Beneath, Kids
  <2>3. Elder(E, c, e)
    BY <2>1, <2>2 DEF Elder
  <2> QED BY <2>3 DEF Lt, Apart
<1>5. Beneath(E, N, L) \union Beneath(E, N, R) = N
  <2>1. ASSUME NEW z \in N PROVE z \in Beneath(E, N, L) \union Beneath(E, N, R)
    <3>1. PICK c \in Up(E, z) : E[c].parent = Top
      BY UpInPart
    <3>2. c \in N /\ c \in DOMAIN E /\ E[c].side \in {"left", "right"}
      BY <1>0, UpInPart DEF IsTree
    <3> QED BY <3>1, <3>2 DEF Beneath, Kids
  <2>2. Beneath(E, N, L) \subseteq N /\ Beneath(E, N, R) \subseteq N
    BY DEF Beneath
  <2> HIDE DEF L, R
  <2> QED BY <2>1, <2>2
<1> HIDE DEF L, R
<1>6. Stacked(E, N, <<>>) /\ Held(E, N, <<>>) = {} /\ Begun(<<>>) = {}
  BY EmptyStacked
<1>7. Stacked(E, N, st1) /\ Held(E, N, st1) = Beneath(E, N, R) /\ Begun(st1) = {}
  <2>1. Ahead(E, Beneath(E, N, R), Held(E, N, <<>>))
    BY <1>6 DEF Ahead
  <2>2. /\ Stacked(E, N, Push(<<>>, R)) /\ Held(E, N, Push(<<>>, R)) = Held(E, N, <<>>) \union Beneath(E, N, R)
        /\ Begun(Push(<<>>, R)) = Begun(<<>>)
    BY <1>0, <1>2, <1>6, <2>1, PushStacked
  <2> QED BY <1>6, <2>2
<1> HIDE DEF st1
<1>8. Stacked(E, N, st) /\ Held(E, N, st) = N /\ Begun(st) = {}
  <2>1. Ahead(E, Beneath(E, N, L), Held(E, N, st1))
    BY <1>4, <1>7 DEF Ahead
  <2>2. /\ Stacked(E, N, Push(st1, L)) /\ Held(E, N, Push(st1, L)) = Held(E, N, st1) \union Beneath(E, N, L)
        /\ Begun(Push(st1, L)) = Begun(st1)
    BY <1>0, <1>2, <1>7, <2>1, PushStacked
  <2> QED BY <1>5, <1>7, <2>2
<1> HIDE DEF st
<1>9. Done(E, N, st) = {} /\ Met(E, N, st) = {}
  BY <1>8 DEF Done, Met
<1>10. Start(T).stack = st /\ Start(T).out = <<>> /\ Start(T) \in Traversal
  BY <1>3, <1>8, EmptySeq DEF Traversal, Stacked, Frame
<1> HIDE DEF T
<1>11. Going(E, N, Start(T))
  BY <1>8, <1>9, <1>10, EmptyLists DEF Going, Ahead
<1> QED BY <1>9, <1>10, <1>11 DEF T

(* What the loop is at after any number of turns.                            *)
LEMMA TurnsGoOn ==
    ASSUME NEW E, NEW N, IsPart(E, N)
    PROVE  /\ Turns(Copy(E, N))[0] = Start(Copy(E, N))
           /\ \A k \in Nat : /\ Going(E, N, Turns(Copy(E, N))[k])
                             /\ Turns(Copy(E, N))[k + 1] = Turn(Copy(E, N))[Turns(Copy(E, N))[k]]
<1> DEFINE T == Copy(E, N)
           V == {s \in Traversal : Going(E, N, s)}
           step == [k \in Nat |-> [s \in V |-> Turn(T)[s]]]
           at == Turns(T)
<1>1. Start(T) \in V
  BY StartIsGoing DEF Going
<1>2. ASSUME NEW s \in V PROVE Turn(T)[s] \in V
  <2>1. CASE s.stack = <<>>
    BY <2>1 DEF Turn
  <2>2. CASE s.stack # <<>>
    <3>1. Going(E, N, Turn(T)[s])
      BY <2>2, TurnGoesOn
    <3> QED BY <3>1 DEF Going
  <2> QED BY <2>1, <2>2
<1> HIDE DEF T, V
<1>3. step \in [Nat -> [V -> V]]
  BY <1>2
<1>4. PICK f : Repeats(V, step, Start(T), f)
  <2> HIDE DEF step
  <2> QED BY <1>1, <1>3, StepsRepeat
<1>5. f \in [Nat -> V] /\ f[0] = Start(T) /\ \A k \in Nat : f[k + 1] = Turn(T)[f[k]]
  BY <1>4 DEF Repeats
<1>6. f = [k \in Nat |-> IF k = 0 THEN Start(T) ELSE Turn(T)[f[k - 1]]]
  <2>1. ASSUME NEW k \in Nat, k # 0 PROVE f[k] = Turn(T)[f[k - 1]]
    <3>1. k - 1 \in Nat /\ (k - 1) + 1 = k
      BY <2>1
    <3> QED BY <1>5, <3>1
  <2> QED BY <1>5, <2>1
<1>7. at = [k \in Nat |-> IF k = 0 THEN Start(T) ELSE Turn(T)[at[k - 1]]]
  <2>1. at = CHOOSE a : a = [k \in Nat |-> IF k = 0 THEN Start(T) ELSE Turn(T)[a[k - 1]]]
    BY DEF Turns
  <2> HIDE DEF at
  <2> QED BY <1>6, <2>1, Zenon
<1> HIDE DEF at
<1>8. at[0] = Start(T) /\ \A k \in Nat : at[k + 1] = Turn(T)[at[k]]
  BY <1>7
<1>9. \A k \in Nat : at[k] \in V
  <2> DEFINE S == {m \in Nat : at[m] \in V}
  <2>1. 0 \in S
    BY <1>1, <1>8
  <2>2. ASSUME NEW k \in Nat, k \in S PROVE k + 1 \in S
    BY <1>2, <1>8, <2>2
  <2> HIDE DEF S
  <2>3. \A k \in Nat : k \in S
    BY <2>1, <2>2, EveryNatural
  <2> QED BY <2>3 DEF S
<1> QED BY <1>8, <1>9 DEF at, T, V

(* How many nodes were met and how many were listed, together.               *)
Progress(E, N, st) == Cardinality(Done(E, N, st)) + Cardinality(Met(E, N, st))

(* Sets of a document's nodes are finite.                                    *)
LEMMA NodesAreFinite ==
    ASSUME NEW N \in SUBSET Node
    PROVE  /\ IsFiniteSet(N) /\ Cardinality(N) \in Nat
           /\ \A S \in SUBSET N : /\ IsFiniteSet(S) /\ Cardinality(S) \in Nat
                                  /\ Cardinality(S) <= Cardinality(N)
                                  /\ Cardinality(S) = Cardinality(N) => S = N
<1>1. IsFiniteSet(Node)
  BY BoundAssumption, FS_Interval DEF Node
<1>2. IsFiniteSet(N)
  BY <1>1, FS_Subset
<1> QED BY <1>2, FS_Subset, FS_CardinalityType

(* While the stack is not empty every turn counts one.                       *)
LEMMA TurnsCount ==
    ASSUME NEW E, NEW N, IsPart(E, N)
    PROVE  \A k \in Nat : LET st == Turns(Copy(E, N))[k].stack
                          IN st = <<>> \/ Progress(E, N, st) = k
<1> DEFINE T == Copy(E, N)
           at == Turns(T)
           S == {k \in Nat : at[k].stack = <<>> \/ Progress(E, N, at[k].stack) = k}
<1>0. N \in SUBSET Node
  BY DEF IsPart, IsTree
<1>1. at[0] = Start(T) /\ \A k \in Nat : Going(E, N, at[k]) /\ at[k + 1] = Turn(T)[at[k]]
  BY TurnsGoOn
<1> HIDE DEF at
<1>2. 0 \in S
  <2>1. Done(E, N, at[0].stack) = {} /\ Met(E, N, at[0].stack) = {}
    BY <1>1, StartIsGoing
  <2>2. Cardinality({}) = 0
    BY FS_EmptySet
  <2>3. Progress(E, N, at[0].stack) = 0
    BY <2>1, <2>2 DEF Progress
  <2> QED BY <2>3
<1>3. ASSUME NEW k \in Nat, k \in S PROVE k + 1 \in S
  <2> DEFINE st == at[k].stack
             next == at[k + 1].stack
  <2>0. Going(E, N, at[k]) /\ Going(E, N, at[k + 1]) /\ at[k + 1] = Turn(T)[at[k]]
    BY <1>1
  <2>1. CASE st = <<>>
    <3>1. at[k + 1] = at[k]
      BY <2>0, <2>1 DEF Turn, Going
    <3> QED BY <2>1, <3>1
  <2>2. CASE st # <<>>
    <3>1. Progress(E, N, st) = k
      BY <1>3, <2>2
    <3>2. Forward(E, N, st, next)
      BY <2>0, <2>2, TurnGoesOn
    <3>3. Stacked(E, N, st) /\ Stacked(E, N, next)
      BY <2>0 DEF Going
    <3> HIDE DEF st, next
    <3>4. Done(E, N, st) \subseteq N /\ Met(E, N, st) \subseteq N
      BY <3>3, BegunIsHeld DEF Done, Met, Held
    <3>5. /\ IsFiniteSet(Done(E, N, st)) /\ IsFiniteSet(Met(E, N, st))
          /\ Cardinality(Done(E, N, st)) \in Nat /\ Cardinality(Met(E, N, st)) \in Nat
      BY <1>0, <3>4, NodesAreFinite
    <3>6. PICK n \in N :
            \/ /\ Done(E, N, next) = Done(E, N, st)
               /\ n \notin Met(E, N, st) /\ Met(E, N, next) = Met(E, N, st) \union {n}
            \/ /\ n \notin Done(E, N, st) /\ Done(E, N, next) = Done(E, N, st) \union {n}
               /\ Met(E, N, next) = Met(E, N, st)
      BY <3>2 DEF Forward
    <3>7. ASSUME NEW A, IsFiniteSet(A), n \notin A
          PROVE  Cardinality(A \union {n}) = Cardinality(A) + 1
      BY <3>7, FS_AddElement
    <3>8. Progress(E, N, next) = Progress(E, N, st) + 1
      <4>1. CASE n \notin Met(E, N, st) /\ Done(E, N, next) = Done(E, N, st)
                 /\ Met(E, N, next) = Met(E, N, st) \union {n}
        BY <3>5, <3>7, <4>1 DEF Progress
      <4>2. CASE n \notin Done(E, N, st) /\ Met(E, N, next) = Met(E, N, st)
                 /\ Done(E, N, next) = Done(E, N, st) \union {n}
        BY <3>5, <3>7, <4>2 DEF Progress
      <4> QED BY <3>6, <4>1, <4>2
    <3> QED BY <3>1, <3>8 DEF next
  <2> QED BY <2>1, <2>2
<1> HIDE DEF S
<1>4. \A k \in Nat : k \in S
  BY <1>2, <1>3, EveryNatural
<1> QED BY <1>4 DEF S, at

(* seq_order: every document is listed in the order of the tree.             *)
LEMMA OrderLists ==
    ASSUME NEW E, NEW N, IsPart(E, N)
    PROVE  Lists(E, Order(Copy(E, N)), N)
<1> DEFINE T == Copy(E, N)
           K == 2 * Cardinality(N)
           s == Turns(T)[K]
<1>0. N \in SUBSET Node /\ DOMAIN T = N
  BY DEF IsPart, IsTree, Copy
<1>1. Order(T) = s.out
  BY <1>0 DEF Order
<1>2. K \in Nat /\ Cardinality(N) \in Nat
  BY <1>0, NodesAreFinite
<1> HIDE DEF K
<1>3. Going(E, N, s) /\ (s.stack = <<>> \/ Progress(E, N, s.stack) = K)
  BY <1>2, TurnsGoOn, TurnsCount
<1> HIDE DEF s
<1>4. Done(E, N, s.stack) = N
  <2>1. CASE s.stack = <<>>
    BY <2>1, EmptyStacked DEF Done
  <2>2. CASE Progress(E, N, s.stack) = K
    <3>1. Done(E, N, s.stack) \subseteq N /\ Met(E, N, s.stack) \subseteq N
      BY <1>3, BegunIsHeld DEF Done, Met, Held, Going
    <3>2. /\ Cardinality(Done(E, N, s.stack)) \in Nat /\ Cardinality(Met(E, N, s.stack)) \in Nat
          /\ Cardinality(Done(E, N, s.stack)) <= Cardinality(N)
          /\ Cardinality(Met(E, N, s.stack)) <= Cardinality(N)
      BY <1>0, <3>1, NodesAreFinite
    <3>3. Cardinality(Done(E, N, s.stack)) = Cardinality(N)
      BY <1>2, <2>2, <3>2 DEF Progress, K
    <3> QED BY <1>0, <3>1, <3>3, NodesAreFinite
  <2> QED BY <1>3, <2>1, <2>2
<1> QED BY <1>1, <1>3, <1>4 DEF Going

-----------------------------------------------------------------------------
(* A tree with one node more. *)

(* F is E with a node n hung on p.                                           *)
Grown(E, F, n, p, side) ==
    /\ IsTree(E) /\ IsTree(F)
    /\ DOMAIN F = DOMAIN E \union {n} /\ n \notin DOMAIN E
    /\ F[n].parent = p /\ F[n].side = side /\ \A m \in DOMAIN E : F[m] = E[m]
    /\ \A a \in DOMAIN E : Up(F, a) = Up(E, a)
    /\ n \in Up(F, n) /\ (p \in DOMAIN E => Up(E, p) \subseteq Up(F, n))

(* A node that hangs on what is there leaves the rest of the tree as it was. *)
LEMMA Grows ==
    ASSUME NEW E, IsTree(E), NEW n \in Node \ DOMAIN E, NEW p \in DOMAIN E \union {Top},
           NEW side \in {"left", "right"}
    PROVE  Grown(E, With(E, n, [parent |-> p, side |-> side]), n, p, side)
<1> DEFINE F == With(E, n, [parent |-> p, side |-> side])
<1>1. DOMAIN F = DOMAIN E \union {n} /\ n \notin DOMAIN E
  BY DEF With
<1>2. F[n].parent = p /\ F[n].side = side /\ \A m \in DOMAIN E : F[m] = E[m]
  BY DEF With
<1> HIDE DEF F
<1>3. n # Top /\ n # p
  BY TopIsNoNode
<1>4. IsTree(F)
  <2>1. DOMAIN F \subseteq Node
    BY <1>1 DEF IsTree
  <2>2. \A m \in DOMAIN F : F[m].parent \in DOMAIN E \union {Top} /\ F[m].side \in {"left", "right"}
    BY <1>1, <1>2 DEF IsTree
  <2>3. ASSUME NEW S \in SUBSET DOMAIN F, S # {} PROVE \E m \in S : F[m].parent \notin S
    <3>1. CASE S \ {n} = {}
      <4>1. S = {n}
        BY <2>3, <3>1
      <4> QED BY <1>2, <1>3, <4>1
    <3>2. CASE S \ {n} # {}
      <4>1. S \ {n} \in SUBSET DOMAIN E
        BY <1>1
      <4>2. PICK m \in S \ {n} : E[m].parent \notin S \ {n}
        BY <3>2, <4>1 DEF IsTree
      <4>3. E[m].parent # n /\ F[m] = E[m]
        BY <1>1, <1>2, <1>3, <4>1, <4>2 DEF IsTree
      <4> QED BY <4>2, <4>3
    <3> QED BY <3>1, <3>2
  <2> QED BY <1>1, <2>1, <2>2, <2>3 DEF IsTree
<1>5. ASSUME NEW a \in DOMAIN E PROVE Up(F, a) = Up(E, a)
  <2>1. a \in DOMAIN F
    BY <1>1
  <2>2. Up(F, a) \subseteq Up(E, a)
    <3>1. Upward(E, Up(E, a)) /\ Up(E, a) \subseteq DOMAIN E /\ a \in Up(E, a)
      BY UpIsLeast
    <3>2. Upward(F, Up(E, a)) /\ Up(E, a) \in SUBSET DOMAIN F
      BY <1>1, <1>2, <3>1 DEF Upward
    <3> QED BY <1>4, <2>1, <3>1, <3>2, UpIsLeast
  <2>3. Up(E, a) \subseteq Up(F, a)
    <3>1. Upward(F, Up(F, a)) /\ a \in Up(F, a)
      BY <1>4, <2>1, UpIsLeast
    <3>2. Up(F, a) \in SUBSET DOMAIN E
      BY <2>2, UpIsLeast
    <3>3. Upward(E, Up(F, a))
      BY <1>2, <3>1, <3>2 DEF Upward
    <3> QED BY <3>1, <3>2, <3>3, UpIsLeast
  <2> QED BY <2>2, <2>3
<1>6. n \in Up(F, n) /\ (p \in DOMAIN E => Up(E, p) \subseteq Up(F, n))
  <2>1. n \in DOMAIN F /\ n \in Up(F, n) /\ Upward(F, Up(F, n))
    BY <1>1, <1>4, UpIsLeast
  <2>2. ASSUME p \in DOMAIN E PROVE Up(E, p) \subseteq Up(F, n)
    <3>1. p # Top
      BY <2>2, TopIsNoNode DEF IsTree
    <3>2. p \in Up(F, n)
      BY <1>2, <2>1, <3>1 DEF Upward
    <3>3. Up(F, p) \subseteq Up(F, n)
      BY <1>4, <2>1, <3>2, UpTransitive
    <3> QED BY <1>5, <2>2, <3>3
  <2> QED BY <2>1, <2>2
<1> QED BY <1>1, <1>2, <1>4, <1>5, <1>6 DEF Grown, F

(* The nodes that were there keep their order.                               *)
LEMMA GrownKeeps ==
    ASSUME NEW E, NEW F, NEW n, NEW p, NEW side, Grown(E, F, n, p, side),
           NEW a \in DOMAIN E, NEW b \in DOMAIN E
    PROVE  /\ RightOf(E, b, a) => RightOf(F, b, a)
           /\ Lt(E, a, b) => Lt(F, a, b)
<1>1. /\ Up(F, a) = Up(E, a) /\ Up(F, b) = Up(E, b)
      /\ \A m \in Up(E, a) \union Up(E, b) : F[m] = E[m]
  BY UpIsLeast DEF Grown
<1>2. RightOf(E, b, a) => RightOf(F, b, a)
  BY <1>1 DEF RightOf
<1>3. LeftOf(E, a, b) => LeftOf(F, a, b)
  BY <1>1 DEF LeftOf
<1>4. Apart(E, a, b) => Apart(F, a, b)
  BY <1>1 DEF Apart, Elder
<1> QED BY <1>2, <1>3, <1>4 DEF Lt

(* A node hung to the right of p, where a document has none, comes right      *)
(* after p in it.                                                            *)
LEMMA HungRight ==
    ASSUME NEW E, NEW F, NEW n, NEW p \in DOMAIN E, Grown(E, F, n, p, "right"),
           NEW N, IsPart(E, N), Kids(E, N, p, "right") = {}, NEW y \in N
    PROVE  /\ RightOf(F, n, p) /\ Lt(F, p, n)
           /\ Lt(E, y, p) => Lt(F, y, n)
           /\ Lt(E, p, y) => Lt(F, n, y)
<1>0. y \in DOMAIN E /\ Up(E, y) \subseteq N /\ Up(E, y) \subseteq DOMAIN E /\ Up(E, p) \subseteq DOMAIN E
  BY UpInPart, UpIsLeast DEF Grown
<1>1. /\ Up(F, y) = Up(E, y) /\ Up(E, p) \subseteq Up(F, n) /\ n \in Up(F, n)
      /\ F[n].parent = p /\ F[n].side = "right" /\ \A m \in DOMAIN E : F[m] = E[m]
  BY <1>0 DEF Grown
<1>2. RightOf(F, n, p) /\ Lt(F, p, n)
  BY <1>1 DEF RightOf, Lt
<1>3. ASSUME Lt(E, y, p) PROVE Lt(F, y, n)
  <2>1. CASE Apart(E, y, p)
    <3>1. Apart(F, y, n)
      BY <1>0, <1>1, <2>1 DEF Apart, Elder
    <3> QED BY <3>1 DEF Lt
  <2>2. CASE LeftOf(E, y, p)
    <3>1. PICK c \in Up(E, y) : E[c].parent = p /\ E[c].side = "left"
      BY <2>2 DEF LeftOf
    <3>2. Elder(F, c, n)
      BY <1>0, <1>1, <3>1 DEF Elder
    <3> QED BY <1>1, <3>1, <3>2 DEF Lt, Apart
  <2>3. CASE RightOf(E, p, y)
    <3>1. RightOf(F, n, y)
      BY <1>0, <1>1, <2>3 DEF RightOf
    <3> QED BY <3>1 DEF Lt
  <2> QED BY <1>3, <2>1, <2>2, <2>3 DEF Lt
<1>4. ASSUME Lt(E, p, y) PROVE Lt(F, n, y)
  <2>1. CASE Apart(E, p, y)
    <3>1. Apart(F, n, y)
      BY <1>0, <1>1, <2>1 DEF Apart, Elder
    <3> QED BY <3>1 DEF Lt
  <2>2. CASE LeftOf(E, p, y)
    <3>1. LeftOf(F, n, y)
      BY <1>0, <1>1, <2>2 DEF LeftOf
    <3> QED BY <3>1 DEF Lt
  <2>3. ~RightOf(E, y, p)
    BY <1>0 DEF RightOf, Kids
  <2> QED BY <1>4, <2>1, <2>2, <2>3 DEF Lt
<1> QED BY <1>2, <1>3, <1>4

(* A node hung to the left of p, where a document has none, comes right       *)
(* before p in it.                                                           *)
LEMMA HungLeft ==
    ASSUME NEW E, NEW F, NEW n, NEW p \in DOMAIN E, Grown(E, F, n, p, "left"),
           NEW N, IsPart(E, N), Kids(E, N, p, "left") = {}, NEW y \in N
    PROVE  /\ Lt(F, n, p)
           /\ Lt(E, y, p) => Lt(F, y, n)
           /\ Lt(E, p, y) => Lt(F, n, y)
<1>0. y \in DOMAIN E /\ Up(E, y) \subseteq N /\ Up(E, y) \subseteq DOMAIN E /\ Up(E, p) \subseteq DOMAIN E
  BY UpInPart, UpIsLeast DEF Grown
<1>1. /\ Up(F, y) = Up(E, y) /\ Up(E, p) \subseteq Up(F, n) /\ n \in Up(F, n)
      /\ F[n].parent = p /\ F[n].side = "left" /\ \A m \in DOMAIN E : F[m] = E[m]
  BY <1>0 DEF Grown
<1>2. Lt(F, n, p)
  BY <1>1 DEF LeftOf, Lt
<1>3. ASSUME Lt(E, y, p) PROVE Lt(F, y, n)
  <2>1. CASE Apart(E, y, p)
    <3>1. Apart(F, y, n)
      BY <1>0, <1>1, <2>1 DEF Apart, Elder
    <3> QED BY <3>1 DEF Lt
  <2>2. ~LeftOf(E, y, p)
    BY <1>0 DEF LeftOf, Kids
  <2>3. CASE RightOf(E, p, y)
    <3>1. RightOf(F, n, y)
      BY <1>0, <1>1, <2>3 DEF RightOf
    <3> QED BY <3>1 DEF Lt
  <2> QED BY <1>3, <2>1, <2>2, <2>3 DEF Lt
<1>4. ASSUME Lt(E, p, y) PROVE Lt(F, n, y)
  <2>1. CASE Apart(E, p, y)
    <3>1. Apart(F, n, y)
      BY <1>0, <1>1, <2>1 DEF Apart, Elder
    <3> QED BY <3>1 DEF Lt
  <2>2. CASE LeftOf(E, p, y)
    <3>1. LeftOf(F, n, y)
      BY <1>0, <1>1, <2>2 DEF LeftOf
    <3> QED BY <3>1 DEF Lt
  <2>3. CASE RightOf(E, y, p)
    <3>1. PICK c \in Up(E, y) : E[c].parent = p /\ E[c].side = "right"
      BY <2>3 DEF RightOf
    <3>2. Elder(F, n, c)
      BY <1>0, <1>1, <3>1 DEF Elder
    <3> QED BY <1>1, <3>1, <3>2 DEF Lt, Apart
  <2> QED BY <1>4, <2>1, <2>2, <2>3 DEF Lt
<1> QED BY <1>2, <1>3, <1>4

-----------------------------------------------------------------------------
(* Where a new element is attached. *)

(* Node r is the first of N after l; for l = Top the first of all.           *)
First(E, N, l, r) ==
    /\ r \in N
    /\ l # Top => Lt(E, l, r)
    /\ \A y \in N : Lt(E, y, r) => l # Top /\ (y = l \/ Lt(E, y, l))
    /\ \A y \in N : l = Top \/ Lt(E, l, y) => y = r \/ Lt(E, r, y)
    /\ \A y \in N : l # Top /\ (y = l \/ Lt(E, y, l)) => Lt(E, y, r)

(* There is no node of N after l.                                            *)
LastIs(E, N, l) == \A y \in N : l # Top /\ ~Lt(E, l, y)

(* A listed element is found where it stands.                                *)
LEMMA IndexFinds ==
    ASSUME NEW E, IsTree(E), NEW S \in SUBSET DOMAIN E, NEW s, Lists(E, s, S)
    PROVE  /\ \A x \in S : IndexOf(s, x) \in 1..Len(s) /\ s[IndexOf(s, x)] = x
           /\ \A k \in 1..Len(s) : IndexOf(s, s[k]) = k
<1>1. DOMAIN s = 1..Len(s) /\ \A x \in S : \E k \in 1..Len(s) : s[k] = x
  BY DEF Lists
<1>2. \A j, k \in 1..Len(s) : s[j] = s[k] => j = k
  BY ListedOnce
<1>3. \A x \in S : IndexOf(s, x) \in 1..Len(s) /\ s[IndexOf(s, x)] = x
  <2> SUFFICES ASSUME NEW x \in S PROVE IndexOf(s, x) \in 1..Len(s) /\ s[IndexOf(s, x)] = x
    OBVIOUS
  <2>1. \E k \in DOMAIN s : s[k] = x
    BY <1>1
  <2> QED BY <1>1, <2>1 DEF IndexOf
<1>4. \A k \in 1..Len(s) : s[k] \in S
  BY ListedOnce
<1> QED BY <1>2, <1>3, <1>4

(* The scan of the full order for the node after l.                          *)
LEMMA FollowingIsFirst ==
    ASSUME NEW E, NEW N, IsPart(E, N), NEW l \in N \union {Top}
    PROVE  IF Following(Copy(E, N), l) = Top THEN LastIs(E, N, l)
           ELSE First(E, N, l, Following(Copy(E, N), l))
<1> DEFINE all == Order(Copy(E, N))
           at == IF l = Top THEN 1 ELSE IndexOf(all, l) + 1
           r == Following(Copy(E, N), l)
<1>0. IsTree(E) /\ N \in SUBSET DOMAIN E /\ N \in SUBSET Node
  BY DEF IsPart, IsTree
<1>1. Lists(E, all, N)
  BY OrderLists
<1>2. r = IF at \in DOMAIN all THEN all[at] ELSE Top
  BY DEF Following
<1> HIDE DEF all, r
<1>3. /\ Len(all) \in Nat /\ DOMAIN all = 1..Len(all) /\ \A k \in 1..Len(all) : all[k] \in N
      /\ \A j, k \in 1..Len(all) : Lt(E, all[j], all[k]) <=> j < k
      /\ \A j, k \in 1..Len(all) : all[j] = all[k] => j = k
      /\ \A y \in N : \E k \in 1..Len(all) : all[k] = y
  <2>1. all \in Seq(N) /\ \A y \in N : \E k \in 1..Len(all) : all[k] = y
    BY <1>1 DEF Lists
  <2>2. /\ Len(all) \in Nat /\ \A k \in 1..Len(all) : all[k] \in N
        /\ \A j, k \in 1..Len(all) : Lt(E, all[j], all[k]) <=> j < k
        /\ \A j, k \in 1..Len(all) : all[j] = all[k] => j = k
    BY <1>0, <1>1, ListedOnce
  <2>3. DOMAIN all = 1..Len(all)
    BY <2>1
  <2> QED BY <2>1, <2>2, <2>3
<1>4. /\ at \in Nat /\ at >= 1 /\ at <= Len(all) + 1 /\ (l = Top => at = 1)
      /\ l # Top => at - 1 \in 1..Len(all) /\ all[at - 1] = l
  <2>1. l # Top => IndexOf(all, l) \in 1..Len(all) /\ all[IndexOf(all, l)] = l
    BY <1>0, <1>1, IndexFinds
  <2>2. \A j \in 1..Len(all) : j \in Nat /\ j + 1 >= 1 /\ j + 1 <= Len(all) + 1 /\ (j + 1) - 1 = j
    BY <1>3
  <2>3. 1 <= Len(all) + 1
    BY <1>3
  <2> QED BY <2>1, <2>2, <2>3
<1> HIDE DEF at
<1>5. at \in Nat /\ at >= 1 /\ at <= Len(all) + 1 /\ (l = Top => at = 1)
  BY <1>4
<1>6. l = Top => l \notin N
  BY <1>0, TopIsNoNode
<1>7. ASSUME NEW y \in N, NEW k \in 1..Len(all), all[k] = y
      PROVE  /\ l # Top /\ Lt(E, l, y) <=> l # Top /\ at <= k
             /\ l # Top /\ (y = l \/ Lt(E, y, l)) <=> k < at
  <2>1. CASE l = Top
    BY <1>5, <2>1
  <2>2. CASE l # Top
    <3>1. Lt(E, l, y) <=> at - 1 < k
      BY <1>3, <1>4, <1>7, <2>2
    <3>2. Lt(E, y, l) <=> k < at - 1
      BY <1>3, <1>4, <1>7, <2>2
    <3>3. y = l <=> k = at - 1
      BY <1>3, <1>4, <1>7, <2>2
    <3> QED BY <1>5, <2>2, <3>1, <3>2, <3>3
  <2> QED BY <2>1, <2>2
<1>8. CASE at \in 1..Len(all)
  <2>1. r = all[at] /\ r \in N /\ r # Top
    BY <1>0, <1>2, <1>3, <1>8, TopIsNoNode
  <2>2. ASSUME NEW y \in N
        PROVE  /\ Lt(E, y, r) => l # Top /\ (y = l \/ Lt(E, y, l))
               /\ l = Top \/ Lt(E, l, y) => y = r \/ Lt(E, r, y)
               /\ l # Top /\ (y = l \/ Lt(E, y, l)) => Lt(E, y, r)
    <3>1. PICK k \in 1..Len(all) : all[k] = y
      BY <1>3
    <3>2. /\ l # Top /\ Lt(E, l, y) <=> l # Top /\ at <= k
          /\ l # Top /\ (y = l \/ Lt(E, y, l)) <=> k < at
      BY <1>7, <3>1
    <3>3. /\ Lt(E, y, r) <=> k < at
          /\ Lt(E, r, y) <=> at < k
          /\ y = r <=> k = at
      BY <1>3, <1>8, <2>1, <3>1
    <3> QED BY <1>5, <3>2, <3>3
  <2>3. l # Top => Lt(E, l, r)
    BY <1>5, <1>7, <1>8, <2>1
  <2> QED BY <2>1, <2>2, <2>3 DEF First, r
<1>9. CASE at \notin 1..Len(all)
  <2>1. r = Top
    BY <1>2, <1>3, <1>9
  <2>2. ASSUME NEW y \in N PROVE l # Top /\ ~Lt(E, l, y)
    <3>1. PICK k \in 1..Len(all) : all[k] = y
      BY <1>3
    <3>2. k < at
      BY <1>3, <1>5, <1>9
    <3> QED BY <1>5, <1>7, <3>1, <3>2
  <2> QED BY <2>1, <2>2 DEF LastIs, r
<1> QED BY <1>8, <1>9

(* The slot of a new element after l: hung there it comes right after l.     *)
Placed(E, N, l, n, p, side) ==
    /\ p \in N \union {Top} /\ side \in {"left", "right"}
    /\ LET F == With(E, n, [parent |-> p, side |-> side])
       IN /\ l # Top => RightOf(F, n, l)
          /\ \A y \in N : /\ l # Top /\ (y = l \/ Lt(E, y, l)) => Lt(F, y, n)
                          /\ l = Top \/ Lt(E, l, y) => Lt(F, n, y)

(* A node that has a child to the right has a node after it, which hangs to   *)
(* its right.                                                                *)
LEMMA FollowingHangsRight ==
    ASSUME NEW E, NEW N, IsPart(E, N), NEW l \in N, Kids(E, N, l, "right") # {}
    PROVE  ~LastIs(E, N, l) /\ \A r : First(E, N, l, r) => RightOf(E, r, l)
<1>0. IsTree(E) /\ N \in SUBSET DOMAIN E /\ N \in SUBSET Node /\ l \in DOMAIN E
  BY DEF IsPart, IsTree
<1>1. PICK c \in N : E[c].parent = l /\ E[c].side = "right"
  BY DEF Kids
<1>2. RightOf(E, c, l) /\ Lt(E, l, c)
  BY <1>1, UpInPart DEF RightOf, Lt
<1>3. ASSUME NEW r, First(E, N, l, r) PROVE RightOf(E, r, l)
  <2>1. r \in DOMAIN E /\ Lt(E, l, r)
    BY <1>0, <1>3, TopIsNoNode DEF First
  <2>2. c = r \/ Lt(E, r, c)
    BY <1>2, <1>3 DEF First
  <2> QED BY <1>0, <1>2, <2>1, <2>2, RightIsConvex
<1> QED BY <1>2, <1>3 DEF LastIs

(* The node after l has no child to the left, when l is no node or has one to *)
(* its right.                                                                *)
LEMMA FollowingIsFree ==
    ASSUME NEW E, NEW N, IsPart(E, N), NEW l \in N \union {Top}, NEW r, First(E, N, l, r),
           l # Top => RightOf(E, r, l)
    PROVE  Kids(E, N, r, "left") = {}
<1>0. IsTree(E) /\ N \in SUBSET DOMAIN E /\ N \in SUBSET Node /\ r \in N
  BY DEF IsPart, IsTree, First
<1> SUFFICES ASSUME NEW c \in N, E[c].parent = r, E[c].side = "left" PROVE FALSE
  BY DEF Kids
<1>1. c \in Up(E, c) /\ Lt(E, c, r)
  BY UpInPart DEF Lt, LeftOf
<1>2. l \in N /\ l \in DOMAIN E /\ (c = l \/ Lt(E, c, l)) /\ RightOf(E, r, l)
  BY <1>0, <1>1 DEF First
<1>3. r \in Up(E, c) /\ Up(E, r) \subseteq Up(E, c) /\ l \in Up(E, r) /\ l # r
  BY <1>0, <1>1, <1>2, HangsUnder DEF RightOf
<1>4. CASE c = l
  BY <1>0, <1>2, <1>3, <1>4, UpAntisymmetric
<1>5. CASE Lt(E, c, l)
  <2>1. RightOf(E, c, l)
    BY <1>2, <1>3 DEF RightOf
  <2> QED BY <1>0, <1>2, <1>5, <2>1, LtIsAsymmetric DEF Lt
<1> QED BY <1>2, <1>4, <1>5

(* seq_insert attaches a new element right after the one it is typed after.  *)
LEMMA SlotIsRight ==
    ASSUME NEW E, NEW N, IsPart(E, N), NEW l \in N \union {Top}, NEW n \in Node \ DOMAIN E
    PROVE  Placed(E, N, l, n, Slot(Copy(E, N), l).parent, Slot(Copy(E, N), l).side)
<1> DEFINE T == Copy(E, N)
           r == Following(T, l)
           slot == Slot(T, l)
<1>0. IsTree(E) /\ N \in SUBSET DOMAIN E /\ N \in SUBSET Node /\ Top \notin N
  BY TopIsNoNode DEF IsPart, IsTree
<1>1. HasRightChild(T, l) <=> Kids(E, N, l, "right") # {}
  BY <1>0, ChildrenAreKids DEF HasRightChild, Copy
<1>2. IF r = Top THEN LastIs(E, N, l) ELSE First(E, N, l, r)
  BY FollowingIsFirst
<1>3. slot = IF (l = Top \/ HasRightChild(T, l)) /\ r # Top
             THEN [parent |-> r, side |-> "left"] ELSE [parent |-> l, side |-> "right"]
  BY DEF Slot
<1> HIDE DEF T, r, slot
<1>4. CASE (l = Top \/ HasRightChild(T, l)) /\ r # Top
  <2> DEFINE F == With(E, n, [parent |-> r, side |-> "left"])
  <2>1. slot.parent = r /\ slot.side = "left"
    BY <1>3, <1>4
  <2>2. First(E, N, l, r) /\ r \in N /\ r \in DOMAIN E
    BY <1>0, <1>2, <1>4 DEF First
  <2>3. l # Top => RightOf(E, r, l)
    BY <1>1, <1>4, <2>2, FollowingHangsRight
  <2>4. Kids(E, N, r, "left") = {}
    BY <2>2, <2>3, FollowingIsFree
  <2>5. Grown(E, F, n, r, "left")
    BY <1>0, <2>2, Grows
  <2> HIDE DEF F
  <2>6. ASSUME NEW y \in N
        PROVE  Lt(F, n, r) /\ (Lt(E, y, r) => Lt(F, y, n)) /\ (Lt(E, r, y) => Lt(F, n, y))
    BY <2>2, <2>4, <2>5, HungLeft
  <2>7. ASSUME l # Top PROVE RightOf(F, n, l)
    <3>1. PICK e \in Up(E, r) : E[e].parent = l /\ E[e].side = "right"
      BY <2>3, <2>7 DEF RightOf
    <3>2. e \in Up(F, n) /\ F[e] = E[e]
      BY <1>0, <2>2, <2>5, <3>1, UpIsLeast DEF Grown
    <3> QED BY <3>1, <3>2 DEF RightOf
  <2>8. ASSUME NEW y \in N
        PROVE  /\ l # Top /\ (y = l \/ Lt(E, y, l)) => Lt(F, y, n)
               /\ l = Top \/ Lt(E, l, y) => Lt(F, n, y)
    BY <2>2, <2>6 DEF First
  <2> QED BY <2>1, <2>2, <2>7, <2>8 DEF Placed, F, slot, T
<1>5. CASE ~((l = Top \/ HasRightChild(T, l)) /\ r # Top)
  <2> DEFINE F == With(E, n, [parent |-> l, side |-> "right"])
  <2>1. slot.parent = l /\ slot.side = "right"
    BY <1>3, <1>5
  <2>2. CASE l = Top
    <3>1. N = {}
      BY <1>2, <1>5, <2>2 DEF LastIs
    <3> QED BY <2>1, <2>2, <3>1 DEF Placed, slot, T
  <2>3. CASE l # Top
    <3>1. l \in N /\ l \in DOMAIN E
      BY <1>0, <2>3
    <3>2. Kids(E, N, l, "right") = {}
      BY <1>1, <1>2, <1>5, <3>1, FollowingHangsRight
    <3>3. Grown(E, F, n, l, "right")
      BY <1>0, <3>1, Grows
    <3> HIDE DEF F
    <3>4. ASSUME NEW y \in N
          PROVE  /\ RightOf(F, n, l) /\ Lt(F, l, n)
                 /\ Lt(E, y, l) => Lt(F, y, n)
                 /\ Lt(E, l, y) => Lt(F, n, y)
      BY <3>1, <3>2, <3>3, HungRight
    <3>5. RightOf(F, n, l)
      BY <3>1, <3>4
    <3>6. \A y \in N : /\ l # Top /\ (y = l \/ Lt(E, y, l)) => Lt(F, y, n)
                       /\ l = Top \/ Lt(E, l, y) => Lt(F, n, y)
      BY <2>3, <3>4
    <3> QED BY <2>1, <3>1, <3>5, <3>6 DEF Placed, F, slot, T
  <2> QED BY <2>2, <2>3
<1> QED BY <1>4, <1>5

-----------------------------------------------------------------------------
(* A list with one element more. *)

(* Node n has its place in the order of F after the first i elements of s.   *)
FitsAt(F, s, i, n) ==
    \A k \in 1..Len(s) : (k <= i => Lt(F, s[k], n)) /\ (i < k => Lt(F, n, s[k]))

(* The order of E on V is that of F. *)
Agrees(E, F, V) == \A a, b \in V : Lt(E, a, b) => Lt(F, a, b)

(* t is s with n after its first i elements. *)
WithAfter(S, s, i, n, t) ==
    /\ t \in Seq(S) /\ Len(t) = Len(s) + 1
    /\ \A k \in 1..i : t[k] = s[k]
    /\ t[i + 1] = n
    /\ \A k \in (i + 1)..Len(s) : t[k + 1] = s[k]

(* What InsertAt puts where.                                                 *)
LEMMA InsertAtPlaces ==
    ASSUME NEW S, NEW s \in Seq(S), NEW i \in 0..Len(s), NEW n \in S
    PROVE  WithAfter(S, s, i, n, InsertAt(s, i + 1, n))
<1> DEFINE a == SubSeq(s, 1, i)
           b == SubSeq(s, i + 1, Len(s))
           t == (a \o <<n>>) \o b
<1>1. i \in Nat /\ Len(s) \in Nat /\ i <= Len(s) /\ \A k \in 1..Len(s) : s[k] \in S
  BY LenProperties
<1>2. a \in Seq(S) /\ Len(a) = i /\ \A k \in 1..i : a[k] = s[k]
  BY <1>1
<1>3. b \in Seq(S) /\ Len(b) = Len(s) - i /\ \A k \in 1..(Len(s) - i) : b[k] = s[k + i]
  BY <1>1
<1>4. (i + 1) - 1 = i
  BY <1>1
<1>5. InsertAt(s, i + 1, n) = t
  BY <1>4 DEF InsertAt
<1> HIDE DEF a, b
<1>6. /\ (a \o <<n>>) \in Seq(S) /\ Len(a \o <<n>>) = i + 1
      /\ \A k \in 1..i : (a \o <<n>>)[k] = s[k]
      /\ (a \o <<n>>)[i + 1] = n
  BY <1>1, <1>2
<1> DEFINE c == a \o <<n>>
<1> HIDE DEF c
<1>7. /\ c \in Seq(S) /\ Len(c) = i + 1 /\ c[i + 1] = n /\ \A k \in 1..i : c[k] = s[k]
      /\ t = c \o b
  BY <1>6 DEF c
<1> HIDE DEF t
<1>8. /\ t \in Seq(S) /\ Len(t) = Len(c) + Len(b)
      /\ \A k \in 1..(Len(c) + Len(b)) : t[k] = IF k <= Len(c) THEN c[k] ELSE b[k - Len(c)]
  BY <1>3, <1>7, ConcatProperties
<1>9. Len(t) = Len(s) + 1
  BY <1>1, <1>3, <1>7, <1>8
<1>10. /\ \A k \in 1..i : t[k] = s[k]
       /\ t[i + 1] = n
  BY <1>1, <1>3, <1>7, <1>8
<1>11. ASSUME NEW k \in (i + 1)..Len(s) PROVE t[k + 1] = s[k]
  <2>1. /\ k + 1 \in 1..(Len(c) + Len(b)) /\ ~(k + 1 <= Len(c)) /\ (k + 1) - Len(c) = k - i
        /\ k - i \in 1..(Len(s) - i) /\ (k - i) + i = k
    BY <1>1, <1>3, <1>7
  <2> QED BY <1>3, <1>8, <2>1
<1> QED BY <1>5, <1>8, <1>9, <1>10, <1>11 DEF WithAfter

(* A node that fits in a list of V makes it a list of V and the node.        *)
LEMMA InsertedLists ==
    ASSUME NEW E, NEW F, NEW V, NEW s, Lists(E, s, V), NEW i \in 0..Len(s), NEW n, FitsAt(F, s, i, n),
           Agrees(E, F, V)
    PROVE  Lists(F, InsertAt(s, i + 1, n), V \union {n})
<1> DEFINE t == InsertAt(s, i + 1, n)
           S == V \union {n}
<1>0. s \in Seq(V) /\ s \in Seq(S) /\ Len(s) \in Nat /\ i \in Nat /\ i <= Len(s)
  BY SeqMonotonic, LenProperties DEF Lists
<1>1. /\ t \in Seq(S) /\ Len(t) = Len(s) + 1
      /\ \A k \in 1..i : t[k] = s[k]
      /\ t[i + 1] = n
      /\ \A k \in (i + 1)..Len(s) : t[k + 1] = s[k]
  <2>1. n \in S /\ s \in Seq(S) /\ i \in 0..Len(s)
    BY <1>0
  <2> HIDE DEF S, t
  <2>2. WithAfter(S, s, i, n, InsertAt(s, i + 1, n))
    BY <2>1, InsertAtPlaces
  <2> QED BY <2>2 DEF t, WithAfter
<1> HIDE DEF t
<1>2. \A x \in V : \E k \in 1..Len(s) : s[k] = x
  BY DEF Lists
<1>3. \A j, k \in 1..Len(s) : j < k => Lt(F, s[j], s[k])
  BY <1>0 DEF Lists, Agrees
<1>4. ASSUME NEW x \in S PROVE \E k \in 1..Len(t) : t[k] = x
  <2>1. CASE x = n
    <3>1. i + 1 \in 1..Len(t)
      BY <1>0, <1>1
    <3> QED BY <1>1, <2>1, <3>1
  <2>2. CASE x \in V
    <3>1. PICK k \in 1..Len(s) : s[k] = x
      BY <1>2, <2>2
    <3>2. CASE k <= i
      <4>1. k \in 1..i /\ k \in 1..Len(t)
        BY <1>0, <1>1, <3>2
      <4> QED BY <1>1, <3>1, <4>1
    <3>3. CASE ~(k <= i)
      <4>1. k \in (i + 1)..Len(s) /\ k + 1 \in 1..Len(t)
        BY <1>0, <1>1, <3>3
      <4> QED BY <1>1, <3>1, <4>1
    <3> QED BY <3>2, <3>3
  <2> QED BY <2>1, <2>2
<1>5. ASSUME NEW j \in 1..Len(t), NEW k \in 1..Len(t), j < k PROVE Lt(F, t[j], t[k])
  <2>1. \A m \in 1..Len(t) : \/ m \in 1..i /\ m \in 1..Len(s) /\ t[m] = s[m]
                             \/ m = i + 1 /\ t[m] = n
                             \/ /\ m > i + 1 /\ m - 1 \in 1..Len(s) /\ t[m] = s[m - 1]
    <3> SUFFICES ASSUME NEW m \in 1..Len(t), m > i + 1 PROVE m - 1 \in 1..Len(s) /\ t[m] = s[m - 1]
      BY <1>0, <1>1
    <3>1. m - 1 \in (i + 1)..Len(s) /\ m - 1 \in 1..Len(s) /\ (m - 1) + 1 = m
      BY <1>0, <1>1
    <3> QED BY <1>1, <3>1
  <2>2. CASE j \in 1..i
    <3>1. CASE k \in 1..i
      BY <1>0, <1>3, <1>5, <2>1, <2>2, <3>1
    <3>2. CASE k = i + 1
      BY <1>0, <2>1, <2>2, <3>2 DEF FitsAt
    <3>3. CASE k > i + 1
      <4>1. k - 1 \in 1..Len(s) /\ t[k] = s[k - 1] /\ j < k - 1 /\ j \in 1..Len(s) /\ t[j] = s[j]
        BY <1>0, <2>1, <2>2, <3>3
      <4> QED BY <1>3, <4>1
    <3> QED BY <1>0, <1>1, <3>1, <3>2, <3>3
  <2>3. CASE j = i + 1
    <3>1. k - 1 \in 1..Len(s) /\ t[k] = s[k - 1] /\ i < k - 1 /\ t[j] = n
      BY <1>0, <1>1, <1>5, <2>1, <2>3
    <3> QED BY <3>1 DEF FitsAt
  <2>4. CASE j > i + 1
    <3>1. /\ k - 1 \in 1..Len(s) /\ t[k] = s[k - 1] /\ j - 1 \in 1..Len(s) /\ t[j] = s[j - 1]
          /\ j - 1 < k - 1
      BY <1>0, <1>1, <1>5, <2>1, <2>4
    <3> QED BY <1>3, <3>1
  <2> QED BY <1>0, <1>1, <2>2, <2>3, <2>4
<1>6. Lists(F, t, S)
  BY <1>1, <1>4, <1>5 DEF Lists
<1> QED BY <1>6 DEF t

-----------------------------------------------------------------------------
(* The invariant. *)

(* What the nodes say makes a tree; whoever wrote an element had its parent   *)
(* and all above it; and it hangs to the right under what it was typed after. *)
SaidRight ==
    /\ IsTree(elem)
    /\ \A n \in Written : /\ Upward(elem, typed[n].seen)
                          /\ elem[n].parent \in typed[n].seen \union {Top}
                          /\ typed[n].after # Top => RightOf(elem, n, typed[n].after)

SequenceInv == TypeOK /\ SaidRight

(* A document is a part of the tree, and lists it.                           *)
LEMMA DocumentIsPart ==
    ASSUME SequenceInv, NEW d \in Device
    PROVE  /\ IsPart(elem, nodes[d]) /\ IsPart(elem, Written)
           /\ Tree(d) = Copy(elem, nodes[d]) /\ elem = Copy(elem, Written)
           /\ dead[d] \subseteq nodes[d] /\ nodes[d] \subseteq Written
<1>1. IsTree(elem) /\ nodes[d] \in SUBSET Written /\ dead[d] \subseteq nodes[d]
  BY DEF SequenceInv, SaidRight, TypeOK
<1>2. Upward(elem, nodes[d])
  BY DEF SequenceInv, TypeOK, Upward
<1>3. Upward(elem, Written)
  BY <1>1 DEF IsTree, Upward, Written
<1>4. elem = [n \in Written |-> elem[n]]
  BY DEF SequenceInv, TypeOK
<1> QED BY <1>1, <1>2, <1>3, <1>4 DEF IsPart, Tree, Copy, Written

(* seq_read lists what is not dead.                                          *)
LEMMA ReadingLists ==
    ASSUME NEW E, NEW N, IsPart(E, N), NEW D
    PROVE  Lists(E, Kept(Order(Copy(E, N)), N \ D), N \ D)
<1>1. Lists(E, Order(Copy(E, N)), N)
  BY OrderLists
<1>2. Lists(E, Kept(Order(Copy(E, N)), N \ D), N \intersect (N \ D))
  BY <1>1, KeptLists
<1>3. N \intersect (N \ D) = N \ D
  OBVIOUS
<1> QED BY <1>2, <1>3

(* So what a device reads is a list of its visible nodes.                    *)
LEMMA VisibleLists ==
    ASSUME SequenceInv, NEW d \in Device
    PROVE  /\ Lists(elem, Visible(d), nodes[d] \ dead[d])
           /\ \A k \in 1..Len(Visible(d)) : Visible(d)[k] \in nodes[d] \ dead[d]
<1>1. IsPart(elem, nodes[d]) /\ Tree(d) = Copy(elem, nodes[d])
  BY DocumentIsPart
<1>2. Lists(elem, Visible(d), nodes[d] \ dead[d])
  BY <1>1, ReadingLists DEF Visible
<1>3. IsTree(elem) /\ nodes[d] \ dead[d] \in SUBSET DOMAIN elem
  BY <1>1 DEF IsPart
<1> QED BY <1>2, <1>3, ListedOnce

(* What an insertion does: n is hung on a node of the document, or on the     *)
(* root, right after l.                                                      *)
Inserts(d, i, n, l, p, side) ==
    /\ l = Left(d, i) /\ l \in nodes[d] \union {Top}
    /\ elem' = With(elem, n, [parent |-> p, side |-> side])
    /\ Placed(elem, nodes[d], l, n, p, side)
    /\ Grown(elem, elem', n, p, side)
    /\ typed' = With(typed, n, [by |-> d, after |-> l, seen |-> nodes[d]])

LEMMA InsertHangs ==
    ASSUME SequenceInv, NEW d \in Device, NEW n \in Node, NEW i \in Nat, Insert(d, i, n)
    PROVE  /\ n \in Node \ Written /\ i \in 0..Len(Visible(d))
           /\ \E l, p, side : Inserts(d, i, n, l, p, side)
<1> DEFINE l == Left(d, i)
           slot == Slot(Tree(d), l)
           p == slot.parent
           side == slot.side
<1>1. /\ IsPart(elem, nodes[d]) /\ Tree(d) = Copy(elem, nodes[d]) /\ nodes[d] \subseteq DOMAIN elem
      /\ IsTree(elem)
  BY DocumentIsPart DEF IsPart, Written
<1>2. i \in 0..Len(Visible(d)) /\ n \in Node \ DOMAIN elem
  <2>1. Len(Visible(d)) \in Nat
    BY VisibleLists, LenProperties DEF Lists
  <2> QED BY <2>1 DEF Insert, Written
<1>3. l \in nodes[d] \union {Top}
  <2>1. CASE i = 0
    BY <2>1 DEF Left
  <2>2. CASE i # 0
    <3>1. i \in 1..Len(Visible(d))
      BY <1>2, <2>2
    <3> QED BY <2>2, <3>1, VisibleLists DEF Left
  <2> QED BY <2>1, <2>2
<1>4. slot = [parent |-> p, side |-> side]
  BY DEF Slot
<1>5. /\ elem' = With(elem, n, slot)
      /\ typed' = With(typed, n, [by |-> d, after |-> l, seen |-> nodes[d]])
  BY DEF Insert
<1>6. Placed(elem, nodes[d], l, n, p, side)
  <2> HIDE DEF l
  <2> QED BY <1>1, <1>2, <1>3, SlotIsRight
<1> HIDE DEF l, slot, p, side
<1>7. p \in DOMAIN elem \union {Top} /\ side \in {"left", "right"}
  BY <1>1, <1>6 DEF Placed
<1>8. Grown(elem, elem', n, p, side)
  BY <1>1, <1>2, <1>4, <1>5, <1>7, Grows
<1>9. Inserts(d, i, n, l, p, side)
  BY <1>3, <1>4, <1>5, <1>6, <1>8 DEF Inserts, l
<1> QED BY <1>2, <1>9 DEF Written

(* It keeps the invariant.                                                   *)
LEMMA InsertKeeps ==
    ASSUME SequenceInv, NEW d \in Device, NEW n \in Node, NEW i \in Nat, Insert(d, i, n)
    PROVE  SequenceInv'
<1>1. n \in Node \ Written
  BY InsertHangs
<1>2. PICK l, p, side : Inserts(d, i, n, l, p, side)
  BY InsertHangs
<1>3. /\ p \in nodes[d] \union {Top} /\ side \in {"left", "right"} /\ l \in nodes[d] \union {Top}
      /\ l # Top => RightOf(elem', n, l)
  BY <1>2 DEF Inserts, Placed
<1>4. Grown(elem, elem', n, p, side)
  BY <1>2 DEF Inserts
<1>5. /\ Written' = Written \union {n} /\ IsTree(elem')
      /\ elem'[n].parent = p /\ elem'[n].side = side /\ \A m \in Written : elem'[m] = elem[m]
  BY <1>4 DEF Grown, Written
<1>6. /\ DOMAIN typed = Written /\ typed' = With(typed, n, [by |-> d, after |-> l, seen |-> nodes[d]])
  BY <1>2 DEF Inserts, SequenceInv, TypeOK
<1>7. /\ DOMAIN typed' = Written' /\ \A m \in Written : typed'[m] = typed[m]
      /\ typed'[n] = [by |-> d, after |-> l, seen |-> nodes[d]]
  BY <1>1, <1>5, <1>6 DEF With
<1>8. nodes' = [nodes EXCEPT ![d] = @ \union {n}] /\ dead' = dead /\ resets' = resets
  BY DEF Insert
<1>9. /\ Written \subseteq Node /\ elem \in [Written -> [parent : Node \union {Top}, side : {"left", "right"}]]
      /\ nodes \in [Device -> SUBSET Written] /\ dead \in [Device -> SUBSET Written]
      /\ typed \in [Written -> [by : Device, after : Written \union {Top}, seen : SUBSET Written]]
      /\ resets \in 0..MaxResets
      /\ \A e \in Device : /\ dead[e] \subseteq nodes[e]
                           /\ \A m \in nodes[e] : elem[m].parent \in nodes[e] \union {Top}
  BY DEF SequenceInv, TypeOK
<1>10. TypeOK'
  <2>1. elem' \in [Written' -> [parent : Node \union {Top}, side : {"left", "right"}]]
    <3>1. elem' = [m \in Written' |-> IF m = n THEN [parent |-> p, side |-> side] ELSE elem[m]]
      BY <1>2, <1>5 DEF Inserts, With, Written
    <3> QED BY <1>1, <1>3, <1>5, <1>9, <3>1
  <2>2. nodes' \in [Device -> SUBSET Written'] /\ dead' \in [Device -> SUBSET Written']
    BY <1>5, <1>8, <1>9
  <2>3. typed' \in [Written' -> [by : Device, after : Written' \union {Top}, seen : SUBSET Written']]
    <3> DEFINE R == [by : Device, after : Written' \union {Top}, seen : SUBSET Written']
    <3>1. [by |-> d, after |-> l, seen |-> nodes[d]] \in R
      BY <1>3, <1>5, <1>9
    <3>2. \A m \in Written : typed[m] \in R
      <4>1. \A m \in Written : typed[m] \in [by : Device, after : Written \union {Top}, seen : SUBSET Written]
        BY <1>9
      <4> QED BY <1>5, <4>1
    <3> HIDE DEF R
    <3>3. typed' = [m \in Written' |-> IF m = n THEN [by |-> d, after |-> l, seen |-> nodes[d]] ELSE typed[m]]
      BY <1>5, <1>6 DEF With
    <3>4. typed' \in [Written' -> R]
      BY <1>5, <3>1, <3>2, <3>3
    <3> QED BY <3>4 DEF R
  <2>4. ASSUME NEW e \in Device
        PROVE  /\ dead'[e] \subseteq nodes'[e]
               /\ \A m \in nodes'[e] : elem'[m].parent \in nodes'[e] \union {Top}
    BY <1>3, <1>5, <1>8, <1>9
  <2> QED BY <1>1, <1>5, <1>8, <1>9, <2>1, <2>2, <2>3, <2>4 DEF TypeOK, Written
<1>11. ASSUME NEW m \in Written'
       PROVE  /\ Upward(elem', typed'[m].seen)
              /\ elem'[m].parent \in typed'[m].seen \union {Top}
              /\ typed'[m].after # Top => RightOf(elem', m, typed'[m].after)
  <2>1. CASE m = n
    <3>1. typed'[m].seen = nodes[d] /\ typed'[m].after = l
      BY <1>7, <2>1
    <3>2. Upward(elem', nodes[d])
      BY <1>5, <1>9 DEF Upward
    <3> QED BY <1>3, <1>5, <2>1, <3>1, <3>2
  <2>2. CASE m # n
    <3>1. m \in Written /\ typed'[m] = typed[m] /\ elem'[m] = elem[m]
      BY <1>5, <1>7, <2>2
    <3>2. typed[m].seen \subseteq Written /\ typed[m].after \in Written \union {Top}
      BY <1>9, <3>1
    <3>3. /\ Upward(elem, typed[m].seen)
          /\ elem[m].parent \in typed[m].seen \union {Top}
          /\ typed[m].after # Top => RightOf(elem, m, typed[m].after)
      BY <3>1 DEF SequenceInv, SaidRight
    <3>4. Upward(elem', typed[m].seen)
      BY <1>5, <3>2, <3>3 DEF Upward
    <3>5. typed[m].after # Top => RightOf(elem', m, typed[m].after)
      BY <1>4, <3>1, <3>2, <3>3, GrownKeeps DEF Written
    <3> QED BY <3>1, <3>3, <3>4, <3>5
  <2> QED BY <2>1, <2>2
<1> QED BY <1>5, <1>10, <1>11 DEF SequenceInv, SaidRight

(* Every step keeps it.                                                      *)
LEMMA SequenceInvStep ==
    ASSUME SequenceInv, [Next]_vars
    PROVE  SequenceInv'
<1>1. ASSUME NEW d \in Device, NEW n \in Node, NEW i \in 0..MaxNodes, Insert(d, i, n) PROVE SequenceInv'
  <2>1. i \in Nat
    BY BoundAssumption
  <2> QED BY <1>1, <2>1, InsertKeeps
<1>2. ASSUME elem' = elem, typed' = typed, TypeOK' PROVE SequenceInv'
  BY <1>2 DEF SequenceInv, SaidRight, Written
<1>3. /\ nodes \in [Device -> SUBSET Written] /\ dead \in [Device -> SUBSET Written]
      /\ resets \in 0..MaxResets
      /\ \A e \in Device : /\ dead[e] \subseteq nodes[e]
                           /\ \A m \in nodes[e] : elem[m].parent \in nodes[e] \union {Top}
  BY DEF SequenceInv, TypeOK
<1>4. ASSUME elem' = elem, typed' = typed,
             nodes' \in [Device -> SUBSET Written], dead' \in [Device -> SUBSET Written],
             resets' \in 0..MaxResets,
             \A e \in Device : /\ dead'[e] \subseteq nodes'[e]
                               /\ \A m \in nodes'[e] : elem[m].parent \in nodes'[e] \union {Top}
      PROVE  SequenceInv'
  <2>1. TypeOK'
    BY <1>4 DEF SequenceInv, TypeOK, Written
  <2> QED BY <1>2, <1>4, <2>1
<1>5. ASSUME NEW d \in Device, NEW i \in 1..MaxNodes, Erase(d, i) PROVE SequenceInv'
  <2>1. Visible(d)[i] \in nodes[d]
    <3>1. i \in 1..Len(Visible(d))
      <4>1. Len(Visible(d)) \in Nat
        BY VisibleLists, LenProperties DEF Lists
      <4> QED BY <1>5, <4>1, BoundAssumption DEF Erase
    <3> QED BY <3>1, VisibleLists
  <2>2. dead' = [dead EXCEPT ![d] = @ \union {Visible(d)[i]}] /\ UNCHANGED <<elem, nodes, typed, resets>>
    BY <1>5 DEF Erase
  <2>3. dead' \in [Device -> SUBSET Written] /\ \A e \in Device : dead'[e] \subseteq nodes[e]
    BY <1>3, <2>1, <2>2
  <2> QED BY <1>3, <1>4, <2>2, <2>3
<1>6. ASSUME NEW d \in Device, Reset(d) PROVE SequenceInv'
  <2>1. /\ resets' = resets + 1 /\ resets < MaxResets /\ UNCHANGED <<elem, typed>>
        /\ nodes' = [nodes EXCEPT ![d] = {}] /\ dead' = [dead EXCEPT ![d] = {}]
    BY <1>6 DEF Reset
  <2>2. resets' \in 0..MaxResets
    BY <1>3, <2>1, BoundAssumption
  <2>3. nodes' \in [Device -> SUBSET Written] /\ dead' \in [Device -> SUBSET Written]
    BY <1>3, <2>1
  <2>4. ASSUME NEW e \in Device
        PROVE  /\ dead'[e] \subseteq nodes'[e]
               /\ \A m \in nodes'[e] : elem[m].parent \in nodes'[e] \union {Top}
    BY <1>3, <2>1
  <2> QED BY <1>4, <2>1, <2>2, <2>3, <2>4
<1>7. ASSUME NEW d \in Device, NEW e \in Device, Merge(d, e) PROVE SequenceInv'
  <2>1. /\ nodes' = [nodes EXCEPT ![d] = @ \union nodes[e]]
        /\ dead' = [dead EXCEPT ![d] = @ \union dead[e]] /\ UNCHANGED <<elem, typed, resets>>
    BY <1>7 DEF Merge
  <2>2. nodes' \in [Device -> SUBSET Written] /\ dead' \in [Device -> SUBSET Written]
    BY <1>3, <2>1
  <2>3. ASSUME NEW f \in Device
        PROVE  /\ dead'[f] \subseteq nodes'[f]
               /\ \A m \in nodes'[f] : elem[m].parent \in nodes'[f] \union {Top}
    BY <1>3, <2>1
  <2> QED BY <1>3, <1>4, <2>1, <2>2, <2>3
<1>8. CASE UNCHANGED vars
  BY <1>3, <1>4, <1>8 DEF vars
<1> QED BY <1>1, <1>5, <1>6, <1>7, <1>8 DEF Next

(* The empty documents satisfy it.                                           *)
LEMMA SequenceInvInit == Init => SequenceInv
<1> SUFFICES ASSUME Init PROVE SequenceInv
  OBVIOUS
<1>1. /\ elem = <<>> /\ typed = <<>> /\ resets = 0
      /\ nodes = [d \in Device |-> {}] /\ dead = [d \in Device |-> {}]
  BY DEF Init
<1>2. Written = {} /\ DOMAIN typed = {}
  BY <1>1 DEF Written
<1>3. elem = [n \in {} |-> n] /\ typed = [n \in {} |-> n]
  BY <1>1
<1>4. IsTree(elem)
  BY <1>2 DEF IsTree, Written
<1>5. TypeOK
  BY <1>1, <1>2, <1>3, BoundAssumption DEF TypeOK
<1> QED BY <1>2, <1>4, <1>5 DEF SequenceInv, SaidRight

(* The invariant holds throughout.                                           *)
LEMMA SequenceInvAlways == Spec => []SequenceInv
BY SequenceInvInit, SequenceInvStep, PTL DEF Spec

-----------------------------------------------------------------------------
(* The theorems. *)

(* seq_order on any document, whatever of the tree it holds: two documents    *)
(* list the elements they share in one order, that of all elements ever       *)
(* written, so nothing that arrives later moves two elements past each other. *)
THEOREM OneOrderForAll == Spec => []AllReadOneOrder
<1>1. ASSUME SequenceInv PROVE AllReadOneOrder
  <2> SUFFICES ASSUME NEW d \in Device PROVE Order(Tree(d)) = Kept(Order(elem), nodes[d])
    BY <1>1 DEF AllReadOneOrder, SequenceInv
  <2>1. /\ IsPart(elem, nodes[d]) /\ IsPart(elem, Written) /\ nodes[d] \subseteq Written
        /\ Tree(d) = Copy(elem, nodes[d]) /\ elem = Copy(elem, Written)
    BY <1>1, DocumentIsPart
  <2>2. Lists(elem, Order(Tree(d)), nodes[d])
    BY <2>1, OrderLists
  <2>3. Lists(elem, Order(Copy(elem, Written)), Written)
    BY <2>1, OrderLists
  <2>4. Lists(elem, Kept(Order(Copy(elem, Written)), nodes[d]), Written \intersect nodes[d])
    BY <2>3, KeptLists
  <2>5. Written \intersect nodes[d] = nodes[d]
    BY <2>1
  <2>6. Lists(elem, Kept(Order(elem), nodes[d]), nodes[d])
    BY <2>1, <2>4, <2>5
  <2>7. IsTree(elem) /\ nodes[d] \in SUBSET DOMAIN elem
    BY <2>1 DEF IsPart
  <2> QED BY <2>2, <2>6, <2>7, ListsAreOne
<1> QED BY <1>1, SequenceInvAlways, PTL

(* seq_insert of two devices at one spot: whatever stands between an element  *)
(* and the one it was typed after was written by someone who had seen the     *)
(* latter.                                                                   *)
THEOREM TypingAtOneSpot == Spec => []RunsDoNotInterleave
<1>1. ASSUME SequenceInv PROVE RunsDoNotInterleave
  <2> DEFINE all == Order(elem)
  <2> SUFFICES ASSUME NEW y \in Written, typed[y].after # Top,
                      NEW k \in IndexOf(all, typed[y].after) + 1 .. IndexOf(all, y) - 1
               PROVE  typed[y].after \in typed[all[k]].seen
    BY DEF RunsDoNotInterleave
  <2> DEFINE x == typed[y].after
             z == all[k]
  <2>1. IsTree(elem) /\ x \in Written /\ RightOf(elem, y, x)
    BY <1>1 DEF SequenceInv, SaidRight, TypeOK
  <2>2. Lists(elem, all, Written)
    <3>1. IsPart(elem, Written) /\ elem = Copy(elem, Written)
      <4>1. \A n \in Written : elem[n].parent \in Written \union {Top}
        BY <2>1 DEF IsTree, Written
      <4>2. elem = [n \in Written |-> elem[n]]
        BY <1>1 DEF SequenceInv, TypeOK
      <4> QED BY <2>1, <4>1, <4>2 DEF IsPart, Upward, Copy, Written
    <3>2. Lists(elem, Order(Copy(elem, Written)), Written)
      BY <3>1, OrderLists
    <3> QED BY <3>1, <3>2
  <2> HIDE DEF all
  <2>3. /\ Len(all) \in Nat /\ \A j \in 1..Len(all) : all[j] \in Written
        /\ \A i, j \in 1..Len(all) : Lt(elem, all[i], all[j]) <=> i < j
    BY <2>1, <2>2, ListedOnce DEF Written
  <2>4. /\ IndexOf(all, x) \in 1..Len(all) /\ all[IndexOf(all, x)] = x
        /\ IndexOf(all, y) \in 1..Len(all) /\ all[IndexOf(all, y)] = y
    <3>1. \A v \in Written : IndexOf(all, v) \in 1..Len(all) /\ all[IndexOf(all, v)] = v
      BY <2>1, <2>2, IndexFinds DEF Written
    <3> QED BY <2>1, <3>1
  <2>5. k \in 1..Len(all) /\ IndexOf(all, x) < k /\ k < IndexOf(all, y)
    BY <2>3, <2>4
  <2>6. z \in Written /\ Lt(elem, x, z) /\ Lt(elem, z, y)
    BY <2>3, <2>4, <2>5
  <2> HIDE DEF x, z
  <2>7. RightOf(elem, z, x)
    BY <2>1, <2>6, RightIsConvex DEF Written
  <2>8. x \in Up(elem, z) /\ x # z
    BY <2>1, <2>6, <2>7, HangsUnder DEF RightOf, Written
  <2>9. elem[z].parent \in DOMAIN elem /\ x \in Up(elem, elem[z].parent)
    BY <2>1, <2>6, <2>8, UpByParent DEF Written
  <2>10. /\ Upward(elem, typed[z].seen) /\ typed[z].seen \in SUBSET DOMAIN elem
         /\ elem[z].parent \in typed[z].seen \union {Top}
    BY <1>1, <2>6 DEF SequenceInv, SaidRight, TypeOK, Written
  <2>11. elem[z].parent \in typed[z].seen
    BY <2>1, <2>9, <2>10, TopIsNoNode DEF IsTree
  <2>12. Up(elem, elem[z].parent) \subseteq typed[z].seen
    BY <2>1, <2>9, <2>10, <2>11, UpIsLeast
  <2> QED BY <2>9, <2>12 DEF x, z
<1> QED BY <1>1, SequenceInvAlways, PTL

(* A step of the property below: the element d writes.                       *)
LEMMA InsertLands ==
    ASSUME SequenceInv, SequenceInv', NEW d \in Device, NEW n \in Node, NEW i \in Nat, Insert(d, i, n)
    PROVE  LET before == Visible(d)
               x == typed'[n].after
               at == IF x = Top THEN 0 ELSE IndexOf(before, x)
           IN /\ typed'[n].by = d /\ DOMAIN typed' \ Written = {n}
              /\ Visible(d)' = InsertAt(before, at + 1, n)
<1> DEFINE s == Visible(d)
           V == nodes[d] \ dead[d]
           F == elem'
<1>1. n \in Node \ Written /\ i \in 0..Len(s)
  BY InsertHangs
<1>2. PICK l, p, side : Inserts(d, i, n, l, p, side)
  BY InsertHangs
<1>3. /\ IsPart(elem, nodes[d]) /\ IsTree(elem) /\ V \in SUBSET DOMAIN elem /\ V \subseteq nodes[d]
      /\ V \subseteq Node /\ dead[d] \subseteq Written
  BY DocumentIsPart DEF IsPart, IsTree, Written
<1>4. Lists(elem, s, V) /\ \A k \in 1..Len(s) : s[k] \in V
  BY VisibleLists
<1>5. /\ typed'[n].by = d /\ typed'[n].after = l /\ DOMAIN typed' \ Written = {n}
  BY <1>1, <1>2 DEF Inserts, With, SequenceInv, TypeOK
<1>6. l = Left(d, i)
  BY <1>2 DEF Inserts
<1> HIDE DEF V
<1>7. /\ \A k \in 1..Len(s) : IndexOf(s, s[k]) = k
      /\ \A j, k \in 1..Len(s) : j < k => Lt(elem, s[j], s[k])
      /\ Len(s) \in Nat
  BY <1>3, <1>4, IndexFinds, LenProperties DEF Lists
<1>8. /\ (IF l = Top THEN 0 ELSE IndexOf(s, l)) = i
      /\ i = 0 => l = Top
      /\ i # 0 => l # Top /\ i \in 1..Len(s) /\ l = s[i]
  <2>1. CASE i = 0
    BY <1>6, <2>1 DEF Left
  <2>2. CASE i # 0
    <3>1. i \in 1..Len(s) /\ l = s[i]
      BY <1>1, <1>6, <1>7, <2>2 DEF Left
    <3>2. l # Top
      BY <1>3, <1>4, <3>1, TopIsNoNode
    <3> QED BY <1>7, <2>2, <3>1, <3>2
  <2> QED BY <2>1, <2>2
<1>9. \A y \in nodes[d] : /\ l # Top /\ (y = l \/ Lt(elem, y, l)) => Lt(F, y, n)
                          /\ l = Top \/ Lt(elem, l, y) => Lt(F, n, y)
  BY <1>2 DEF Inserts, Placed
<1> HIDE DEF s, F
<1>10. FitsAt(F, s, i, n)
  <2> SUFFICES ASSUME NEW k \in 1..Len(s)
               PROVE  (k <= i => Lt(F, s[k], n)) /\ (i < k => Lt(F, n, s[k]))
    BY DEF FitsAt
  <2>1. s[k] \in nodes[d]
    BY <1>3, <1>4
  <2>2. ASSUME k <= i PROVE Lt(F, s[k], n)
    <3>1. l # Top /\ i \in 1..Len(s) /\ l = s[i]
      BY <1>8, <2>2
    <3>2. s[k] = l \/ Lt(elem, s[k], l)
      <4>1. k = i \/ k < i
        BY <2>2
      <4> QED BY <1>7, <3>1, <4>1
    <3> QED BY <1>9, <2>1, <3>1, <3>2
  <2>3. ASSUME i < k PROVE Lt(F, n, s[k])
    <3>1. l = Top \/ Lt(elem, l, s[k])
      BY <1>7, <1>8, <2>3
    <3> QED BY <1>9, <2>1, <3>1
  <2> QED BY <2>2, <2>3
<1>11. Agrees(elem, F, V)
  <2>1. Grown(elem, F, n, p, side)
    BY <1>2 DEF Inserts, F
  <2> QED BY <1>3, <2>1, GrownKeeps DEF Agrees
<1>12. Lists(F, InsertAt(s, i + 1, n), V \union {n})
  BY <1>1, <1>4, <1>10, <1>11, InsertedLists
<1>13. /\ IsTree(F) /\ V \union {n} \in SUBSET DOMAIN F
       /\ Lists(F, Visible(d)', V \union {n})
  <2>1. nodes'[d] = nodes[d] \union {n} /\ dead' = dead /\ nodes[d] \in SUBSET Written
    BY <1>3 DEF Insert, SequenceInv, TypeOK
  <2>2. IsPart(F, nodes'[d])
    BY DEF SequenceInv, SaidRight, TypeOK, IsPart, Upward, Written, F
  <2>3. Visible(d)' = Kept(Order(Copy(F, nodes'[d])), nodes'[d] \ dead[d])
    BY <2>1 DEF Visible, Tree, Copy, F
  <2>4. Lists(F, Kept(Order(Copy(F, nodes'[d])), nodes'[d] \ dead[d]), nodes'[d] \ dead[d])
    BY <2>2, ReadingLists
  <2>5. nodes'[d] \ dead[d] = V \union {n}
    BY <1>1, <1>3, <2>1 DEF V
  <2> QED BY <2>2, <2>3, <2>4, <2>5 DEF IsPart
<1>14. Visible(d)' = InsertAt(s, i + 1, n)
  BY <1>12, <1>13, ListsAreOne
<1> QED BY <1>5, <1>8, <1>14 DEF s

(* seq_insert: whatever is dead and however the tree has grown, a new element *)
(* reads back one past the element it was typed after, and nothing else moves. *)
THEOREM TypedIsRead == Spec => InsertsLandWhereTyped
<1> DEFINE Lands == \A n \in DOMAIN typed' \ Written, d \in Device : typed'[n].by = d =>
                       LET before == Visible(d)
                           x == typed'[n].after
                           i == IF x = Top THEN 0 ELSE IndexOf(before, x)
                       IN Visible(d)' = InsertAt(before, i + 1, n)
<1>1. ASSUME SequenceInv, SequenceInv', Next PROVE Lands
  <2>1. CASE \E d \in Device, n \in Node, i \in 0..MaxNodes : Insert(d, i, n)
    <3>1. PICK d \in Device, n \in Node, i \in 0..MaxNodes : Insert(d, i, n)
      BY <2>1
    <3>2. i \in Nat
      BY BoundAssumption
    <3> QED BY <1>1, <3>1, <3>2, InsertLands
  <2>2. CASE typed' = typed
    <3>1. DOMAIN typed' \ Written = {}
      BY <1>1, <2>2 DEF SequenceInv, TypeOK
    <3> QED BY <3>1
  <2> QED BY <1>1, <2>1, <2>2 DEF Next, Erase, Reset, Merge
<1>2. ASSUME SequenceInv, SequenceInv', [Next]_vars PROVE [Lands]_vars
  BY <1>1, <1>2
<1> QED BY <1>2, SequenceInvAlways, PTL DEF Spec, InsertsLandWhereTyped
=============================================================================
