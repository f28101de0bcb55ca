----------------------------- MODULE HistoryProofs -----------------------------
(***************************************************************************)
(* Whatever peers say and however it is delivered: a graph's heads stand   *)
(* for the whole of it, ancestry is what the author had, the timeline is   *)
(* causal and the same for all, what is written loads back, and receive    *)
(* places all that can be placed.                                          *)
(***************************************************************************)
EXTENDS History, SequenceTheorems, FiniteSetTheorems, WellFoundedInduction, TLAPS

-----------------------------------------------------------------------------
(* Iteration: the loops of the library are functions of the number of turns. *)

(* A nonempty set of naturals has a least element.                           *)
LEMMA LeastExists ==
    ASSUME NEW S \in SUBSET Nat, S # {}
    PROVE  \E x \in S : \A y \in S : x <= y
<1>1. PICK x \in S : \A y \in S : ~(<<y, x>> \in OpToRel(<, Nat))
  BY NatLessThanWellFounded, WFMin
<1>2. \A y \in S : ~(y < x)
  BY <1>1 DEF OpToRel
<1> QED BY <1>2

(* What is true of 0, and of n + 1 whenever of n, is true of every natural.  *)
LEMMA EveryNatural ==
    ASSUME NEW S, 0 \in S, \A n \in Nat : n \in S => n + 1 \in S
    PROVE  \A n \in Nat : n \in S
<1> SUFFICES ASSUME Nat \ S # {} PROVE FALSE
  OBVIOUS
<1>1. PICK x \in Nat \ S : \A y \in Nat \ S : x <= y
  BY LeastExists
<1>2. x # 0 /\ x - 1 \in Nat /\ x - 1 < x
  BY <1>1
<1>3. x - 1 \in S
  BY <1>1, <1>2
<1>4. (x - 1) + 1 \in S
  BY <1>2, <1>3
<1> QED BY <1>1, <1>4

(* The first n repetitions of a step on S from s0.                           *)
Runs(S, step, s0, n, h) ==
    /\ h \in [0..n -> S] /\ h[0] = s0
    /\ \A i \in 0..(n - 1) : h[i + 1] = step[h[i]]

(* A step that stays in S can be repeated any number of times.               *)
LEMMA RunsExist ==
    ASSUME NEW S, NEW step \in [S -> S], NEW s0 \in S
    PROVE  \A n \in Nat : \E h : Runs(S, step, s0, n, h)
<1> DEFINE Has == {n \in Nat : \E h : Runs(S, step, s0, n, h)}
<1>1. 0 \in Has
  <2>1. Runs(S, step, s0, 0, [i \in 0..0 |-> s0])
    BY DEF Runs
  <2> QED BY <2>1
<1>2. ASSUME NEW n \in Nat, n \in Has PROVE n + 1 \in Has
  <2>1. PICK h : Runs(S, step, s0, n, h)
    BY <1>2
  <2> DEFINE g == [i \in 0..(n + 1) |-> IF i = n + 1 THEN step[h[n]] ELSE h[i]]
  <2>2. g \in [0..(n + 1) -> S]
    <3>1. h[n] \in S /\ step[h[n]] \in S
      BY <2>1 DEF Runs
    <3>2. \A i \in 0..(n + 1) : i # n + 1 => i \in 0..n
      OBVIOUS
    <3> QED BY <2>1, <3>1, <3>2 DEF Runs
  <2>3. g[0] = s0
    BY <2>1 DEF Runs
  <2>4. \A i \in 0..((n + 1) - 1) : g[i + 1] = step[g[i]]
    <3> SUFFICES ASSUME NEW i \in 0..((n + 1) - 1) PROVE g[i + 1] = step[g[i]]
      OBVIOUS
    <3>1. CASE i = n
      BY <3>1
    <3>2. CASE i # n
      <4>1. i \in 0..(n - 1) /\ i + 1 \in 0..n /\ i + 1 # n + 1 /\ i # n + 1
        BY <3>2
      <4> QED BY <2>1, <4>1 DEF Runs
    <3> QED BY <3>1, <3>2
  <2> HIDE DEF g
  <2>5. Runs(S, step, s0, n + 1, g)
    BY <2>2, <2>3, <2>4 DEF Runs
  <2> QED BY <2>5
<1> HIDE DEF Has
<1>3. \A n \in Nat : n \in Has
  BY <1>1, <1>2, EveryNatural
<1> QED BY <1>3 DEF Has

(* Whatever two runs both reach is the same.                                 *)
LEMMA RunsAgree ==
    ASSUME NEW S, NEW step, NEW s0
    PROVE  \A n, m, k \in Nat : \A g, h :
               n <= m /\ n <= k /\ Runs(S, step, s0, m, g) /\ Runs(S, step, s0, k, h)
                   => g[n] = h[n]
<1> DEFINE Agree(n) == \A m, k \in Nat : \A g, h :
               n <= m /\ n <= k /\ Runs(S, step, s0, m, g) /\ Runs(S, step, s0, k, h)
                   => g[n] = h[n]
           Same == {n \in Nat : Agree(n)}
<1>1. 0 \in Same
  BY DEF Runs
<1>2. ASSUME NEW n \in Nat, n \in Same PROVE n + 1 \in Same
  <2> SUFFICES ASSUME NEW m \in Nat, NEW k \in Nat, NEW g, NEW h, n + 1 <= m, n + 1 <= k,
                      Runs(S, step, s0, m, g), Runs(S, step, s0, k, h)
               PROVE  g[n + 1] = h[n + 1]
    OBVIOUS
  <2>1. n <= m /\ n <= k
    OBVIOUS
  <2>2. g[n] = h[n]
    BY <1>2, <2>1
  <2>3. n \in 0..(m - 1) /\ n \in 0..(k - 1)
    OBVIOUS
  <2> QED BY <2>2, <2>3 DEF Runs
<1> HIDE DEF Same
<1>3. \A n \in Nat : n \in Same
  BY <1>1, <1>2, EveryNatural
<1> QED BY <1>3 DEF Same

(* All repetitions of a step on S from s0.                                   *)
Repeats(S, step, s0, f) ==
    /\ f \in [Nat -> S] /\ f[0] = s0
    /\ \A n \in Nat : f[n + 1] = step[f[n]]

(* So it can be repeated for ever.                                           *)
LEMMA StepsRepeat ==
    ASSUME NEW S, NEW step \in [S -> S], NEW s0 \in S
    PROVE  \E f : Repeats(S, step, s0, f)
<1> DEFINE run(n) == CHOOSE h : Runs(S, step, s0, n, h)
           f == [n \in Nat |-> run(n)[n]]
<1>1. \A n \in Nat : Runs(S, step, s0, n, run(n))
  BY RunsExist
<1>2. \A n \in Nat : f[n] = run(n)[n]
  OBVIOUS
<1> HIDE DEF run
<1>3. \A n \in Nat : run(n)[n] \in S
  BY <1>1 DEF Runs
<1>4. f \in [Nat -> S]
  BY <1>3
<1> HIDE DEF f
<1>5. f[0] = s0
  BY <1>1, <1>2 DEF Runs
<1>6. ASSUME NEW n \in Nat PROVE f[n + 1] = step[f[n]]
  <2>1. n + 1 \in Nat /\ n <= n /\ n <= n + 1 /\ n \in 0..((n + 1) - 1)
    OBVIOUS
  <2>2. Runs(S, step, s0, n, run(n)) /\ Runs(S, step, s0, n + 1, run(n + 1))
    BY <1>1, <2>1
  <2>3. run(n)[n] = run(n + 1)[n]
    BY <2>1, <2>2, RunsAgree
  <2>4. run(n + 1)[n + 1] = step[run(n + 1)[n]]
    BY <2>1, <2>2 DEF Runs
  <2> QED BY <1>2, <2>1, <2>3, <2>4
<1> QED BY <1>4, <1>5, <1>6 DEF Repeats

-----------------------------------------------------------------------------
(* The invariant. *)

(* An utterance's author had its parents and all that they were said after,  *)
(* and nothing else; never the utterance itself.                             *)
SaidAfter ==
    \A h \in minted :
        /\ said[h] \subseteq minted /\ before[h] \subseteq minted
        /\ before[h] = said[h] \union UNION {before[x] : x \in said[h]}
        /\ \A x \in before[h] : before[x] \subseteq before[h]
        /\ h \notin before[h]

(* A graph holds with an utterance all that its author had, its index is     *)
(* what the parents say, and everything is a head or before one.             *)
ClosedIn(g, names, parents, had) ==
    /\ g \in Graph /\ g.has \subseteq names
    /\ \A h \in g.has : parents[h] \subseteq g.has /\ had[h] \subseteq g.has
    /\ \A x \in Hash : g.kids[x] = {h \in g.has : x \in parents[h]}
    /\ \A h \in g.has : \E k \in Heads(g) : h = k \/ h \in had[k]

Closed(g) == ClosedIn(g, minted, said, before)

HInv ==
    /\ TypeOK /\ SaidAfter
    /\ \A p \in Peer : Closed(graph[p]) /\ file[p] \in Seq(minted)

-----------------------------------------------------------------------------
(* Receiving. *)

(* History::add of an utterance whose parents are here.                      *)
LEMMA InsertKeepsClosed ==
    ASSUME TypeOK, SaidAfter, NEW g, Closed(g),
           NEW h \in minted, h \notin g.has, said[h] \subseteq g.has
    PROVE  Closed(Insert(g, h))
<1> DEFINE u == Insert(g, h)
<1>0. /\ h \in Hash /\ g.has \subseteq Hash /\ g.kids \in [Hash -> SUBSET Hash]
      /\ said \in [Hash -> SUBSET Hash] /\ before \in [Hash -> SUBSET Hash]
  BY DEF TypeOK, Closed, ClosedIn, Graph
<1>1. /\ u.has = g.has \union {h}
      /\ \A x \in Hash : u.kids[x] = IF x \in said[h] THEN g.kids[x] \union {h} ELSE g.kids[x]
      /\ u \in Graph
  BY <1>0 DEF Insert, Graph
<1>2. before[h] \subseteq g.has
  BY DEF SaidAfter, Closed, ClosedIn
<1> HIDE DEF u
<1>3. u.has \subseteq minted
  BY <1>1 DEF Closed, ClosedIn
<1>4. \A x \in u.has : said[x] \subseteq u.has /\ before[x] \subseteq u.has
  BY <1>1, <1>2 DEF Closed, ClosedIn
<1>5. ASSUME NEW x \in Hash PROVE u.kids[x] = {k \in u.has : x \in said[k]}
  <2>1. g.kids[x] = {k \in g.has : x \in said[k]}
    BY DEF Closed, ClosedIn
  <2>2. u.kids[x] = IF x \in said[h] THEN g.kids[x] \union {h} ELSE g.kids[x]
    BY <1>1
  <2> QED BY <1>1, <2>1, <2>2
<1>6. h \in Heads(u)
  BY <1>0, <1>1, <1>5 DEF Heads, Closed, ClosedIn
<1>7. ASSUME NEW x \in u.has PROVE \E k \in Heads(u) : x = k \/ x \in before[k]
  <2>1. CASE x = h
    BY <1>6, <2>1
  <2>2. CASE x \in g.has
    <3>1. PICK k \in Heads(g) : x = k \/ x \in before[k]
      BY <2>2 DEF Closed, ClosedIn
    <3>2. CASE k \in said[h]
      <4>1. k \in before[h] /\ before[k] \subseteq before[h]
        BY <3>2 DEF SaidAfter
      <4> QED BY <1>6, <3>1, <4>1
    <3>3. CASE k \notin said[h]
      <4>1. k \in Heads(u)
        BY <1>0, <1>1, <3>3 DEF Heads
      <4> QED BY <3>1, <4>1
    <3> QED BY <3>2, <3>3
  <2> QED BY <1>1, <2>1, <2>2
<1>8. Closed(u)
  BY <1>1, <1>3, <1>4, <1>5, <1>7 DEF Closed, ClosedIn
<1> QED BY <1>8 DEF u

(* What may be under way: utterances that were said, damaged or not.         *)
Bag == [hash : minted, ok : BOOLEAN]

(* What receive's loop goes through.                                         *)
LoopState ==
    {s \in [g : Graph, todo : Seq(Bag), still : Seq(Bag), progress : BOOLEAN] : Closed(s.g)}

(* A turn of the loop keeps its state well formed and its graph closed.      *)
LEMMA TurnStays ==
    ASSUME TypeOK, SaidAfter, NEW s \in LoopState
    PROVE  Turn(s) \in LoopState
<1>0. /\ s = [g |-> s.g, todo |-> s.todo, still |-> s.still, progress |-> s.progress]
      /\ s.g \in Graph /\ s.todo \in Seq(Bag) /\ s.still \in Seq(Bag) /\ s.progress \in BOOLEAN
      /\ Closed(s.g)
  BY DEF LoopState
<1>1. CASE s.todo # <<>>
  <2> DEFINE u == Head(s.todo)
             result == AddResult(s.g, u)
             taken == result \in {"ok", "duplicate"}
             still == IF taken THEN s.still ELSE Append(s.still, u)
             progress == s.progress \/ taken
  <2>1. u \in Bag /\ Tail(s.todo) \in Seq(Bag)
    BY <1>0, <1>1, HeadTailProperties
  <2> DEFINE g == IF result = "ok" THEN Insert(s.g, u.hash) ELSE s.g
  <2>2. Closed(g)
    <3>1. CASE result = "ok"
      <4>1. u.hash \in minted
        BY <2>1 DEF Bag
      <4>2. u.hash \notin s.g.has /\ said[u.hash] \subseteq s.g.has
        BY <3>1 DEF AddResult
      <4> QED BY <1>0, <3>1, <4>1, <4>2, InsertKeepsClosed
    <3> QED BY <1>0, <3>1
  <2>3. Turn(s) = [g |-> g, todo |-> Tail(s.todo), still |-> still, progress |-> progress]
    BY <1>1 DEF Turn
  <2>4. still \in Seq(Bag)
    BY <1>0, <2>1, AppendProperties
  <2>5. progress \in BOOLEAN
    OBVIOUS
  <2> HIDE DEF g, still, progress, u
  <2>6. g \in Graph
    BY <2>2 DEF Closed, ClosedIn
  <2> QED BY <2>1, <2>2, <2>3, <2>4, <2>5, <2>6 DEF LoopState
<1>2. CASE s.todo = <<>> /\ s.progress /\ s.still # <<>>
  <2>1. Turn(s) = [g |-> s.g, todo |-> s.still, still |-> <<>>, progress |-> FALSE]
    BY <1>2 DEF Turn
  <2>2. <<>> \in Seq(Bag)
    OBVIOUS
  <2> QED BY <1>0, <2>1, <2>2 DEF LoopState
<1>3. CASE s.todo = <<>> /\ ~(s.progress /\ s.still # <<>>)
  BY <1>3 DEF Turn
<1> QED BY <1>1, <1>2, <1>3

(* The loop's turns, one after the other.                                    *)
LEMMA TurnsRun ==
    ASSUME TypeOK, SaidAfter, NEW g, Closed(g), NEW inbox \in Seq(Bag)
    PROVE  /\ Turns(g, inbox)[0] = [g |-> g, todo |-> inbox, still |-> <<>>, progress |-> FALSE]
           /\ \A n \in Nat : Turns(g, inbox)[n] \in LoopState
           /\ \A n \in Nat : Turns(g, inbox)[n + 1] = Turn(Turns(g, inbox)[n])
<1> DEFINE s0 == [g |-> g, todo |-> inbox, still |-> <<>>, progress |-> FALSE]
           step == [s \in LoopState |-> Turn(s)]
           at == Turns(g, inbox)
<1>1. s0 \in LoopState
  <2>1. <<>> \in Seq(Bag) /\ g \in Graph
    BY DEF Closed, ClosedIn
  <2> QED BY <2>1 DEF LoopState
<1>2. step \in [LoopState -> LoopState]
  BY TurnStays
<1>3. PICK f : Repeats(LoopState, step, s0, f)
  <2> HIDE DEF s0, step
  <2> QED BY <1>1, <1>2, StepsRepeat
<1>4. f = [n \in Nat |-> IF n = 0 THEN s0 ELSE Turn(f[n - 1])]
  <2>1. ASSUME NEW n \in Nat, n # 0 PROVE f[n] = Turn(f[n - 1])
    <3>1. n - 1 \in Nat /\ (n - 1) + 1 = n
      BY <2>1
    <3> QED BY <1>3, <3>1 DEF Repeats
  <2> HIDE DEF s0
  <2> QED BY <1>3, <2>1 DEF Repeats
<1>5. at = [n \in Nat |-> IF n = 0 THEN s0 ELSE Turn(at[n - 1])]
  <2>1. at = CHOOSE a : a = [n \in Nat |-> IF n = 0 THEN s0 ELSE Turn(a[n - 1])]
    BY DEF Turns
  <2> HIDE DEF at, s0
  <2> QED BY <1>4, <2>1, Zenon
<1> HIDE DEF at, s0
<1>6. at[0] = s0 /\ \A n \in Nat : at[n + 1] = Turn(at[n])
  BY <1>5
<1>7. \A n \in Nat : at[n] \in LoopState
  <2> DEFINE S == {m \in Nat : at[m] \in LoopState}
  <2>1. 0 \in S
    BY <1>1, <1>6
  <2>2. ASSUME NEW n \in Nat, n \in S PROVE n + 1 \in S
    <3>1. at[n + 1] = Turn(at[n])
      BY <1>6
    <3> QED BY <2>2, <3>1, TurnStays
  <2> HIDE DEF S
  <2>3. \A n \in Nat : n \in S
    BY <2>1, <2>2, EveryNatural
  <2> QED BY <2>3 DEF S
<1> QED BY <1>6, <1>7 DEF at, s0

(* Receiving keeps a graph closed.                                           *)
LEMMA ReceivedIsClosed ==
    ASSUME TypeOK, SaidAfter, NEW g, Closed(g), NEW inbox \in Seq(Bag)
    PROVE  Closed(Received(g, inbox).g)
<1>1. (Len(inbox) + 1) * (Len(inbox) + 1) \in Nat
  BY LenProperties
<1>2. Received(g, inbox) \in LoopState
  BY <1>1, TurnsRun DEF Received
<1> QED BY <1>2 DEF LoopState

-----------------------------------------------------------------------------
(* Writing and reading. *)

(* What Kahn's algorithm goes through on a graph with utterances has.        *)
KahnState(has) == [ready : SUBSET has, remaining : [has -> Int], order : Seq(has)]

(* A step of Kahn's algorithm places an utterance of the graph.              *)
LEMMA EmitStays ==
    ASSUME NEW g \in Graph, NEW s \in KahnState(g.has), s.ready # {}
    PROVE  Emit(g, s) \in KahnState(g.has)
<1> DEFINE h == CHOOSE x \in s.ready : \A y \in s.ready : x <= y
           left == [c \in g.has |->
                      IF c \in g.kids[h] THEN s.remaining[c] - 1 ELSE s.remaining[c]]
           ready == (s.ready \ {h}) \union {c \in g.has : s.remaining[c] > 0 /\ left[c] = 0}
<1>1. s.ready \subseteq g.has /\ s.remaining \in [g.has -> Int] /\ s.order \in Seq(g.has)
  BY DEF KahnState
<1>2. h \in g.has
  <2>1. g.has \subseteq Nat
    BY HistoryAssumption DEF Graph
  <2>2. \E x \in s.ready : \A y \in s.ready : x <= y
    BY <1>1, <2>1, LeastExists
  <2> QED BY <1>1, <2>2
<1>3. Emit(g, s) = [ready |-> ready, remaining |-> left, order |-> Append(s.order, h)]
  BY DEF Emit
<1> HIDE DEF h
<1>4. left \in [g.has -> Int]
  BY <1>1
<1>5. Append(s.order, h) \in Seq(g.has)
  BY <1>1, <1>2, AppendProperties
<1>6. ready \subseteq g.has
  BY <1>1
<1> HIDE DEF left, ready
<1> QED BY <1>3, <1>4, <1>5, <1>6 DEF KahnState

(* What Kahn's algorithm starts from.                                        *)
Unplaced(g) == [ready     |-> {h \in g.has : said[h] = {}},
                remaining |-> [h \in g.has |-> Cardinality(said[h])],
                order     |-> <<>>]

(* What holds at first and through every step of it holds throughout.        *)
LEMMA EmittedRun ==
    ASSUME NEW g, NEW S, Unplaced(g) \in S,
           \A s \in S : s.ready # {} => Emit(g, s) \in S
    PROVE  /\ Emitted(g)[0] = Unplaced(g)
           /\ \A n \in Nat : Emitted(g)[n] \in S
           /\ \A n \in Nat : Emitted(g)[n + 1] =
                  IF Emitted(g)[n].ready = {} THEN Emitted(g)[n] ELSE Emit(g, Emitted(g)[n])
<1> DEFINE s0 == Unplaced(g)
           Next1(s) == IF s.ready = {} THEN s ELSE Emit(g, s)
           step == [s \in S |-> Next1(s)]
           at == Emitted(g)
<1>1. \A s \in S : Next1(s) \in S
  OBVIOUS
<1>2. step \in [S -> S]
  BY <1>1
<1>3. PICK f : Repeats(S, step, s0, f)
  <2> HIDE DEF s0, step
  <2> QED BY <1>2, StepsRepeat DEF s0
<1>4. f = [n \in Nat |-> IF n = 0 THEN s0 ELSE Next1(f[n - 1])]
  <2>1. ASSUME NEW n \in Nat, n # 0 PROVE f[n] = Next1(f[n - 1])
    <3>1. n - 1 \in Nat /\ (n - 1) + 1 = n
      BY <2>1
    <3>2. f[n - 1] \in S /\ f[n] = step[f[n - 1]]
      <4> HIDE DEF step, s0
      <4> QED BY <1>3, <3>1 DEF Repeats
    <3> QED BY <3>2
  <2> HIDE DEF s0, Next1, step
  <2> QED BY <1>3, <2>1 DEF Repeats
<1>5. at = [n \in Nat |-> IF n = 0 THEN s0 ELSE Next1(at[n - 1])]
  <2>1. at = CHOOSE a : a = [n \in Nat |-> IF n = 0 THEN s0 ELSE Next1(a[n - 1])]
    BY DEF Emitted, Unplaced
  <2> HIDE DEF at, s0, Next1
  <2> QED BY <1>4, <2>1, Zenon
<1> HIDE DEF at, s0, Next1
<1>6. at[0] = s0 /\ \A n \in Nat : at[n + 1] = Next1(at[n])
  BY <1>5
<1>7. \A n \in Nat : at[n] \in S
  <2> DEFINE T == {m \in Nat : at[m] \in S}
  <2>1. 0 \in T
    BY <1>6 DEF s0
  <2>2. ASSUME NEW n \in Nat, n \in T PROVE n + 1 \in T
    BY <1>1, <1>6, <2>2
  <2> HIDE DEF T
  <2>3. \A n \in Nat : n \in T
    BY <2>1, <2>2, EveryNatural
  <2> QED BY <2>3 DEF T
<1> QED BY <1>6, <1>7 DEF at, s0, Next1

(* It starts with nothing placed and the parents of each utterance counted.  *)
LEMMA UnplacedStarts ==
    ASSUME TypeOK, NEW g \in Graph
    PROVE  Unplaced(g) \in KahnState(g.has)
<1>1. ASSUME NEW h \in g.has PROVE Cardinality(said[h]) \in Int
  <2>1. g.has \subseteq Hash /\ said[h] \subseteq Hash
    BY DEF Graph, TypeOK
  <2>2. IsFiniteSet(said[h])
    BY <2>1, HistoryAssumption, FS_Subset
  <2> QED BY <2>2, FS_CardinalityType
<1> QED BY <1>1 DEF KahnState, Unplaced

(* There are finitely many hashes, so any set of them can be counted.        *)
LEMMA CountIsNatural ==
    ASSUME NEW S \in SUBSET Hash
    PROVE  IsFiniteSet(S) /\ Cardinality(S) \in Nat
  BY HistoryAssumption, FS_Subset, FS_CardinalityType

(* The timeline lists utterances of the graph.                               *)
LEMMA TimelineIsOfTheGraph ==
    ASSUME TypeOK, NEW g \in Graph
    PROVE  LinearExtension(g) \in Seq(g.has)
<1>1. Unplaced(g) \in KahnState(g.has)
  BY UnplacedStarts
<1>2. \A s \in KahnState(g.has) : s.ready # {} => Emit(g, s) \in KahnState(g.has)
  BY EmitStays
<1>3. \A n \in Nat : Emitted(g)[n] \in KahnState(g.has)
  BY <1>1, <1>2, EmittedRun
<1>4. Cardinality(g.has) \in Nat
  BY CountIsNatural DEF Graph
<1> QED BY <1>3, <1>4 DEF LinearExtension, KahnState

(* In the order of the hashes every utterance of a set is listed.            *)
LEMMA HashOrderIsOfTheSet ==
    ASSUME NEW S \in SUBSET Hash
    PROVE  InHashOrder(S) \in Seq(S)
<1> DEFINE Below(h) == {k \in S : k < h}
           rank == [h \in S |-> Cardinality(Below(h))]
           n == Cardinality(S)
<1>1. IsFiniteSet(S) /\ n \in Nat /\ S \subseteq Nat
  BY HistoryAssumption, FS_Subset, FS_CardinalityType
<1>2. ASSUME NEW h \in S
      PROVE  /\ IsFiniteSet(Below(h)) /\ Cardinality(Below(h)) \in Nat
             /\ Cardinality(Below(h)) < n
  <2>1. Below(h) \subseteq S /\ h \notin Below(h)
    BY <1>1
  <2> HIDE DEF Below
  <2> QED BY <1>1, <2>1, FS_Subset, FS_CardinalityType
<1>3. ASSUME NEW h \in S, NEW k \in S, h < k PROVE rank[h] < rank[k]
  <2>1. Below(h) \subseteq Below(k) /\ h \in Below(k) /\ h \notin Below(h)
    <3>1. h \in Nat /\ k \in Nat /\ S \subseteq Nat
      BY <1>1
    <3>2. \A x \in S : x < h => x < k
      BY <1>3, <3>1
    <3>3. ~(h < h)
      BY <3>1
    <3>4. Below(h) \subseteq Below(k)
      BY <3>2
    <3>5. h \in Below(k)
      BY <1>3
    <3>6. h \notin Below(h)
      BY <3>3
    <3> QED BY <3>4, <3>5, <3>6
  <2>2. IsFiniteSet(Below(k)) /\ rank[h] = Cardinality(Below(h)) /\ rank[k] = Cardinality(Below(k))
    BY <1>2
  <2> HIDE DEF Below, rank
  <2>3. /\ IsFiniteSet(Below(h)) /\ Cardinality(Below(h)) <= Cardinality(Below(k))
        /\ Cardinality(Below(h)) # Cardinality(Below(k))
    BY <2>1, <2>2, FS_Subset
  <2>4. Cardinality(Below(h)) \in Nat /\ Cardinality(Below(k)) \in Nat
    BY <2>2, <2>3, FS_CardinalityType
  <2> QED BY <2>2, <2>3, <2>4
<1>4. rank \in [S -> 0..(n - 1)]
  <2>1. \A h \in S : Cardinality(Below(h)) \in 0..(n - 1)
    BY <1>1, <1>2
  <2> HIDE DEF Below
  <2> QED BY <2>1
<1>5. \A h, k \in S : rank[h] = rank[k] => h = k
  <2> SUFFICES ASSUME NEW h \in S, NEW k \in S, rank[h] = rank[k], h # k PROVE FALSE
    OBVIOUS
  <2>1. h < k \/ k < h
    BY <1>1
  <2>2. rank[h] \in Nat /\ rank[k] \in Nat
    BY <1>1, <1>4
  <2> HIDE DEF rank
  <2> QED BY <1>3, <2>1, <2>2
<1> HIDE DEF rank
<1>6. rank \in Injection(S, 0..(n - 1))
  BY <1>4, <1>5 DEF Injection, IsInjective
<1>7. IsFiniteSet(0..(n - 1)) /\ Cardinality(0..(n - 1)) = n
  <2>1. 0 \in Int /\ n - 1 \in Int /\ n \in Nat
    BY <1>1
  <2> HIDE DEF n
  <2>2. /\ IsFiniteSet(0..(n - 1))
        /\ Cardinality(0..(n - 1)) = IF 0 > n - 1 THEN 0 ELSE (n - 1) - 0 + 1
    BY <2>1, FS_Interval
  <2> QED BY <2>1, <2>2
<1>8. rank \in Surjection(S, 0..(n - 1))
  BY <1>6, <1>7, FS_Injection
<1>9. ASSUME NEW i \in 1..n PROVE \E h \in S : Cardinality(Below(h)) = i - 1
  <2>1. i - 1 \in 0..(n - 1)
    BY <1>1
  <2>2. PICK h \in S : rank[h] = i - 1
    BY <1>8, <2>1 DEF Surjection
  <2> QED BY <2>2 DEF rank
<1> DEFINE order == [i \in 1..n |-> CHOOSE h \in S : Cardinality(Below(h)) = i - 1]
<1>10. order \in [1..n -> S]
  <2>1. ASSUME NEW i \in 1..n PROVE (CHOOSE h \in S : Cardinality(Below(h)) = i - 1) \in S
    <3> HIDE DEF Below
    <3> QED BY <1>9
  <2> HIDE DEF Below
  <2> QED BY <2>1
<1> HIDE DEF order, n
<1>11. order \in Seq(S)
  BY <1>1, <1>10, SeqDef
<1> QED BY <1>11 DEF InHashOrder, order, n

-----------------------------------------------------------------------------
(* Steps. *)

(* What is said and known of utterances stays, whatever else is said.        *)
LEMMA ClosedStays ==
    ASSUME NEW g, NEW names, NEW names2, NEW parents, NEW parents2, NEW had, NEW had2,
           ClosedIn(g, names, parents, had), names \subseteq names2,
           \A h \in names : parents2[h] = parents[h] /\ had2[h] = had[h]
    PROVE  ClosedIn(g, names2, parents2, had2)
<1>1. \A h \in g.has : parents2[h] = parents[h] /\ had2[h] = had[h]
  BY DEF ClosedIn
<1>2. ASSUME NEW x \in Hash PROVE g.kids[x] = {h \in g.has : x \in parents2[h]}
  BY <1>1 DEF ClosedIn
<1>3. ASSUME NEW h \in g.has PROVE \E k \in Heads(g) : h = k \/ h \in had2[k]
  <2>1. PICK k \in Heads(g) : h = k \/ h \in had[k]
    BY DEF ClosedIn
  <2>2. k \in g.has
    BY DEF Heads
  <2> QED BY <1>1, <2>1, <2>2
<1> QED BY <1>1, <1>2, <1>3 DEF ClosedIn

(* The heads and what their authors had is all there is.                     *)
LEMMA HeadsCover ==
    ASSUME NEW g, Closed(g)
    PROVE  g.has = Heads(g) \union UNION {before[x] : x \in Heads(g)}
<1>1. \A h \in g.has : \E k \in Heads(g) : h = k \/ h \in before[k]
  BY DEF Closed, ClosedIn
<1>2. \A k \in Heads(g) : k \in g.has
  BY DEF Heads
<1>3. \A k \in g.has : before[k] \subseteq g.has
  BY DEF Closed, ClosedIn
<1> QED BY <1>1, <1>2, <1>3

(* The utterances one call of record says: what the author of the i-th says  *)
(* it after, all that it had, and that one with that hash was said so.       *)
After(g, hs, i) == IF i = 1 THEN Heads(g) ELSE {hs[i - 1]}
Had(g, hs, i) == g.has \union {hs[j] : j \in 1..(i - 1)}
Said(hs) == {hs[i] : i \in 1..Len(hs)}
SaidSo(g, hs) ==
    \A i \in 1..Len(hs) : hs[i] \in minted => said[hs[i]] = After(g, hs, i)

(* None is in the graph yet; one said already elsewhere was said after all   *)
(* that this graph holds.                                                    *)
LEMMA RecordFacts ==
    ASSUME HInv, NEW p \in Peer, NEW hs \in Seq(Hash), IsInjective(hs), SaidSo(graph[p], hs)
    PROVE  \A i \in 1..Len(hs) :
             /\ hs[i] \in Hash /\ hs[i] \notin graph[p].has
             /\ hs[i] \in minted => before[hs[i]] = Had(graph[p], hs, i)
<1> DEFINE g == graph[p]
           n == Len(hs)
           B(i) == g.has \union {hs[j] : j \in 1..(i - 1)}
<1>0. \A i \in 1..n : hs[i] \in minted =>
          said[hs[i]] = IF i = 1 THEN Heads(g) ELSE {hs[i - 1]}
  BY DEF SaidSo, After
<1>1. Closed(g) /\ SaidAfter /\ n \in Nat /\ \A i \in 1..n : hs[i] \in Hash
  BY DEF HInv
<1>2. g.has = Heads(g) \union UNION {before[x] : x \in Heads(g)}
  BY <1>1, HeadsCover
<1>3. \A i \in 1..n : hs[i] \notin g.has
  <2> DEFINE Bad == {i \in 1..n : hs[i] \in g.has}
  <2> SUFFICES ASSUME Bad # {} PROVE FALSE
    OBVIOUS
  <2>1. PICK i \in Bad : \A j \in Bad : i <= j
    <3>1. Bad \subseteq Nat
      OBVIOUS
    <3> HIDE DEF Bad
    <3> QED BY <3>1, LeastExists
  <2>2. hs[i] \in g.has /\ hs[i] \in minted /\ said[hs[i]] \subseteq g.has
    BY <1>1, <2>1 DEF Closed, ClosedIn
  <2>3. CASE i = 1
    <3>1. said[hs[1]] = Heads(g)
      BY <1>0, <2>1, <2>2, <2>3
    <3>2. PICK x \in Heads(g) : TRUE
      BY <1>1, <2>2 DEF Closed, ClosedIn
    <3>3. x \in Hash /\ x \in g.has /\ g.kids[x] = {}
      BY <1>1, <3>2 DEF Heads, Closed, ClosedIn, Graph
    <3>4. hs[1] \in g.kids[x]
      BY <1>1, <2>2, <2>3, <3>1, <3>2, <3>3 DEF Closed, ClosedIn
    <3> QED BY <3>3, <3>4
  <2>4. CASE i # 1
    <3>1. said[hs[i]] = {hs[i - 1]}
      BY <1>0, <2>1, <2>2, <2>4
    <3>2. i - 1 \in 1..n /\ ~(i <= i - 1)
      BY <1>1, <2>1, <2>4
    <3>3. i - 1 \in Bad
      BY <2>2, <3>1, <3>2
    <3> QED BY <2>1, <3>2, <3>3
  <2> QED BY <2>3, <2>4
<1>4. \A i \in 1..n : hs[i] \in minted => before[hs[i]] = B(i)
  <2> DEFINE Bad == {i \in 1..n : hs[i] \in minted /\ before[hs[i]] # B(i)}
  <2> SUFFICES ASSUME Bad # {} PROVE FALSE
    OBVIOUS
  <2>1. PICK i \in Bad : \A j \in Bad : i <= j
    <3>1. Bad \subseteq Nat
      OBVIOUS
    <3> HIDE DEF Bad
    <3> QED BY <3>1, LeastExists
  <2>2. i \in 1..n /\ hs[i] \in minted /\ before[hs[i]] # B(i)
    BY <2>1
  <2>3. /\ before[hs[i]] = said[hs[i]] \union UNION {before[x] : x \in said[hs[i]]}
        /\ said[hs[i]] \subseteq minted
    BY <1>1, <2>2 DEF SaidAfter
  <2>4. CASE i = 1
    <3>1. said[hs[1]] = Heads(g)
      BY <1>0, <2>2, <2>4
    <3>2. B(1) = g.has
      OBVIOUS
    <3> HIDE DEF B
    <3> QED BY <1>2, <2>2, <2>3, <2>4, <3>1, <3>2
  <2>5. CASE i # 1
    <3>1. said[hs[i]] = {hs[i - 1]}
      BY <1>0, <2>2, <2>5
    <3>2. i - 1 \in 1..n /\ ~(i <= i - 1) /\ hs[i - 1] \in minted
      BY <1>1, <2>2, <2>3, <2>5, <3>1
    <3>3. before[hs[i - 1]] = B(i - 1)
      BY <2>1, <3>2
    <3>4. before[hs[i]] = {hs[i - 1]} \union before[hs[i - 1]]
      BY <2>3, <3>1
    <3>5. B(i) = {hs[i - 1]} \union B(i - 1)
      <4>1. \A j \in 1..(i - 1) : j = i - 1 \/ j \in 1..((i - 1) - 1)
        BY <3>2
      <4>2. \A j \in 1..((i - 1) - 1) : j \in 1..(i - 1)
        BY <3>2
      <4>3. i - 1 \in 1..(i - 1)
        BY <3>2
      <4> QED BY <4>1, <4>2, <4>3
    <3> HIDE DEF B
    <3> QED BY <2>2, <3>3, <3>4, <3>5
  <2> QED BY <2>4, <2>5
<1> QED BY <1>1, <1>3, <1>4 DEF Had

(* What record is given names for is a sequence of hashes of that length.    *)
LEMMA FreshIsSeq ==
    ASSUME NEW n, NEW hs \in Fresh(n)
    PROVE  hs \in Seq(Hash) /\ Len(hs) = n
<1>1. PICK m \in 0..n : hs \in [1..m -> Hash]
  BY DEF Fresh, BoundedSeq, SeqOf
<1>2. m \in Nat
  BY <1>1
<1>3. hs \in Seq(Hash)
  BY <1>1, <1>2, SeqDef
<1> QED BY <1>3 DEF Fresh

(* What a call of record does, utterance by utterance.                       *)
LEMMA RecordEffect ==
    ASSUME HInv, NEW p \in Peer, NEW entries \in Entries,
           NEW hs \in Fresh(Len(Kept(entries))), Record(p, entries, hs)
    PROVE  /\ \A i \in 1..Len(hs) : /\ said'[hs[i]] = After(graph[p], hs, i)
                                    /\ before'[hs[i]] = Had(graph[p], hs, i)
           /\ \A h \in Hash \ Said(hs) : said'[h] = said[h] /\ before'[h] = before[h]
           /\ minted' = minted \union Said(hs)
           /\ \A q \in Peer \ {p} : graph'[q] = graph[q]
           /\ graph'[p].has = graph[p].has \union Said(hs)
           /\ graph'[p].kids \in [Hash -> SUBSET Hash] /\ graph'[p] \in Graph
           /\ \A x \in Hash : graph'[p].kids[x] =
                  graph[p].kids[x] \union {h \in Said(hs) : x \in said'[h]}
           /\ TypeOK' /\ file' = file
<1> DEFINE g == graph[p]
           n == Len(hs)
           At(h) == CHOOSE i \in 1..n : hs[i] = h
           New == Said(hs)
<1>1. hs \in Seq(Hash) /\ n = Len(Kept(entries)) /\ n \in Nat /\ New \subseteq Hash
      /\ \A i \in 1..n : hs[i] \in Hash
  <2>1. hs \in Seq(Hash) /\ n = Len(Kept(entries))
    BY FreshIsSeq
  <2>2. n \in Nat /\ \A i \in 1..n : hs[i] \in Hash
    BY <2>1
  <2> QED BY <2>1, <2>2 DEF Said
<1>2. /\ g \in Graph /\ g.has \subseteq Hash /\ g.kids \in [Hash -> SUBSET Hash]
      /\ Heads(g) \subseteq Hash
  BY DEF HInv, TypeOK, Graph, Heads
<1>3. \A i \in 1..n : At(hs[i]) = i
  BY <1>1 DEF Record, IsInjective
<1>4. /\ said' = [h \in Hash |-> IF h \in New THEN After(g, hs, At(h)) ELSE said[h]]
      /\ before' = [h \in Hash |-> IF h \in New THEN Had(g, hs, At(h)) ELSE before[h]]
      /\ minted' = minted \union New
      /\ graph' = [graph EXCEPT ![p] =
             [has  |-> g.has \union New,
              kids |-> [x \in Hash |-> g.kids[x] \union {h \in New : x \in After(g, hs, At(h))}]]]
      /\ file' = file
  BY <1>1 DEF Record, After, Had, Said
<1> HIDE DEF At, n, g
<1>5. \A i \in 1..n : hs[i] \in New /\ hs[i] \in Hash
  BY <1>1 DEF Said, n
<1>6. \A h \in New : \E i \in 1..n : h = hs[i]
  BY DEF Said, n
<1> HIDE DEF New
<1>7. \A i \in 1..n : said'[hs[i]] = After(g, hs, i) /\ before'[hs[i]] = Had(g, hs, i)
  BY <1>3, <1>4, <1>5
<1>8. \A h \in Hash \ New : said'[h] = said[h] /\ before'[h] = before[h]
  BY <1>4
<1>9. \A i \in 1..n : After(g, hs, i) \subseteq Hash /\ Had(g, hs, i) \subseteq Hash
  <2>1. ASSUME NEW i \in 1..n PROVE After(g, hs, i) \subseteq Hash
    <3>1. CASE i = 1
      BY <1>2, <3>1 DEF After
    <3>2. CASE i # 1
      <4>1. i - 1 \in 1..n
        BY <1>1, <3>2
      <4> QED BY <1>1, <3>2, <4>1 DEF After
    <3> QED BY <3>1, <3>2
  <2>2. ASSUME NEW i \in 1..n PROVE Had(g, hs, i) \subseteq Hash
    <3>1. \A j \in 1..(i - 1) : j \in 1..n
      BY <1>1
    <3> QED BY <1>1, <1>2, <3>1 DEF Had
  <2> QED BY <2>1, <2>2
<1>10. \A h \in New : After(g, hs, At(h)) \subseteq Hash /\ Had(g, hs, At(h)) \subseteq Hash
  BY <1>3, <1>6, <1>9
<1>11. said' \in [Hash -> SUBSET Hash] /\ before' \in [Hash -> SUBSET Hash]
  BY <1>4, <1>10 DEF HInv, TypeOK
<1> DEFINE u == [has  |-> g.has \union New,
                 kids |-> [x \in Hash |-> g.kids[x] \union {h \in New : x \in After(g, hs, At(h))}]]
<1>12. u \in Graph /\ u.has = g.has \union New /\ u.kids \in [Hash -> SUBSET Hash]
  BY <1>1, <1>2 DEF Graph
<1>13. \A x \in Hash : u.kids[x] = g.kids[x] \union {h \in New : x \in said'[h]}
  <2>1. \A h \in New : said'[h] = After(g, hs, At(h))
    BY <1>3, <1>6, <1>7
  <2> QED BY <2>1
<1>14. graph' = [graph EXCEPT ![p] = u]
  BY <1>4
<1> HIDE DEF u
<1>15. graph \in [Peer -> Graph]
  BY DEF HInv, TypeOK
<1>16. graph'[p] = u /\ graph' \in [Peer -> Graph] /\ \A q \in Peer \ {p} : graph'[q] = graph[q]
  BY <1>12, <1>14, <1>15
<1>17. TypeOK'
  BY <1>1, <1>4, <1>11, <1>16 DEF HInv, TypeOK
<1> QED BY <1>4, <1>7, <1>8, <1>12, <1>13, <1>16, <1>17 DEF g, n, New

(* Recording: the last utterance said becomes a head over all there was.     *)
LEMMA RecordKeepsHInv ==
    ASSUME HInv, NEW p \in Peer, NEW entries \in Entries,
           NEW hs \in Fresh(Len(Kept(entries))), Record(p, entries, hs)
    PROVE  HInv'
<1> DEFINE g == graph[p]
           n == Len(hs)
           New == Said(hs)
           G == graph'[p]
<1>1. hs \in Seq(Hash) /\ n = Len(Kept(entries)) /\ n \in Nat
  <2>1. hs \in Seq(Hash) /\ n = Len(Kept(entries))
    BY FreshIsSeq
  <2> QED BY <2>1
<1>2. /\ IsInjective(hs)
      /\ \A i \in 1..n : hs[i] \in minted =>
             said[hs[i]] = IF i = 1 THEN Heads(g) ELSE {hs[i - 1]}
  BY <1>1 DEF Record
<1>3. /\ \A i \in 1..n : said'[hs[i]] = After(g, hs, i)
      /\ \A i \in 1..n : before'[hs[i]] = Had(g, hs, i)
      /\ \A h \in Hash \ New : said'[h] = said[h]
      /\ \A h \in Hash \ New : before'[h] = before[h]
      /\ minted' = minted \union New
      /\ \A q \in Peer \ {p} : graph'[q] = graph[q]
      /\ G.has = g.has \union New
      /\ G \in Graph
      /\ \A x \in Hash : G.kids[x] = g.kids[x] \union {h \in New : x \in said'[h]}
      /\ TypeOK'
      /\ file' = file
  BY RecordEffect
<1>4. /\ \A i \in 1..n : hs[i] \in Hash
      /\ \A i \in 1..n : hs[i] \notin g.has
      /\ \A i \in 1..n : hs[i] \in minted => before[hs[i]] = Had(g, hs, i)
      /\ \A i, j \in 1..n : hs[i] = hs[j] => i = j
  <2>1. SaidSo(g, hs)
    BY <1>2 DEF SaidSo, After
  <2>2. \A i \in 1..n : /\ hs[i] \in Hash /\ hs[i] \notin g.has
                        /\ hs[i] \in minted => before[hs[i]] = Had(g, hs, i)
    BY <1>1, <1>2, <2>1, RecordFacts
  <2>3. \A i, j \in 1..n : hs[i] = hs[j] => i = j
    BY <1>1, <1>2 DEF IsInjective
  <2> QED BY <2>2, <2>3
<1>5. Closed(g) /\ SaidAfter /\ minted \subseteq Hash /\ g.has \subseteq minted
      /\ g \in Graph /\ Heads(g) \subseteq g.has
  BY DEF HInv, TypeOK, Closed, ClosedIn, Heads
<1>6. \A i \in 1..n : said'[hs[i]] \subseteq Had(g, hs, i)
  <2>1. ASSUME NEW i \in 1..n PROVE After(g, hs, i) \subseteq Had(g, hs, i)
    <3>1. CASE i = 1
      BY <1>5, <3>1 DEF After, Had
    <3>2. CASE i # 1
      <4>1. i - 1 \in 1..(i - 1)
        BY <1>1, <3>2
      <4> QED BY <3>2, <4>1 DEF After, Had
    <3> QED BY <3>1, <3>2
  <2> QED BY <1>3, <2>1
<1>7. \A i \in 1..n : \A x \in Had(g, hs, i) : x \in g.has \/ \E j \in 1..n : j < i /\ x = hs[j]
  BY <1>1 DEF Had
<1>8. \A i, j \in 1..n : j < i => hs[j] \in Had(g, hs, i)
  <2>1. \A i, j \in 1..n : j < i => j \in 1..(i - 1)
    BY <1>1
  <2> QED BY <2>1 DEF Had
<1>9. \A i, j \in 1..n : j < i => Had(g, hs, j) \subseteq Had(g, hs, i)
  <2>1. \A i, j \in 1..n : j < i => \A k \in 1..(j - 1) : k \in 1..(i - 1)
    BY <1>1
  <2> QED BY <2>1 DEF Had
<1>10. \A i \in 1..n : g.has \subseteq Had(g, hs, i) /\ hs[i] \in New
  BY DEF Had, Said
<1>11. \A h \in New : \E i \in 1..n : h = hs[i]
  BY DEF Said
<1> HIDE DEF New, n
<1>12. \A h \in minted : said'[h] = said[h]
  <2> SUFFICES ASSUME NEW h \in minted, h \in New PROVE said'[h] = said[h]
    BY <1>3, <1>5
  <2>1. PICK i \in 1..n : h = hs[i]
    BY <1>11
  <2> QED BY <1>2, <1>3, <2>1 DEF After
<1>13. \A h \in minted : before'[h] = before[h]
  <2> SUFFICES ASSUME NEW h \in minted, h \in New PROVE before'[h] = before[h]
    BY <1>3, <1>5
  <2>1. PICK i \in 1..n : h = hs[i]
    BY <1>11
  <2> QED BY <1>3, <1>4, <2>1
<1>14. \A i \in 1..n : Had(g, hs, i) \subseteq g.has \union New
  BY <1>7, <1>10
<1>15. ASSUME NEW i \in 1..n
       PROVE  before'[hs[i]] = said'[hs[i]] \union UNION {before'[x] : x \in said'[hs[i]]}
  <2>1. before'[hs[i]] = Had(g, hs, i) /\ said'[hs[i]] = After(g, hs, i)
    BY <1>3
  <2>2. CASE i = 1
    <3>1. said'[hs[i]] = Heads(g)
      BY <2>1, <2>2 DEF After
    <3>2. Had(g, hs, i) = g.has
      BY <2>2 DEF Had
    <3>3. \A x \in Heads(g) : before'[x] = before[x]
      BY <1>5, <1>13
    <3>4. g.has = Heads(g) \union UNION {before[x] : x \in Heads(g)}
      BY <1>5, HeadsCover
    <3> QED BY <2>1, <3>1, <3>2, <3>3, <3>4
  <2>3. CASE i # 1
    <3>1. said'[hs[i]] = {hs[i - 1]}
      BY <2>1, <2>3 DEF After
    <3>2. i - 1 \in 1..n /\ i - 1 < i
      BY <1>1, <2>3
    <3>3. before'[hs[i - 1]] = Had(g, hs, i - 1)
      BY <1>3, <3>2
    <3>4. Had(g, hs, i) = {hs[i - 1]} \union Had(g, hs, i - 1)
      <4>1. \A j \in 1..(i - 1) : j = i - 1 \/ j \in 1..((i - 1) - 1)
        BY <3>2
      <4>2. \A j \in 1..((i - 1) - 1) : j \in 1..(i - 1)
        BY <3>2
      <4>3. i - 1 \in 1..(i - 1)
        BY <3>2
      <4> QED BY <4>1, <4>2, <4>3 DEF Had
    <3> QED BY <2>1, <3>1, <3>3, <3>4
  <2> QED BY <2>2, <2>3
<1>16. ASSUME NEW i \in 1..n, NEW x \in before'[hs[i]]
       PROVE  before'[x] \subseteq before'[hs[i]]
  <2>1. before'[hs[i]] = Had(g, hs, i)
    BY <1>3
  <2>2. CASE x \in g.has
    <3>1. before'[x] = before[x] /\ before[x] \subseteq g.has
      BY <1>5, <1>13, <2>2 DEF Closed, ClosedIn
    <3> QED BY <1>10, <2>1, <3>1
  <2>3. CASE x \notin g.has
    <3>1. PICK j \in 1..n : j < i /\ x = hs[j]
      BY <1>7, <2>1, <2>3
    <3>2. before'[x] = Had(g, hs, j)
      BY <1>3, <3>1
    <3> QED BY <1>9, <2>1, <3>1, <3>2
  <2> QED BY <2>2, <2>3
<1>17. ASSUME NEW i \in 1..n PROVE hs[i] \notin before'[hs[i]]
  <2>1. before'[hs[i]] = Had(g, hs, i)
    BY <1>3
  <2>2. \A j \in 1..n : j < i => j # i
    BY <1>1
  <2> QED BY <1>4, <1>7, <2>1, <2>2
<1>18. SaidAfter'
  <2> SUFFICES ASSUME NEW h \in minted'
               PROVE  /\ said'[h] \subseteq minted' /\ before'[h] \subseteq minted'
                      /\ before'[h] = said'[h] \union UNION {before'[x] : x \in said'[h]}
                      /\ \A x \in before'[h] : before'[x] \subseteq before'[h]
                      /\ h \notin before'[h]
    BY DEF SaidAfter
  <2>1. CASE h \in New
    <3>1. PICK i \in 1..n : h = hs[i]
      BY <1>11, <2>1
    <3>2. before'[h] \subseteq minted' /\ said'[h] \subseteq minted'
      BY <1>3, <1>5, <1>6, <1>14, <3>1
    <3> QED BY <1>15, <1>16, <1>17, <3>1, <3>2
  <2>2. CASE h \in minted
    <3>1. /\ said[h] \subseteq minted /\ before[h] \subseteq minted
          /\ before[h] = said[h] \union UNION {before[x] : x \in said[h]}
          /\ \A x \in before[h] : before[x] \subseteq before[h]
          /\ h \notin before[h]
      BY <1>5, <2>2 DEF SaidAfter
    <3>2. said'[h] = said[h] /\ before'[h] = before[h] /\ minted \subseteq minted'
      BY <1>3, <1>12, <1>13, <2>2
    <3>3. /\ \A x \in said[h] : before'[x] = before[x]
          /\ \A x \in before[h] : before'[x] = before[x]
      BY <1>13, <3>1
    <3> QED BY <3>1, <3>2, <3>3
  <2> QED BY <1>3, <2>1, <2>2
<1>19. ASSUME NEW q \in Peer \ {p} PROVE ClosedIn(graph'[q], minted', said', before')
  <2>1. graph'[q] = graph[q]
    BY <1>3
  <2>2. ClosedIn(graph[q], minted, said, before)
    BY DEF HInv, Closed
  <2>3. minted \subseteq minted'
    BY <1>3
  <2>4. \A h \in minted : said'[h] = said[h] /\ before'[h] = before[h]
    BY <1>12, <1>13
  <2> QED BY <2>1, <2>2, <2>3, <2>4, ClosedStays
<1>20. ClosedIn(G, minted', said', before')
  <2>1. \A h \in g.has : /\ said'[h] = said[h] /\ before'[h] = before[h]
                         /\ said[h] \subseteq g.has /\ before[h] \subseteq g.has
    BY <1>5, <1>12, <1>13 DEF Closed, ClosedIn
  <2>2. G.has \subseteq minted'
    BY <1>3, <1>5
  <2>3. ASSUME NEW h \in G.has PROVE said'[h] \subseteq G.has /\ before'[h] \subseteq G.has
    <3>1. CASE h \in g.has
      BY <1>3, <2>1, <3>1
    <3>2. CASE h \in New
      <4>1. PICK i \in 1..n : h = hs[i]
        BY <1>11, <3>2
      <4> QED BY <1>3, <1>6, <1>14, <4>1
    <3> QED BY <1>3, <3>1, <3>2
  <2>4. ASSUME NEW x \in Hash PROVE G.kids[x] = {h \in G.has : x \in said'[h]}
    <3>1. g.kids[x] = {h \in g.has : x \in said'[h]}
      BY <1>5, <2>1 DEF Closed, ClosedIn
    <3> QED BY <1>3, <3>1
  <2>5. ASSUME NEW h \in G.has PROVE \E k \in Heads(G) : h = k \/ h \in before'[k]
    <3>1. CASE n = 0
      <4>1. New = {}
        BY <1>11, <3>1
      <4>2. G.has = g.has /\ \A x \in Hash : G.kids[x] = g.kids[x]
        BY <1>3, <4>1
      <4>3. Heads(G) = Heads(g)
        BY <1>5, <4>2 DEF Heads, Graph
      <4>4. PICK k \in Heads(g) : h = k \/ h \in before[k]
        BY <1>5, <4>2 DEF Closed, ClosedIn
      <4> QED BY <1>5, <2>1, <4>3, <4>4
    <3>2. CASE n # 0
      <4> DEFINE k == hs[n]
      <4>1. n \in 1..n /\ k \in New /\ k \in Hash /\ k \notin g.has
        BY <1>1, <1>4, <1>10, <3>2
      <4>2. ASSUME NEW x \in G.has PROVE k \notin said'[x]
        <5>1. CASE x \in g.has
          BY <2>1, <4>1, <5>1
        <5>2. CASE x \in New
          <6>1. PICK i \in 1..n : x = hs[i]
            BY <1>11, <5>2
          <6>2. \A j \in 1..n : j < i => j # n
            BY <1>1
          <6> QED BY <1>4, <1>6, <1>7, <4>1, <6>1, <6>2
        <5> QED BY <1>3, <5>1, <5>2
      <4>3. k \in Heads(G)
        BY <1>3, <2>4, <4>1, <4>2 DEF Heads
      <4>4. \A i \in 1..n : i = n \/ i < n
        BY <1>1
      <4>5. h = k \/ h \in Had(g, hs, n)
        <5>1. CASE h \in g.has
          BY <1>10, <4>1, <5>1
        <5>2. CASE h \in New
          <6>1. PICK i \in 1..n : h = hs[i]
            BY <1>11, <5>2
          <6> QED BY <1>8, <4>1, <4>4, <6>1
        <5> QED BY <1>3, <5>1, <5>2
      <4> QED BY <1>3, <4>1, <4>3, <4>5
    <3> QED BY <3>1, <3>2
  <2> QED BY <1>3, <2>2, <2>3, <2>4, <2>5 DEF ClosedIn
<1>21. \A q \in Peer : file'[q] \in Seq(minted')
  <2>1. \A q \in Peer : file[q] \in Seq(minted)
    BY DEF HInv
  <2>2. minted \subseteq minted'
    BY <1>3
  <2> QED BY <1>3, <2>1, <2>2, SeqDef
<1> QED BY <1>3, <1>18, <1>19, <1>20, <1>21 DEF HInv, Closed

(* Reading a graph changes nothing else, so the invariant follows from what  *)
(* the new graph is.                                                         *)
LEMMA GraphChanges ==
    ASSUME HInv, NEW p \in Peer, NEW g, Closed(g), graph' = [graph EXCEPT ![p] = g],
           UNCHANGED <<file, minted, said, before>>
    PROVE  HInv'
<1>1. g \in Graph /\ graph \in [Peer -> Graph]
  BY DEF Closed, ClosedIn, HInv, TypeOK
<1>2. graph' \in [Peer -> Graph] /\ \A q \in Peer : graph'[q] = IF q = p THEN g ELSE graph[q]
  BY <1>1
<1>3. TypeOK'
  BY <1>2 DEF HInv, TypeOK
<1>4. SaidAfter'
  BY DEF HInv, SaidAfter
<1>5. \A q \in Peer : ClosedIn(graph'[q], minted, said, before)
  BY <1>2 DEF HInv, Closed
<1> QED BY <1>3, <1>4, <1>5 DEF HInv, Closed

(* Undamaged utterances of a list.                                           *)
LEMMA SoundIsBag ==
    ASSUME NEW hs \in Seq(minted)
    PROVE  Sound(hs) \in Seq(Bag)
<1>1. Len(hs) \in Nat /\ DOMAIN hs = 1..Len(hs) /\ \A i \in 1..Len(hs) : hs[i] \in minted
  OBVIOUS
<1>2. \A i \in 1..Len(hs) : [hash |-> hs[i], ok |-> TRUE] \in Bag
  BY <1>1 DEF Bag
<1>3. Sound(hs) \in [1..Len(hs) -> Bag]
  BY <1>1, <1>2 DEF Sound
<1> QED BY <1>1, <1>3, SeqDef

(* What arrives is a sequence of utterances that were said, damaged or not.  *)
LEMMA InboxIsBag ==
    ASSUME NEW inbox \in Inboxes
    PROVE  inbox \in Seq(Bag)
<1>1. PICK m \in 0..MaxInbox : inbox \in [1..m -> Bag]
  BY DEF Inboxes, BoundedSeq, SeqOf, Bag
<1>2. m \in Nat
  BY <1>1
<1> QED BY <1>1, <1>2, SeqDef

(* Receiving whatever the transport brings.                                  *)
LEMMA ReceiveKeepsHInv ==
    ASSUME HInv, NEW p \in Peer, NEW inbox \in Inboxes, Receive(p, inbox)
    PROVE  HInv'
<1>1. inbox \in Seq(Bag)
  BY InboxIsBag
<1>2. TypeOK /\ SaidAfter /\ Closed(graph[p])
  BY DEF HInv
<1>3. Closed(Received(graph[p], inbox).g)
  BY <1>1, <1>2, ReceivedIsClosed
<1> QED BY <1>3, GraphChanges DEF Receive

(* Absorbing another peer's history.                                         *)
LEMMA AbsorbKeepsHInv ==
    ASSUME HInv, NEW p \in Peer, NEW q \in Peer, Absorb(p, q)
    PROVE  HInv'
<1>1. TypeOK /\ SaidAfter /\ Closed(graph[p]) /\ Closed(graph[q])
  BY DEF HInv
<1> DEFINE hs == InHashOrder(graph[q].has)
<1>2. graph[q].has \subseteq minted /\ graph[q].has \subseteq Hash
  BY <1>1 DEF Closed, ClosedIn, Graph
<1>3. hs \in Seq(graph[q].has)
  BY <1>2, HashOrderIsOfTheSet
<1> HIDE DEF hs
<1>4. hs \in Seq(minted)
  BY <1>2, <1>3, SeqDef
<1>5. Closed(Received(graph[p], Sound(hs)).g)
  BY <1>1, <1>4, SoundIsBag, ReceivedIsClosed
<1> QED BY <1>5, GraphChanges DEF Absorb, hs

(* Writing the timeline.                                                     *)
LEMMA SaveKeepsHInv ==
    ASSUME HInv, NEW p \in Peer, Save(p)
    PROVE  HInv'
<1> DEFINE t == LinearExtension(graph[p])
<1>1. TypeOK /\ Closed(graph[p]) /\ graph[p] \in Graph /\ graph[p].has \subseteq minted
  BY DEF HInv, Closed, ClosedIn
<1>2. t \in Seq(graph[p].has)
  BY <1>1, TimelineIsOfTheGraph
<1>3. file' = [file EXCEPT ![p] = t]
  BY DEF Save
<1> HIDE DEF t
<1>4. t \in Seq(minted) /\ minted \subseteq Hash
  BY <1>1, <1>2, SeqDef DEF TypeOK
<1>5. t \in Seq(Hash)
  BY <1>4, SeqDef
<1>6. file' \in [Peer -> Seq(Hash)]
  BY <1>1, <1>3, <1>5 DEF TypeOK
<1>7. \A q \in Peer : file'[q] \in Seq(minted)
  BY <1>1, <1>3, <1>4 DEF HInv, TypeOK
<1>8. UNCHANGED <<graph, minted, said, before>>
  BY DEF Save
<1>9. TypeOK' /\ SaidAfter'
  BY <1>1, <1>6, <1>8 DEF HInv, TypeOK, SaidAfter
<1>10. \A q \in Peer : ClosedIn(graph[q], minted, said, before)
  BY DEF HInv, Closed
<1> QED BY <1>7, <1>8, <1>9, <1>10 DEF HInv, Closed

(* The history of a new device.                                              *)
LEMMA EmptyIsClosed == Closed(EmptyGraph)
  BY DEF Closed, ClosedIn, EmptyGraph, Graph, Heads

(* Starting again from the file, whole or with an entry lost.                *)
LEMMA ReopenKeepsHInv ==
    ASSUME HInv, NEW p \in Peer, NEW i \in 0..Len(file[p]), Reopen(p, i)
    PROVE  HInv'
<1> DEFINE hs == RemoveAt(file[p], i)
           r == Received(EmptyGraph, Sound(hs))
<1>1. TypeOK /\ SaidAfter /\ file[p] \in Seq(minted)
  BY DEF HInv
<1>2. hs \in Seq(minted)
  <2>1. SubSeq(file[p], 1, i - 1) \in Seq(minted)
    BY <1>1
  <2>2. SubSeq(file[p], i + 1, Len(file[p])) \in Seq(minted)
    BY <1>1
  <2> QED BY <2>1, <2>2, ConcatProperties DEF RemoveAt
<1> HIDE DEF hs
<1>3. Closed(r.g)
  BY <1>1, <1>2, SoundIsBag, EmptyIsClosed, ReceivedIsClosed
<1>4. Closed(Loaded(hs).g)
  BY <1>3, EmptyIsClosed DEF Loaded
<1> QED BY <1>4, GraphChanges DEF Reopen, hs

(* So every step keeps the invariant.                                        *)
LEMMA NextKeepsHInv == HInv /\ [Next]_vars => HInv'
<1> SUFFICES ASSUME HInv, [Next]_vars PROVE HInv'
  OBVIOUS
<1>1. CASE UNCHANGED vars
  BY <1>1 DEF vars, HInv, TypeOK, SaidAfter, Closed
<1>2. ASSUME NEW p \in Peer, NEW entries \in Entries,
             NEW hs \in Fresh(Len(Kept(entries))), Record(p, entries, hs)
      PROVE  HInv'
  BY <1>2, RecordKeepsHInv
<1>3. ASSUME NEW p \in Peer, NEW inbox \in Inboxes, Receive(p, inbox) PROVE HInv'
  BY <1>3, ReceiveKeepsHInv
<1>4. ASSUME NEW p \in Peer, NEW q \in Peer, Absorb(p, q) PROVE HInv'
  BY <1>4, AbsorbKeepsHInv
<1>5. ASSUME NEW p \in Peer, Save(p) PROVE HInv'
  BY <1>5, SaveKeepsHInv
<1>6. ASSUME NEW p \in Peer, NEW i \in 0..Len(file[p]), Reopen(p, i) PROVE HInv'
  BY <1>6, ReopenKeepsHInv
<1> QED BY <1>1, <1>2, <1>3, <1>4, <1>5, <1>6 DEF Next

(* It holds of new devices.                                                  *)
LEMMA InitHInv == Init => HInv
<1> SUFFICES ASSUME Init PROVE HInv
  OBVIOUS
<1>1. EmptyGraph \in Graph /\ <<>> \in Seq(Hash) /\ <<>> \in Seq(minted)
  BY DEF EmptyGraph, Graph
<1>2. TypeOK
  BY <1>1 DEF Init, TypeOK
<1>3. SaidAfter
  BY DEF Init, SaidAfter
<1> QED BY <1>1, <1>2, <1>3, EmptyIsClosed DEF Init, HInv

(* Always, whatever is recorded, received, written and read back.            *)
LEMMA HInvAlways == Spec => []HInv
  BY InitHInv, NextKeepsHInv, PTL DEF Spec

(* cut_name may be made of the heads alone: two peers with the same heads    *)
(* hold the same utterances.                                                 *)
THEOREM HeadsStandForAll == Spec => []HeadsNameTheCut
<1>1. HInv => HeadsNameTheCut
  <2> SUFFICES ASSUME HInv, NEW p \in Peer, NEW q \in Peer,
                      Heads(graph[p]) = Heads(graph[q])
               PROVE  graph[p].has = graph[q].has
    BY DEF HeadsNameTheCut
  <2>1. Closed(graph[p]) /\ Closed(graph[q])
    BY DEF HInv
  <2> QED BY <2>1, HeadsCover
<1> QED BY <1>1, HInvAlways, PTL

-----------------------------------------------------------------------------
(* Ancestry. *)

(* Of any utterances there is one whose author had none of the others: the   *)
(* one whose author had the fewest.                                          *)
LEMMA EarliestExists ==
    ASSUME TypeOK, SaidAfter, NEW U \in SUBSET minted, U # {}
    PROVE  \E x \in U : \A y \in before[x] : y \notin U
<1> DEFINE Sizes == {Cardinality(before[x]) : x \in U}
<1>1. \A x \in minted : IsFiniteSet(before[x]) /\ Cardinality(before[x]) \in Nat
  BY CountIsNatural DEF TypeOK
<1>2. Sizes \subseteq Nat /\ Sizes # {}
  BY <1>1
<1>3. PICK c \in Sizes : \A d \in Sizes : c <= d
  <2> HIDE DEF Sizes
  <2> QED BY <1>2, LeastExists
<1>4. PICK x \in U : c = Cardinality(before[x])
  OBVIOUS
<1>5. ASSUME NEW y \in before[x], y \in U PROVE FALSE
  <2>1. before[y] \subseteq before[x] /\ y \notin before[y]
    BY <1>5 DEF SaidAfter
  <2>2. /\ Cardinality(before[y]) <= Cardinality(before[x])
        /\ Cardinality(before[y]) = Cardinality(before[x]) => before[y] = before[x]
    BY <1>1, <2>1, FS_Subset
  <2>3. c <= Cardinality(before[y])
    BY <1>3, <1>5
  <2>4. Cardinality(before[y]) \in Nat /\ Cardinality(before[x]) \in Nat
    BY <1>1, <1>5
  <2> QED BY <1>4, <2>1, <2>2, <2>3, <2>4
<1> QED BY <1>5

(* A set with the parents of all its utterances has all their authors had.   *)
LEMMA ParentsReachAll ==
    ASSUME TypeOK, SaidAfter, NEW U \in SUBSET minted, \A x \in U : said[x] \subseteq U
    PROVE  \A x \in U : before[x] \subseteq U
<1> DEFINE Bad == {x \in U : ~(before[x] \subseteq U)}
<1> SUFFICES ASSUME Bad # {} PROVE FALSE
  OBVIOUS
<1>1. PICK x \in Bad : \A y \in before[x] : y \notin Bad
  <2>1. Bad \in SUBSET minted
    OBVIOUS
  <2> HIDE DEF Bad
  <2> QED BY <2>1, EarliestExists
<1>2. /\ before[x] = said[x] \union UNION {before[y] : y \in said[x]}
      /\ said[x] \subseteq U
  BY DEF SaidAfter
<1>3. ASSUME NEW y \in said[x] PROVE y \in U /\ before[y] \subseteq U
  BY <1>1, <1>2
<1> QED BY <1>2, <1>3

(* The walk to the roots ends within as many rounds as there are utterances, *)
(* and has then met all that the author had, and nothing else.               *)
LEMMA AncestorsAreBefore ==
    ASSUME TypeOK, SaidAfter, NEW g, Closed(g), NEW h \in g.has
    PROVE  Ancestors(g, h) = before[h]
<1> DEFINE S == SUBSET Hash
           step == [x \in S |-> Round(g, x)]
           up == Rounds(g, h)
           N == Cardinality(g.has)
<1>1. /\ said \in [Hash -> SUBSET Hash] /\ g.has \subseteq minted /\ minted \subseteq Hash
      /\ h \in minted /\ before[h] \subseteq g.has
      /\ before[h] = said[h] \union UNION {before[x] : x \in said[h]}
      /\ \A x \in before[h] : before[x] \subseteq before[h]
      /\ h \notin before[h]
      /\ \A x \in minted : said[x] \subseteq before[x]
  BY DEF TypeOK, Closed, ClosedIn, SaidAfter
<1>2. step \in [S -> S] /\ said[h] \in S
  <2>1. ASSUME NEW x \in S PROVE Round(g, x) \in S
    BY <1>1 DEF Round
  <2> QED BY <1>1, <2>1
<1>3. PICK f : Repeats(S, step, said[h], f)
  <2> HIDE DEF step, S
  <2> QED BY <1>2, StepsRepeat
<1>4. f = [n \in Nat |-> IF n = 0 THEN said[h] ELSE Round(g, f[n - 1])]
  <2>1. ASSUME NEW n \in Nat, n # 0 PROVE f[n] = Round(g, f[n - 1])
    <3>1. n - 1 \in Nat /\ (n - 1) + 1 = n
      BY <2>1
    <3>2. f[n - 1] \in S /\ f[n] = step[f[n - 1]]
      <4> HIDE DEF S, step
      <4> QED BY <1>3, <3>1 DEF Repeats
    <3> QED BY <3>2
  <2> HIDE DEF S, step
  <2> QED BY <1>3, <2>1 DEF Repeats
<1>5. up = [n \in Nat |-> IF n = 0 THEN said[h] ELSE Round(g, up[n - 1])]
  <2>1. up = CHOOSE a : a = [n \in Nat |-> IF n = 0 THEN said[h] ELSE Round(g, a[n - 1])]
    BY DEF Rounds
  <2> HIDE DEF up
  <2> QED BY <1>4, <2>1, Zenon
<1> HIDE DEF up, S, step
<1>6. up[0] = said[h] /\ \A n \in Nat : up[n + 1] = Round(g, up[n])
  BY <1>5
<1>7. \A n \in Nat : said[h] \subseteq up[n] /\ up[n] \subseteq before[h]
  <2> DEFINE T == {n \in Nat : said[h] \subseteq up[n] /\ up[n] \subseteq before[h]}
  <2>1. 0 \in T
    BY <1>1, <1>6
  <2>2. ASSUME NEW n \in Nat, n \in T PROVE n + 1 \in T
    <3>1. up[n + 1] = Round(g, up[n])
      BY <1>6
    <3>2. \A x \in up[n] : said[x] \subseteq before[h]
      BY <1>1, <2>2
    <3> QED BY <2>2, <3>1, <3>2 DEF Round
  <2> HIDE DEF T
  <2>3. \A n \in Nat : n \in T
    BY <2>1, <2>2, EveryNatural
  <2> QED BY <2>3 DEF T
<1>8. IsFiniteSet(g.has) /\ N \in Nat
  BY <1>1, HistoryAssumption, FS_Subset, FS_CardinalityType
<1>9. \A n \in Nat : IsFiniteSet(up[n]) /\ Cardinality(up[n]) \in Nat
  <2>1. ASSUME NEW n \in Nat PROVE up[n] \subseteq g.has
    BY <1>1, <1>7
  <2>2. ASSUME NEW n \in Nat PROVE IsFiniteSet(up[n])
    BY <1>8, <2>1, FS_Subset
  <2> QED BY <2>2, FS_CardinalityType
<1>10. \A n \in Nat : Round(g, up[n]) = up[n] \/ Cardinality(up[n]) >= n
  <2> DEFINE T == {n \in Nat : Round(g, up[n]) = up[n] \/ Cardinality(up[n]) >= n}
  <2>1. 0 \in T
    BY <1>9
  <2>2. ASSUME NEW n \in Nat, n \in T PROVE n + 1 \in T
    <3>1. up[n + 1] = Round(g, up[n])
      BY <1>6
    <3>2. CASE Round(g, up[n]) = up[n]
      BY <3>1, <3>2
    <3>3. CASE Round(g, up[n]) # up[n]
      <4>1. Cardinality(up[n]) >= n
        BY <2>2, <3>3
      <4>2. up[n] \subseteq up[n + 1] /\ up[n] # up[n + 1]
        BY <3>1, <3>3 DEF Round
      <4>3. IsFiniteSet(up[n + 1]) /\ Cardinality(up[n]) \in Nat /\ Cardinality(up[n + 1]) \in Nat
        BY <1>9
      <4>4. /\ Cardinality(up[n]) <= Cardinality(up[n + 1])
            /\ Cardinality(up[n]) = Cardinality(up[n + 1]) => up[n] = up[n + 1]
        BY <4>2, <4>3, FS_Subset
      <4>5. Cardinality(up[n + 1]) >= n + 1
        BY <4>1, <4>2, <4>3, <4>4
      <4> QED BY <4>5
    <3> QED BY <3>2, <3>3
  <2> HIDE DEF T
  <2>3. \A n \in Nat : n \in T
    BY <2>1, <2>2, EveryNatural
  <2> QED BY <2>3 DEF T
<1>11. Cardinality(up[N]) < N
  <2>1. up[N] \subseteq g.has /\ up[N] # g.has
    BY <1>1, <1>7, <1>8
  <2>2. /\ Cardinality(up[N]) <= Cardinality(g.has)
        /\ Cardinality(up[N]) = Cardinality(g.has) => up[N] = g.has
    BY <1>8, <2>1, FS_Subset
  <2>3. Cardinality(up[N]) \in Nat
    BY <1>8, <1>9
  <2> QED BY <1>8, <2>1, <2>2, <2>3
<1>12. Round(g, up[N]) = up[N]
  <2>1. Cardinality(up[N]) \in Nat
    BY <1>8, <1>9
  <2> QED BY <1>8, <1>10, <1>11, <2>1
<1>13. said[h] \subseteq up[N] /\ up[N] \subseteq before[h]
  BY <1>7, <1>8
<1>14. up[N] \subseteq minted /\ \A x \in up[N] : said[x] \subseteq up[N]
  BY <1>1, <1>12, <1>13 DEF Round
<1>15. \A x \in up[N] : before[x] \subseteq up[N]
  BY <1>14, ParentsReachAll
<1>16. before[h] \subseteq up[N]
  BY <1>1, <1>13, <1>15
<1> QED BY <1>13, <1>16 DEF Ancestors, up, N

(* What is_ancestor and concurrent answer is what the authors knew: to be an *)
(* ancestor of an utterance is exactly to have been there when it was said,  *)
(* on every peer that holds both.                                            *)
THEOREM AncestryIsWhatWasKnown == Spec => []AncestryIsKnowledge
<1>1. HInv => AncestryIsKnowledge
  <2> SUFFICES ASSUME HInv, NEW p \in Peer, NEW a \in graph[p].has, NEW h \in graph[p].has
               PROVE  /\ IsAncestor(graph[p], a, h) <=> a \in before[h]
                      /\ Concurrent(graph[p], a, h) <=>
                             a # h /\ a \notin before[h] /\ h \notin before[a]
    BY DEF AncestryIsKnowledge
  <2> DEFINE g == graph[p]
  <2>1. TypeOK /\ SaidAfter /\ Closed(g)
    BY DEF HInv
  <2>2. Ancestors(g, h) = before[h] /\ Ancestors(g, a) = before[a]
    BY <2>1, AncestorsAreBefore
  <2>3. h \notin before[h] /\ a \notin before[a]
    BY <2>1 DEF SaidAfter, Closed, ClosedIn
  <2>4. IsAncestor(g, a, h) <=> a \in before[h]
    BY <2>2, <2>3 DEF IsAncestor
  <2>5. IsAncestor(g, h, a) <=> h \in before[a]
    BY <2>2, <2>3 DEF IsAncestor
  <2> QED BY <2>4, <2>5 DEF Concurrent
<1> QED BY <1>1, HInvAlways, PTL

-----------------------------------------------------------------------------
(* The timeline. *)

Placed(s) == {s.order[i] : i \in 1..Len(s.order)}

(* What Kahn's algorithm keeps: each utterance is placed once, after all     *)
(* that its author had; the ready ones are those whose parents are placed,   *)
(* and each has its parents that are not placed counted.                     *)
Kahn(g, s) ==
    /\ \A i, j \in 1..Len(s.order) : s.order[i] = s.order[j] => i = j
    /\ \A i \in 1..Len(s.order) : \A x \in before[s.order[i]] :
           \E j \in 1..Len(s.order) : j < i /\ s.order[j] = x
    /\ s.ready = {c \in g.has : c \notin Placed(s) /\ said[c] \subseteq Placed(s)}
    /\ \A c \in g.has : s.remaining[c] = Cardinality(said[c] \ Placed(s))

Sorting(g) == {s \in KahnState(g.has) : Kahn(g, s)}

(* It holds when nothing is placed.                                          *)
LEMMA SortingStarts ==
    ASSUME TypeOK, NEW g, Closed(g)
    PROVE  Unplaced(g) \in Sorting(g)
<1> DEFINE s == Unplaced(g)
<1>1. s \in KahnState(g.has)
  BY UnplacedStarts DEF Closed, ClosedIn
<1>2. Len(s.order) = 0 /\ 1..0 = {}
  BY DEF Unplaced
<1>3. Placed(s) = {}
  BY <1>2 DEF Placed
<1>4. /\ s.ready = {c \in g.has : said[c] = {}}
      /\ \A c \in g.has : s.remaining[c] = Cardinality(said[c])
  BY DEF Unplaced
<1> HIDE DEF s
<1>5. \A c \in g.has : said[c] \ Placed(s) = said[c]
  BY <1>3
<1>6. s.ready = {c \in g.has : c \notin Placed(s) /\ said[c] \subseteq Placed(s)}
  BY <1>3, <1>4
<1>7. Kahn(g, s)
  BY <1>2, <1>4, <1>5, <1>6 DEF Kahn
<1> QED BY <1>1, <1>7 DEF Sorting, s

(* An utterance already placed has all that its author had placed.           *)
LEMMA PlacedIsClosed ==
    ASSUME NEW g, NEW s \in Sorting(g), NEW x \in Placed(s)
    PROVE  before[x] \subseteq Placed(s)
<1>1. Placed(s) = {s.order[i] : i \in 1..Len(s.order)}
  BY DEF Placed
<1>2. \A i \in 1..Len(s.order) : \A y \in before[s.order[i]] :
          \E j \in 1..Len(s.order) : j < i /\ s.order[j] = y
  BY DEF Sorting, Kahn
<1>3. PICK i \in 1..Len(s.order) : x = s.order[i]
  BY <1>1
<1>4. ASSUME NEW y \in before[x] PROVE y \in Placed(s)
  <2>1. PICK j \in 1..Len(s.order) : s.order[j] = y
    BY <1>2, <1>3
  <2> QED BY <1>1, <2>1
<1> QED BY <1>4

(* It holds after the least of the ready utterances is placed.               *)
LEMMA SortingStays ==
    ASSUME TypeOK, SaidAfter, NEW g, Closed(g), NEW s \in Sorting(g), s.ready # {}
    PROVE  Emit(g, s) \in Sorting(g) /\ Len(Emit(g, s).order) = Len(s.order) + 1
<1> DEFINE h == CHOOSE x \in s.ready : \A y \in s.ready : x <= y
           left == [c \in g.has |->
                      IF c \in g.kids[h] THEN s.remaining[c] - 1 ELSE s.remaining[c]]
           ready == (s.ready \ {h}) \union {c \in g.has : s.remaining[c] > 0 /\ left[c] = 0}
           order == Append(s.order, h)
           t == Emit(g, s)
           n == Len(s.order)
           P == Placed(s)
           Q == Placed(t)
<1>0. /\ g \in Graph /\ g.has \subseteq Hash /\ g.has \subseteq minted
      /\ \A c \in g.has : said[c] \subseteq g.has
      /\ \A x \in Hash : g.kids[x] = {c \in g.has : x \in said[c]}
  BY DEF Closed, ClosedIn, Graph
<1>1. /\ s.ready \subseteq g.has
      /\ s.remaining \in [g.has -> Int]
      /\ s.order \in Seq(g.has)
      /\ s \in KahnState(g.has)
  BY DEF Sorting, KahnState
<1>2. /\ \A i, j \in 1..n : s.order[i] = s.order[j] => i = j
      /\ \A i \in 1..n : \A x \in before[s.order[i]] : \E j \in 1..n : j < i /\ s.order[j] = x
      /\ s.ready = {c \in g.has : c \notin P /\ said[c] \subseteq P}
      /\ \A c \in g.has : s.remaining[c] = Cardinality(said[c] \ P)
  BY DEF Sorting, Kahn
<1>3. t \in KahnState(g.has)
  BY <1>0, <1>1, EmitStays
<1>4. t = [ready |-> ready, remaining |-> left, order |-> order]
  BY DEF Emit
<1>5. h \in s.ready
  <2>1. s.ready \subseteq Nat
    BY <1>0, <1>1, HistoryAssumption
  <2>2. \E x \in s.ready : \A y \in s.ready : x <= y
    BY <2>1, LeastExists
  <2> QED BY <2>2
<1> HIDE DEF h
<1>6. h \in g.has /\ h \notin P /\ said[h] \subseteq P
  BY <1>2, <1>5
<1>7. /\ n \in Nat /\ Len(order) = n + 1 /\ order[n + 1] = h
      /\ \A i \in 1..n : order[i] = s.order[i]
  BY <1>1, <1>6
<1>8. t.order = order /\ t.ready = ready /\ t.remaining = left
  BY <1>4
<1> HIDE DEF order, ready, left, t
<1>9. \A i \in 1..(n + 1) : i = n + 1 \/ i \in 1..n
  BY <1>7
<1>10. \A i \in 1..n : i \in 1..(n + 1) /\ i # n + 1 /\ i < n + 1
  BY <1>7
<1>11. n + 1 \in 1..(n + 1)
  BY <1>7
<1>12. P = {s.order[i] : i \in 1..n} /\ Q = {order[i] : i \in 1..(n + 1)}
  BY <1>7, <1>8 DEF Placed
<1> HIDE DEF n, P, Q
<1>13. Q = P \union {h}
  BY <1>7, <1>9, <1>10, <1>11, <1>12
<1>14. \A i, j \in 1..(n + 1) : order[i] = order[j] => i = j
  <2>1. \A i \in 1..n : order[i] # h
    BY <1>6, <1>7, <1>12
  <2> QED BY <1>2, <1>7, <1>9, <2>1
<1>15. before[h] \subseteq P
  <2>1. before[h] = said[h] \union UNION {before[x] : x \in said[h]}
    BY <1>0, <1>6 DEF SaidAfter
  <2>2. \A x \in P : before[x] \subseteq P
    BY PlacedIsClosed DEF P
  <2> QED BY <1>6, <2>1, <2>2
<1>16. ASSUME NEW i \in 1..(n + 1), NEW x \in before[order[i]]
       PROVE  \E j \in 1..(n + 1) : j < i /\ order[j] = x
  <2>1. CASE i = n + 1
    <3>1. x \in P
      BY <1>7, <1>15, <2>1
    <3>2. PICK j \in 1..n : x = s.order[j]
      BY <1>12, <3>1
    <3> QED BY <1>7, <1>10, <2>1, <3>2
  <2>2. CASE i \in 1..n
    <3>1. x \in before[s.order[i]]
      BY <1>7, <2>2
    <3>2. PICK j \in 1..n : j < i /\ s.order[j] = x
      BY <1>2, <2>2, <3>1
    <3> QED BY <1>7, <1>10, <3>2
  <2> QED BY <1>9, <2>1, <2>2
<1>17. \A c \in g.has : /\ IsFiniteSet(said[c] \ P) /\ Cardinality(said[c] \ P) \in Nat
                        /\ IsFiniteSet(said[c] \ Q) /\ Cardinality(said[c] \ Q) \in Nat
                        /\ Cardinality(said[c] \ P) = 0 <=> said[c] \subseteq P
                        /\ Cardinality(said[c] \ Q) = 0 <=> said[c] \subseteq Q
  <2> SUFFICES ASSUME NEW c \in g.has
               PROVE  /\ IsFiniteSet(said[c] \ P) /\ Cardinality(said[c] \ P) \in Nat
                      /\ IsFiniteSet(said[c] \ Q) /\ Cardinality(said[c] \ Q) \in Nat
                      /\ Cardinality(said[c] \ P) = 0 <=> said[c] \subseteq P
                      /\ Cardinality(said[c] \ Q) = 0 <=> said[c] \subseteq Q
    OBVIOUS
  <2> DEFINE A == said[c] \ P
             B == said[c] \ Q
  <2>1. A \in SUBSET Hash /\ B \in SUBSET Hash
    BY <1>0
  <2>2. (A = {} <=> said[c] \subseteq P) /\ (B = {} <=> said[c] \subseteq Q)
    OBVIOUS
  <2> HIDE DEF A, B
  <2>3. /\ IsFiniteSet(A) /\ Cardinality(A) \in Nat
        /\ IsFiniteSet(B) /\ Cardinality(B) \in Nat
    BY <2>1, CountIsNatural
  <2>4. (Cardinality(A) = 0 <=> A = {}) /\ (Cardinality(B) = 0 <=> B = {})
    BY <2>3, FS_EmptySet
  <2> QED BY <2>2, <2>3, <2>4 DEF A, B
<1>18. \A c \in g.has : left[c] = Cardinality(said[c] \ Q)
  <2> SUFFICES ASSUME NEW c \in g.has PROVE left[c] = Cardinality(said[c] \ Q)
    OBVIOUS
  <2>1. s.remaining[c] = Cardinality(said[c] \ P)
    BY <1>2
  <2>2. c \in g.kids[h] <=> h \in said[c]
    BY <1>0, <1>6
  <2>3. left[c] = IF h \in said[c] THEN s.remaining[c] - 1 ELSE s.remaining[c]
    BY <2>2 DEF left
  <2>4. said[c] \ Q = (said[c] \ P) \ {h}
    BY <1>13
  <2>5. h \in said[c] \ P <=> h \in said[c]
    BY <1>6
  <2> DEFINE A == said[c] \ P
  <2>6. IsFiniteSet(A)
    BY <1>17
  <2> HIDE DEF A
  <2>7. Cardinality(A \ {h}) = IF h \in A THEN Cardinality(A) - 1 ELSE Cardinality(A)
    BY <2>6, FS_RemoveElement
  <2> QED BY <2>1, <2>3, <2>4, <2>5, <2>7 DEF A
<1>19. ready = {c \in g.has : c \notin Q /\ said[c] \subseteq Q}
  <2>1. \A c \in g.has : c \in ready <=>
            (c \in s.ready /\ c # h) \/ (s.remaining[c] > 0 /\ left[c] = 0)
    BY DEF ready
  <2>2. ready \subseteq g.has
    BY <1>1 DEF ready
  <2>3. ASSUME NEW c \in g.has
        PROVE  c \in ready <=> c \notin Q /\ said[c] \subseteq Q
    <3>1. s.remaining[c] > 0 <=> ~(said[c] \subseteq P)
      <4>1. s.remaining[c] = Cardinality(said[c] \ P)
        BY <1>2
      <4>2. Cardinality(said[c] \ P) \in Nat
        BY <1>17
      <4>3. Cardinality(said[c] \ P) = 0 <=> said[c] \subseteq P
        BY <1>17
      <4> QED BY <4>1, <4>2, <4>3
    <3>2. left[c] = 0 <=> said[c] \subseteq Q
      BY <1>17, <1>18
    <3>3. c \in s.ready <=> c \notin P /\ said[c] \subseteq P
      BY <1>2
    <3>4. c \in P => said[c] \subseteq P
      <4>1. c \in minted /\ (c \in P => before[c] \subseteq P)
        BY <1>0, PlacedIsClosed DEF P
      <4>2. said[c] \subseteq before[c]
        BY <4>1 DEF SaidAfter
      <4> QED BY <4>1, <4>2
    <3> QED BY <1>6, <1>13, <2>1, <3>1, <3>2, <3>3, <3>4
  <2> QED BY <2>2, <2>3
<1>20. Len(t.order) = n + 1
  BY <1>7, <1>8
<1>21. Kahn(g, t)
  <2>1. \A i, j \in 1..Len(t.order) : t.order[i] = t.order[j] => i = j
    BY <1>8, <1>14, <1>20
  <2>2. \A i \in 1..Len(t.order) : \A x \in before[t.order[i]] :
            \E j \in 1..Len(t.order) : j < i /\ t.order[j] = x
    BY <1>8, <1>16, <1>20
  <2>3. t.ready = {c \in g.has : c \notin Placed(t) /\ said[c] \subseteq Placed(t)}
    BY <1>8, <1>19 DEF Q
  <2>4. \A c \in g.has : t.remaining[c] = Cardinality(said[c] \ Placed(t))
    BY <1>8, <1>18 DEF Q
  <2> QED BY <2>1, <2>2, <2>3, <2>4 DEF Kahn
<1>22. t \in Sorting(g)
  BY <1>3, <1>21 DEF Sorting
<1> QED BY <1>20, <1>22 DEF t, n

(* As long as something is not placed something is ready.                    *)
LEMMA SomethingIsReady ==
    ASSUME TypeOK, SaidAfter, NEW g, Closed(g), NEW s \in Sorting(g)
    PROVE  s.ready = {} <=> Placed(s) = g.has
<1>1. s.ready = {c \in g.has : c \notin Placed(s) /\ said[c] \subseteq Placed(s)}
  BY DEF Sorting, Kahn
<1>2. Placed(s) \subseteq g.has
  BY DEF Sorting, KahnState, Placed
<1>3. ASSUME Placed(s) # g.has PROVE s.ready # {}
  <2> DEFINE U == g.has \ Placed(s)
  <2>1. U \in SUBSET minted /\ U # {}
    BY <1>2, <1>3 DEF Closed, ClosedIn
  <2>2. PICK x \in U : \A y \in before[x] : y \notin U
    <3> HIDE DEF U
    <3> QED BY <2>1, EarliestExists
  <2>3. said[x] \subseteq before[x] /\ said[x] \subseteq g.has
    BY <2>1 DEF SaidAfter, Closed, ClosedIn
  <2> QED BY <1>1, <2>2, <2>3
<1> QED BY <1>1, <1>3

(* The timeline of a graph: every utterance once, after all its author had.  *)
IsTimeline(g, t) ==
    /\ t \in Seq(g.has) /\ Len(t) = Cardinality(g.has)
    /\ {t[i] : i \in 1..Len(t)} = g.has
    /\ \A i, j \in 1..Len(t) : t[i] = t[j] => i = j
    /\ \A i \in 1..Len(t) : \A x \in before[t[i]] : \E j \in 1..Len(t) : j < i /\ t[j] = x

(* Each step places one more until none is left: as many as there are.       *)
LEMMA EveryUtteranceIsPlaced ==
    ASSUME TypeOK, SaidAfter, NEW g, Closed(g)
    PROVE  IsTimeline(g, LinearExtension(g))
<1> DEFINE at == Emitted(g)
           N == Cardinality(g.has)
           s == at[N]
           n == Len(s.order)
<1>1. Unplaced(g) \in Sorting(g)
  BY SortingStarts
<1>2. \A r \in Sorting(g) : r.ready # {} => Emit(g, r) \in Sorting(g)
  BY SortingStays
<1>3. /\ at[0] = Unplaced(g)
      /\ \A i \in Nat : at[i] \in Sorting(g)
      /\ \A i \in Nat : at[i + 1] = IF at[i].ready = {} THEN at[i] ELSE Emit(g, at[i])
  BY <1>1, <1>2, EmittedRun
<1>4. g.has \in SUBSET Hash /\ IsFiniteSet(g.has) /\ N \in Nat
  BY CountIsNatural DEF Closed, ClosedIn, Graph
<1> HIDE DEF at
<1>5. \A i \in Nat : Placed(at[i]) = g.has \/ Len(at[i].order) = i
  <2> DEFINE T == {i \in Nat : Placed(at[i]) = g.has \/ Len(at[i].order) = i}
  <2>1. 0 \in T
    BY <1>3 DEF Unplaced
  <2>2. ASSUME NEW i \in Nat, i \in T PROVE i + 1 \in T
    <3>1. at[i] \in Sorting(g) /\ i + 1 \in Nat
      BY <1>3
    <3>2. CASE at[i].ready = {}
      <4>1. Placed(at[i]) = g.has /\ at[i + 1] = at[i]
        BY <1>3, <3>1, <3>2, SomethingIsReady
      <4> QED BY <3>1, <4>1
    <3>3. CASE at[i].ready # {}
      <4>1. Placed(at[i]) # g.has
        BY <3>1, <3>3, SomethingIsReady
      <4>2. Len(at[i].order) = i
        BY <2>2, <4>1
      <4>3. at[i + 1] = Emit(g, at[i])
        BY <1>3, <3>3
      <4>4. Len(at[i + 1].order) = i + 1
        BY <3>1, <3>3, <4>2, <4>3, SortingStays
      <4> QED BY <3>1, <4>4
    <3> QED BY <3>2, <3>3
  <2> HIDE DEF T
  <2>3. \A i \in Nat : i \in T
    BY <2>1, <2>2, EveryNatural
  <2> QED BY <2>3 DEF T
<1>6. s \in Sorting(g) /\ (Placed(s) = g.has \/ n = N)
  BY <1>3, <1>4, <1>5
<1> HIDE DEF s
<1>7. s.order \in Seq(g.has) /\ n \in Nat /\ \A i \in 1..n : s.order[i] \in g.has
  BY <1>6 DEF Sorting, KahnState
<1>8. /\ \A i, j \in 1..n : s.order[i] = s.order[j] => i = j
      /\ \A i \in 1..n : \A x \in before[s.order[i]] : \E j \in 1..n : j < i /\ s.order[j] = x
  BY <1>6 DEF Sorting, Kahn
<1>9. Placed(s) = {s.order[i] : i \in 1..n}
  BY DEF Placed
<1> HIDE DEF n
<1>10. IsFiniteSet(1..n) /\ Cardinality(1..n) = n
  <2>1. Cardinality(1..n) = (IF 1 > n THEN 0 ELSE n - 1 + 1) /\ IsFiniteSet(1..n)
    BY <1>7, FS_Interval
  <2> QED BY <1>7, <2>1
<1> DEFINE f == [i \in 1..n |-> s.order[i]]
<1>11. /\ f \in [1..n -> g.has]
       /\ \A i, j \in 1..n : f[i] = f[j] => i = j
       /\ \A i \in 1..n : f[i] = s.order[i]
  BY <1>7, <1>8
<1> HIDE DEF f
<1>12. f \in Injection(1..n, g.has)
  BY <1>11 DEF Injection, IsInjective
<1>13. n = N <=> f \in Surjection(1..n, g.has)
  BY <1>4, <1>10, <1>12, FS_Injection DEF N
<1>14. f \in Surjection(1..n, g.has) <=> Placed(s) = g.has
  <2>1. f \in Surjection(1..n, g.has) <=> \A y \in g.has : \E i \in 1..n : f[i] = y
    BY <1>11 DEF Surjection
  <2>2. Placed(s) \subseteq g.has
    BY <1>7, <1>9
  <2>3. Placed(s) = g.has <=> \A y \in g.has : \E i \in 1..n : s.order[i] = y
    BY <1>9, <2>2
  <2>4. (\A y \in g.has : \E i \in 1..n : f[i] = y)
          <=> (\A y \in g.has : \E i \in 1..n : s.order[i] = y)
    BY <1>11
  <2> QED BY <2>1, <2>3, <2>4
<1>15. n = N /\ Placed(s) = g.has
  BY <1>6, <1>13, <1>14
<1>16. LinearExtension(g) = s.order
  BY DEF LinearExtension, s, at, N
<1>17. Len(s.order) = Cardinality(g.has) /\ {s.order[i] : i \in 1..Len(s.order)} = g.has
  BY <1>9, <1>15 DEF n, N
<1>18. \A i, j \in 1..Len(s.order) : s.order[i] = s.order[j] => i = j
  BY <1>8 DEF n
<1>19. \A i \in 1..Len(s.order) : \A x \in before[s.order[i]] :
           \E j \in 1..Len(s.order) : j < i /\ s.order[j] = x
  BY <1>8 DEF n
<1>20. IsTimeline(g, s.order)
  BY <1>7, <1>17, <1>18, <1>19 DEF IsTimeline
<1> QED BY <1>16, <1>20

(* A graph is what it has: its index follows from the parents.               *)
LEMMA GraphIsWhatItHas ==
    ASSUME NEW g, NEW k, Closed(g), Closed(k), g.has = k.has
    PROVE  g = k
<1>1. g \in Graph /\ k \in Graph
  BY DEF Closed, ClosedIn
<1>2. g.kids \in [Hash -> SUBSET Hash] /\ k.kids \in [Hash -> SUBSET Hash]
  BY <1>1 DEF Graph
<1>3. \A x \in Hash : g.kids[x] = k.kids[x]
  BY DEF Closed, ClosedIn
<1>4. g.kids = k.kids
  BY <1>2, <1>3
<1>5. g = [has |-> g.has, kids |-> g.kids] /\ k = [has |-> k.has, kids |-> k.kids]
  BY <1>1 DEF Graph
<1> QED BY <1>4, <1>5

(* The timeline: every utterance once, none before one it followed, and the  *)
(* same on every peer that holds the same utterances.                        *)
THEOREM TimelinesAgree == Spec => []TimelineIsCausal
<1>1. HInv => TimelineIsCausal
  <2> SUFFICES ASSUME HInv, NEW p \in Peer
               PROVE  LET t == LinearExtension(graph[p]) IN
                      /\ Len(t) = Cardinality(graph[p].has) /\ ToSet(t) = graph[p].has
                      /\ \A i, j \in DOMAIN t : t[i] \in before[t[j]] => i < j
                      /\ \A q \in Peer : graph[q].has = graph[p].has => LinearExtension(graph[q]) = t
    BY DEF TimelineIsCausal, HInv
  <2> DEFINE g == graph[p]
             t == LinearExtension(g)
  <2>1. TypeOK /\ SaidAfter /\ Closed(g)
    BY DEF HInv
  <2>2. IsTimeline(g, t)
    BY <2>1, EveryUtteranceIsPlaced
  <2>3. \A q \in Peer : graph[q].has = g.has => graph[q] = g
    BY GraphIsWhatItHas DEF HInv
  <2>4. \A q \in Peer : graph[q].has = g.has => LinearExtension(graph[q]) = t
    BY <2>3
  <2> HIDE DEF t
  <2>5. /\ t \in Seq(g.has) /\ Len(t) = Cardinality(g.has)
        /\ {t[i] : i \in 1..Len(t)} = g.has
        /\ \A i, j \in 1..Len(t) : t[i] = t[j] => i = j
        /\ \A i \in 1..Len(t) : \A x \in before[t[i]] : \E j \in 1..Len(t) : j < i /\ t[j] = x
    BY <2>2 DEF IsTimeline
  <2>6. DOMAIN t = 1..Len(t)
    BY <2>5
  <2>7. ToSet(t) = g.has
    BY <2>5, <2>6 DEF ToSet
  <2>8. \A i, j \in DOMAIN t : t[i] \in before[t[j]] => i < j
    BY <2>5, <2>6
  <2> QED BY <2>4, <2>5, <2>7, <2>8 DEF t
<1> QED BY <1>1, HInvAlways, PTL

(* Reading back what was written: each turn of the first pass places the     *)
(* next utterance, whose author had only utterances placed before it.        *)
LEMMA TimelineLoads ==
    ASSUME TypeOK, SaidAfter, NEW g, Closed(g), NEW t, IsTimeline(g, t)
    PROVE  Loaded(t).ok /\ Loaded(t).g.has = g.has /\ Closed(Loaded(t).g)
<1> DEFINE L == Len(t)
           inbox == Sound(t)
           at == Turns(EmptyGraph, inbox)
           Upto(n) == {t[i] : i \in 1..n}
           Mid(n) == /\ at[n].g.has = Upto(n)
                     /\ Len(at[n].todo) = L - n
                     /\ \A i \in 1..(L - n) : at[n].todo[i] = inbox[n + i]
                     /\ at[n].still = <<>>
<1>1. /\ t \in Seq(g.has) /\ {t[i] : i \in 1..L} = g.has
      /\ \A i, j \in 1..L : t[i] = t[j] => i = j
      /\ \A i \in 1..L : \A x \in before[t[i]] : \E j \in 1..L : j < i /\ t[j] = x
  BY DEF IsTimeline
<1>2. g.has \subseteq minted
  BY DEF Closed, ClosedIn
<1>3. L \in Nat /\ DOMAIN t = 1..L /\ \A i \in 1..L : t[i] \in minted
  BY <1>1, <1>2
<1>4. t \in Seq(minted)
  BY <1>1, <1>2, SeqDef
<1>5. inbox \in Seq(Bag) /\ Len(inbox) = L /\ \A i \in 1..L : inbox[i] = [hash |-> t[i], ok |-> TRUE]
  <2>1. inbox \in Seq(Bag)
    BY <1>4, SoundIsBag
  <2>2. inbox = [i \in 1..L |-> [hash |-> t[i], ok |-> TRUE]]
    BY <1>3 DEF Sound
  <2>3. DOMAIN inbox = 1..L /\ \A i \in 1..L : inbox[i] = [hash |-> t[i], ok |-> TRUE]
    BY <2>2
  <2> HIDE DEF inbox
  <2>4. Len(inbox) = L
    BY <1>3, <2>1, <2>3, LenProperties
  <2> QED BY <2>1, <2>3, <2>4
<1>6. /\ at[0] = [g |-> EmptyGraph, todo |-> inbox, still |-> <<>>, progress |-> FALSE]
      /\ \A n \in Nat : at[n] \in LoopState
      /\ \A n \in Nat : at[n + 1] = Turn(at[n])
  BY <1>5, EmptyIsClosed, TurnsRun
<1> HIDE DEF at, inbox, L
<1>7. \A n \in Nat : n <= L => Mid(n)
  <2> DEFINE T == {n \in Nat : n <= L => Mid(n)}
  <2>1. 0 \in T
    <3>1. at[0].g.has = {} /\ Upto(0) = {}
      BY <1>6 DEF EmptyGraph
    <3>2. at[0].todo = inbox /\ at[0].still = <<>>
      BY <1>6
    <3>3. Len(inbox) = L - 0 /\ \A i \in 1..(L - 0) : inbox[i] = inbox[0 + i]
      BY <1>3, <1>5
    <3> QED BY <3>1, <3>2, <3>3
  <2>2. ASSUME NEW n \in Nat, n \in T, n + 1 <= L PROVE Mid(n + 1)
    <3> DEFINE s == at[n]
               h == t[n + 1]
    <3>1. /\ n <= L /\ n + 1 \in 1..L /\ L - n \in Nat /\ 1 \in 1..(L - n)
          /\ L - (n + 1) = (L - n) - 1
      BY <1>3, <2>2
    <3>2. Mid(n)
      BY <2>2, <3>1
    <3>3. s \in LoopState /\ s.todo \in Seq(Bag) /\ Closed(s.g)
      BY <1>6 DEF LoopState
    <3>4. /\ s.g.has = Upto(n) /\ Len(s.todo) = L - n /\ s.still = <<>>
          /\ \A i \in 1..(L - n) : s.todo[i] = inbox[n + i]
      BY <3>2
    <3> HIDE DEF s
    <3>5. s.todo # <<>> /\ Head(s.todo) = [hash |-> h, ok |-> TRUE]
      <4>1. s.todo # <<>>
        BY <3>1, <3>4
      <4>2. Head(s.todo) = s.todo[1]
        BY <3>3, <4>1
      <4>3. s.todo[1] = inbox[n + 1]
        BY <3>1, <3>4
      <4> QED BY <1>5, <3>1, <4>1, <4>2, <4>3
    <3>6. h \in minted /\ h \notin s.g.has
      <4>1. ASSUME NEW i \in 1..n PROVE t[i] # h
        <5>1. i \in 1..L /\ i # n + 1
          BY <1>3, <2>2
        <5> QED BY <1>1, <3>1, <5>1
      <4>2. h \notin Upto(n)
        BY <4>1
      <4> QED BY <1>3, <3>1, <3>4, <4>2
    <3>7. said[h] \subseteq s.g.has
      <4>1. said[h] \subseteq before[h]
        BY <3>6 DEF SaidAfter
      <4>2. ASSUME NEW x \in before[h] PROVE x \in s.g.has
        <5>1. PICK j \in 1..L : j < n + 1 /\ t[j] = x
          BY <1>1, <3>1
        <5>2. j \in 1..n
          BY <1>3, <5>1
        <5> QED BY <3>4, <5>1, <5>2
      <4> QED BY <4>1, <4>2
    <3>8. AddResult(s.g, [hash |-> h, ok |-> TRUE]) = "ok"
      BY <3>6, <3>7 DEF AddResult
    <3>9. /\ Turn(s).g = Insert(s.g, h)
          /\ Turn(s).todo = Tail(s.todo)
          /\ Turn(s).still = s.still
      BY <3>5, <3>8 DEF Turn
    <3>10. at[n + 1].g.has = Upto(n + 1)
      <4>1. at[n + 1].g = Insert(s.g, h)
        BY <1>6, <3>9 DEF s
      <4>2. Insert(s.g, h).has = s.g.has \union {h}
        BY DEF Insert
      <4>3. \A i \in 1..(n + 1) : i = n + 1 \/ i \in 1..n
        OBVIOUS
      <4>4. n + 1 \in 1..(n + 1) /\ \A i \in 1..n : i \in 1..(n + 1)
        OBVIOUS
      <4>5. Upto(n + 1) = Upto(n) \union {h}
        BY <4>3, <4>4
      <4> QED BY <3>4, <4>1, <4>2, <4>5
    <3>11. /\ Len(at[n + 1].todo) = L - (n + 1)
           /\ \A i \in 1..(L - (n + 1)) : at[n + 1].todo[i] = inbox[(n + 1) + i]
      <4>1. at[n + 1].todo = Tail(s.todo)
        BY <1>6, <3>9 DEF s
      <4>2. /\ Len(Tail(s.todo)) = Len(s.todo) - 1
            /\ \A i \in 1..(Len(s.todo) - 1) : Tail(s.todo)[i] = s.todo[i + 1]
        BY <3>3, <3>5, HeadTailProperties
      <4>3. ASSUME NEW i \in 1..(L - (n + 1)) PROVE s.todo[i + 1] = inbox[(n + 1) + i]
        <5>1. i + 1 \in 1..(L - n) /\ n + (i + 1) = (n + 1) + i
          BY <3>1
        <5> QED BY <3>4, <5>1
      <4> QED BY <3>1, <3>4, <4>1, <4>2, <4>3
    <3>12. at[n + 1].still = <<>>
      BY <1>6, <3>4, <3>9 DEF s
    <3> QED BY <3>10, <3>11, <3>12
  <2> HIDE DEF Mid
  <2>3. \A n \in Nat : n \in T => n + 1 \in T
    BY <2>2
  <2> HIDE DEF T
  <2>4. \A n \in Nat : n \in T
    BY <2>1, <2>3, EveryNatural
  <2> QED BY <2>4 DEF T
<1>8. at[L].g.has = g.has /\ at[L].todo = <<>> /\ at[L].still = <<>> /\ Closed(at[L].g)
  <2> HIDE DEF Mid
  <2>1. Mid(L) /\ at[L] \in LoopState
    BY <1>3, <1>6, <1>7
  <2> USE DEF Mid
  <2>2. at[L].todo \in Seq(Bag) /\ Len(at[L].todo) = 0
    BY <1>3, <2>1 DEF LoopState
  <2>3. at[L].todo = <<>>
    BY <2>2, EmptySeq
  <2> QED BY <1>1, <2>1, <2>3 DEF LoopState
<1>9. \A n \in Nat : L <= n => at[n] = at[L]
  <2> DEFINE T == {n \in Nat : L <= n => at[n] = at[L]}
  <2>1. 0 \in T
    BY <1>3
  <2>2. ASSUME NEW n \in Nat, n \in T PROVE n + 1 \in T
    <3>1. CASE n + 1 <= L
      BY <1>3, <3>1
    <3>2. CASE L <= n
      <4>1. at[n] = at[L] /\ at[n + 1] = Turn(at[n])
        BY <1>6, <2>2, <3>2
      <4>2. Turn(at[L]) = at[L]
        BY <1>8 DEF Turn
      <4> QED BY <4>1, <4>2
    <3> QED BY <1>3, <3>1, <3>2
  <2> HIDE DEF T
  <2>3. \A n \in Nat : n \in T
    BY <2>1, <2>2, EveryNatural
  <2> QED BY <2>3 DEF T
<1>10. Received(EmptyGraph, inbox) = at[L]
  <2>1. (L + 1) * (L + 1) \in Nat /\ L <= (L + 1) * (L + 1)
    BY <1>3
  <2> QED BY <1>5, <1>9, <2>1 DEF Received, at
<1> QED BY <1>8, <1>10 DEF Loaded, inbox

(* What to_json writes from_json reads back whole, and the graph is the one  *)
(* written.                                                                  *)
THEOREM WhatIsWrittenLoads == Spec => []WrittenLoadsBack
<1>1. HInv => WrittenLoadsBack
  <2> SUFFICES ASSUME HInv, NEW p \in Peer
               PROVE  LET r == Loaded(LinearExtension(graph[p]))
                      IN r.ok /\ r.g.has = graph[p].has /\ Heads(r.g) = Heads(graph[p])
    BY DEF WrittenLoadsBack
  <2> DEFINE g == graph[p]
             t == LinearExtension(g)
             r == Loaded(t)
  <2>1. TypeOK /\ SaidAfter /\ Closed(g)
    BY DEF HInv
  <2>2. IsTimeline(g, t)
    BY <2>1, EveryUtteranceIsPlaced
  <2>3. r.ok /\ r.g.has = g.has /\ Closed(r.g)
    BY <2>1, <2>2, TimelineLoads
  <2>4. r.g = g
    BY <2>1, <2>3, GraphIsWhatItHas
  <2> QED BY <2>3, <2>4
<1> QED BY <1>1, HInvAlways, PTL

-----------------------------------------------------------------------------
(* What receive places and hands back. *)

(* What is kept still or to be looked at is in the bag, in the order it      *)
(* came: the k-th of it came as the f[k]-th, and what is no more among it is *)
(* in the graph.                                                             *)
Awaits(s, inbox, f) ==
    /\ f \in [1..(Len(s.still) + Len(s.todo)) -> 1..Len(inbox)]
    /\ \A k, l \in 1..(Len(s.still) + Len(s.todo)) : k < l => f[k] < f[l]
    /\ \A k \in 1..Len(s.still) : s.still[k] = inbox[f[k]]
    /\ \A k \in 1..Len(s.todo) : s.todo[k] = inbox[f[Len(s.still) + k]]
    /\ \A i \in 1..Len(inbox) :
           (\A k \in 1..(Len(s.still) + Len(s.todo)) : f[k] # i)
               => inbox[i].ok /\ inbox[i].hash \in s.g.has

Takes(g, u) == AddResult(g, u) \in {"ok", "duplicate"}

(* The loop's invariant: what was there stays, what is new was in the bag,   *)
(* and a pass that took nothing so far could take nothing it kept.           *)
Passing(g, inbox) ==
    {s \in LoopState :
        /\ g.has \subseteq s.g.has
        /\ \A h \in s.g.has : h \in g.has \/
               \E i \in 1..Len(inbox) : inbox[i].ok /\ inbox[i].hash = h
        /\ Len(s.still) + Len(s.todo) <= Len(inbox)
        /\ \E f : Awaits(s, inbox, f)
        /\ ~s.progress => \A k \in 1..Len(s.still) : ~Takes(s.g, s.still[k])}

(* It holds when the bag is opened.                                          *)
LEMMA PassingStarts ==
    ASSUME TypeOK, NEW g, Closed(g), NEW inbox \in Seq(Bag)
    PROVE  [g |-> g, todo |-> inbox, still |-> <<>>, progress |-> FALSE] \in Passing(g, inbox)
<1> DEFINE s == [g |-> g, todo |-> inbox, still |-> <<>>, progress |-> FALSE]
           f == [k \in 1..Len(inbox) |-> k]
<1>1. s \in LoopState
  <2>1. <<>> \in Seq(Bag) /\ g \in Graph
    BY DEF Closed, ClosedIn
  <2> QED BY <2>1 DEF LoopState
<1>2. Len(inbox) \in Nat /\ Len(s.still) = 0 /\ Len(s.still) + Len(s.todo) = Len(inbox)
  OBVIOUS
<1>3. Awaits(s, inbox, f)
  BY <1>2 DEF Awaits
<1>4. s.g = g /\ s.still = <<>> /\ 1..0 = {}
  OBVIOUS
<1> HIDE DEF s, f
<1>5. \E e : Awaits(s, inbox, e)
  BY <1>3
<1>6. Len(s.still) + Len(s.todo) <= Len(inbox)
  BY <1>2
<1>7. \A k \in 1..Len(s.still) : ~Takes(s.g, s.still[k])
  BY <1>2, <1>4
<1>8. s \in Passing(g, inbox)
  BY <1>1, <1>4, <1>5, <1>6, <1>7 DEF Passing
<1> QED BY <1>8 DEF s

(* The next utterance is taken: it leaves its place between those kept and   *)
(* those still to be looked at.                                              *)
LEMMA TakingPasses ==
    ASSUME TypeOK, SaidAfter, NEW g, NEW inbox \in Seq(Bag), NEW s \in Passing(g, inbox),
           s.todo # <<>>, Takes(s.g, Head(s.todo))
    PROVE  Turn(s) \in Passing(g, inbox)
<1> DEFINE u == Head(s.todo)
           t == Turn(s)
           a == Len(s.still)
           m == Len(s.todo)
           L == Len(inbox)
<1>1. s \in LoopState /\ s.still \in Seq(Bag) /\ s.todo \in Seq(Bag)
  BY DEF Passing, LoopState
<1>2. /\ t.g = IF AddResult(s.g, u) = "ok" THEN Insert(s.g, u.hash) ELSE s.g
      /\ t.todo = Tail(s.todo) /\ t.still = s.still /\ t.progress = TRUE
  BY DEF Turn, Takes
<1>3. t \in LoopState
  BY <1>1, TurnStays
<1>4. /\ a \in Nat /\ m \in Nat /\ m # 0 /\ L \in Nat
      /\ u = s.todo[1]
      /\ Len(Tail(s.todo)) = m - 1
      /\ \A k \in 1..(m - 1) : Tail(s.todo)[k] = s.todo[k + 1]
  BY <1>1, HeadTailProperties
<1>5. PICK f : Awaits(s, inbox, f)
  BY DEF Passing
<1>6. u.ok /\ t.g.has = s.g.has \union {u.hash}
  BY <1>2 DEF Takes, AddResult, Insert
<1> HIDE DEF t, u
<1>7. Len(t.still) = a /\ Len(t.todo) = m - 1
  BY <1>2, <1>4
<1> HIDE DEF a, m, L
<1>8. /\ f \in [1..(a + m) -> 1..L]
      /\ \A k, l \in 1..(a + m) : k < l => f[k] < f[l]
      /\ \A k \in 1..a : s.still[k] = inbox[f[k]]
      /\ \A k \in 1..m : s.todo[k] = inbox[f[a + k]]
      /\ \A i \in 1..L : (\A k \in 1..(a + m) : f[k] # i) => inbox[i].ok /\ inbox[i].hash \in s.g.has
  BY <1>5 DEF Awaits, a, m, L
<1> DEFINE e == [k \in 1..(a + (m - 1)) |-> IF k <= a THEN f[k] ELSE f[k + 1]]
<1>9. \A k \in 1..(a + (m - 1)) : k \in 1..(a + m) /\ k + 1 \in 1..(a + m)
  BY <1>4
<1>10. \A k \in 1..(a + (m - 1)) : f[k] \in 1..L /\ f[k + 1] \in 1..L
  BY <1>8, <1>9
<1>11. e \in [1..(a + (m - 1)) -> 1..L]
  BY <1>10
<1>12. \A k \in 1..(a + (m - 1)) : e[k] = IF k <= a THEN f[k] ELSE f[k + 1]
  OBVIOUS
<1> HIDE DEF e
<1>13. \A k, l \in 1..(a + (m - 1)) : k < l => e[k] < e[l]
  <2> SUFFICES ASSUME NEW k \in 1..(a + (m - 1)), NEW l \in 1..(a + (m - 1)), k < l
               PROVE  e[k] < e[l]
    OBVIOUS
  <2>1. k \in Nat /\ l \in Nat /\ k < l + 1 /\ k + 1 < l + 1 /\ (l <= a => k <= a)
    BY <1>4
  <2> QED BY <1>8, <1>9, <1>12, <2>1
<1>14. \A k \in 1..a : t.still[k] = inbox[e[k]]
  <2>1. \A k \in 1..a : k <= a /\ k \in 1..(a + (m - 1))
    BY <1>4
  <2> QED BY <1>2, <1>8, <1>12, <2>1
<1>15. \A k \in 1..(m - 1) : t.todo[k] = inbox[e[a + k]]
  <2> SUFFICES ASSUME NEW k \in 1..(m - 1) PROVE t.todo[k] = inbox[e[a + k]]
    OBVIOUS
  <2>1. /\ ~(a + k <= a) /\ a + k \in 1..(a + (m - 1)) /\ k + 1 \in 1..m
        /\ (a + k) + 1 = a + (k + 1)
    BY <1>4
  <2>2. t.todo[k] = s.todo[k + 1]
    BY <1>2, <1>4
  <2> QED BY <1>8, <1>12, <2>1, <2>2
<1>16. ASSUME NEW i \in 1..L, \A k \in 1..(a + (m - 1)) : e[k] # i
       PROVE  inbox[i].ok /\ inbox[i].hash \in t.g.has
  <2>1. CASE f[a + 1] = i
    <3>1. u = inbox[i]
      BY <1>4, <1>8, <2>1
    <3> QED BY <1>6, <3>1
  <2>2. CASE f[a + 1] # i
    <3>1. ASSUME NEW k \in 1..(a + m) PROVE f[k] # i
      <4>1. CASE k <= a
        <5>1. k \in 1..(a + (m - 1))
          BY <1>4, <4>1
        <5> QED BY <1>12, <1>16, <4>1, <5>1
      <4>2. CASE k = a + 1
        BY <2>2, <4>2
      <4>3. CASE k > a + 1
        <5>1. k - 1 \in 1..(a + (m - 1)) /\ ~(k - 1 <= a) /\ (k - 1) + 1 = k
          BY <1>4, <4>3
        <5> QED BY <1>12, <1>16, <5>1
      <4> QED BY <1>4, <4>1, <4>2, <4>3
    <3> QED BY <1>6, <1>8, <3>1
  <2> QED BY <2>1, <2>2
<1>17. Awaits(t, inbox, e)
  BY <1>7, <1>11, <1>13, <1>14, <1>15, <1>16 DEF Awaits, L
<1>18. /\ g.has \subseteq s.g.has
       /\ \A h \in s.g.has : h \in g.has \/ \E i \in 1..L : inbox[i].ok /\ inbox[i].hash = h
       /\ a + m <= L
  BY DEF Passing, a, m, L
<1>19. \E i \in 1..L : inbox[i].ok /\ inbox[i].hash = u.hash
  <2>1. a + 1 \in 1..(a + m) /\ 1 \in 1..m
    BY <1>4
  <2>2. f[a + 1] \in 1..L /\ u = inbox[f[a + 1]]
    BY <1>4, <1>8, <2>1
  <2> QED BY <1>6, <2>2
<1>20. /\ g.has \subseteq t.g.has
       /\ \A h \in t.g.has : h \in g.has \/ \E i \in 1..L : inbox[i].ok /\ inbox[i].hash = h
  BY <1>6, <1>18, <1>19
<1>21. Len(t.still) + Len(t.todo) <= L
  BY <1>4, <1>7, <1>18
<1> QED BY <1>2, <1>3, <1>17, <1>20, <1>21 DEF Passing, t, L

(* The next utterance is kept: it moves from one list to the other, and a    *)
(* pass that took nothing still could not take it.                           *)
LEMMA KeepingPasses ==
    ASSUME TypeOK, SaidAfter, NEW g, NEW inbox \in Seq(Bag), NEW s \in Passing(g, inbox),
           s.todo # <<>>, ~Takes(s.g, Head(s.todo))
    PROVE  Turn(s) \in Passing(g, inbox)
<1> DEFINE u == Head(s.todo)
           t == Turn(s)
           a == Len(s.still)
           m == Len(s.todo)
           L == Len(inbox)
<1>1. s \in LoopState /\ s.still \in Seq(Bag) /\ s.todo \in Seq(Bag) /\ s.progress \in BOOLEAN
  BY DEF Passing, LoopState
<1>2. /\ t.g = s.g /\ t.todo = Tail(s.todo)
      /\ t.still = Append(s.still, u) /\ t.progress = s.progress
  <2>1. t.g = s.g /\ t.todo = Tail(s.todo) /\ t.still = Append(s.still, u)
    BY DEF Turn, Takes
  <2>2. t.progress = (s.progress \/ FALSE)
    BY DEF Turn, Takes
  <2> QED BY <1>1, <2>1, <2>2
<1>3. t \in LoopState
  BY <1>1, TurnStays
<1>4. /\ a \in Nat /\ m \in Nat /\ m # 0 /\ L \in Nat
      /\ u = s.todo[1] /\ u \in Bag
      /\ Len(Tail(s.todo)) = m - 1
      /\ \A k \in 1..(m - 1) : Tail(s.todo)[k] = s.todo[k + 1]
  BY <1>1, HeadTailProperties
<1>5. PICK f : Awaits(s, inbox, f)
  BY DEF Passing
<1>6. /\ Len(t.still) = a + 1
      /\ \A k \in 1..a : t.still[k] = s.still[k]
      /\ t.still[a + 1] = u
  BY <1>1, <1>2, <1>4, AppendProperties
<1>7. ~Takes(s.g, u)
  OBVIOUS
<1> HIDE DEF t, u
<1>8. Len(t.todo) = m - 1
  BY <1>2, <1>4
<1> HIDE DEF a, m, L
<1>9. /\ f \in [1..(a + m) -> 1..L]
      /\ \A k, l \in 1..(a + m) : k < l => f[k] < f[l]
      /\ \A k \in 1..a : s.still[k] = inbox[f[k]]
      /\ \A k \in 1..m : s.todo[k] = inbox[f[a + k]]
      /\ \A i \in 1..L : (\A k \in 1..(a + m) : f[k] # i) => inbox[i].ok /\ inbox[i].hash \in s.g.has
  BY <1>5 DEF Awaits, a, m, L
<1>10. (a + 1) + (m - 1) = a + m
  BY <1>4
<1>11. \A k \in 1..(a + 1) : k \in 1..a \/ k = a + 1
  BY <1>4
<1>12. \A k \in 1..(a + 1) : t.still[k] = inbox[f[k]]
  <2>1. 1 \in 1..m
    BY <1>4
  <2>2. u = inbox[f[a + 1]]
    BY <1>4, <1>9, <2>1
  <2> QED BY <1>6, <1>9, <1>11, <2>2
<1>13. \A k \in 1..(m - 1) : t.todo[k] = inbox[f[(a + 1) + k]]
  <2> SUFFICES ASSUME NEW k \in 1..(m - 1) PROVE t.todo[k] = inbox[f[(a + 1) + k]]
    OBVIOUS
  <2>1. k + 1 \in 1..m /\ a + (k + 1) = (a + 1) + k
    BY <1>4
  <2>2. t.todo[k] = s.todo[k + 1]
    BY <1>2, <1>4
  <2> QED BY <1>9, <2>1, <2>2
<1>14. Awaits(t, inbox, f)
  BY <1>2, <1>6, <1>8, <1>9, <1>10, <1>12, <1>13 DEF Awaits, L
<1>15. /\ g.has \subseteq s.g.has
       /\ \A h \in s.g.has : h \in g.has \/ \E i \in 1..L : inbox[i].ok /\ inbox[i].hash = h
       /\ a + m <= L
       /\ ~s.progress => \A k \in 1..a : ~Takes(s.g, s.still[k])
  BY DEF Passing, a, m, L
<1>16. Len(t.still) + Len(t.todo) <= L
  BY <1>6, <1>8, <1>10, <1>15
<1>17. ~t.progress => \A k \in 1..Len(t.still) : ~Takes(t.g, t.still[k])
  BY <1>2, <1>6, <1>7, <1>11, <1>15
<1> QED BY <1>2, <1>3, <1>14, <1>15, <1>16, <1>17 DEF Passing, t, L

(* A pass is over and another begins.                                        *)
LEMMA AnotherPassPasses ==
    ASSUME TypeOK, SaidAfter, NEW g, NEW inbox \in Seq(Bag), NEW s \in Passing(g, inbox),
           s.todo = <<>>
    PROVE  Turn(s) \in Passing(g, inbox)
<1>1. s \in LoopState /\ s.still \in Seq(Bag) /\ s.todo \in Seq(Bag)
  BY DEF Passing, LoopState
<1>2. CASE ~(s.progress /\ s.still # <<>>)
  BY <1>2 DEF Turn
<1>3. CASE s.progress /\ s.still # <<>>
  <2> DEFINE t == Turn(s)
             a == Len(s.still)
  <2>1. t.g = s.g /\ t.todo = s.still /\ t.still = <<>> /\ t.progress = FALSE
    BY <1>3 DEF Turn
  <2>2. t \in LoopState
    BY <1>1, TurnStays
  <2>3. a \in Nat /\ Len(s.todo) = 0 /\ Len(<<>>) = 0
    BY <1>1
  <2>4. PICK f : Awaits(s, inbox, f)
    BY DEF Passing
  <2> HIDE DEF t
  <2>5. Len(t.still) = 0 /\ Len(t.todo) = a
    BY <2>1, <2>3
  <2> HIDE DEF a
  <2>6. a + 0 = a /\ 0 + a = a /\ 1..0 = {} /\ \A k \in 1..a : 0 + k = k
    BY <2>3
  <2>7. /\ f \in [1..a -> 1..Len(inbox)]
        /\ \A k, l \in 1..a : k < l => f[k] < f[l]
        /\ \A k \in 1..a : s.still[k] = inbox[f[k]]
        /\ \A i \in 1..Len(inbox) : (\A k \in 1..a : f[k] # i)
               => inbox[i].ok /\ inbox[i].hash \in s.g.has
    BY <2>3, <2>4, <2>6 DEF Awaits, a
  <2>8. Awaits(t, inbox, f)
    BY <2>1, <2>5, <2>6, <2>7 DEF Awaits
  <2>9. /\ g.has \subseteq s.g.has
        /\ \A h \in s.g.has : h \in g.has \/
               \E i \in 1..Len(inbox) : inbox[i].ok /\ inbox[i].hash = h
        /\ a + Len(s.todo) <= Len(inbox)
    BY DEF Passing, a
  <2>10. Len(t.still) + Len(t.todo) <= Len(inbox)
    BY <2>3, <2>5, <2>6, <2>9
  <2>11. \A k \in 1..Len(t.still) : ~Takes(t.g, t.still[k])
    BY <2>5, <2>6
  <2> QED BY <2>1, <2>2, <2>8, <2>9, <2>10, <2>11 DEF Passing, t
<1> QED BY <1>2, <1>3

(* Where the loop ends.                                                      *)
Over(s) == s.todo = <<>> /\ (s.still = <<>> \/ ~s.progress)

(* The turns it may still take: a bag's length for each utterance left and   *)
(* one more if the pass took something, and what is to be looked at.         *)
Measure(s, K) ==
    (Len(s.still) + Len(s.todo) + (IF s.progress THEN 1 ELSE 0)) * K + Len(s.todo)

(* Each turn uses some of it up.                                             *)
LEMMA MeasureShrinks ==
    ASSUME NEW s \in LoopState, NEW K \in Nat, Len(s.still) + Len(s.todo) < K, ~Over(s)
    PROVE  Measure(Turn(s), K) < Measure(s, K)
<1> DEFINE t == Turn(s)
           a == Len(s.still)
           m == Len(s.todo)
           pr == IF s.progress THEN 1 ELSE 0
           tr == IF t.progress THEN 1 ELSE 0
<1>1. /\ s.still \in Seq(Bag) /\ s.todo \in Seq(Bag) /\ s.progress \in BOOLEAN
      /\ a \in Nat /\ m \in Nat /\ pr \in {0, 1}
  BY DEF LoopState
<1>2. CASE s.todo # <<>> /\ Takes(s.g, Head(s.todo))
  <2>1. t.todo = Tail(s.todo) /\ t.still = s.still /\ t.progress = TRUE
    BY <1>2 DEF Turn, Takes
  <2>2. m # 0 /\ Len(Tail(s.todo)) = m - 1
    BY <1>1, <1>2, HeadTailProperties
  <2>3. Measure(t, K) = (a + (m - 1) + 1) * K + (m - 1)
    BY <2>1, <2>2 DEF Measure
  <2>4. Measure(s, K) = (a + m + pr) * K + m
    BY DEF Measure
  <2> HIDE DEF t, a, m, pr
  <2>5. (a + (m - 1) + 1) = a + m
    BY <1>1
  <2>6. (a + m + pr) * K = (a + m) * K + pr * K
    BY <1>1
  <2>7. pr * K \in Nat /\ (a + m) * K \in Nat
    BY <1>1
  <2> QED BY <1>1, <2>3, <2>4, <2>5, <2>6, <2>7 DEF t
<1>3. CASE s.todo # <<>> /\ ~Takes(s.g, Head(s.todo))
  <2>1. t.todo = Tail(s.todo) /\ t.still = Append(s.still, Head(s.todo)) /\ t.progress = (s.progress \/ FALSE)
    BY <1>3 DEF Turn, Takes
  <2>2. m # 0 /\ Len(Tail(s.todo)) = m - 1 /\ Len(Append(s.still, Head(s.todo))) = a + 1
    BY <1>1, <1>3, HeadTailProperties, AppendProperties
  <2>3. tr = pr
    BY <1>1, <2>1
  <2>4. Measure(t, K) = (a + 1 + (m - 1) + tr) * K + (m - 1)
    BY <2>1, <2>2 DEF Measure
  <2>5. Measure(s, K) = (a + m + pr) * K + m
    BY DEF Measure
  <2> HIDE DEF t, a, m, pr, tr
  <2>6. (a + 1 + (m - 1) + tr) = a + m + pr /\ (a + m + pr) * K \in Nat
    BY <1>1, <2>3
  <2> QED BY <1>1, <2>4, <2>5, <2>6 DEF t
<1>4. CASE s.todo = <<>>
  <2>1. s.progress /\ s.still # <<>> /\ m = 0 /\ pr = 1
    BY <1>1, <1>4 DEF Over
  <2>2. t.todo = s.still /\ t.still = <<>> /\ t.progress = FALSE
    BY <1>4, <2>1 DEF Turn
  <2>3. Measure(t, K) = (0 + a + 0) * K + a
    BY <2>2 DEF Measure
  <2>4. Measure(s, K) = (a + 0 + 1) * K + 0
    BY <2>1 DEF Measure
  <2>5. a < K
    BY <1>1, <2>1
  <2> HIDE DEF t, a, m, pr
  <2>6. (a + 0 + 1) * K = a * K + K /\ (0 + a + 0) * K = a * K /\ a * K \in Nat
    BY <1>1
  <2> QED BY <1>1, <2>3, <2>4, <2>5, <2>6 DEF t
<1> QED BY <1>2, <1>3, <1>4

(* So receive's loop is over within as many turns as the model gives it.     *)
LEMMA ReceiveEnds ==
    ASSUME TypeOK, SaidAfter, NEW g, Closed(g), NEW inbox \in Seq(Bag)
    PROVE  Received(g, inbox) \in Passing(g, inbox) /\ Over(Received(g, inbox))
<1> DEFINE at == Turns(g, inbox)
           L == Len(inbox)
           K == L + 1
           s0 == [g |-> g, todo |-> inbox, still |-> <<>>, progress |-> FALSE]
<1>1. /\ at[0] = s0
      /\ \A n \in Nat : at[n] \in LoopState
      /\ \A n \in Nat : at[n + 1] = Turn(at[n])
  BY TurnsRun
<1>2. L \in Nat /\ K \in Nat
  BY LenProperties
<1>3. s0 \in Passing(g, inbox)
  BY PassingStarts
<1>4. Measure(s0, K) = L * K + L
  <2>1. Len(s0.still) = 0 /\ Len(s0.todo) = L
    OBVIOUS
  <2>2. Measure(s0, K) = (0 + L + 0) * K + L
    BY <2>1 DEF Measure
  <2> HIDE DEF s0, L, K
  <2> QED BY <1>2, <2>2
<1> HIDE DEF at, s0
<1>5. \A n \in Nat : at[n] \in Passing(g, inbox)
  <2> DEFINE T == {n \in Nat : at[n] \in Passing(g, inbox)}
  <2>1. 0 \in T
    BY <1>1, <1>3
  <2>2. ASSUME NEW n \in Nat, n \in T PROVE n + 1 \in T
    <3>1. at[n] \in Passing(g, inbox) /\ at[n + 1] = Turn(at[n])
      BY <1>1, <2>2
    <3>2. CASE at[n].todo = <<>>
      BY <3>1, <3>2, AnotherPassPasses
    <3>3. CASE at[n].todo # <<>> /\ Takes(at[n].g, Head(at[n].todo))
      BY <3>1, <3>3, TakingPasses
    <3>4. CASE at[n].todo # <<>> /\ ~Takes(at[n].g, Head(at[n].todo))
      BY <3>1, <3>4, KeepingPasses
    <3> QED BY <3>2, <3>3, <3>4
  <2> HIDE DEF T
  <2>3. \A n \in Nat : n \in T
    BY <2>1, <2>2, EveryNatural
  <2> QED BY <2>3 DEF T
<1>6. \A s \in Passing(g, inbox) : /\ s \in LoopState
                                   /\ Len(s.still) + Len(s.todo) < K
                                   /\ Measure(s, K) \in Nat
  <2> SUFFICES ASSUME NEW s \in Passing(g, inbox)
               PROVE  s \in LoopState /\ Len(s.still) + Len(s.todo) < K /\ Measure(s, K) \in Nat
    OBVIOUS
  <2>1. s \in LoopState /\ Len(s.still) + Len(s.todo) <= L
    BY DEF Passing
  <2>2. Len(s.still) \in Nat /\ Len(s.todo) \in Nat
    BY <2>1 DEF LoopState
  <2> DEFINE c == IF s.progress THEN 1 ELSE 0
             a == Len(s.still)
             m == Len(s.todo)
  <2>3. Measure(s, K) = (a + m + c) * K + m
    BY DEF Measure
  <2>4. a \in Nat /\ m \in Nat /\ c \in Nat /\ a + m <= L
    BY <2>1, <2>2
  <2> HIDE DEF c, a, m, K
  <2>5. a + m + c \in Nat
    BY <2>4
  <2>6. (a + m + c) * K \in Nat
    BY <1>2, <2>5
  <2>7. Measure(s, K) \in Nat
    BY <2>3, <2>4, <2>6
  <2> HIDE DEF L
  <2>8. a + m < K
    BY <1>2, <2>4 DEF K
  <2> QED BY <2>1, <2>7, <2>8 DEF a, m
<1>7. \A n \in Nat : Over(at[n]) \/ Measure(at[n], K) + n <= L * K + L
  <2> DEFINE T == {n \in Nat : Over(at[n]) \/ Measure(at[n], K) + n <= L * K + L}
  <2>1. 0 \in T
    <3>1. Measure(at[0], K) + 0 <= L * K + L
      BY <1>1, <1>2, <1>3, <1>4, <1>6
    <3> QED BY <3>1
  <2>2. ASSUME NEW n \in Nat, n \in T PROVE n + 1 \in T
    <3>1. at[n + 1] = Turn(at[n]) /\ n + 1 \in Nat
      BY <1>1
    <3>2. CASE Over(at[n])
      <4>1. Turn(at[n]) = at[n]
        BY <3>2 DEF Over, Turn
      <4> QED BY <3>1, <3>2, <4>1
    <3>3. CASE ~Over(at[n])
      <4>1. Measure(at[n], K) + n <= L * K + L
        BY <2>2, <3>3
      <4>2. at[n] \in LoopState /\ Len(at[n].still) + Len(at[n].todo) < K
        BY <1>5, <1>6
      <4>3. Measure(Turn(at[n]), K) < Measure(at[n], K)
        BY <1>2, <3>3, <4>2, MeasureShrinks
      <4>4. Measure(at[n], K) \in Nat /\ Measure(at[n + 1], K) \in Nat
        BY <1>5, <1>6, <3>1
      <4>5. Measure(at[n + 1], K) + (n + 1) <= L * K + L
        <5> DEFINE b == L * K + L
        <5>1. b \in Nat
          BY <1>2
        <5>2. Measure(at[n], K) + n <= b
          BY <4>1
        <5> HIDE DEF b, K
        <5>3. Measure(at[n + 1], K) + (n + 1) <= b
          BY <3>1, <4>3, <4>4, <5>1, <5>2
        <5> QED BY <5>3 DEF b
      <4> QED BY <3>1, <4>5
    <3> QED BY <3>2, <3>3
  <2> HIDE DEF T
  <2>3. \A n \in Nat : n \in T
    BY <2>1, <2>2, EveryNatural
  <2> QED BY <2>3 DEF T
<1>8. K * K \in Nat /\ L * K + L < K * K
  BY <1>2
<1>9. Over(at[K * K])
  <2> DEFINE N == K * K
             b == L * K + L
  <2>1. N \in Nat /\ b \in Nat /\ b < N
    BY <1>2, <1>8
  <2>2. Over(at[N]) \/ Measure(at[N], K) + N <= b
    BY <1>7, <2>1
  <2>3. Measure(at[N], K) \in Nat
    BY <1>5, <1>6, <2>1
  <2> HIDE DEF N, b, K
  <2>4. Over(at[N])
    BY <2>1, <2>2, <2>3
  <2> QED BY <2>4 DEF N
<1> QED BY <1>5, <1>8, <1>9 DEF Received, at, K, L

(* When it is, no placeable utterance is left: of those left, the one whose  *)
(* author had none of the others could be taken.                             *)
LEMMA NothingPlaceableIsLeft ==
    ASSUME TypeOK, SaidAfter, NEW g, Closed(g), NEW inbox \in Seq(Bag),
           NEW s \in Passing(g, inbox), Over(s),
           NEW i \in 1..Len(inbox), Placeable(g, inbox, inbox[i])
    PROVE  inbox[i].hash \in s.g.has
<1> DEFINE L == Len(inbox)
           here == g.has \union {v.hash : v \in {w \in ToSet(inbox) : w.ok}}
           U == {h \in minted \ s.g.has : \E j \in 1..L :
                    inbox[j].ok /\ inbox[j].hash = h /\ before[h] \subseteq here}
<1>1. /\ DOMAIN inbox = 1..L /\ ToSet(inbox) = {inbox[j] : j \in 1..L}
      /\ \A j \in 1..L : inbox[j].hash \in minted
  <2>1. DOMAIN inbox = 1..L /\ \A j \in 1..L : inbox[j] \in Bag
    OBVIOUS
  <2>2. ToSet(inbox) = {inbox[j] : j \in 1..L}
    BY <2>1 DEF ToSet
  <2> QED BY <2>1, <2>2 DEF Bag
<1>2. \A h : h \in here <=> h \in g.has \/ \E j \in 1..L : inbox[j].ok /\ inbox[j].hash = h
  BY <1>1
<1>3. inbox[i].ok /\ before[inbox[i].hash] \subseteq here
  BY DEF Placeable
<1> HIDE DEF here
<1> SUFFICES ASSUME U # {} PROVE FALSE
  BY <1>1, <1>3
<1>4. U \in SUBSET minted
  OBVIOUS
<1>5. PICK h \in U : \A y \in before[h] : y \notin U
  <2> HIDE DEF U
  <2> QED BY <1>4, EarliestExists
<1>6. PICK j \in 1..L : inbox[j].ok /\ inbox[j].hash = h /\ before[h] \subseteq here
  OBVIOUS
<1>7. /\ h \in minted /\ h \notin s.g.has
      /\ said[h] \subseteq before[h] /\ before[h] \subseteq minted
      /\ \A y \in before[h] : before[y] \subseteq before[h]
  BY DEF SaidAfter
<1>8. g.has \subseteq s.g.has
  BY DEF Passing
<1>9. ASSUME NEW y \in before[h] PROVE y \in s.g.has
  <2>1. y \in minted /\ y \in here /\ before[y] \subseteq here /\ y \notin U
    BY <1>5, <1>6, <1>7
  <2>2. CASE y \in g.has
    BY <1>8, <2>2
  <2>3. CASE y \notin g.has
    <3>1. PICK k \in 1..L : inbox[k].ok /\ inbox[k].hash = y
      BY <1>2, <2>1, <2>3
    <3> QED BY <2>1, <3>1
  <2> QED BY <2>2, <2>3
<1>10. Takes(s.g, inbox[j])
  BY <1>6, <1>7, <1>9 DEF Takes, AddResult
<1>11. PICK f : Awaits(s, inbox, f)
  BY DEF Passing
<1>12. s.todo = <<>> /\ Len(s.todo) = 0 /\ Len(s.still) \in Nat
  BY DEF Over, Passing, LoopState
<1>13. Len(s.still) + Len(s.todo) = Len(s.still)
  BY <1>12
<1>14. PICK k \in 1..Len(s.still) : f[k] = j
  BY <1>6, <1>7, <1>11, <1>13 DEF Awaits
<1>15. s.still[k] = inbox[j]
  BY <1>11, <1>14 DEF Awaits
<1>16. s.still # <<>> /\ ~s.progress
  BY <1>14 DEF Over
<1>17. ~Takes(s.g, s.still[k])
  BY <1>16 DEF Passing
<1> QED BY <1>10, <1>15, <1>17

(* receive places exactly what can be placed, whatever the order of the bag, *)
(* and hands back exactly the rest, in the order it came.                    *)
THEOREM WhatCanBePlacedIs == Spec => []ReceivePlacesAll
<1>1. HInv => ReceivePlacesAll
  <2> SUFFICES ASSUME HInv, NEW p \in Peer, NEW inbox \in Inboxes
               PROVE  LET g == graph[p]
                          r == Received(g, inbox)
                          placed == {i \in DOMAIN inbox : Placeable(g, inbox, inbox[i])}
                      IN /\ r.g.has = g.has \union {inbox[i].hash : i \in placed}
                         /\ ListsThoseAt(r.still, inbox, DOMAIN inbox \ placed)
    BY DEF ReceivePlacesAll
  <2> DEFINE g == graph[p]
             r == Received(g, inbox)
             placed == {i \in DOMAIN inbox : Placeable(g, inbox, inbox[i])}
             L == Len(inbox)
  <2>1. TypeOK /\ SaidAfter /\ Closed(g) /\ inbox \in Seq(Bag)
    BY InboxIsBag DEF HInv
  <2>2. r \in Passing(g, inbox) /\ Over(r)
    BY <2>1, ReceiveEnds
  <2>3. DOMAIN inbox = 1..L /\ L \in Nat /\ ToSet(inbox) = {inbox[i] : i \in 1..L}
    <3>1. DOMAIN inbox = 1..L /\ L \in Nat
      BY <2>1
    <3> QED BY <3>1 DEF ToSet
  <2> HIDE DEF r
  <2>4. /\ r \in LoopState /\ g.has \subseteq r.g.has
        /\ \A h \in r.g.has : h \in g.has \/ \E i \in 1..L : inbox[i].ok /\ inbox[i].hash = h
        /\ ~r.progress => \A k \in 1..Len(r.still) : ~Takes(r.g, r.still[k])
    BY <2>2 DEF Passing
  <2>5. \A i \in placed : inbox[i].hash \in r.g.has /\ inbox[i].ok
    <3>1. ASSUME NEW i \in 1..L, Placeable(g, inbox, inbox[i])
          PROVE  inbox[i].hash \in r.g.has /\ inbox[i].ok
      BY <2>1, <2>2, <3>1, NothingPlaceableIsLeft DEF Placeable
    <3> QED BY <2>3, <3>1
  <2>6. ASSUME NEW i \in 1..L, inbox[i].ok, inbox[i].hash \in r.g.has PROVE i \in placed
    <3>1. before[inbox[i].hash] \subseteq r.g.has
      BY <2>4, <2>6 DEF LoopState, Closed, ClosedIn
    <3>2. r.g.has \subseteq g.has \union {v.hash : v \in {w \in ToSet(inbox) : w.ok}}
      BY <2>3, <2>4
    <3> QED BY <2>3, <2>6, <3>1, <3>2 DEF Placeable
  <2> HIDE DEF placed
  <2>7. placed \subseteq 1..L
    BY <2>3 DEF placed
  <2>8. r.g.has = g.has \union {inbox[i].hash : i \in placed}
    BY <2>4, <2>5, <2>6
  <2>9. PICK f : Awaits(r, inbox, f)
    BY <2>2 DEF Passing
  <2> DEFINE a == Len(r.still)
  <2>10. /\ r.still \in Seq(Bag) /\ a \in Nat /\ DOMAIN r.still = 1..a
         /\ Len(r.todo) = 0 /\ a + Len(r.todo) = a
    BY <2>2, <2>4 DEF LoopState, Over
  <2>11. /\ f \in [1..a -> 1..L]
         /\ \A k, l \in 1..a : k < l => f[k] < f[l]
         /\ \A k \in 1..a : r.still[k] = inbox[f[k]]
         /\ \A i \in 1..L : (\A k \in 1..a : f[k] # i) => inbox[i].ok /\ inbox[i].hash \in r.g.has
    <3>1. a + Len(r.todo) = a
      BY <2>10
    <3> QED BY <2>9, <3>1 DEF Awaits
  <2>12. ASSUME NEW k \in 1..a PROVE f[k] \notin placed
    <3>1. r.still # <<>> /\ ~r.progress
      BY <2>2, <2>10 DEF Over
    <3>2. ~Takes(r.g, inbox[f[k]])
      BY <2>4, <2>11, <3>1
    <3> QED BY <2>5, <3>2 DEF Takes, AddResult
  <2>13. {f[k] : k \in 1..a} = (1..L) \ placed
    <3>1. \A k \in 1..a : f[k] \in (1..L) \ placed
      BY <2>11, <2>12
    <3>2. \A i \in (1..L) \ placed : \E k \in 1..a : f[k] = i
      BY <2>6, <2>11
    <3> QED BY <3>1, <3>2
  <2>14. ListsThoseAt(r.still, inbox, DOMAIN inbox \ placed)
    <3> HIDE DEF a, L
    <3>1. /\ f \in [DOMAIN r.still -> DOMAIN inbox]
          /\ \A k, l \in DOMAIN r.still : k < l => f[k] < f[l]
          /\ \A k \in DOMAIN r.still : r.still[k] = inbox[f[k]]
          /\ {f[k] : k \in DOMAIN r.still} = DOMAIN inbox \ placed
      BY <2>3, <2>10, <2>11, <2>13
    <3> QED BY <3>1 DEF ListsThoseAt
  <2> QED BY <2>8, <2>14 DEF r, placed
<1> QED BY <1>1, HInvAlways, PTL

=============================================================================
