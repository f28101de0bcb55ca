-------------------------- MODULE SessionFilesProofs --------------------------
(***************************************************************************)
(* Nothing but an ack or a want of the peer's, come between a change and   *)
(* the tick, makes an open session lose track of a missing file, whatever  *)
(* the addresses, the number of attempts, the coalescing window, the host  *)
(* and the transport. FilesInv is what the argument needs of a state: the  *)
(* types, and that a session that is not open yet has seen no revision, so *)
(* that the tick that opens it looks at the document.                      *)
(*                                                                         *)
(* The second section is about the cautious policy, the last about the     *)
(* session's presence (Presence.tla).                                      *)
(***************************************************************************)
EXTENDS SessionFiles, Presence, TLAPS

(* A table of wants. *)
Table == [Address -> Want]

(* Every missing named file, after the step, has an entry in table w. *)
Covers(w) == \A a \in named' \ have' : w[a].state \in WantStates

(* refresh_wants gives every missing named file an entry. *)
LEMMA RefreshedCovers ==
    ASSUME NEW w \in Table, named' \subseteq Address, policy \in {"automatic", "cautious"}
    PROVE  Refreshed(w) \in Table /\ Covers(Refreshed(w))
BY FilesAssumption
   DEF Refreshed, Noticed, Forgotten, Table, Covers, Want, WantStates, Untracked

(* Asking keeps every entry an entry. *)
LEMMA AskedKeeps ==
    ASSUME NEW w \in Table
    PROVE  /\ Asked(w) \in Table
           /\ \A a \in Address : w[a].state \in WantStates => Asked(w)[a].state \in WantStates
BY FilesAssumption DEF Asked, Table, Want, WantStates

(* So does giving up on what is late, or wanting it again. *)
LEMMA TimedOutKeeps ==
    ASSUME NEW w \in Table, NEW late
    PROVE  /\ TimedOut(w, late) \in Table
           /\ \A a \in Address : w[a].state \in WantStates => TimedOut(w, late)[a].state \in WantStates
BY FilesAssumption DEF TimedOut, Table, Want, WantStates

(* The requests an ask sends are frames. *)
LEMMA RequestIsFrame ==
    ASSUME NEW w
    PROVE  Request(w) \subseteq Frame
BY DEF Request, Frame, In

(* What is carried stays a set of frames. *)
LEMMA CarryFrames ==
    ASSUME NEW old, NEW new, old \subseteq Frame, new \subseteq Frame, Carry(old, new)
    PROVE  net' \subseteq Frame
BY DEF Carry

(* Delivering a frame leaves no new one under way. *)
LEMMA DeliveredFrames ==
    ASSUME NEW f, NEW rest \in Delivered(f), net \subseteq Frame
    PROVE  rest \subseteq Frame
BY DEF Delivered

(* Every missing file the document names has an entry. *)
Tracked == \A a \in named \ have : wants[a].state \in WantStates

(* The shared part of tick: when it leaves the revision seen, the files are    *)
(* tracked, unless it was seen before and they were not.                       *)
LEMMA TickOpenKeeps ==
    ASSUME TypeOK, NEW settling \in BOOLEAN, NEW late, TickOpen(settling, late),
           named' = named, have' = have
    PROVE  /\ wants' \in Table /\ stale' \in BOOLEAN /\ net' \subseteq Frame
           /\ (stale \/ Tracked) /\ ~stale' => Covers(wants')
<1> DEFINE w1 == TickWants(wants, settling)
           w2 == Asked(w1)
           l  == late \intersect In(wants, "requested") \intersect In(w2, "requested")
           w3 == TimedOut(w2, l)
<1>1. wants \in Table /\ named' \subseteq Address /\ policy \in {"automatic", "cautious"}
      /\ net \subseteq Frame /\ stale \in BOOLEAN
  BY DEF TypeOK, Table
<1>2. /\ wants' = Asked(w3)
      /\ stale' = (stale /\ settling)
      /\ Carry(net, Request(w1) \union Request(w3))
  BY DEF TickOpen
<1>3. w1 \in Table /\ ((stale \/ Tracked) /\ ~(stale /\ settling) => Covers(w1))
  <2>1. CASE stale /\ ~settling
    BY <1>1, <2>1, RefreshedCovers DEF TickWants
  <2>2. CASE ~(stale /\ ~settling)
    BY <1>1, <2>2 DEF TickWants, Covers, Tracked
  <2> QED BY <2>1, <2>2
<1>4. w2 \in Table /\ w3 \in Table /\ Asked(w3) \in Table
  BY <1>3, AskedKeeps, TimedOutKeeps
<1>5. Covers(w1) => Covers(Asked(w3))
  <2> SUFFICES ASSUME Covers(w1), NEW a \in named' \ have'
               PROVE  Asked(w3)[a].state \in WantStates
    BY DEF Covers
  <2>1. a \in Address /\ w1[a].state \in WantStates
    BY <1>1 DEF Covers
  <2>2. w2[a].state \in WantStates
    BY <2>1, <1>3, AskedKeeps
  <2>3. w3[a].state \in WantStates
    BY <2>1, <2>2, <1>4, TimedOutKeeps
  <2> QED BY <2>1, <2>3, <1>4, AskedKeeps
<1>6. net' \subseteq Frame
  BY <1>1, <1>2, RequestIsFrame, CarryFrames
<1> HIDE DEF w1, w2, w3, l
<1> QED BY <1>1, <1>2, <1>3, <1>4, <1>5, <1>6

(* What the argument needs of a state. *)
FilesInv == TypeOK /\ (state = "connecting" => stale)

(* What each step keeps. *)
StepKeeps == FilesInv' /\ (KnownIsTracked => KnownIsTracked')

(* Every step of the session and its surroundings keeps FilesInv, and all but *)
(* an ack or want on a revision not seen keep the files tracked.              *)
LEMMA NextKeepsTracked ==
    ASSUME FilesInv, [Next]_vars
    PROVE  FilesInv' /\ (KnownIsTracked /\ ~KnownIsTracked' => stale /\ HearAckOrWant)
<1> USE FilesAssumption
<1>0. /\ TypeOK
      /\ wants \in Table /\ net \subseteq Frame
      /\ (state = "connecting" => stale)
  BY DEF FilesInv, TypeOK, Table
<1>1. ASSUME NEW n \in SUBSET Address, Edit(n) PROVE StepKeeps
  BY <1>0, <1>1 DEF Edit, StepKeeps, FilesInv, TypeOK, KnownIsTracked
<1>2. ASSUME NEW n \in SUBSET Address, HearDoc(n) PROVE StepKeeps
  <2>1. Refreshed(wants) \in Table /\ Covers(Refreshed(wants))
    BY <1>0, <1>2, RefreshedCovers DEF HearDoc, TypeOK
  <2>2. wants' \in Table /\ Covers(wants')
    <3>1. wants' = Asked(Refreshed(wants)) /\ named' \subseteq Address
      BY <1>2 DEF HearDoc
    <3> HIDE DEF Refreshed
    <3> QED BY <2>1, <3>1, AskedKeeps DEF Covers
  <2>3. net' \subseteq Frame
    BY <1>0, <1>2, RequestIsFrame, CarryFrames DEF HearDoc
  <2> QED BY <1>0, <1>2, <2>2, <2>3
          DEF HearDoc, StepKeeps, FilesInv, TypeOK, KnownIsTracked, Covers, Table
<1>3. ASSUME NEW n \in SUBSET Address, Supply(n) PROVE StepKeeps
  BY <1>0, <1>3 DEF Supply, StepKeeps, FilesInv, TypeOK, KnownIsTracked
<1>4. ASSUME NEW a \in Address, FindElsewhere(a) PROVE StepKeeps
  BY <1>0, <1>4 DEF FindElsewhere, StepKeeps, FilesInv, TypeOK, KnownIsTracked
<1>5. ASSUME NEW a \in Address, Fetch(a) PROVE StepKeeps
  <2> DEFINE w == IF wants[a].state \in {"deferred", "unavailable"}
                  THEN [wants EXCEPT ![a] = [state |-> "wanted", attempts |-> 0]]
                  ELSE wants
  <2>1. /\ w \in Table
        /\ \A b \in Address : wants[b].state \in WantStates => w[b].state \in WantStates
    BY <1>0 DEF Table, Want, WantStates
  <2>2. wants' = Ask(w, state) /\ Carry(net, Asks(w, state))
    BY <1>5 DEF Fetch
  <2> HIDE DEF w
  <2>3. /\ wants' \in Table
        /\ \A b \in Address : wants[b].state \in WantStates => wants'[b].state \in WantStates
    BY <2>1, <2>2, AskedKeeps DEF Ask
  <2>4. net' \subseteq Frame
    BY <1>0, <2>2, RequestIsFrame, CarryFrames DEF Asks
  <2> QED BY <1>0, <1>5, <2>3, <2>4 DEF Fetch, StepKeeps, FilesInv, TypeOK, KnownIsTracked, Table
<1>6. ASSUME NEW late \in SUBSET Address, HearHello(late) PROVE StepKeeps
  <2>1. /\ wants' \in Table /\ stale' \in BOOLEAN /\ net' \subseteq Frame
        /\ (stale \/ Tracked) /\ ~stale' => Covers(wants')
    BY <1>0, <1>6, TickOpenKeeps DEF HearHello
  <2>2. KnownIsTracked => stale \/ Tracked
    BY <1>0, <1>6 DEF HearHello, KnownIsTracked, Tracked
  <2> QED BY <1>0, <1>6, <2>1, <2>2
          DEF HearHello, StepKeeps, FilesInv, TypeOK, KnownIsTracked, Covers, Table
<1>7. ASSUME NEW late \in SUBSET Address, NEW settling \in BOOLEAN, Tick(settling, late)
      PROVE  StepKeeps
  <2>1. /\ wants' \in Table /\ stale' \in BOOLEAN /\ net' \subseteq Frame
        /\ (stale \/ Tracked) /\ ~stale' => Covers(wants')
    BY <1>0, <1>7, TickOpenKeeps DEF Tick
  <2>2. KnownIsTracked => stale \/ Tracked
    BY <1>7 DEF Tick, KnownIsTracked, Tracked
  <2> QED BY <1>0, <1>7, <2>1, <2>2
          DEF Tick, StepKeeps, FilesInv, TypeOK, KnownIsTracked, Covers, Table
<1>8. ASSUME HearAckOrWant
      PROVE  FilesInv' /\ (KnownIsTracked /\ ~KnownIsTracked' => stale)
  BY <1>0, <1>8 DEF HearAckOrWant, FilesInv, TypeOK, KnownIsTracked
<1>9. ASSUME NEW f \in net, Answer(f) PROVE StepKeeps
  <2> DEFINE content == {[kind |-> "content", address |-> a,
                          bytes |-> IF a \in Damaged THEN "bad" ELSE "good"]
                            : a \in f.addresses \intersect serves}
             none == f.addresses \ serves
             absent == IF none = {} THEN {} ELSE {[kind |-> "absent", addresses |-> none]}
  <2>1. f.addresses \subseteq Address
    BY <1>0, <1>9 DEF Answer, Frame
  <2>2. content \union absent \subseteq Frame
    BY <1>0, <2>1 DEF Frame, TypeOK
  <2>3. PICK rest \in Delivered(f) : Carry(rest, content \union absent)
    BY <1>9 DEF Answer
  <2> HIDE DEF content, none, absent
  <2>4. net' \subseteq Frame
    BY <1>0, <2>2, <2>3, DeliveredFrames, CarryFrames
  <2> QED BY <1>0, <1>9, <2>4 DEF Answer, StepKeeps, FilesInv, TypeOK, KnownIsTracked
<1>10. ASSUME NEW f \in net, HearContent(f) PROVE StepKeeps
  <2>1. f.address \in Address
    BY <1>0, <1>10 DEF HearContent, Frame
  <2>2. net' \subseteq Frame
    BY <1>0, <1>10, DeliveredFrames DEF HearContent
  <2>3. /\ wants' \in Table /\ have' \subseteq Address
        /\ \A a \in named \ have' : wants[a].state \in WantStates => wants'[a].state \in WantStates
        /\ have \subseteq have'
    BY <1>0, <1>10, <2>1 DEF HearContent, Takes, TypeOK, Table, Want, WantStates, Untracked
  <2> QED BY <1>0, <1>10, <2>2, <2>3 DEF HearContent, StepKeeps, FilesInv, TypeOK, KnownIsTracked, Table
<1>11. ASSUME NEW f \in net, HearAbsent(f) PROVE StepKeeps
  <2>1. net' \subseteq Frame
    BY <1>0, <1>11, DeliveredFrames DEF HearAbsent
  <2>2. /\ wants' \in Table
        /\ \A a \in Address : wants[a].state \in WantStates => wants'[a].state \in WantStates
    BY <1>0, <1>11 DEF HearAbsent, Table, Want, WantStates
  <2> QED BY <1>0, <1>11, <2>1, <2>2 DEF HearAbsent, StepKeeps, FilesInv, TypeOK, KnownIsTracked, Table
<1>12. ASSUME NEW f \in net, Lose(f) PROVE StepKeeps
  BY <1>0, <1>12 DEF Lose, StepKeeps, FilesInv, TypeOK, KnownIsTracked
<1>13. ASSUME NEW p \in {"automatic", "cautious"}, SetFetch(p) PROVE StepKeeps
  <2> DEFINE w == [a \in Address |->
                     IF p = "automatic" /\ wants[a].state = "deferred"
                     THEN [state |-> "wanted", attempts |-> 0]
                     ELSE IF p = "cautious" /\ wants[a].state = "wanted"
                     THEN [wants[a] EXCEPT !.state = "deferred"]
                     ELSE wants[a]]
  <2>1. /\ w \in Table
        /\ \A b \in Address : wants[b].state \in WantStates => w[b].state \in WantStates
    BY <1>0 DEF Table, Want, WantStates
  <2>2. wants' = Ask(w, state) /\ Carry(net, Asks(w, state))
    BY <1>13 DEF SetFetch
  <2> HIDE DEF w
  <2>3. /\ wants' \in Table
        /\ \A b \in Address : wants[b].state \in WantStates => wants'[b].state \in WantStates
    BY <2>1, <2>2, AskedKeeps DEF Ask
  <2>4. net' \subseteq Frame
    BY <1>0, <2>2, RequestIsFrame, CarryFrames DEF Asks
  <2> QED BY <1>0, <1>13, <2>3, <2>4 DEF SetFetch, StepKeeps, FilesInv, TypeOK, KnownIsTracked, Table
<1>14. ASSUME Close PROVE StepKeeps
  BY <1>0, <1>14 DEF Close, StepKeeps, FilesInv, TypeOK, KnownIsTracked
<1>15. ASSUME UNCHANGED vars PROVE StepKeeps
  BY <1>0, <1>15 DEF vars, StepKeeps, FilesInv, TypeOK, KnownIsTracked
<1> QED BY <1>1, <1>2, <1>3, <1>4, <1>5, <1>6, <1>7, <1>8, <1>9, <1>10, <1>11, <1>12,
           <1>13, <1>14, <1>15 DEF Next, StepKeeps

(* Session::tick, receive, refresh_wants and refresh_export together lose     *)
(* track of no missing file, in any behaviour of any host, but where an ack   *)
(* or want has the revision marked as seen before refresh_wants looked at it. *)
THEOREM OnlyPassedFilesAreMissed == Spec => OnlyAckOrWantMisses
<1>1. Init => FilesInv
  BY FilesAssumption DEF Init, FilesInv, TypeOK, Want, Untracked, WantStates
<1>2. FilesInv /\ [Next]_vars =>
        FilesInv' /\ (KnownIsTracked /\ ~KnownIsTracked' => stale /\ HearAckOrWant)
  BY NextKeepsTracked
<1> QED BY <1>1, <1>2, PTL DEF Spec, OnlyAckOrWantMisses

-----------------------------------------------------------------------------
(* The cautious policy, for any host and any transport. *)

(* Nobody wants a in table w. *)
Idle(w, a) == w[a].state \notin {"wanted", "requested"}

(* Tables stay tables; that is all the argument needs of a state. *)
TableInv == wants \in Table /\ named \subseteq Address /\ policy \in {"automatic", "cautious"}

(* What CautiousAsksNothingNew says of one step. *)
OnlyFetchAsks ==
    policy' = "cautious" =>
        \A a \in Address : Idle(wants, a) /\ ~Fetch(a) => Idle(wants', a)

(* Under the cautious policy, looking at the document wants nothing new. *)
LEMMA RefreshedIdle ==
    ASSUME NEW w \in Table, NEW a \in Address, Idle(w, a), policy = "cautious"
    PROVE  Idle(Refreshed(w), a)
BY FilesAssumption DEF Idle, Refreshed, Noticed, Forgotten, Untracked, Table

(* Asking for what is wanted wants nothing new. *)
LEMMA AskedIdle ==
    ASSUME NEW w \in Table, NEW a \in Address, Idle(w, a)
    PROVE  Idle(Asked(w), a)
BY DEF Idle, Asked, Table

(* Nor does giving up on other files. *)
LEMMA TimedOutIdle ==
    ASSUME NEW w \in Table, NEW a \in Address, Idle(w, a), NEW late, a \notin late
    PROVE  Idle(TimedOut(w, late), a)
BY DEF Idle, TimedOut, Table

(* The shared part of tick. *)
LEMMA TickOpenIdle ==
    ASSUME TableInv, NEW settling, NEW late, TickOpen(settling, late), named' = named
    PROVE  /\ wants' \in Table
           /\ policy = "cautious" => \A a \in Address : Idle(wants, a) => Idle(wants', a)
<1> DEFINE w1 == TickWants(wants, settling)
           w2 == Asked(w1)
           l == late \intersect In(wants, "requested") \intersect In(w2, "requested")
           w3 == TimedOut(w2, l)
<1>1. w1 \in Table
  BY RefreshedCovers DEF TableInv, TickWants
<1>2. w2 \in Table
  BY <1>1, AskedKeeps
<1>3. w3 \in Table
  BY <1>2, TimedOutKeeps
<1>4. wants' = Asked(w3)
  BY DEF TickOpen
<1>5. wants' \in Table
  BY <1>3, <1>4, AskedKeeps
<1>6. ASSUME policy = "cautious", NEW a \in Address, Idle(wants, a) PROVE Idle(wants', a)
  <2>1. Idle(w1, a)
    BY <1>6, RefreshedIdle DEF TableInv, TickWants
  <2>2. a \notin l
    BY <1>6 DEF Idle, In
  <2> HIDE DEF w1, l
  <2>3. Idle(w2, a)
    BY <1>1, <2>1, <2>2, AskedIdle
  <2> HIDE DEF w2
  <2>4. Idle(w3, a)
    BY <1>2, <2>2, <2>3, TimedOutIdle
  <2> HIDE DEF w3
  <2> QED BY <1>3, <1>4, <2>2, <2>4, AskedIdle
<1> HIDE DEF w1, w2, w3, l
<1> QED BY <1>5, <1>6

(* No step but the host's fetch of a file has an idle file asked for. *)
LEMMA NextIdle ==
    ASSUME TableInv, [Next]_vars
    PROVE  TableInv' /\ OnlyFetchAsks
<1> USE FilesAssumption
<1>0. wants \in Table
  BY DEF TableInv
<1>1. ASSUME NEW n \in SUBSET Address, HearDoc(n) PROVE TableInv' /\ OnlyFetchAsks
  <2>1. /\ named' \subseteq Address /\ policy' = policy
        /\ wants' = Asked(Refreshed(wants))
    BY <1>1 DEF HearDoc
  <2>2. Refreshed(wants) \in Table
    BY <2>1, RefreshedCovers DEF TableInv
  <2>3. wants' \in Table
    BY <2>1, <2>2, AskedKeeps
  <2>4. ASSUME policy' = "cautious", NEW a \in Address, Idle(wants, a) PROVE Idle(wants', a)
    <3>1. Idle(Refreshed(wants), a)
      BY <1>0, <2>1, <2>4, RefreshedIdle
    <3> QED BY <2>1, <2>2, <3>1, AskedIdle
  <2> QED BY <2>1, <2>3, <2>4 DEF TableInv, OnlyFetchAsks
<1>2. ASSUME NEW late \in SUBSET Address, NEW settling \in BOOLEAN,
             HearHello(late) \/ Tick(settling, late)
      PROVE  TableInv' /\ OnlyFetchAsks
  <2>1. named' = named /\ policy' = policy
    BY <1>2 DEF HearHello, Tick
  <2>2. \E s \in BOOLEAN : TickOpen(s, late)
    BY <1>2 DEF HearHello, Tick
  <2> QED BY <2>1, <2>2, TickOpenIdle DEF TableInv, OnlyFetchAsks
<1>3. ASSUME NEW b \in Address, Fetch(b) PROVE TableInv' /\ OnlyFetchAsks
  <2> DEFINE w == IF wants[b].state \in {"deferred", "unavailable"}
                  THEN [wants EXCEPT ![b] = [state |-> "wanted", attempts |-> 0]]
                  ELSE wants
  <2>1. w \in Table /\ \A a \in Address \ {b} : w[a] = wants[a]
    BY <1>0 DEF Table, Want, WantStates
  <2>2. wants' = Ask(w, state) /\ named' = named /\ policy' = policy
    BY <1>3 DEF Fetch
  <2> HIDE DEF w
  <2>3. wants' \in Table
    BY <2>1, <2>2, AskedKeeps DEF Ask
  <2>4. ASSUME NEW a \in Address \ {b}, Idle(wants, a) PROVE Idle(wants', a)
    <3>1. Idle(w, a)
      BY <2>1, <2>4 DEF Idle
    <3> QED BY <2>1, <2>2, <3>1, AskedIdle DEF Ask
  <2> QED BY <1>3, <2>2, <2>3, <2>4 DEF TableInv, OnlyFetchAsks
<1>4. ASSUME NEW p \in {"automatic", "cautious"}, SetFetch(p) PROVE TableInv' /\ OnlyFetchAsks
  <2> DEFINE w == [a \in Address |->
                     IF p = "automatic" /\ wants[a].state = "deferred"
                     THEN [state |-> "wanted", attempts |-> 0]
                     ELSE IF p = "cautious" /\ wants[a].state = "wanted"
                     THEN [wants[a] EXCEPT !.state = "deferred"]
                     ELSE wants[a]]
  <2>1. w \in Table
    BY <1>0 DEF Table, Want, WantStates
  <2>2. p = "cautious" => \A a \in Address : Idle(wants, a) => Idle(w, a)
    BY <1>0 DEF Idle, Table, Want
  <2>3. wants' = Ask(w, state) /\ policy' = p /\ named' = named
    BY <1>4 DEF SetFetch
  <2> HIDE DEF w
  <2>4. wants' \in Table
    BY <2>1, <2>3, AskedKeeps DEF Ask
  <2>5. p = "cautious" => \A a \in Address : Idle(wants, a) => Idle(wants', a)
    BY <2>1, <2>2, <2>3, AskedIdle DEF Ask
  <2> QED BY <1>4, <2>3, <2>4, <2>5 DEF TableInv, OnlyFetchAsks
<1>5. ASSUME NEW f \in net, HearContent(f) PROVE TableInv' /\ OnlyFetchAsks
  <2>1. wants' \in Table /\ \A a \in Address : Idle(wants, a) => Idle(wants', a)
    BY <1>0, <1>5 DEF HearContent, Takes, Idle, Table, Want, WantStates, Untracked
  <2> QED BY <1>5, <2>1 DEF HearContent, TableInv, OnlyFetchAsks
<1>6. ASSUME NEW f \in net, HearAbsent(f) PROVE TableInv' /\ OnlyFetchAsks
  <2>1. wants' \in Table /\ \A a \in Address : Idle(wants, a) => Idle(wants', a)
    BY <1>0, <1>6 DEF HearAbsent, Idle, Table, Want, WantStates
  <2> QED BY <1>6, <2>1 DEF HearAbsent, TableInv, OnlyFetchAsks
<1>7. ASSUME NEW n \in SUBSET Address, Edit(n) \/ Supply(n) PROVE TableInv' /\ OnlyFetchAsks
  BY <1>7 DEF Edit, Supply, TableInv, OnlyFetchAsks, Idle
<1>8. ASSUME (\E a \in Address : FindElsewhere(a)) \/ HearAckOrWant \/ Close
             \/ (\E f \in net : Answer(f) \/ Lose(f)) \/ UNCHANGED vars
      PROVE  TableInv' /\ OnlyFetchAsks
  <2>1. wants' = wants /\ named' = named /\ policy' = policy
    BY <1>8 DEF FindElsewhere, HearAckOrWant, Close, Answer, Lose, vars
  <2> QED BY <2>1 DEF TableInv, OnlyFetchAsks, Idle
<1> QED BY <1>1, <1>2, <1>3, <1>4, <1>5, <1>6, <1>7, <1>8 DEF Next

(* sync.hpp's cautious setting: Session::refresh_wants, tick, receive and     *)
(* set_fetch ask for no file on their own, whatever the host's timing and the *)
(* transport; only Session::fetch has a file asked for.                       *)
THEOREM CautiousWaitsToBeTold == Spec => CautiousAsksNothingNew
<1>1. Init => TableInv
  BY FilesAssumption DEF Init, TableInv, Table, Want, Untracked, WantStates
<1>2. TableInv /\ [Next]_vars => TableInv' /\ OnlyFetchAsks
  BY NextIdle
<1>3. OnlyFetchAsks =>
        \A a \in Address :
          policy' = "cautious" /\ wants'[a].state = "requested"
              /\ wants[a].state \in {"unknown", "deferred", "unavailable"}
          => Fetch(a)
  BY DEF OnlyFetchAsks, Idle
<1> QED BY <1>1, <1>2, <1>3, PTL DEF Spec, CautiousAsksNothingNew

-----------------------------------------------------------------------------
(* Presence, the session's third sphere, has a specification and variables of *)
(* its own: the watcher shows the newest payload until the publisher restarts, *)
(* for any number of payloads, whatever the transport does.                   *)

(* ShowsTheNewest made inductive: in the publisher's first session every     *)
(* frame carries its number, and presence_in_ is the number of the payload   *)
(* shown.                                                                    *)
NewestInv ==
    /\ PresenceOK
    /\ session = 1 =>
          /\ shown = newest /\ in = newest[2] /\ newest[1] \in {0, 1}
          /\ newest[1] = 0 => newest = Nothing
          /\ \A p \in frames : p[1] = 1

(* In the first session, a number is newer exactly when the payload is.      *)
LEMMA NewerMeansBefore ==
    ASSUME NewestInv, session = 1, NEW p \in frames
    PROVE  Newer(p) <=> Before(newest, p)
<1>1. p \in Payload /\ p[1] = 1 /\ p[2] \in 1..MaxSeq
    BY DEF NewestInv, PresenceOK, Payload
<1>2. newest \in Payload \union {Nothing} /\ newest[1] \in {0, 1} /\ in = newest[2]
    BY DEF NewestInv, PresenceOK
<1>3. newest[1] = 0 => in = 0
    BY <1>2 DEF NewestInv, Nothing
<1>4. in \in Nat
    BY PresenceAssumption DEF NewestInv, PresenceOK
<1> QED BY <1>1, <1>2, <1>3, <1>4, PresenceAssumption DEF Newer, Before

(* Hearing a frame keeps the invariant: the watcher's host is handed it      *)
(* exactly when it is the newest to have come.                               *)
LEMMA HearPresenceKeeps ==
    ASSUME NewestInv, NEW p \in frames, HearPresence(p)
    PROVE  NewestInv'
<1>1. p \in Payload /\ p = <<p[1], p[2]>> /\ p[1] \in 1..MaxSessions /\ p[2] \in 1..MaxSeq
    BY DEF NewestInv, PresenceOK, Payload
<1>2. /\ session' = session /\ frames' \subseteq frames
      /\ newest' \in {p, newest} /\ shown' \in {p, shown} /\ in' \in {p[2], in}
      /\ live' \in BOOLEAN
    BY DEF HearPresence, NewestInv, PresenceOK
<1>3. PresenceOK'
    BY <1>1, <1>2, PresenceAssumption DEF HearPresence, NewestInv, PresenceOK
<1>4. ASSUME session = 1
      PROVE  /\ shown' = newest' /\ in' = newest'[2] /\ newest'[1] \in {0, 1}
             /\ newest'[1] = 0 => newest' = Nothing
    <2>1. CASE Newer(p)
        <3>1. newest' = p /\ shown' = p /\ in' = p[2] /\ p[1] = 1
            BY <1>4, <2>1, NewerMeansBefore DEF HearPresence, NewestInv
        <3> QED BY <3>1
    <2>2. CASE ~Newer(p)
        <3>1. newest' = newest /\ shown' = shown /\ in' = in
            BY <1>4, <2>2, NewerMeansBefore DEF HearPresence
        <3> QED BY <1>4, <3>1 DEF NewestInv
    <2> QED BY <2>1, <2>2
<1> QED BY <1>2, <1>3, <1>4 DEF NewestInv

(* Every step keeps it; after a restart it says nothing.                     *)
LEMMA NextKeepsNewest ==
    ASSUME NewestInv, [PresenceNext]_presenceVars
    PROVE  NewestInv'
<1> USE PresenceAssumption
<1>1. CASE Publish
    <2>1. <<session, out + 1>> \in Payload
        BY <1>1 DEF Publish, NewestInv, PresenceOK, Payload
    <2>2. PresenceOK'
        BY <1>1, <2>1 DEF Publish, NewestInv, PresenceOK
    <2> QED BY <1>1, <2>2 DEF Publish, NewestInv
<1>2. CASE Restart
    BY <1>2 DEF Restart, NewestInv, PresenceOK
<1>3. CASE HearRestart
    BY <1>3 DEF HearRestart, NewestInv, PresenceOK
<1>4. CASE Expire
    BY <1>4 DEF Expire, NewestInv, PresenceOK
<1>5. ASSUME NEW p \in frames, HearPresence(p) PROVE NewestInv'
    BY <1>5, HearPresenceKeeps
<1>6. ASSUME NEW p \in frames, LosePresence(p) PROVE NewestInv'
    BY <1>6 DEF LosePresence, NewestInv, PresenceOK
<1>7. CASE UNCHANGED presenceVars
    BY <1>7 DEF presenceVars, NewestInv, PresenceOK
<1> QED BY <1>1, <1>2, <1>3, <1>4, <1>5, <1>6, <1>7 DEF PresenceNext

(* Session::receive of presence: until the publisher restarts, what the       *)
(* watcher's host was handed last is the newest payload that has come, for    *)
(* any number of payloads, lost, repeated, reordered or late.                 *)
THEOREM NewestIsShown == PresenceSpec => []ShowsTheNewest
<1>1. ASSUME PresenceInit PROVE NewestInv
    <2>1. PresenceOK
        <3>1. /\ session = 1 /\ known = 1 /\ out = 0 /\ in = 0 /\ live = FALSE
              /\ shown = Nothing /\ newest = Nothing /\ frames = {}
            BY <1>1, Zenon DEF PresenceInit
        <3>2. {shown, newest} \subseteq Payload \union {Nothing} /\ frames \subseteq Payload
            BY <3>1, Zenon
        <3>3. /\ 1 \in 1..MaxSessions /\ 1 \in 0..MaxSessions
              /\ 0 \in 0..MaxSeq /\ FALSE \in BOOLEAN
            BY PresenceAssumption
        <3> QED BY <3>1, <3>2, <3>3, Zenon DEF PresenceOK
    <2>2. shown = newest /\ newest = <<0, 0>> /\ in = 0 /\ frames = {}
        BY <1>1 DEF PresenceInit, Nothing
    <2> QED BY <2>1, <2>2 DEF NewestInv, Nothing
<1>2. NewestInv /\ [PresenceNext]_presenceVars => NewestInv'
    BY NextKeepsNewest
<1>3. NewestInv => ShowsTheNewest
    BY DEF NewestInv, ShowsTheNewest
<1> QED BY <1>1, <1>2, <1>3, PTL DEF PresenceSpec

=============================================================================
