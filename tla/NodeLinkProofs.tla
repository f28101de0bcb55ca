---------------------------- MODULE NodeLinkProofs ----------------------------
(***************************************************************************)
(* Whatever the network does on a link and whatever the host asks of it,   *)
(* its session comes and goes with it, and what send promised waits in     *)
(* order until it is begun or the link is gone.                            *)
(***************************************************************************)
EXTENDS NodeLink, SequenceTheorems, TLAPS

Event == {"established", "data", "closed", "error"}

(* Node's state, queues of any length.                                     *)
Link ==
    [status  : {"none", "pending", "active", "closed"},
     awaiting: BOOLEAN, asked : BOOLEAN, listed : BOOLEAN,
     outbox  : Seq(Msg),
     busy    : {None} \union [msg : Msg, stage : Stage],
     flight  : {None} \union [msg : Msg, waited : BOOLEAN],
     events  : Seq(Event)]

(* What the host has been told, and is still to be told in events E, of a    *)
(* link in status st with session S: nothing before it is up; that it is up, *)
(* while it is; and after each time that it was up, that it is gone.         *)
Told(st, E, S) ==
    /\ st \in {"none", "pending"} =>
          S = "none" /\ \A i \in 1..Len(E) : E[i] \notin {"established", "closed"}
    /\ st = "active" =>
          /\ S # "none" \/ \E i \in 1..Len(E) : E[i] = "established"
          /\ \A i \in 1..Len(E) : E[i] # "closed"
    /\ st = "closed" =>
          /\ S # "none" => \E i \in 1..Len(E) : E[i] = "closed"
          /\ \A i \in 1..Len(E) :
                E[i] = "established" => \E j \in i+1 .. Len(E) : E[j] = "closed"

(* A state s of the link, with session S and the messages o still owed.      *)
Fits(s, S, o) ==
    /\ s \in Link
    /\ S \in {"none", "live", "over"}
    /\ o \in Seq(Msg) /\ Len(o) <= OutboxLimit
    /\ s.listed <=> s.status = "active"
    /\ s.awaiting => s.status = "none"
    /\ s.outbox = IF s.listed THEN o ELSE <<>>
    /\ s.status \in {"none", "pending"} => o = <<>>
    /\ ~s.listed => s.busy = None
    /\ s.busy # None => s.flight # None /\ s.flight.msg = s.busy.msg
    /\ Told(s.status, s.events, S)

(* The invariant of the specification.                                       *)
Inv ==
    /\ Fits(n, session, owed)
    /\ Len(n.events) <= MaxEvents
    /\ begun \in Seq(Msg) /\ Len(begun) <= 1

-----------------------------------------------------------------------------
(* Sequences. *)

(* The bounded sequences of the type invariant are sequences.                *)
LEMMA BoundedSeqIsSeq ==
    ASSUME NEW S, NEW k \in Nat, NEW q \in Seq(S), Len(q) <= k
    PROVE  q \in BoundedSeq(S, k)
<1>1. q \in [1..Len(q) -> S] /\ Len(q) \in 0..k
    BY LenProperties
<1> QED BY <1>1 DEF BoundedSeq, SeqOf

(* Removing what is at the front leaves the rest.                            *)
LEMMA RemoveFront ==
    ASSUME NEW S, NEW q \in Seq(S), q # <<>>
    PROVE  RemoveFirst(q, Head(q)) = Tail(q)
<1> DEFINE I == {i \in 1..Len(q) : q[i] = Head(q)}
           k == SelectInSeq(q, LAMBDA v : v = Head(q))
<1>1. Len(q) \in Nat /\ Len(q) >= 1 /\ Head(q) = q[1]
    BY LenProperties, EmptySeq
<1>2. 1 \in I
    BY <1>1
<1>3. k = 1
    <2>1. k = Min(I)
        BY <1>2 DEF SelectInSeq
    <2>2. Min(I) = 1
        BY <1>1, <1>2 DEF Min
    <2> QED BY <2>1, <2>2
<1>4. RemoveFirst(q, Head(q)) = SubSeq(q, 1, 1 - 1) \o SubSeq(q, 1 + 1, Len(q))
    <2>1. RemoveFirst(q, Head(q)) = RemoveAt(q, k)
        <3>1. \E i \in 1..Len(q) : q[i] = Head(q)
            BY <1>2
        <3> QED BY <3>1 DEF RemoveFirst
    <2> HIDE DEF k
    <2>2. RemoveAt(q, k) = RemoveAt(q, 1)
        BY <1>3
    <2> QED BY <2>1, <2>2, Zenon DEF RemoveAt
<1>5. SubSeq(q, 1, 1 - 1) = <<>>
    BY <1>1
<1>6. SubSeq(q, 1 + 1, Len(q)) = Tail(q) /\ Tail(q) \in Seq(S)
    BY TailIsSubSeq, HeadTailProperties
<1> QED BY <1>4, <1>5, <1>6, ConcatEmptySeq

-----------------------------------------------------------------------------
(* What the host is told. *)

(* An event that is neither of the link coming up nor of its going.          *)
LEMMA ToldMore ==
    ASSUME NEW st, NEW S, NEW E \in Seq(Event), Told(st, E, S), NEW e \in {"data", "error"}
    PROVE  Told(st, Append(E, e), S)
<1>1. /\ Len(Append(E, e)) = Len(E) + 1 /\ Len(E) \in Nat
      /\ \A i \in 1..Len(E) : Append(E, e)[i] = E[i]
      /\ Append(E, e)[Len(E) + 1] = e
    BY AppendProperties, LenProperties DEF Event
<1> QED BY <1>1 DEF Told

(* The link comes up.                                                        *)
LEMMA ToldUp ==
    ASSUME NEW st \in {"none", "pending"}, NEW S, NEW E \in Seq(Event), Told(st, E, S)
    PROVE  Told("active", Append(E, "established"), S)
<1>1. /\ Len(Append(E, "established")) = Len(E) + 1 /\ Len(E) \in Nat
      /\ \A i \in 1..Len(E) : Append(E, "established")[i] = E[i]
      /\ Append(E, "established")[Len(E) + 1] = "established"
    BY AppendProperties, LenProperties DEF Event
<1> QED BY <1>1 DEF Told

(* The link goes.                                                            *)
LEMMA ToldDown ==
    ASSUME NEW st \in {"pending", "active"}, NEW S, NEW E \in Seq(Event), Told(st, E, S)
    PROVE  Told("closed", Append(E, "closed"), S)
<1>1. /\ Len(Append(E, "closed")) = Len(E) + 1 /\ Len(E) \in Nat
      /\ \A i \in 1..Len(E) : Append(E, "closed")[i] = E[i]
      /\ Append(E, "closed")[Len(E) + 1] = "closed"
    BY AppendProperties, LenProperties DEF Event
<1> QED BY <1>1 DEF Told

(* SyncLinks handles one event: its session begins with the link and ends    *)
(* with it.                                                                  *)
LEMMA ToldNext ==
    ASSUME NEW st \in {"none", "pending", "active", "closed"}, NEW S, NEW E \in Seq(Event),
           E # <<>>, Told(st, E, S), NEW T \in {"none", "live", "over"},
           Head(E) = "established" => T = "live",
           Head(E) = "closed" => T = "none",
           Head(E) \notin {"established", "closed"} => (T = "none" <=> S = "none")
    PROVE  Told(st, Tail(E), T)
<1>1. /\ Len(E) \in Nat \ {0} /\ Len(Tail(E)) = Len(E) - 1 /\ Head(E) = E[1]
      /\ \A i \in 1..Len(E) - 1 : Tail(E)[i] = E[i + 1]
    BY LenProperties, EmptySeq, HeadTailProperties
<1>2. CASE st \in {"none", "pending"}
    BY <1>1, <1>2 DEF Told
<1>3. CASE st = "active"
    <2>1. ASSUME T = "none"
          PROVE  \E i \in 1..Len(E) - 1 : Tail(E)[i] = "established"
        <3>1. PICK i \in 1..Len(E) : E[i] = "established"
            BY <1>1, <1>3, <2>1 DEF Told
        <3>2. i # 1
            BY <1>1, <1>3, <2>1, <3>1 DEF Told
        <3>3. i - 1 \in 1..Len(E) - 1 /\ Tail(E)[i - 1] = "established"
            BY <1>1, <3>1, <3>2
        <3> QED BY <3>3
    <2>2. \A i \in 1..Len(E) - 1 : Tail(E)[i] # "closed"
        BY <1>1, <1>3 DEF Told
    <2> QED BY <1>1, <1>3, <2>1, <2>2 DEF Told
<1>4. CASE st = "closed"
    <2>1. ASSUME NEW i \in 1..Len(E) - 1, Tail(E)[i] = "established"
          PROVE  \E j \in i+1 .. Len(E) - 1 : Tail(E)[j] = "closed"
        <3>1. PICK j \in i+2 .. Len(E) : E[j] = "closed"
            BY <1>1, <1>4, <2>1 DEF Told
        <3> WITNESS j - 1 \in i+1 .. Len(E) - 1
        <3> QED BY <1>1, <3>1
    <2>2. ASSUME T # "none"
          PROVE  \E i \in 1..Len(E) - 1 : Tail(E)[i] = "closed"
        <3>1. \E i \in 2..Len(E) : E[i] = "closed"
            BY <1>1, <1>4, <2>2 DEF Told
        <3>2. PICK i \in 2..Len(E) : E[i] = "closed"
            BY <3>1
        <3> WITNESS i - 1 \in 1..Len(E) - 1
        <3> QED BY <1>1, <3>2
    <2> QED BY <1>1, <1>4, <2>1, <2>2 DEF Told
<1> QED BY <1>2, <1>3, <1>4

-----------------------------------------------------------------------------
(* Callbacks and helpers. *)

LEMMA EmitFits ==
    ASSUME NEW s, NEW S, NEW o, Fits(s, S, o), NEW e \in {"data", "error"}
    PROVE  Fits(Emit(s, e), S, o)
<1>1. Append(s.events, e) \in Seq(Event) /\ Told(s.status, Append(s.events, e), S)
    BY AppendProperties, ToldMore DEF Fits, Link, Event
<1> QED BY <1>1 DEF Emit, Fits, Link

(* Whatever closes a link that was asked for or is up, nothing of it is left *)
(* and the host will be told.                                                *)
LEMMA TeardownFits ==
    ASSUME NEW s, NEW S, NEW o, Fits(s, S, o), s.status \in {"pending", "active"}
    PROVE  Fits(Teardown(s), S, o) /\ ~Teardown(s).listed
<1> DEFINE t == [s EXCEPT !.status = "closed", !.busy = None]
           u == [t EXCEPT !.asked = FALSE, !.listed = FALSE, !.outbox = <<>>, !.flight = None]
<1>1. /\ t \in Link /\ t.status = "closed" /\ t.busy = None /\ t.events = s.events
      /\ ~t.awaiting
    BY DEF Fits, Link
<1> HIDE DEF t
<1>2. /\ u \in Link /\ u.status = "closed" /\ u.busy = None /\ u.events = s.events
      /\ ~u.listed /\ u.outbox = <<>> /\ u.flight = None /\ ~u.awaiting
    BY <1>1, EmptySeq DEF Link
<1> HIDE DEF u
<1>3. Teardown(s) = [u EXCEPT !.events = Append(u.events, "closed")]
    BY DEF Teardown, OnClosed, Emit, t, u
<1>4. Append(s.events, "closed") \in Seq(Event) /\ Told("closed", Append(s.events, "closed"), S)
    BY AppendProperties, ToldDown DEF Fits, Link, Event
<1> DEFINE w == [u EXCEPT !.events = Append(u.events, "closed")]
<1>5. /\ w \in Link /\ w.status = "closed" /\ w.busy = None /\ w.flight = None
      /\ w.events = Append(s.events, "closed")
      /\ ~w.listed /\ w.outbox = <<>> /\ ~w.awaiting
    BY <1>2, <1>4 DEF Link
<1> HIDE DEF w
<1>6. Fits(w, S, o) /\ ~w.listed
    BY <1>4, <1>5 DEF Fits
<1> QED BY <1>3, <1>6 DEF w

(* The link comes up, ours or a peer's.                                      *)
LEMMA UpFits ==
    ASSUME NEW s, NEW S, NEW o, Fits(s, S, o), s.status \in {"none", "pending"}, ~s.awaiting
    PROVE  /\ Fits(OnOutbound([s EXCEPT !.status = "active"]), S, o)
           /\ Fits(OnInbound([s EXCEPT !.status = "active"]), S, o)
<1> DEFINE t == [s EXCEPT !.status = "active"]
           u == [t EXCEPT !.asked = FALSE, !.listed = TRUE]
           v == [t EXCEPT !.listed = TRUE]
<1>0. o = <<>> /\ ~s.listed /\ s.outbox = <<>> /\ s.busy = None
    BY DEF Fits, Link
<1>1. /\ t \in Link /\ t.status = "active" /\ t.events = s.events /\ ~t.awaiting
      /\ t.outbox = <<>> /\ t.busy = None
    BY <1>0 DEF Fits, Link
<1> HIDE DEF t
<1>2. /\ u \in Link /\ u.status = "active" /\ u.listed /\ u.events = s.events /\ ~u.awaiting
      /\ u.outbox = <<>> /\ u.busy = None
    BY <1>1 DEF Link
<1>3. /\ v \in Link /\ v.status = "active" /\ v.listed /\ v.events = s.events /\ ~v.awaiting
      /\ v.outbox = <<>> /\ v.busy = None
    BY <1>1 DEF Link
<1> HIDE DEF u, v
<1>4. /\ Append(s.events, "established") \in Seq(Event)
      /\ Told("active", Append(s.events, "established"), S)
    BY AppendProperties, ToldUp DEF Fits, Link, Event
<1>5. OnOutbound(t) = [u EXCEPT !.events = Append(u.events, "established")]
    BY DEF OnOutbound, Emit, u
<1>6. OnInbound(t) = [v EXCEPT !.events = Append(v.events, "established")]
    BY DEF OnInbound, Emit, v
<1>7. ASSUME NEW x \in {u, v}, NEW w, w = [x EXCEPT !.events = Append(x.events, "established")]
      PROVE  Fits(w, S, o)
    <2>1. /\ w \in Link /\ w.status = "active" /\ w.listed /\ ~w.awaiting
          /\ w.outbox = <<>> /\ w.busy = None /\ w.events = Append(s.events, "established")
        BY <1>2, <1>3, <1>4, <1>7 DEF Link
    <2> QED BY <1>0, <1>4, <2>1 DEF Fits
<1>8. Fits(OnOutbound(t), S, o) /\ Fits(OnInbound(t), S, o)
    BY <1>5, <1>6, <1>7
<1> QED BY <1>8 DEF t

(* A link is asked of the network.                                           *)
LEMMA OpenFits ==
    ASSUME NEW s, NEW S, NEW o, Fits(s, S, o), s.status = "none", ~s.awaiting,
           NEW recalled \in BOOLEAN
    PROVE  Fits(OpenNow(s, recalled), S, o)
<1> DEFINE t == [s EXCEPT !.status = "pending", !.asked = TRUE]
<1>1. /\ t \in Link /\ t.status = "pending" /\ t.events = s.events /\ ~t.awaiting
      /\ t.outbox = s.outbox /\ t.busy = s.busy /\ t.flight = s.flight /\ t.listed = s.listed
    BY DEF Fits, Link
<1> HIDE DEF t
<1>2. Fits(t, S, o)
    BY <1>1 DEF Fits, Told
<1> QED BY <1>2, EmitFits DEF OpenNow, t

(* A transfer begins on a link that is up and free.                          *)
LEMMA StartFits ==
    ASSUME NEW s, NEW S, NEW o, Fits(s, S, o), s.listed, NEW m \in Msg
    PROVE  /\ Fits(StartResource(s, m), S, o)
           /\ StartResource(s, m).busy = [msg |-> m, stage |-> "sending"]
           /\ [msg |-> m, stage |-> "sending"] # None
           /\ StartResource(s, m).listed
<1> DEFINE t == StartResource(s, m)
           b == [msg |-> m, stage |-> "sending"]
           f == [msg |-> m, waited |-> FALSE]
<1>1. /\ b \in [msg : Msg, stage : Stage] /\ f \in [msg : Msg, waited : BOOLEAN]
      /\ b # None /\ f # None /\ b.msg = m /\ f.msg = m
    <2>1. b \in [msg : Msg, stage : Stage] /\ b.msg = m /\ f.msg = m
        BY DEF Stage
    <2>2. f \in [msg : Msg, waited : BOOLEAN]
        BY Zenon
    <2> QED BY <2>1, <2>2, NodeAssumption
<1> HIDE DEF b, f
<1>2. t = [s EXCEPT !.busy = b, !.flight = f]
    BY DEF StartResource, b, f
<1>3. /\ t \in Link /\ t.busy = b /\ t.flight = f /\ t.status = s.status /\ t.events = s.events
      /\ t.awaiting = s.awaiting /\ t.outbox = s.outbox /\ t.listed = s.listed
    <2>1. s \in Link
        BY DEF Fits
    <2> QED BY <1>1, <1>2, <2>1 DEF Link
<1> HIDE DEF t
<1>4. Fits(t, S, o)
    BY <1>1, <1>3 DEF Fits
<1> QED BY <1>1, <1>3, <1>4 DEF t, b

(* RNS's Resource ends, or Node gives it up.                                 *)
LEMMA FreeFits ==
    ASSUME NEW s, NEW S, NEW o, Fits(s, S, o)
    PROVE  /\ Fits([s EXCEPT !.busy = None], S, o)
           /\ Fits([s EXCEPT !.flight = None, !.busy = None], S, o)
           /\ Ready(s) => Fits([s EXCEPT !.flight = None], S, o)
<1>1. ASSUME NEW t \in Link, t.busy = None,
             t.status = s.status, t.awaiting = s.awaiting, t.listed = s.listed,
             t.outbox = s.outbox, t.events = s.events
      PROVE  Fits(t, S, o)
    BY <1>1 DEF Fits
<1>2. s \in Link
    BY DEF Fits
<1>3. Fits([s EXCEPT !.busy = None], S, o)
    <2> DEFINE t == [s EXCEPT !.busy = None]
    <2>1. /\ t \in Link /\ t.busy = None
          /\ t.status = s.status /\ t.awaiting = s.awaiting /\ t.listed = s.listed
          /\ t.outbox = s.outbox /\ t.events = s.events
        BY <1>2 DEF Link
    <2> QED BY <1>1, <2>1
<1>4. Fits([s EXCEPT !.flight = None, !.busy = None], S, o)
    <2> DEFINE t == [s EXCEPT !.flight = None, !.busy = None]
    <2>1. /\ t \in Link /\ t.busy = None
          /\ t.status = s.status /\ t.awaiting = s.awaiting /\ t.listed = s.listed
          /\ t.outbox = s.outbox /\ t.events = s.events
        BY <1>2 DEF Link
    <2> HIDE DEF t
    <2>2. Fits(t, S, o)
        BY <1>1, <2>1
    <2> QED BY <2>2 DEF t
<1>5. Ready(s) => Fits([s EXCEPT !.flight = None], S, o)
    <2> DEFINE t == [s EXCEPT !.flight = None]
    <2>1. /\ t \in Link /\ t.busy = s.busy
          /\ t.status = s.status /\ t.awaiting = s.awaiting /\ t.listed = s.listed
          /\ t.outbox = s.outbox /\ t.events = s.events
        BY <1>2 DEF Link
    <2> QED BY <1>1, <2>1 DEF Ready
<1> QED BY <1>3, <1>4, <1>5

(* Where a transfer has got to, and how long it was seen waiting, changes    *)
(* nothing else.                                                             *)
LEMMA ProgressFits ==
    ASSUME NEW s, NEW S, NEW o, Fits(s, S, o), s.busy # None, NEW w \in BOOLEAN
    PROVE  /\ Fits([s EXCEPT !.busy.stage = "proving"], S, o)
           /\ Fits([s EXCEPT !.flight.waited = w], S, o)
<1>1. /\ s \in Link /\ s.busy \in [msg : Msg, stage : Stage]
      /\ s.flight \in [msg : Msg, waited : BOOLEAN] /\ s.flight.msg = s.busy.msg /\ s.listed
    BY DEF Fits, Link
<1> DEFINE b == [s.busy EXCEPT !.stage = "proving"]
           f == [s.flight EXCEPT !.waited = w]
<1>2. b \in [msg : Msg, stage : Stage] /\ b.msg = s.busy.msg
    BY <1>1 DEF Stage
<1>3. f \in [msg : Msg, waited : BOOLEAN] /\ f.msg = s.busy.msg
    BY <1>1
<1> HIDE DEF b, f
<1>4. b # None /\ f # None
    BY <1>2, <1>3, NodeAssumption
<1>5. ASSUME NEW t, t = [s EXCEPT !.busy = b] \/ t = [s EXCEPT !.flight = f]
      PROVE  Fits(t, S, o)
    <2>1. /\ t \in Link /\ t.busy.msg = s.busy.msg /\ t.flight # None /\ t.flight.msg = s.busy.msg
          /\ t.status = s.status /\ t.awaiting = s.awaiting /\ t.listed = s.listed
          /\ t.outbox = s.outbox /\ t.events = s.events
        BY <1>1, <1>2, <1>3, <1>4, <1>5 DEF Link, Fits
    <2> QED BY <1>1, <2>1 DEF Fits
<1>6. /\ [s EXCEPT !.busy.stage = "proving"] = [s EXCEPT !.busy = b]
      /\ [s EXCEPT !.flight.waited = w] = [s EXCEPT !.flight = f]
    BY <1>1 DEF Link, b, f
<1> QED BY <1>5, <1>6

-----------------------------------------------------------------------------
(* Node::loop. *)

(* Whatever the network brings.                                              *)
LEMMA HappensFits ==
    ASSUME NEW s, NEW S, NEW o, Fits(s, S, o), NEW x
    PROVE  Fits(Happens(s, x), S, o)
<1>1. \/ s.status = "pending" /\ Happens(s, x) = OnOutbound([s EXCEPT !.status = "active"])
      \/ /\ s.status = "none" /\ ~s.awaiting
         /\ Happens(s, x) = OnInbound([s EXCEPT !.status = "active"])
      \/ Happens(s, x) \in {Emit(s, "data"), Emit(s, "error")}
      \/ s.busy # None /\ Happens(s, x) = [s EXCEPT !.busy.stage = "proving"]
      \/ Happens(s, x) = [s EXCEPT !.busy = None]
      \/ s.status = "active" /\ Happens(s, x) = Teardown(s)
      \/ Happens(s, x) = s
    BY Zenon DEF Happens
<1>2. s.status = "pending" => ~s.awaiting
    BY DEF Fits
<1>3. s.status = "pending" => Fits(OnOutbound([s EXCEPT !.status = "active"]), S, o)
    BY <1>2, UpFits
<1>4. s.status = "none" /\ ~s.awaiting => Fits(OnInbound([s EXCEPT !.status = "active"]), S, o)
    BY UpFits
<1>5. Fits(Emit(s, "data"), S, o) /\ Fits(Emit(s, "error"), S, o)
    BY EmitFits
<1>6. s.busy # None => Fits([s EXCEPT !.busy.stage = "proving"], S, o)
    BY ProgressFits
<1>7. Fits([s EXCEPT !.busy = None], S, o)
    BY FreeFits
<1>8. s.status = "active" => Fits(Teardown(s), S, o)
    BY TeardownFits
<1> QED BY <1>1, <1>3, <1>4, <1>5, <1>6, <1>7, <1>8

(* The watchdog closes what it gives up on.                                  *)
LEMMA WatchdogFits ==
    ASSUME NEW s, NEW S, NEW o, Fits(s, S, o), NEW late \in BOOLEAN
    PROVE  Fits(Watchdog(s, late), S, o)
BY TeardownFits DEF Watchdog

LEMMA UnblockFits ==
    ASSUME NEW s, NEW S, NEW o, Fits(s, S, o), NEW grace \in BOOLEAN
    PROVE  Fits(UnblockLostProofs(s, grace), S, o)
<1>1. ~s.listed => Ready(s)
    BY DEF Fits, Ready
<1>2. Ready(s) => Fits([s EXCEPT !.flight = None], S, o)
    BY FreeFits
<1>3. Fits([s EXCEPT !.flight = None, !.busy = None], S, o)
    BY FreeFits
<1>4. ASSUME ~Ready(s)
      PROVE  /\ Fits([s EXCEPT !.flight.waited = TRUE], S, o)
             /\ Fits([s EXCEPT !.flight.waited = FALSE], S, o)
    BY <1>4, ProgressFits DEF Ready
<1> QED BY <1>1, <1>2, <1>3, <1>4 DEF UnblockLostProofs

(* The next message in the outbox is the one owed first. Once it has begun,  *)
(* the others are still owed.                                                *)
LEMMA DrainFits ==
    ASSUME NEW s, NEW S, NEW o, Fits(s, S, o)
    PROVE  LET t == DrainOutboxes(s)
           IN  /\ t.listed = s.listed
               /\ \/ Fits(t, S, o) /\ Len(t.outbox) >= Len(s.outbox)
                  \/ /\ s.listed /\ o # <<>> /\ Head(s.outbox) = Head(o)
                     /\ Len(t.outbox) < Len(s.outbox)
                     /\ Fits(t, S, Tail(o))
<1> DEFINE t == DrainOutboxes(s)
           r == StartResource(s, Head(s.outbox))
<1>0. s \in Link /\ s.outbox \in Seq(Msg) /\ Len(s.outbox) \in Nat
    BY LenProperties DEF Fits, Link
<1>1. CASE ~s.listed
    <2>1. t = [s EXCEPT !.outbox = <<>>]
        BY <1>1 DEF DrainOutboxes
    <2>2. s.outbox = <<>>
        BY <1>1 DEF Fits
    <2>3. t = s
        BY <1>0, <2>1, <2>2 DEF Link
    <2> QED BY <1>0, <2>3
<1>2. CASE s.listed /\ s.outbox # <<>> /\ s.status = "active" /\ Ready(s)
    <2>1. /\ s.outbox = o /\ Head(o) \in Msg /\ Tail(o) \in Seq(Msg) /\ Len(Tail(o)) = Len(o) - 1
          /\ Len(o) \in Nat /\ Len(o) <= OutboxLimit
        BY <1>2, HeadTailProperties, LenProperties DEF Fits
    <2>2. Fits(r, S, o) /\ r.listed
        BY <1>2, <2>1, StartFits
    <2> HIDE DEF r
    <2>3. t = [r EXCEPT !.outbox = Tail(r.outbox)]
        BY <1>2 DEF DrainOutboxes, r
    <2>4. r \in Link /\ r.outbox = o
        BY <2>2 DEF Fits
    <2>4a. t = [r EXCEPT !.outbox = Tail(o)]
        BY <2>3, <2>4
    <2>5. /\ t \in Link /\ t.outbox = Tail(o) /\ t.busy = r.busy /\ t.flight = r.flight
          /\ t.status = r.status /\ t.awaiting = r.awaiting /\ t.listed = r.listed
          /\ t.events = r.events
        BY <2>1, <2>4, <2>4a DEF Link
    <2> HIDE DEF t
    <2>6. Fits(t, S, Tail(o))
        BY <2>1, <2>2, <2>5, NodeAssumption DEF Fits
    <2>7. t.listed = s.listed
        BY <1>0, <1>2, <2>2, <2>4, <2>5 DEF Link
    <2> QED BY <1>2, <2>1, <2>5, <2>6, <2>7 DEF t
<1>3. CASE s.listed /\ ~(s.outbox # <<>> /\ s.status = "active" /\ Ready(s))
    <2>1. t = s
        BY <1>3 DEF DrainOutboxes
    <2> QED BY <1>0, <2>1
<1> QED BY <1>1, <1>2, <1>3

(* Opening a link once there is a path touches nothing that waits.           *)
LEMMA PathsFits ==
    ASSUME NEW s, NEW S, NEW o, Fits(s, S, o), NEW path \in BOOLEAN, NEW recalled \in BOOLEAN
    PROVE  LET t == Paths(s, path, recalled)
           IN  Fits(t, S, o) /\ t.listed = s.listed /\ t.outbox = s.outbox
<1> DEFINE r == [s EXCEPT !.awaiting = FALSE]
           t == OpenNow(r, recalled)
<1>1. CASE s.awaiting /\ path
    <2>1. s \in Link /\ s.status = "none"
        BY <1>1 DEF Fits
    <2>2. /\ r \in Link /\ ~r.awaiting /\ r.status = s.status /\ r.listed = s.listed
          /\ r.outbox = s.outbox /\ r.events = s.events /\ r.busy = s.busy /\ r.flight = s.flight
        BY <2>1 DEF Link
    <2> HIDE DEF r
    <2>3. Fits(r, S, o)
        BY <2>2 DEF Fits
    <2>4. Fits(t, S, o)
        BY <2>1, <2>2, <2>3, OpenFits
    <2>5. t.listed = r.listed /\ t.outbox = r.outbox
        BY <2>2 DEF OpenNow, Emit, Link
    <2>6. Paths(s, path, recalled) = t
        BY <1>1 DEF Paths, r
    <2> HIDE DEF t
    <2> QED BY <2>2, <2>4, <2>5, <2>6
<1>2. CASE ~(s.awaiting /\ path)
    BY <1>2 DEF Paths
<1> QED BY <1>1, <1>2

-----------------------------------------------------------------------------
(* What is owed after a step. *)

(* A link that is gone owes nothing; one that began nothing owes the same.   *)
LEMMA OwesTheSame ==
    ASSUME NEW s, NEW S, NEW o, Fits(s, S, o)
    PROVE  Fits(s, S, StillOwed(o, <<>>, s))
<1>1. CASE ~s.listed
    <2>1. StillOwed(o, <<>>, s) = <<>> /\ <<>> \in Seq(Msg) /\ Len(<<>>) = 0
        BY <1>1, EmptySeq DEF StillOwed
    <2>2. OutboxLimit \in Nat /\ 0 <= OutboxLimit
        BY NodeAssumption
    <2>3. Fits(s, S, <<>>)
        BY <1>1, <2>1, <2>2 DEF Fits
    <2> QED BY <2>1, <2>3
<1>2. CASE s.listed
    BY <1>2 DEF StillOwed
<1> QED BY <1>1, <1>2

(* Transfers begin in the order of the promises.                             *)
InOrder == begun' # <<>> => owed = <<>> \/ Head(owed) = Head(begun')

(* Node::loop.                                                               *)
LEMMA LoopKeeps ==
    ASSUME Inv, NEW o1, NEW o2, NEW late \in BOOLEAN, NEW grace \in BOOLEAN,
           NEW path \in BOOLEAN, NEW recalled \in BOOLEAN,
           Loop(o1, o2, late, grace, path, recalled)
    PROVE  Inv' /\ InOrder
<1> DEFINE s1 == Occurred(n, o1, o2)
           s2 == UnblockLostProofs(Watchdog(s1, late), grace)
           d == DrainOutboxes(s2)
           s3 == Paths(d, path, recalled)
<1>1. /\ Len(s3.events) <= MaxEvents /\ n' = s3 /\ begun' = Started(s2, s3)
      /\ owed' = StillOwed(owed, begun', s3) /\ session' = session
    BY Zenon DEF Loop
<1>2. Fits(s1, session, owed)
    BY HappensFits DEF Inv, Occurred
<1> HIDE DEF s1
<1>3. Fits(s2, session, owed)
    BY <1>2, WatchdogFits, UnblockFits
<1> HIDE DEF s2
<1>4. d.listed = s2.listed
    BY <1>3, DrainFits
<1>5. \/ Fits(d, session, owed) /\ Len(d.outbox) >= Len(s2.outbox)
      \/ /\ s2.listed /\ owed # <<>> /\ Head(s2.outbox) = Head(owed)
         /\ Len(d.outbox) < Len(s2.outbox)
         /\ Fits(d, session, Tail(owed))
    BY <1>3, DrainFits
<1> HIDE DEF d
<1>6. ASSUME NEW o, Fits(d, session, o)
      PROVE  Fits(s3, session, o) /\ s3.listed = d.listed /\ s3.outbox = d.outbox
    BY <1>6, PathsFits
<1> HIDE DEF s3
<1>7. owed \in Seq(Msg) /\ s2.outbox \in Seq(Msg) /\ d.outbox \in Seq(Msg)
    BY <1>3, <1>5 DEF Fits, Link
<1>8. Len(s2.outbox) \in Nat /\ Len(d.outbox) \in Nat
    BY <1>7, LenProperties
<1>9. CASE Fits(d, session, owed) /\ Len(d.outbox) >= Len(s2.outbox)
    <2>1. begun' = <<>>
        BY <1>1, <1>6, <1>8, <1>9 DEF Started
    <2>2. Fits(n', session', owed')
        BY <1>1, <1>6, <1>9, <2>1, OwesTheSame
    <2>3. <<>> \in Seq(Msg) /\ Len(<<>>) = 0
        BY EmptySeq
    <2> QED BY <1>1, <2>1, <2>2, <2>3 DEF Inv, InOrder
<1>10. CASE /\ s2.listed /\ owed # <<>> /\ Head(s2.outbox) = Head(owed)
            /\ Len(d.outbox) < Len(s2.outbox)
            /\ Fits(d, session, Tail(owed))
    <2>1. Fits(s3, session, Tail(owed)) /\ s3.listed /\ Len(s3.outbox) < Len(s2.outbox)
        BY <1>4, <1>6, <1>10
    <2>2. begun' = <<Head(owed)>>
        BY <1>1, <1>10, <2>1 DEF Started
    <2>3. Head(owed) \in Msg
        BY <1>7, <1>10, HeadTailProperties
    <2>4. begun' # <<>> /\ Head(begun') = Head(owed) /\ begun' \in Seq(Msg) /\ Len(begun') = 1
        BY <2>2, <2>3
    <2>5. owed' = Tail(owed)
        BY <1>1, <1>7, <1>10, <2>1, <2>4, RemoveFront DEF StillOwed
    <2> QED BY <1>1, <2>1, <2>4, <2>5 DEF Inv, InOrder
<1> QED BY <1>5, <1>9, <1>10

(* Node::send of a large message. One that begins at once had nothing before *)
(* it; one that must wait is owed; one that waits already is owed once.      *)
LEMMA SendFits ==
    ASSUME NEW s, NEW S, NEW o, Fits(s, S, o), NEW m \in Msg
    PROVE  LET r == Send(s, m)
               q == IF r.ok /\ ~Contains(o, m) THEN Append(o, m) ELSE o
               b == IF r.ok /\ r.node.busy # s.busy THEN <<m>> ELSE <<>>
           IN  \/ b = <<>> /\ Fits(r.node, S, q)
               \/ b = <<m>> /\ o = <<>> /\ q = Append(o, m) /\ Fits(r.node, S, o)
<1> DEFINE r == Send(s, m)
           q == IF r.ok /\ ~Contains(o, m) THEN Append(o, m) ELSE o
           b == IF r.ok /\ r.node.busy # s.busy THEN <<m>> ELSE <<>>
           t == [s EXCEPT !.outbox = Append(@, m)]
<1>0. /\ o \in Seq(Msg) /\ Len(o) \in Nat /\ DOMAIN o = 1..Len(o) /\ Len(o) <= OutboxLimit
      /\ s \in Link
    BY LenProperties DEF Fits
<1>1. CASE r = Answer(s, FALSE)
    <2>1. r.node = s /\ ~r.ok
        BY <1>1 DEF Answer
    <2> QED BY <2>1
<1>2. CASE s.listed /\ s.outbox = <<>> /\ Ready(s) /\ r = Answer(StartResource(s, m), TRUE)
    <2>1. r.node = StartResource(s, m) /\ r.ok
        BY <1>2 DEF Answer
    <2>2. Fits(r.node, S, o) /\ r.node.busy # None
        <3>1. /\ Fits(StartResource(s, m), S, o)
              /\ StartResource(s, m).busy = [msg |-> m, stage |-> "sending"]
              /\ [msg |-> m, stage |-> "sending"] # None
            BY <1>2, StartFits
        <3>2. StartResource(s, m).busy # None
            BY <3>1
        <3> HIDE DEF r
        <3> QED BY <2>1, <3>1, <3>2
    <2>3. o = <<>> /\ s.busy = None
        BY <1>2 DEF Fits, Ready
    <2>4. ~Contains(o, m)
        BY <2>3 DEF Contains
    <2> QED BY <2>1, <2>2, <2>3, <2>4
<1>3. CASE s.listed /\ (\E i \in DOMAIN s.outbox : s.outbox[i] = m) /\ r = Answer(s, TRUE)
    <2>1. r.node = s /\ r.ok
        BY <1>3 DEF Answer
    <2>2. s.outbox = o
        BY <1>3 DEF Fits
    <2>3. Contains(o, m)
        BY <1>0, <1>3, <2>2 DEF Contains
    <2> QED BY <2>1, <2>3
<1>4. CASE /\ s.listed /\ ~(\E i \in DOMAIN s.outbox : s.outbox[i] = m)
           /\ ~(Len(s.outbox) >= OutboxLimit) /\ r = Answer(t, TRUE)
    <2>1. r.node = t /\ r.ok
        BY <1>4 DEF Answer
    <2>2. s.outbox = o
        BY <1>4 DEF Fits
    <2>3. ~Contains(o, m)
        BY <1>0, <1>4, <2>2 DEF Contains
    <2>4. Append(o, m) \in Seq(Msg) /\ Len(Append(o, m)) = Len(o) + 1
        BY <1>0, AppendProperties
    <2>5. t = [s EXCEPT !.outbox = Append(o, m)]
        BY <2>2
    <2>6. /\ t \in Link /\ t.outbox = Append(o, m) /\ t.busy = s.busy /\ t.flight = s.flight
          /\ t.status = s.status /\ t.awaiting = s.awaiting /\ t.listed = s.listed
          /\ t.events = s.events
        BY <1>0, <2>4, <2>5 DEF Link
    <2> HIDE DEF t
    <2>7. Len(Append(o, m)) <= OutboxLimit
        BY <1>0, <1>4, <2>2, <2>4, NodeAssumption
    <2>8. s.status = "active"
        BY <1>4 DEF Fits
    <2>9. Fits(t, S, Append(o, m))
        BY <1>4, <2>4, <2>6, <2>7, <2>8 DEF Fits
    <2> QED BY <2>1, <2>3, <2>6, <2>9
<1> QED BY <1>1, <1>2, <1>3, <1>4 DEF Send

(* A step that begins no transfer and leaves the link in a state that fits.  *)
LEMMA QuietStep ==
    ASSUME Fits(n', session', owed'), Len(n'.events) <= MaxEvents, begun' = <<>>
    PROVE  Inv' /\ InOrder
<1>1. <<>> \in Seq(Msg) /\ Len(<<>>) = 0
    BY EmptySeq
<1> QED BY <1>1 DEF Inv, InOrder

LEMMA LoopThrowsKeeps ==
    ASSUME Inv, NEW o1, NEW o2, NEW late \in BOOLEAN, NEW grace \in BOOLEAN,
           LoopThrows(o1, o2, late, grace)
    PROVE  Inv' /\ InOrder
<1> DEFINE s == Occurred(n, o1, o2)
<1>1. Fits(s, session, owed)
    BY HappensFits DEF Inv, Occurred
<1>2. PICK t \in CutShort(s, late, grace) :
            /\ n' = Emit(t, "error") /\ Len(n'.events) <= MaxEvents
            /\ begun' = <<>> /\ owed' = StillOwed(owed, <<>>, n') /\ session' = session
    BY Zenon DEF LoopThrows
<1> HIDE DEF s
<1>3. Fits(Watchdog(s, late), session, owed)
    BY <1>1, WatchdogFits
<1>4. Fits(UnblockLostProofs(Watchdog(s, late), grace), session, owed)
    BY <1>3, UnblockFits
<1>5. Fits(t, session, owed)
    BY <1>1, <1>2, <1>3, <1>4 DEF CutShort
<1>6. Fits(n', session, owed)
    BY <1>2, <1>5, EmitFits
<1>7. Fits(n', session', owed')
    BY <1>2, <1>6, OwesTheSame
<1> QED BY <1>2, <1>7, QuietStep

(* A session that ends closes its link.                                      *)
LEMMA EndFits ==
    ASSUME NEW s, NEW S, NEW o, Fits(s, S, o)
    PROVE  LET t == EndIfClosed(s, S)
           IN  Fits(t, S, o) /\ (t = s \/ ~t.listed)
BY TeardownFits DEF EndIfClosed

(* SyncLinks::route.                                                         *)
LEMMA RoutedKeeps ==
    ASSUME NEW s, NEW S, Fits(s, S, owed), NEW m \in Msg \union {None}, Routed(s, m, S)
    PROVE  Inv' /\ InOrder
<1> DEFINE r == IF m = None THEN Answer(s, FALSE) ELSE Send(s, m)
           t == EndIfClosed(r.node, S)
           b == IF r.ok /\ r.node.busy # s.busy THEN <<m>> ELSE <<>>
           q == IF r.ok /\ ~Contains(owed, m) THEN Append(owed, m) ELSE owed
<1>1. /\ Len(t.events) <= MaxEvents /\ n' = t /\ session' = S /\ begun' = b
      /\ owed' = StillOwed(q, b, t)
    BY Zenon DEF Routed
<1>2. \/ b = <<>> /\ Fits(r.node, S, q)
      \/ m \in Msg /\ b = <<m>> /\ owed = <<>> /\ q = Append(owed, m) /\ Fits(r.node, S, owed)
    <2>1. CASE m = None
        <3>1. r = Answer(s, FALSE)
            BY <2>1
        <3>2. r.node = s /\ ~r.ok
            BY <3>1 DEF Answer
        <3> HIDE DEF r
        <3>3. b = <<>> /\ q = owed
            BY <3>2
        <3> HIDE DEF b, q
        <3>4. Fits(r.node, S, q)
            BY <3>2, <3>3
        <3> QED BY <3>3, <3>4
    <2>2. CASE m # None
        <3> DEFINE x == Send(s, m)
                   bx == IF x.ok /\ x.node.busy # s.busy THEN <<m>> ELSE <<>>
                   qx == IF x.ok /\ ~Contains(owed, m) THEN Append(owed, m) ELSE owed
        <3>1. r = x /\ m \in Msg
            BY <2>2
        <3>2. \/ bx = <<>> /\ Fits(x.node, S, qx)
              \/ bx = <<m>> /\ owed = <<>> /\ qx = Append(owed, m) /\ Fits(x.node, S, owed)
            BY <3>1, SendFits
        <3> HIDE DEF r, x
        <3>3. b = bx /\ q = qx /\ r.node = x.node
            BY <3>1
        <3> HIDE DEF b, q, bx, qx
        <3> QED BY <3>1, <3>2, <3>3
    <2> QED BY <2>1, <2>2
<1> HIDE DEF r, b, q
<1>3. CASE b = <<>> /\ Fits(r.node, S, q)
    <2>1. Fits(t, S, q)
        BY <1>3, EndFits
    <2>2. Fits(t, S, StillOwed(q, <<>>, t))
        BY <2>1, OwesTheSame
    <2> HIDE DEF t
    <2> QED BY <1>1, <1>3, <2>2, QuietStep
<1>4. CASE m \in Msg /\ b = <<m>> /\ owed = <<>> /\ q = Append(owed, m) /\ Fits(r.node, S, owed)
    <2>1. Fits(t, S, owed)
        BY <1>4, EndFits
    <2> HIDE DEF t
    <2>2. <<>> \in Seq(Msg)
        BY EmptySeq
    <2>3. q \in Seq(Msg) /\ q # <<>> /\ Head(q) = m /\ Tail(q) = <<>>
        BY <1>4, <2>2, AppendProperties, HeadTailAppend
    <2>4. b # <<>> /\ Head(b) = m /\ b \in Seq(Msg) /\ Len(b) = 1
        BY <1>4
    <2>5. StillOwed(q, b, t) = <<>>
        BY <2>3, <2>4, RemoveFront DEF StillOwed
    <2> QED BY <1>1, <1>4, <2>1, <2>4, <2>5 DEF Inv, InOrder
<1> QED BY <1>2, <1>3, <1>4

(* SyncLinks::handle: a session begins when its link comes up and ends when  *)
(* it has gone; in between, one that ends takes the link with it.            *)
LEMMA HandleKeeps ==
    ASSUME Inv, NEW m \in Msg \union {None}, NEW ends \in BOOLEAN, Handle(m, ends)
    PROVE  Inv' /\ InOrder
<1> DEFINE E == n.events
           s == [n EXCEPT !.events = Tail(n.events)]
<1>1. \/ Head(E) = "established" /\ Routed(s, None, "live")
      \/ /\ Head(E) = "data" /\ session # "none"
         /\ Routed(s, m, IF ends THEN "over" ELSE session)
      \/ Head(E) = "closed" /\ Routed(s, None, "none")
      \/ Head(E) \notin {"established", "closed"} /\ Routed(s, None, session)
    <2>1. ASSUME Head(E) = "established" PROVE Routed(s, None, "live")
        BY <2>1 DEF Handle
    <2>2. ASSUME Head(E) = "closed" PROVE Routed(s, None, "none")
        BY <2>2 DEF Handle
    <2>3. ASSUME Head(E) = "data", session # "none"
          PROVE  Routed(s, m, IF ends THEN "over" ELSE session)
        BY <2>3 DEF Handle
    <2>4. ASSUME Head(E) # "established", Head(E) # "closed", ~(Head(E) = "data" /\ session # "none")
          PROVE  Routed(s, None, session)
        BY <2>4 DEF Handle
    <2> QED BY <2>1, <2>2, <2>3, <2>4
<1>2. /\ n \in Link /\ E \in Seq(Event) /\ E # <<>> /\ Tail(E) \in Seq(Event)
      /\ session \in {"none", "live", "over"}
    BY HeadTailProperties DEF Handle, Inv, Fits, Link
<1>3. /\ s \in Link /\ s.status = n.status /\ s.awaiting = n.awaiting /\ s.listed = n.listed
      /\ s.outbox = n.outbox /\ s.busy = n.busy /\ s.flight = n.flight /\ s.events = Tail(E)
    BY <1>2 DEF Link
<1> HIDE DEF s
<1>4. ASSUME NEW T \in {"none", "live", "over"}, Told(n.status, Tail(E), T)
      PROVE  Fits(s, T, owed)
    BY <1>3, <1>4 DEF Inv, Fits
<1>5. Told(n.status, E, session) /\ n.status \in {"none", "pending", "active", "closed"}
    BY <1>2 DEF Inv, Fits, Link
<1> HIDE DEF E
<1>6. ASSUME Head(E) = "established", Routed(s, None, "live") PROVE Inv' /\ InOrder
    <2>1. Told(n.status, Tail(E), "live")
        BY <1>2, <1>5, <1>6, ToldNext
    <2> QED BY <1>4, <1>6, <2>1, RoutedKeeps
<1>7. ASSUME Head(E) = "closed", Routed(s, None, "none") PROVE Inv' /\ InOrder
    <2>1. Told(n.status, Tail(E), "none")
        BY <1>2, <1>5, <1>7, ToldNext
    <2> QED BY <1>4, <1>7, <2>1, RoutedKeeps
<1>8. ASSUME Head(E) = "data", session # "none",
             NEW T, T = IF ends THEN "over" ELSE session, Routed(s, m, T)
      PROVE  Inv' /\ InOrder
    <2>1. T \in {"none", "live", "over"} /\ T # "none"
        BY <1>2, <1>8
    <2>2. Told(n.status, Tail(E), T)
        BY <1>2, <1>5, <1>8, <2>1, ToldNext
    <2> QED BY <1>4, <1>8, <2>1, <2>2, RoutedKeeps
<1>9. ASSUME Head(E) \notin {"established", "closed"}, Routed(s, None, session)
      PROVE  Inv' /\ InOrder
    <2>1. Told(n.status, Tail(E), session)
        BY <1>2, <1>5, <1>9, ToldNext
    <2> QED BY <1>2, <1>4, <1>9, <2>1, RoutedKeeps
<1> QED BY <1>1, <1>6, <1>7, <1>8, <1>9

(* SyncLinks::tick.                                                          *)
LEMMA TickKeeps ==
    ASSUME Inv, NEW m \in Msg \union {None}, NEW ends \in BOOLEAN, Tick(m, ends)
    PROVE  Inv' /\ InOrder
<1> DEFINE T == IF ends THEN "over" ELSE session
<1>1. session # "none" /\ Routed(n, m, T)
    BY DEF Tick
<1>2. T \in {"none", "live", "over"} /\ T # "none" /\ Told(n.status, n.events, T)
    BY <1>1 DEF Inv, Fits, Told
<1>3. Fits(n, T, owed)
    BY <1>2 DEF Inv, Fits
<1> HIDE DEF T
<1> QED BY <1>1, <1>3, RoutedKeeps

(* The host asks for a link, or closes one.                                  *)
LEMMA HostKeeps ==
    ASSUME Inv, (\E path \in BOOLEAN : Open(path)) \/ Close
    PROVE  Inv' /\ InOrder
<1>1. ASSUME NEW path \in BOOLEAN, Open(path) PROVE Inv' /\ InOrder
    <2>0. n \in Link /\ Fits(n, session, owed) /\ n.status = "none" /\ ~n.awaiting
        BY <1>1 DEF Inv, Fits, Open
    <2>1. CASE path
        <3>1. n' = [n EXCEPT !.status = "pending", !.asked = TRUE]
            BY <1>1, <2>1 DEF Open, OpenNow
        <3>2. n'.events = n.events
            BY <2>0, <3>1 DEF Link
        <3>3. Fits(n', session, owed)
            BY <1>1, <2>0, <2>1, OpenFits DEF Open
        <3> QED BY <1>1, <3>2, <3>3, QuietStep DEF Open, Inv
    <2>2. CASE ~path
        <3> DEFINE t == [n EXCEPT !.awaiting = TRUE]
        <3>1. n' = t
            BY <1>1, <2>2 DEF Open
        <3>2. /\ t \in Link /\ t.status = n.status /\ t.listed = n.listed
              /\ t.outbox = n.outbox /\ t.busy = n.busy /\ t.flight = n.flight
              /\ t.events = n.events
            BY <2>0 DEF Link
        <3> HIDE DEF t
        <3>3. Fits(t, session, owed)
            BY <2>0, <3>2 DEF Fits
        <3> QED BY <1>1, <3>1, <3>2, <3>3, QuietStep DEF Open, Inv
    <2> QED BY <2>1, <2>2
<1>2. CASE Close
    <2>1. n.status = "active"
        BY <1>2 DEF Close, Inv, Fits
    <2>2. Fits(n', session, owed) /\ ~n'.listed
        BY <1>2, <2>1, TeardownFits DEF Close, Inv
    <2>3. Fits(n', session, StillOwed(owed, <<>>, n'))
        BY <2>2, OwesTheSame
    <2>4. Fits(n', session', owed')
        BY <1>2, <2>2, <2>3 DEF Close, StillOwed
    <2> QED BY <1>2, <2>4, QuietStep DEF Close
<1> QED BY <1>1, <1>2

-----------------------------------------------------------------------------
(* Theorems. *)

LEMMA InitFits == Init => Inv
<1> SUFFICES ASSUME Init PROVE Inv
    OBVIOUS
<1>1. <<>> \in Seq(Msg) /\ <<>> \in Seq(Event) /\ Len(<<>>) = 0
    BY EmptySeq
<1>2. n \in Link
    BY <1>1 DEF Init, Link
<1>3. OutboxLimit \in Nat /\ MaxEvents \in Nat
    BY NodeAssumption
<1> QED BY <1>1, <1>2, <1>3 DEF Init, Inv, Fits, Told

LEMMA NextKeeps ==
    ASSUME Inv, Next
    PROVE  Inv' /\ InOrder
<1>1. ASSUME NEW o1, NEW o2, NEW late \in BOOLEAN, NEW grace \in BOOLEAN,
             NEW path \in {FALSE, n.awaiting}, NEW recalled \in BOOLEAN,
             Loop(o1, o2, late, grace, path, recalled)
      PROVE  Inv' /\ InOrder
    <2>1. path \in BOOLEAN
        BY DEF Inv, Fits, Link
    <2> QED BY <1>1, <2>1, LoopKeeps
<1>2. ASSUME NEW o1, NEW o2, NEW late \in BOOLEAN, NEW grace \in BOOLEAN,
             LoopThrows(o1, o2, late, grace)
      PROVE  Inv' /\ InOrder
    BY <1>2, LoopThrowsKeeps
<1>3. ASSUME NEW m \in Msg \union {None}, NEW ends \in BOOLEAN, Handle(m, ends) \/ Tick(m, ends)
      PROVE  Inv' /\ InOrder
    BY <1>3, HandleKeeps, TickKeeps
<1>4. ASSUME (\E path \in BOOLEAN : Open(path)) \/ Close PROVE Inv' /\ InOrder
    BY <1>4, HostKeeps
<1>5. CASE \E o1 \in Possible(n) : \E o2 \in Possible(Happens(n, o1)) :
             \E late, grace \in BOOLEAN :
                \/ LoopThrows(o1, o2, late, grace)
                \/ \E path \in {FALSE, n.awaiting}, recalled \in BOOLEAN :
                      Loop(o1, o2, late, grace, path, recalled)
    <2>1. PICK o1 \in Possible(n) : \E o2 \in Possible(Happens(n, o1)) :
             \E late, grace \in BOOLEAN :
                \/ LoopThrows(o1, o2, late, grace)
                \/ \E path \in {FALSE, n.awaiting}, recalled \in BOOLEAN :
                      Loop(o1, o2, late, grace, path, recalled)
        BY <1>5
    <2>2. PICK o2 \in Possible(Happens(n, o1)), late \in BOOLEAN, grace \in BOOLEAN :
                \/ LoopThrows(o1, o2, late, grace)
                \/ \E path \in {FALSE, n.awaiting}, recalled \in BOOLEAN :
                      Loop(o1, o2, late, grace, path, recalled)
        BY <2>1
    <2>3. CASE LoopThrows(o1, o2, late, grace)
        BY <1>2, <2>3
    <2>4. ASSUME NEW path \in {FALSE, n.awaiting}, NEW recalled \in BOOLEAN,
                 Loop(o1, o2, late, grace, path, recalled)
          PROVE  Inv' /\ InOrder
        BY <1>1, <2>4
    <2> QED BY <2>2, <2>3, <2>4
<1> QED BY <1>3, <1>4, <1>5 DEF Next

LEMMA StutterKeeps ==
    ASSUME Inv, UNCHANGED vars
    PROVE  Inv'
BY DEF vars, Inv

(* SyncLinks::handle: for any number of messages, any outbox and any order of *)
(* what the network brings, once the host has polled everything there is a    *)
(* session exactly on a link that is up.                                      *)
THEOREM SessionsFollowLinks == Spec => []SessionFollowsLink
<1>1. Inv => SessionFollowsLink
    <2> SUFFICES ASSUME Inv PROVE SessionFollowsLink
        OBVIOUS
    <2>0. OutboxLimit \in Nat /\ MaxEvents \in Nat /\ <<>> \in Seq(Msg) /\ Len(<<>>) = 0
        BY NodeAssumption, EmptySeq
    <2>1. n \in Link /\ n.outbox \in Seq(Msg) /\ Len(n.outbox) <= OutboxLimit
        BY <2>0 DEF Inv, Fits, Link
    <2>2. n.outbox \in BoundedSeq(Msg, OutboxLimit) /\ owed \in BoundedSeq(Msg, OutboxLimit)
        BY <2>0, <2>1, BoundedSeqIsSeq DEF Inv, Fits
    <2>3. begun \in BoundedSeq(Msg, 1)
        BY BoundedSeqIsSeq DEF Inv
    <2>4. n.events \in BoundedSeq(Event, MaxEvents)
        BY <2>0, <2>1, BoundedSeqIsSeq DEF Inv, Link
    <2>5. n \in Node
        BY <2>1, <2>2, <2>4 DEF Link, Node, Event
    <2>6. ASSUME n.events = <<>> PROVE session # "none" <=> n.listed
        <3>1. Len(n.events) = 0
            BY <2>6
        <3>2. n.status \in {"none", "pending", "active", "closed"}
            BY <2>1 DEF Link
        <3> QED BY <3>1, <3>2 DEF Inv, Fits, Told
    <2> QED BY <2>2, <2>3, <2>5, <2>6 DEF SessionFollowsLink, TypeOK, Inv, Fits
<1> QED BY <1>1, InitFits, NextKeeps, StutterKeeps, PTL DEF Spec

(* Node::send and drain_outboxes: whatever is sent, arrives, fails or throws,  *)
(* what waits on a link that is up is what was promised, in the order of the   *)
(* promises, and no transfer of RNS is out of Node's sight.                    *)
THEOREM WhatIsPromisedIsKept == Spec => PromisesAreKept
<1> DEFINE Kept == /\ begun' # <<>> => owed = <<>> \/ Head(owed) = Head(begun')
                   /\ n'.listed => /\ n'.outbox = owed'
                                   /\ n'.busy # None => n'.flight # None /\ n'.flight.msg = n'.busy.msg
<1>1. ASSUME Inv, [Next]_vars PROVE Inv' /\ [Kept]_vars
    <2>1. CASE Next
        <3>1. Inv' /\ InOrder
            BY <1>1, <2>1, NextKeeps
        <3>2. n'.listed => n'.outbox = owed'
            BY <3>1 DEF Inv, Fits
        <3>3. n'.busy # None => n'.flight # None /\ n'.flight.msg = n'.busy.msg
            BY <3>1 DEF Inv, Fits
        <3> QED BY <3>1, <3>2, <3>3 DEF InOrder
    <2>2. CASE UNCHANGED vars
        BY <1>1, <2>2, StutterKeeps
    <2> QED BY <1>1, <2>1, <2>2
<1>2. Inv /\ [Next]_vars => Inv' /\ [Kept]_vars
    BY <1>1
<1> QED BY <1>2, InitFits, PTL DEF Spec, PromisesAreKept

=============================================================================
