----------------------------- MODULE SessionProofs -----------------------------
(***************************************************************************)
(* in_sync never lies, for any two devices, any documents and any bounds,  *)
(* provided a device saves what it merged before the acknowledgement       *)
(* leaves. Every piece of a step keeps the session object truthful and     *)
(* sends truthful frames; the actions only put the pieces together.        *)
(***************************************************************************)
EXTENDS Session, TLAPS

(* A step whose session object and frames are truthful.                     *)
TruthfulStep(step, mine, shared, theirs) ==
    /\ Truthful(step.sess, mine, shared, theirs)
    /\ \A m \in step.send : TruthfulFrame(m, mine)

-----------------------------------------------------------------------------
(* The pieces. *)

(* Every frame a session builds is a message.                               *)
LEMMA FrameIsMessage ==
    ASSUME NEW p \in Peer, NEW s \in SessionObject, NEW digest \in Digest,
           NEW kind \in {"hello", "doc", "ack", "refuse", "bye"}
    PROVE  /\ Frame(p, s, kind, digest) \in Message
           /\ Frame(p, s, kind, digest).kind = kind
           /\ Frame(p, s, kind, digest).digest = digest
BY DEF Frame, Message, SessionObject, Ids

(* A frame that claims nothing about a document is truthful.                *)
LEMMA IdleFrame ==
    ASSUME NEW p \in Peer, NEW s \in SessionObject, NEW digest \in Digest,
           NEW kind \in {"hello", "refuse", "bye"}, NEW mine
    PROVE  TruthfulFrame(Frame(p, s, kind, digest), mine)
BY FrameIsMessage DEF TruthfulFrame

(* Hello says nothing about a document.                                     *)
LEMMA HelloIsTruthful ==
    ASSUME NEW p \in Peer, NEW s \in SessionObject, NEW mine
    PROVE  TruthfulFrame(Hello(p, s), mine)
BY IdleFrame DEF Hello, Digest

(* Session::finish: closing forgets nothing and claims nothing.             *)
LEMMA FinishIsTruthful ==
    ASSUME NEW p \in Peer, NEW s, NEW mine, NEW shared, NEW theirs, NEW frames,
           Truthful(s, mine, shared, theirs),
           \A m \in frames : TruthfulFrame(m, mine)
    PROVE  TruthfulStep(Finish(p, s, frames), mine, shared, theirs)
<1>1. Truthful(Closed(s), mine, shared, theirs)
    BY DEF Truthful, Closed, SessionObject
<1>2. TruthfulFrame(Frame(p, s, "bye", None), mine)
    BY IdleFrame DEF Truthful, Digest
<1> QED BY <1>1, <1>2 DEF TruthfulStep, Finish, Step

(* Session::refresh_export: afterwards the export is known, and is current. *)
LEMMA RefreshedIsTruthful ==
    ASSUME NEW p \in Peer, NEW s, NEW theirs, NEW D \in SUBSET Fact,
           share[p] \in SUBSET Fact,
           Truthful(s, D, share[p], theirs)
    PROVE  /\ Truthful(Refreshed(p, s, D), D, share[p], theirs)
           /\ Refreshed(p, s, D).export # None
           /\ ~Refreshed(p, s, D).stale
<1>1. D \intersect share[p] # None /\ D \intersect share[p] \in Digest
    BY FactAssumption DEF Digest
<1>2. CASE s.stale
    BY <1>1, <1>2 DEF Truthful, Refreshed, SessionObject
<1>3. CASE ~s.stale
    BY <1>3 DEF Truthful, Refreshed
<1> QED BY <1>2, <1>3

(* Past the coalescing window: what goes out is the export, and what is     *)
(* taken as held by the peer is what the peer itself sent.                  *)
LEMMA TickSettledIsTruthful ==
    ASSUME NEW p \in Peer, NEW s, NEW theirs, NEW D \in SUBSET Fact, NEW late,
           share[p] \in SUBSET Fact,
           Truthful(s, D, share[p], theirs)
    PROVE  TruthfulStep(TickSettled(p, s, D, late), D, share[p], theirs)
<1> DEFINE r == Refreshed(p, s, D)
           k == IF r.export = r.merged THEN [r EXCEPT !.acked = r.export] ELSE r
           t == [k EXCEPT !.sent = k.export]
<1>1. Truthful(r, D, share[p], theirs) /\ r.export # None
    BY RefreshedIsTruthful
<1>2. Truthful(k, D, share[p], theirs) /\ k.export # None
    BY <1>1 DEF Truthful, SessionObject
<1>3. Truthful(t, D, share[p], theirs)
    BY <1>2 DEF Truthful, SessionObject
<1>4. k \in SessionObject /\ k.export \in Digest /\ k.export \subseteq D
    BY <1>2 DEF Truthful, SessionObject
<1>5. TruthfulFrame(Frame(p, k, "doc", k.export), D)
    BY <1>2, <1>4, FrameIsMessage DEF TruthfulFrame
<1>6. TruthfulFrame(Hello(p, k), D)
    BY <1>4, HelloIsTruthful
<1> HIDE DEF r
<1>7. TruthfulStep(Step(t, {Frame(p, k, "doc", k.export)}), D, share[p], theirs)
    BY <1>3, <1>5 DEF TruthfulStep, Step
<1>8. TruthfulStep(Step(k, IF "keepalive" \in late THEN {Hello(p, k)} ELSE {}),
                   D, share[p], theirs)
    BY <1>2, <1>6 DEF TruthfulStep, Step
<1> QED BY <1>7, <1>8 DEF TickSettled, r

(* Session::tick in every state.                                            *)
LEMMA TickedIsTruthful ==
    ASSUME NEW p \in Peer, NEW s, NEW theirs, NEW D \in SUBSET Fact, NEW late,
           share[p] \in SUBSET Fact,
           Truthful(s, D, share[p], theirs)
    PROVE  TruthfulStep(Ticked(p, s, D, late), D, share[p], theirs)
<1>1. s \in SessionObject
    BY DEF Truthful
<1>2. TruthfulFrame(Hello(p, s), D)
    BY <1>1, HelloIsTruthful
<1>3. Truthful(Closed(s), D, share[p], theirs)
    BY DEF Truthful, Closed, SessionObject
<1>4. TruthfulStep(TickConnecting(p, s, late), D, share[p], theirs)
    BY <1>2, <1>3 DEF TickConnecting, TruthfulStep, Step
<1>5. TruthfulStep(TickOpen(p, s, D, late), D, share[p], theirs)
    <2>1. CASE "silence" \in late
        BY <2>1, <1>3 DEF TickOpen, TruthfulStep, Step
    <2>2. CASE "silence" \notin late /\ "settling" \in late
        BY <2>2, <1>2 DEF TickOpen, TruthfulStep, Step
    <2>3. CASE "silence" \notin late /\ "settling" \notin late
        BY <2>3, TickSettledIsTruthful DEF TickOpen
    <2> QED BY <2>1, <2>2, <2>3
<1>6. TruthfulStep(Step(s, {}), D, share[p], theirs)
    BY DEF TruthfulStep, Step
<1>7. CASE s.state = "connecting"
    BY <1>7, <1>4 DEF Ticked
<1>8. CASE s.state = "open"
    BY <1>8, <1>5 DEF Ticked
<1>9. CASE s.state \notin {"connecting", "open"}
    BY <1>9, <1>6 DEF Ticked
<1> QED BY <1>7, <1>8, <1>9

(* The hello handler: forgetting is always truthful, and the reply and the  *)
(* tick that follows are.                                                   *)
LEMMA HearsHelloIsTruthful ==
    ASSUME NEW p \in Peer, NEW s, NEW theirs, NEW D \in SUBSET Fact, NEW m \in Message,
           share[p] \in SUBSET Fact,
           Truthful(s, D, share[p], theirs)
    PROVE  TruthfulStep(HearsHello(p, s, D, m), D, share[p], theirs)
<1> DEFINE restarted == m.session # s.peerSession
           opening == s.state = "connecting" \/ restarted
           known == [s EXCEPT !.peer = m.id]
           met == Met(known, m)
           back == IF m.seq = 0 \/ opening THEN {Hello(p, met)} ELSE {}
           awake == [met EXCEPT !.state = "open"]
           ticked == Ticked(p, awake, D, {})
<1>0. known.peerSession = s.peerSession
    BY DEF Truthful, SessionObject
<1>1. Truthful(known, D, share[p], theirs)
    BY DEF Truthful, SessionObject, Message
<1>2. Truthful(met, D, share[p], theirs)
    <2>1. m.session \in 0..MaxStarts /\ None \in Digest
        BY DEF Message, Digest
    <2>2. CASE restarted
        <3> HIDE DEF known
        <3>1. met = [known EXCEPT !.peerSession = m.session, !.acked = None,
                                  !.refused = None, !.sent = None, !.merged = None]
            BY <1>0, <2>2 DEF Met
        <3>2. met \in SessionObject
            BY <1>1, <2>1, <3>1 DEF Truthful, SessionObject
        <3>3. /\ met.stale = known.stale /\ met.export = known.export
              /\ met.merged = None /\ met.acked = None
            BY <1>1, <3>1 DEF Truthful, SessionObject
        <3> QED BY <1>1, <3>2, <3>3 DEF Truthful
    <2>3. CASE ~restarted
        BY <1>0, <1>1, <2>3 DEF Met
    <2> QED BY <2>2, <2>3
<1>3. Truthful(awake, D, share[p], theirs)
    BY <1>2 DEF Truthful, SessionObject
<1>4. \A x \in back : TruthfulFrame(x, D)
    BY <1>2, HelloIsTruthful DEF Truthful
<1>5. TruthfulStep(ticked, D, share[p], theirs)
    BY <1>3, TickedIsTruthful
<1>6. TruthfulStep(Finish(p, s, {}), D, share[p], theirs)
    BY FinishIsTruthful
<1>7. TruthfulStep(Step(s, {}), D, share[p], theirs)
    BY DEF TruthfulStep, Step
<1>8. TruthfulStep(Step(ticked.sess, back \union ticked.send), D, share[p], theirs)
    BY <1>4, <1>5 DEF TruthfulStep, Step
<1>9. TruthfulStep(Step(met, back), D, share[p], theirs)
    BY <1>2, <1>4 DEF TruthfulStep, Step
<1>10. CASE m.id = IdOf[p]
    BY <1>10, <1>6 DEF HearsHello
<1>11. CASE m.id # IdOf[p] /\ s.peer \notin {None, m.id}
    BY <1>11, <1>7 DEF HearsHello
<1>12. CASE m.id # IdOf[p] /\ s.peer \in {None, m.id}
    <2> HIDE DEF back, ticked
    <2>1. HearsHello(p, s, D, m) = IF opening THEN Step(ticked.sess, back \union ticked.send)
                                              ELSE Step(met, back)
        BY <1>12 DEF HearsHello, back, ticked
    <2> QED BY <2>1, <1>8, <1>9
<1> QED BY <1>10, <1>11, <1>12

(* The replica after a frame was heard: only a merge changes it.            *)
After(p, s, D, m) == IF Merges(p, s, D, m) THEN D \union m.digest ELSE D

(* The doc handler: an acknowledgement speaks of a state already merged.    *)
LEMMA HearsDocIsTruthful ==
    ASSUME NEW p \in Peer, NEW s, NEW theirs, NEW D \in SUBSET Fact, NEW m,
           share[p] \in SUBSET Fact,
           Truthful(s, D, share[p], theirs),
           TruthfulFrame(m, theirs), m.kind = "doc"
    PROVE  TruthfulStep(HearsDoc(p, s, D, m), After(p, s, D, m), share[p], theirs)
<1>1. m.digest # None /\ m.digest \subseteq theirs /\ m.digest \in Digest /\ s \in SessionObject
    BY DEF TruthfulFrame, Truthful, Message
<1>2. CASE m.digest = s.merged
    <2>1. After(p, s, D, m) = D
        BY <1>2 DEF After, Merges
    <2>2. m.digest \subseteq D
        BY <1>1, <1>2 DEF Truthful
    <2>3. TruthfulFrame(Frame(p, s, "ack", m.digest), D)
        BY <1>1, <2>2, FrameIsMessage DEF TruthfulFrame
    <2>4. HearsDoc(p, s, D, m) = Step(s, {Frame(p, s, "ack", m.digest)})
        BY <1>2 DEF HearsDoc
    <2> QED BY <2>1, <2>3, <2>4 DEF TruthfulStep, Step
<1>3. CASE m.digest # s.merged /\ Merges(p, s, D, m)
    <2> DEFINE t == [s EXCEPT !.merged = m.digest, !.stale = TRUE]
               E == D \union m.digest
    <2>1. After(p, s, D, m) = E
        BY <1>3 DEF After
    <2>2. t \in SessionObject
        BY <1>1 DEF SessionObject
    <2>3. t.stale /\ t.export = s.export /\ t.merged = m.digest /\ t.acked = s.acked
        BY <1>1 DEF SessionObject
    <2>4. Truthful(t, E, share[p], theirs)
        BY <1>1, <2>2, <2>3 DEF Truthful
    <2>5. TruthfulFrame(Frame(p, s, "ack", m.digest), E)
        BY <1>1, FrameIsMessage DEF TruthfulFrame
    <2>6. HearsDoc(p, s, D, m) = Step(t, {Frame(p, s, "ack", m.digest)})
        <3>1. HearsDoc(p, s, D, m) = Step(IF m.digest = s.merged THEN s ELSE t,
                                          {Frame(p, s, "ack", m.digest)})
            BY <1>3 DEF HearsDoc, Merges, Collides
        <3> QED BY <1>3, <3>1
    <2> QED BY <2>1, <2>4, <2>5, <2>6 DEF TruthfulStep, Step
<1>4. CASE m.digest # s.merged /\ ~Merges(p, s, D, m)
    <2>1. After(p, s, D, m) = D
        BY <1>4 DEF After
    <2>2. TruthfulFrame(Frame(p, s, "refuse", m.digest), D)
        BY <1>1, IdleFrame
    <2>3. TruthfulStep(Finish(p, s, {Frame(p, s, "refuse", m.digest)}), D, share[p], theirs)
        BY <2>2, FinishIsTruthful
    <2>4. TruthfulStep(Step(s, {Frame(p, s, "refuse", m.digest)}), D, share[p], theirs)
        BY <2>2 DEF TruthfulStep, Step
    <2>5. CASE m.digest \intersect Malformed # {}
        BY <1>4, <2>1, <2>4, <2>5 DEF HearsDoc
    <2>6. CASE m.digest \intersect Malformed = {}
        BY <1>4, <2>1, <2>3, <2>6 DEF HearsDoc
    <2> QED BY <2>5, <2>6
<1> QED BY <1>2, <1>3, <1>4

(* The ack handler: only an acknowledgement of the current export counts.   *)
LEMMA HearsAckIsTruthful ==
    ASSUME NEW p \in Peer, NEW s, NEW theirs, NEW D \in SUBSET Fact, NEW m,
           share[p] \in SUBSET Fact,
           Truthful(s, D, share[p], theirs),
           TruthfulFrame(m, theirs), m.kind = "ack"
    PROVE  TruthfulStep(HearsAck(p, s, D, m), D, share[p], theirs)
<1> DEFINE r == Refreshed(p, s, D)
           t == IF m.digest = r.export THEN [r EXCEPT !.acked = m.digest] ELSE r
<1>1. Truthful(r, D, share[p], theirs)
    BY RefreshedIsTruthful
<1>2. m.digest \subseteq theirs /\ m.digest \in Digest
    BY DEF TruthfulFrame, Message
<1> HIDE DEF r
<1>3. Truthful(t, D, share[p], theirs)
    BY <1>1, <1>2 DEF Truthful, SessionObject
<1>4. HearsAck(p, s, D, m) = Step(t, {})
    BY DEF HearsAck, r
<1> QED BY <1>3, <1>4 DEF TruthfulStep, Step

(* Session::receive on any frame.                                           *)
LEMMA HeardIsTruthful ==
    ASSUME NEW p \in Peer, NEW s, NEW theirs, NEW D \in SUBSET Fact, NEW m,
           share[p] \in SUBSET Fact,
           Truthful(s, D, share[p], theirs),
           TruthfulFrame(m, theirs)
    PROVE  TruthfulStep(Heard(p, s, D, m), After(p, s, D, m), share[p], theirs)
<1>1. m \in Message /\ s \in SessionObject
    BY DEF TruthfulFrame, Truthful
<1>2. TruthfulStep(Step(s, {}), D, share[p], theirs)
    BY DEF TruthfulStep, Step
<1>3. CASE s.state \notin {"connecting", "open"}
    BY <1>2, <1>3 DEF Heard, After, Merges
<1>4. CASE s.state \in {"connecting", "open"} /\ m.kind = "hello"
    BY <1>1, <1>4, HearsHelloIsTruthful DEF Heard, After, Merges
<1>5. CASE s.state \in {"connecting", "open"} /\ m.kind # "hello" /\ s.peer # m.id
    BY <1>2, <1>5 DEF Heard, After, Merges
<1>6. CASE s.state \in {"connecting", "open"} /\ m.kind # "hello" /\ s.peer = m.id
    <2>1. m.kind \in {"doc", "ack", "refuse", "bye"} /\ m.digest \in Digest
        BY <1>1, <1>6 DEF Message
    <2>2. CASE m.kind = "doc"
        BY <1>6, <2>2, HearsDocIsTruthful DEF Heard
    <2>3. CASE m.kind = "ack"
        BY <1>6, <2>3, HearsAckIsTruthful DEF Heard, After, Merges
    <2>4. CASE m.kind = "refuse"
        <3>1. Truthful([s EXCEPT !.refused = m.digest], D, share[p], theirs)
            BY <2>1 DEF Truthful, SessionObject
        <3> QED BY <1>6, <2>4, <3>1 DEF Heard, After, Merges, TruthfulStep, Step
    <2>5. CASE m.kind = "bye"
        <3>1. Truthful(Closed(s), D, share[p], theirs)
            BY DEF Truthful, Closed, SessionObject
        <3> QED BY <1>6, <2>5, <3>1 DEF Heard, After, Merges, TruthfulStep, Step
    <2> QED BY <2>1, <2>2, <2>3, <2>4, <2>5
<1> QED BY <1>3, <1>4, <1>5, <1>6

-----------------------------------------------------------------------------
(* The actions. *)

(* What both sides know only grows: a larger document on the other side     *)
(* keeps a session truthful.                                                *)
LEMMA TruthGrows ==
    ASSUME NEW s, NEW mine, NEW shared, NEW theirs, NEW more,
           theirs \subseteq more, Truthful(s, mine, shared, theirs)
    PROVE  Truthful(s, mine, shared, more)
BY DEF Truthful

(* Likewise for a frame and its sender.                                     *)
LEMMA FrameTruthGrows ==
    ASSUME NEW m, NEW sender, NEW more,
           sender \subseteq more, TruthfulFrame(m, sender)
    PROVE  TruthfulFrame(m, more)
BY DEF TruthfulFrame

(* A host that saves first carries out any truthful step that leaves its    *)
(* replica at D, over a net that lost or kept frames.                       *)
LEMMA ActKeepsIInv ==
    ASSUME IInv, NEW p \in Peer, NEW step, NEW change, NEW n,
           NEW D \in SUBSET Fact, doc[p] \subseteq D,
           D = doc[p] \/ change \in SavesFirst,
           TruthfulStep(step, D, share[p], doc[Other[p]]),
           n \in [Peer -> SUBSET Message],
           \A q \in Peer : n[q] \subseteq net[q],
           Act(p, step, D, change, n),
           starts' \in 0..MaxStarts, repeats' \in 0..MaxRepeats
    PROVE  IInv'
<1> DEFINE o == Other[p]
<1>1. o \in Peer /\ o # p /\ Other[o] = p
    BY PeerAssumption
<1>2. /\ doc \in [Peer -> SUBSET Fact] /\ saved = doc /\ share \in [Peer -> SUBSET Fact]
      /\ sess \in [Peer -> SessionObject] /\ net \in [Peer -> SUBSET Message]
    BY DEF IInv, TypeOK
<1>3. /\ doc' = [doc EXCEPT ![p] = D] /\ share' = share
      /\ sess' = [sess EXCEPT ![p] = step.sess]
    BY DEF Act
<1>4. doc' \in [Peer -> SUBSET Fact] /\ saved' = doc'
    BY <1>2 DEF Act
<1>5. \A m \in step.send : TruthfulFrame(m, D)
    BY DEF TruthfulStep
<1>6. step.sess \in SessionObject
    BY DEF TruthfulStep, Truthful
<1>7. step.send \subseteq Message
    BY <1>5 DEF TruthfulFrame
<1>8. /\ net' \in [Peer -> SUBSET Message]
      /\ \A q \in Peer : net'[q] \subseteq net[q] \union (IF q = o THEN step.send ELSE {})
    BY <1>1, <1>2, <1>7 DEF Act, Carry
<1>9. TypeOK'
    BY <1>2, <1>3, <1>4, <1>6, <1>8 DEF TypeOK
<1>10. ASSUME NEW q \in Peer
       PROVE  Truthful(sess'[q], doc'[q], share'[q], doc'[Other[q]])
    <2>1. CASE q = p
        BY <2>1, <1>1, <1>2, <1>3 DEF TruthfulStep
    <2>2. CASE q # p
        <3>1. Other[q] \in Peer /\ doc[Other[q]] \subseteq doc'[Other[q]]
            BY <1>2, <1>3, PeerAssumption
        <3>2. Truthful(sess[q], doc[q], share[q], doc'[Other[q]])
            BY <3>1, TruthGrows DEF IInv
        <3> QED BY <2>2, <3>2, <1>2, <1>3
    <2> QED BY <2>1, <2>2
<1>11. ASSUME NEW q \in Peer, NEW m \in net'[q]
       PROVE  TruthfulFrame(m, doc'[Other[q]])
    <2>1. Other[q] \in Peer /\ doc[Other[q]] \subseteq doc'[Other[q]]
        BY <1>2, <1>3, PeerAssumption
    <2>2. CASE m \in net[q]
        BY <2>1, <2>2, FrameTruthGrows DEF IInv
    <2>3. CASE m \notin net[q]
        <3>1. q = o /\ m \in step.send
            BY <1>8, <2>3
        <3> QED BY <3>1, <1>1, <1>2, <1>3, <1>5
    <2> QED BY <2>2, <2>3
<1> QED BY <1>4, <1>9, <1>10, <1>11 DEF IInv

(* What every action starts from.                                           *)
LEMMA Shapes ==
    ASSUME IInv, NEW p \in Peer
    PROVE  /\ doc[p] \in SUBSET Fact /\ share[p] \in SUBSET Fact
           /\ sess[p] \in SessionObject
           /\ net \in [Peer -> SUBSET Message] /\ net[p] \subseteq Message
           /\ starts \in 0..MaxStarts /\ repeats \in 0..MaxRepeats
           /\ Truthful(sess[p], doc[p], share[p], doc[Other[p]])
BY DEF IInv, TypeOK

(* A session object with nothing in it claims nothing.                      *)
LEMMA FreshIsTruthful ==
    ASSUME NEW n \in 0..MaxStarts, NEW mine, NEW shared, NEW theirs
    PROVE  /\ Truthful(Fresh(n), mine, shared, theirs)
           /\ Truthful([Fresh(n) EXCEPT !.state = "none"], mine, shared, theirs)
<1> DEFINE s == Fresh(n)
           t == [s EXCEPT !.state = "none"]
<1>1. s \in SessionObject
    <2>1. 0 \in 0..MaxStarts /\ None \in Digest
        BY BoundAssumption DEF Digest
    <2> QED BY <2>1 DEF Fresh, SessionObject
<1>2. s.stale /\ s.export = None /\ s.merged = None /\ s.acked = None
    BY DEF Fresh
<1> HIDE DEF s
<1>3. t \in SessionObject
    BY <1>1 DEF SessionObject
<1>4. t.stale /\ t.export = None /\ t.merged = None /\ t.acked = None
    BY <1>1, <1>2 DEF SessionObject
<1>5. Truthful(s, mine, shared, theirs)
    BY <1>1, <1>2 DEF Truthful
<1>6. Truthful(t, mine, shared, theirs)
    BY <1>3, <1>4 DEF Truthful
<1> QED BY <1>5, <1>6 DEF s

(* At first nothing is recorded, nothing is claimed.                        *)
LEMMA InitIInv ==
    Init => IInv
<1> SUFFICES ASSUME Init PROVE IInv
    OBVIOUS
<1>1. MaxStarts \in Nat /\ MaxRepeats \in Nat
    BY BoundAssumption
<1>2. \A mine, shared, theirs : Truthful(NoSession, mine, shared, theirs)
    BY <1>1, FreshIsTruthful DEF NoSession
<1>3. NoSession \in SessionObject
    BY <1>2 DEF Truthful
<1>4. TypeOK /\ saved = doc
    BY <1>1, <1>3 DEF Init, TypeOK
<1>5. \A p \in Peer : Truthful(sess[p], doc[p], share[p], doc[Other[p]])
    BY <1>2 DEF Init
<1>6. \A p \in Peer : net[p] = {}
    BY DEF Init
<1> QED BY <1>4, <1>5, <1>6 DEF IInv

(* Session::start begins with an empty object.                              *)
LEMMA StartKeepsIInv ==
    ASSUME IInv, NEW p \in Peer, Start(p)
    PROVE  IInv'
<1> DEFINE s == Fresh(starts + 1)
<1>1. starts + 1 \in 0..MaxStarts /\ starts' = starts + 1 /\ repeats' = repeats
    BY Shapes, BoundAssumption DEF Start
<1>2. Truthful(s, doc[p], share[p], doc[Other[p]])
    BY <1>1, FreshIsTruthful
<1>3. TruthfulStep(Step(s, {Hello(p, s)}), doc[p], share[p], doc[Other[p]])
    BY <1>2, HelloIsTruthful DEF TruthfulStep, Step, Truthful
<1>4. Act(p, Step(s, {Hello(p, s)}), doc[p], "nothing", net)
    BY DEF Start
<1> QED BY <1>1, <1>3, <1>4, Shapes, ActKeepsIInv

(* An edit makes the export stale, so nothing said of it matters.           *)
LEMMA EditKeepsIInv ==
    ASSUME IInv, "edits" \in SavesFirst, NEW p \in Peer, NEW f \in Fact, Edit(p, f)
    PROVE  IInv'
<1> DEFINE s == [sess[p] EXCEPT !.stale = TRUE]
           D == doc[p] \union {f}
<1>1. Truthful(s, D, share[p], doc[Other[p]])
    BY Shapes DEF Truthful, SessionObject
<1>2. TruthfulStep(Step(s, {}), D, share[p], doc[Other[p]])
    BY <1>1 DEF TruthfulStep, Step
<1>3. D \in SUBSET Fact /\ doc[p] \subseteq D
    BY Shapes
<1>4. Act(p, Step(s, {}), D, "edits", net) /\ starts' = starts /\ repeats' = repeats
    BY DEF Edit
<1> QED BY <1>2, <1>3, <1>4, Shapes, ActKeepsIInv

(* Session::tick.                                                           *)
LEMMA TickKeepsIInv ==
    ASSUME IInv, NEW p \in Peer, NEW late, Tick(p, late)
    PROVE  IInv'
<1>1. TruthfulStep(Ticked(p, sess[p], doc[p], late), doc[p], share[p], doc[Other[p]])
    BY Shapes, TickedIsTruthful
<1>2. /\ Act(p, Ticked(p, sess[p], doc[p], late), doc[p], "nothing", net)
      /\ starts' = starts /\ repeats' = repeats
    BY DEF Tick
<1> QED BY <1>1, <1>2, Shapes, ActKeepsIInv

(* Session::receive, of a frame that may arrive again.                      *)
LEMMA ReceiveKeepsIInv ==
    ASSUME IInv, "merges" \in SavesFirst, NEW p \in Peer, NEW m \in net[p],
           NEW again \in BOOLEAN, Receive(p, m, again)
    PROVE  IInv'
<1> DEFINE D == After(p, sess[p], doc[p], m)
           n == IF again THEN net ELSE [net EXCEPT ![p] = @ \ {m}]
<1>1. TruthfulFrame(m, doc[Other[p]])
    BY DEF IInv
<1>2. TruthfulStep(Heard(p, sess[p], doc[p], m), D, share[p], doc[Other[p]])
    BY <1>1, Shapes, HeardIsTruthful
<1>3. D \in SUBSET Fact /\ doc[p] \subseteq D
    <2>1. Merges(p, sess[p], doc[p], m) => m.digest \subseteq Fact
        BY <1>1 DEF Merges, TruthfulFrame, Message, Digest
    <2> QED BY <2>1, Shapes DEF After
<1>4. n \in [Peer -> SUBSET Message] /\ \A q \in Peer : n[q] \subseteq net[q]
    BY Shapes
<1>5. starts' \in 0..MaxStarts /\ repeats' \in 0..MaxRepeats
    BY Shapes, BoundAssumption DEF Receive
<1>6. Act(p, Heard(p, sess[p], doc[p], m), D, "merges", n)
    BY DEF Receive, After
<1> HIDE DEF D, n
<1> QED BY <1>2, <1>3, <1>4, <1>5, <1>6, ActKeepsIInv

(* Session::close.                                                          *)
LEMMA CloseKeepsIInv ==
    ASSUME IInv, NEW p \in Peer, Close(p)
    PROVE  IInv'
<1>1. TruthfulStep(Finish(p, sess[p], {}), doc[p], share[p], doc[Other[p]])
    BY Shapes, FinishIsTruthful
<1>2. /\ Act(p, Finish(p, sess[p], {}), doc[p], "nothing", net)
      /\ starts' = starts /\ repeats' = repeats
    BY DEF Close
<1> QED BY <1>1, <1>2, Shapes, ActKeepsIInv

(* Making something private leaves less to be in sync about.                *)
LEMMA WithholdKeepsIInv ==
    ASSUME IInv, NEW p \in Peer, NEW f \in Fact, Withhold(p, f)
    PROVE  IInv'
<1>1. share' \in [Peer -> SUBSET Fact] /\ \A q \in Peer : share'[q] \subseteq share[q]
    BY DEF IInv, TypeOK, Withhold
<1>2. TypeOK' /\ saved' = doc'
    BY <1>1 DEF IInv, TypeOK, Withhold
<1>3. \A q \in Peer : Truthful(sess'[q], doc'[q], share'[q], doc'[Other[q]])
    BY <1>1 DEF IInv, Withhold, Truthful
<1>4. \A q \in Peer : \A m \in net'[q] : TruthfulFrame(m, doc'[Other[q]])
    BY DEF IInv, Withhold
<1> QED BY <1>2, <1>3, <1>4 DEF IInv

(* A device that stops loses its session, and nothing it had acknowledged.  *)
LEMMA CrashKeepsIInv ==
    ASSUME IInv, NEW p \in Peer, Crash(p)
    PROVE  IInv'
<1>1. /\ doc \in [Peer -> SUBSET Fact] /\ saved = doc
      /\ sess \in [Peer -> SessionObject] /\ MaxStarts \in Nat
    BY BoundAssumption DEF IInv, TypeOK
<1>2. doc' = doc
    BY <1>1 DEF Crash
<1>3. \A q \in Peer : Truthful(NoSession, doc[q], share[q], doc[Other[q]])
    BY <1>1, FreshIsTruthful DEF NoSession
<1>4. NoSession \in SessionObject
    BY <1>3 DEF Truthful
<1>5. TypeOK' /\ saved' = doc'
    BY <1>1, <1>2, <1>4 DEF IInv, TypeOK, Crash
<1>6. \A q \in Peer : Truthful(sess'[q], doc'[q], share'[q], doc'[Other[q]])
    BY <1>1, <1>2, <1>3 DEF IInv, Crash
<1>7. \A q \in Peer : \A m \in net'[q] : TruthfulFrame(m, doc'[Other[q]])
    BY <1>2 DEF IInv, Crash
<1> QED BY <1>5, <1>6, <1>7 DEF IInv

(* Saving again and losing a frame change no claim.                         *)
LEMMA SaveOrLossKeepsIInv ==
    ASSUME IInv, NEW p \in Peer, Save(p) \/ \E m \in net[p] : Lose(p, m)
    PROVE  IInv'
<1>1. CASE Save(p)
    BY <1>1 DEF IInv, TypeOK, Save
<1>2. CASE \E m \in net[p] : Lose(p, m)
    <2>1. PICK m \in net[p] : Lose(p, m)
        BY <1>2
    <2>2. net' \in [Peer -> SUBSET Message] /\ \A q \in Peer : net'[q] \subseteq net[q]
        BY <2>1 DEF IInv, TypeOK, Lose
    <2> QED BY <2>1, <2>2 DEF IInv, TypeOK, Lose
<1> QED BY <1>1, <1>2

(* Every step keeps the invariant.                                          *)
LEMMA NextKeepsIInv ==
    ASSUME IInv, SavesFirst = {"edits", "merges"}, [Next]_vars
    PROVE  IInv'
<1>1. CASE UNCHANGED vars
    BY <1>1 DEF IInv, TypeOK, vars
<1>2. ASSUME NEW p \in Peer, Start(p) PROVE IInv'
    BY <1>2, StartKeepsIInv
<1>3. ASSUME NEW p \in Peer, NEW f \in Fact, Edit(p, f) PROVE IInv'
    BY <1>3, EditKeepsIInv
<1>4. ASSUME NEW p \in Peer, NEW late \in Lateness, Tick(p, late) PROVE IInv'
    BY <1>4, TickKeepsIInv
<1>5. ASSUME NEW p \in Peer, NEW m \in net[p], NEW again \in BOOLEAN, Receive(p, m, again)
      PROVE  IInv'
    BY <1>5, ReceiveKeepsIInv
<1>6. ASSUME NEW p \in Peer, Close(p) PROVE IInv'
    BY <1>6, CloseKeepsIInv
<1>7. ASSUME NEW p \in Peer, NEW f \in Fact, Withhold(p, f) PROVE IInv'
    BY <1>7, WithholdKeepsIInv
<1>8. ASSUME NEW p \in Peer, Crash(p) PROVE IInv'
    BY <1>8, CrashKeepsIInv
<1>9. ASSUME NEW p \in Peer, Save(p) \/ \E m \in net[p] : Lose(p, m) PROVE IInv'
    BY <1>9, SaveOrLossKeepsIInv
<1> QED BY <1>1, <1>2, <1>3, <1>4, <1>5, <1>6, <1>7, <1>8, <1>9 DEF Next

(* The invariant gives the property: acked is the export, the export is all *)
(* there is to share, and what is acked the peer holds.                     *)
LEMMA IInvImpliesInSyncIsTrue ==
    IInv => InSyncIsTrue
BY DEF IInv, Truthful, InSyncIsTrue, InSync

(* Session::in_sync never lies: whenever it returns true, the replica of    *)
(* the peer holds everything this device shares -- for any documents, any   *)
(* number of restarts, and any loss, repetition or reordering of frames, as *)
(* long as a device saves a merge before the acknowledgement leaves.        *)
THEOREM InSyncNeverLies ==
    ASSUME SavesFirst = {"edits", "merges"}
    PROVE  Spec => []InSyncIsTrue
<1>1. IInv /\ [Next]_vars => IInv'
    BY NextKeepsIInv
<1> QED BY <1>1, InitIInv, IInvImpliesInSyncIsTrue, PTL DEF Spec

-----------------------------------------------------------------------------
(* What may leave: whatever a host saves, a session whose replica moved asks *)
(* `share` again before it sends a state. The pieces keep the fields of the  *)
(* session object, and build a state only from the export just refreshed.    *)

Fields ==
    {"state", "nonce", "peer", "peerSession", "stale", "export", "acked",
     "refused", "sent", "merged"}

(* Frames of the five kinds. *)
Known(frames) == \A m \in frames : m.kind \in {"hello", "doc", "ack", "refuse", "bye"}

(* The states among the frames hold what p shares now. *)
Shares(p, frames) == \A m \in frames : m.kind = "doc" => m.digest \subseteq share[p]

(* A step of p from session object s that asks again if s is stale. *)
AskingStep(p, s, step) ==
    /\ DOMAIN step.sess = Fields
    /\ Known(step.send)
    /\ s.stale => Shares(p, step.send)

(* Frames of another kind than "doc" hold no state. *)
LEMMA OtherFramesShare ==
    ASSUME NEW p, NEW s, NEW digest, NEW kind \in {"hello", "ack", "refuse", "bye"}
    PROVE  /\ Shares(p, {}) /\ Shares(p, {Frame(p, s, kind, digest)})
           /\ Known({}) /\ Known({Frame(p, s, kind, digest)})
BY DEF Shares, Known, Frame

(* A goodbye keeps what was to be sent, and adds no state. *)
LEMMA FinishAsks ==
    ASSUME NEW p, NEW s, DOMAIN s = Fields, NEW frames, Shares(p, frames), Known(frames)
    PROVE  AskingStep(p, s, Finish(p, s, frames))
BY OtherFramesShare DEF Finish, Closed, Step, AskingStep, Shares, Known, Fields

(* Past the coalescing window a stale session sends what it may share now. *)
LEMMA TickSettledAsks ==
    ASSUME NEW p, NEW s, DOMAIN s = Fields, NEW D, NEW late
    PROVE  AskingStep(p, s, TickSettled(p, s, D, late))
<1> DEFINE r == Refreshed(p, s, D)
           k == IF r.export = r.merged THEN [r EXCEPT !.acked = r.export] ELSE r
           t == [k EXCEPT !.sent = k.export]
           state == Frame(p, k, "doc", k.export)
<1>1. DOMAIN r = Fields /\ (s.stale => r.export \subseteq share[p])
    BY DEF Refreshed, Fields
<1>2. DOMAIN k = Fields /\ k.export = r.export
    BY <1>1 DEF Fields
<1>3. DOMAIN t = Fields
    BY <1>2
<1>4. Known({state}) /\ (s.stale => Shares(p, {state}))
    BY <1>1, <1>2 DEF Shares, Known, Frame
<1>5. /\ Shares(p, {}) /\ Shares(p, {Hello(p, k)})
      /\ Known({}) /\ Known({Hello(p, k)})
    BY OtherFramesShare DEF Hello
<1>6. TickSettled(p, s, D, late) \in {Step(t, {state}), Step(k, {Hello(p, k)}), Step(k, {})}
    BY DEF TickSettled
<1> HIDE DEF r, k, t, state
<1> QED BY <1>2, <1>3, <1>4, <1>5, <1>6 DEF AskingStep, Step

(* So does a tick in any state. *)
LEMMA TickedAsks ==
    ASSUME NEW p, NEW s, DOMAIN s = Fields, NEW D, NEW late
    PROVE  AskingStep(p, s, Ticked(p, s, D, late))
<1>1. /\ Shares(p, {}) /\ Shares(p, {Hello(p, s)})
      /\ Known({}) /\ Known({Hello(p, s)})
    BY OtherFramesShare DEF Hello
<1>2. DOMAIN Closed(s) = Fields
    BY DEF Closed
<1>3. AskingStep(p, s, TickConnecting(p, s, late))
    BY <1>1, <1>2 DEF TickConnecting, AskingStep, Step
<1>4. AskingStep(p, s, TickOpen(p, s, D, late))
    BY <1>1, <1>2, TickSettledAsks DEF TickOpen, AskingStep, Step
<1>5. AskingStep(p, s, Step(s, {}))
    BY <1>1 DEF AskingStep, Step
<1> QED BY <1>3, <1>4, <1>5 DEF Ticked

(* A hello: what the session forgets of a restarted peer does not include   *)
(* that its replica moved.                                                   *)
LEMMA HearsHelloAsks ==
    ASSUME NEW p, NEW s, DOMAIN s = Fields, NEW D, NEW m
    PROVE  AskingStep(p, s, HearsHello(p, s, D, m))
<1> DEFINE restarted == m.session # s.peerSession
           opening == s.state = "connecting" \/ restarted
           known == [s EXCEPT !.peer = m.id]
           met == Met(known, m)
           back == IF m.seq = 0 \/ opening THEN {Hello(p, met)} ELSE {}
           open == [met EXCEPT !.state = "open"]
           ticked == Ticked(p, open, D, {})
<1>1. DOMAIN met = Fields /\ met.stale = s.stale
    BY DEF Fields, Met
<1>2. DOMAIN open = Fields /\ open.stale = s.stale
    BY <1>1 DEF Fields
<1>3. Shares(p, back) /\ Known(back)
    BY OtherFramesShare DEF Hello
<1>4. DOMAIN ticked.sess = Fields /\ Known(ticked.send) /\ (s.stale => Shares(p, ticked.send))
    <2> HIDE DEF open
    <2> QED BY <1>2, TickedAsks DEF AskingStep
<1>5. AskingStep(p, s, Finish(p, s, {}))
    BY FinishAsks, OtherFramesShare
<1>6. Shares(p, {}) /\ Known({})
    BY OtherFramesShare
<1>7. HearsHello(p, s, D, m) \in
          {Finish(p, s, {}), Step(s, {}), Step(ticked.sess, back \union ticked.send), Step(met, back)}
    BY DEF HearsHello
<1> HIDE DEF met, back, open, ticked
<1> QED BY <1>1, <1>3, <1>4, <1>5, <1>6, <1>7 DEF AskingStep, Step, Shares, Known

(* Every frame heard is answered by frames that hold what p shares now. *)
LEMMA HeardAsks ==
    ASSUME NEW p, NEW s, DOMAIN s = Fields, NEW D, NEW m, Known({m})
    PROVE  AskingStep(p, s, Heard(p, s, D, m))
<1>1. /\ Shares(p, {}) /\ Shares(p, {Frame(p, s, "ack", m.digest)})
      /\ Shares(p, {Frame(p, s, "refuse", m.digest)})
      /\ Known({}) /\ Known({Frame(p, s, "ack", m.digest)})
      /\ Known({Frame(p, s, "refuse", m.digest)})
    BY OtherFramesShare
<1>2. AskingStep(p, s, HearsDoc(p, s, D, m))
    BY <1>1, FinishAsks DEF HearsDoc, AskingStep, Step
<1>3. AskingStep(p, s, HearsAck(p, s, D, m))
    BY <1>1 DEF HearsAck, Refreshed, AskingStep, Step
<1>4. /\ AskingStep(p, s, Step(s, {})) /\ AskingStep(p, s, Step(Closed(s), {}))
      /\ AskingStep(p, s, Step([s EXCEPT !.refused = m.digest], {}))
    BY <1>1 DEF AskingStep, Step, Closed
<1>5. Heard(p, s, D, m) \in {HearsHello(p, s, D, m), HearsDoc(p, s, D, m), HearsAck(p, s, D, m),
          Step(s, {}), Step(Closed(s), {}), Step([s EXCEPT !.refused = m.digest], {})}
    BY DEF Heard, Known
<1> QED BY <1>2, <1>3, <1>4, <1>5, HearsHelloAsks

(* What the argument needs of a state: session objects have their fields,   *)
(* and frames are of the known kinds.                                        *)
AskInv ==
    /\ net = [q \in Peer |-> net[q]] /\ sess = [q \in Peer |-> sess[q]]
    /\ \A q \in Peer : DOMAIN sess[q] = Fields /\ Known(net[q])

(* What ShareIsAskedAgain says of one step. *)
AsksAgain ==
    \A p \in Peer : sess[p].stale =>
        \A m \in net'[Other[p]] \ net[Other[p]] :
            m.kind = "doc" => m.digest \subseteq share[p]

(* Carrying out a step that asks again, over a net that lost or kept frames. *)
LEMMA ActAsks ==
    ASSUME AskInv, NEW p \in Peer, NEW step, NEW D, NEW change, NEW n,
           AskingStep(p, sess[p], step),
           n = [q \in Peer |-> n[q]], \A q \in Peer : n[q] \subseteq net[q],
           Act(p, step, D, change, n)
    PROVE  AskInv' /\ AsksAgain
<1> DEFINE o == Other[p]
<1>1. o \in Peer /\ \A q \in Peer : Other[q] \in Peer /\ (Other[q] = o => q = p)
    BY PeerAssumption
<1>2. sess' = [sess EXCEPT ![p] = step.sess] /\ net' = Carry(n, o, step.send)
    BY DEF Act
<1>3. /\ net' = [q \in Peer |-> net'[q]]
      /\ \A q \in Peer \ {o} : net'[q] = n[q]
      /\ net'[o] \subseteq n[o] \union step.send
    BY <1>1, <1>2 DEF Carry
<1>4. AskInv'
    <2>1. Known(step.send) /\ DOMAIN step.sess = Fields
        BY DEF AskingStep
    <2>2. \A q \in Peer : Known(net'[q])
        BY <1>1, <1>3, <2>1 DEF AskInv, Known
    <2>3. sess' = [q \in Peer |-> sess'[q]] /\ \A q \in Peer : DOMAIN sess'[q] = Fields
        BY <1>2, <2>1 DEF AskInv
    <2> QED BY <1>3, <2>2, <2>3 DEF AskInv
<1>5. AsksAgain
    <2> SUFFICES ASSUME NEW q \in Peer, sess[q].stale,
                        NEW m \in net'[Other[q]] \ net[Other[q]], m.kind = "doc"
                 PROVE  m.digest \subseteq share[q]
        BY DEF AsksAgain
    <2>1. q = p /\ m \in step.send
        BY <1>1, <1>3
    <2> QED BY <2>1 DEF AskingStep, Shares
<1> QED BY <1>4, <1>5

(* Every step keeps the shape and asks again. *)
LEMMA NextAsks ==
    ASSUME AskInv, [Next]_vars
    PROVE  AskInv' /\ (AsksAgain \/ UNCHANGED vars)
<1>0. \A p \in Peer : /\ DOMAIN sess[p] = Fields /\ Shares(p, {}) /\ Known({})
                      /\ net = [q \in Peer |-> net[q]]
    BY OtherFramesShare DEF AskInv
<1>1. ASSUME NEW p \in Peer, Start(p) PROVE AskInv' /\ AsksAgain
    <2> DEFINE s == Fresh(starts + 1)
    <2>1. DOMAIN s = Fields
        BY DEF Fresh, Fields
    <2>2. AskingStep(p, sess[p], Step(s, {Hello(p, s)}))
        <3> HIDE DEF s
        <3> QED BY <2>1, OtherFramesShare DEF AskingStep, Step, Hello
    <2> QED BY <1>0, <1>1, <2>2, ActAsks DEF Start
<1>2. ASSUME NEW p \in Peer, NEW f \in Fact, Edit(p, f) PROVE AskInv' /\ AsksAgain
    <2>1. AskingStep(p, sess[p], Step([sess[p] EXCEPT !.stale = TRUE], {}))
        BY <1>0 DEF AskingStep, Step
    <2> QED BY <1>0, <1>2, <2>1, ActAsks DEF Edit
<1>3. ASSUME NEW p \in Peer, NEW late \in Lateness, Tick(p, late) PROVE AskInv' /\ AsksAgain
    <2>1. AskingStep(p, sess[p], Ticked(p, sess[p], doc[p], late))
        BY <1>0, TickedAsks
    <2> QED BY <1>0, <1>3, <2>1, ActAsks DEF Tick
<1>4. ASSUME NEW p \in Peer, NEW m \in net[p], NEW again \in BOOLEAN, Receive(p, m, again)
      PROVE  AskInv' /\ AsksAgain
    <2> DEFINE n == IF again THEN net ELSE [net EXCEPT ![p] = @ \ {m}]
               D == IF Merges(p, sess[p], doc[p], m) THEN doc[p] \union m.digest ELSE doc[p]
    <2>1. Known({m})
        BY <1>4 DEF AskInv, Known
    <2>2. AskingStep(p, sess[p], Heard(p, sess[p], doc[p], m))
        BY <1>0, <2>1, HeardAsks
    <2>3. n = [q \in Peer |-> n[q]] /\ \A q \in Peer : n[q] \subseteq net[q]
        BY <1>0
    <2>4. Act(p, Heard(p, sess[p], doc[p], m), D, "merges", n)
        BY <1>4 DEF Receive
    <2> HIDE DEF n, D
    <2> QED BY <2>2, <2>3, <2>4, ActAsks
<1>5. ASSUME NEW p \in Peer, Close(p) PROVE AskInv' /\ AsksAgain
    <2>1. AskingStep(p, sess[p], Finish(p, sess[p], {}))
        BY <1>0, FinishAsks
    <2> QED BY <1>0, <1>5, <2>1, ActAsks DEF Close
<1>6. ASSUME NEW p \in Peer,
             (\E f \in Fact : Withhold(p, f)) \/ Save(p) \/ (\E m \in net[p] : Lose(p, m))
      PROVE  AskInv' /\ AsksAgain
    <2>1. /\ sess' = sess /\ net' = [q \in Peer |-> net'[q]]
          /\ \A q \in Peer : net'[q] \subseteq net[q]
        BY <1>0, <1>6 DEF Withhold, Save, Lose
    <2> QED BY <2>1, PeerAssumption DEF AskInv, AsksAgain, Known
<1>7. ASSUME NEW p \in Peer, Crash(p) PROVE AskInv' /\ AsksAgain
    <2>1. sess' = [sess EXCEPT ![p] = NoSession] /\ net' = net
        BY <1>7 DEF Crash
    <2>2. DOMAIN NoSession = Fields
        BY DEF NoSession, Fresh, Fields
    <2> QED BY <2>1, <2>2, PeerAssumption DEF AskInv, AsksAgain
<1>8. CASE UNCHANGED vars
    BY <1>8 DEF AskInv, vars
<1> QED BY <1>1, <1>2, <1>3, <1>4, <1>5, <1>6, <1>7, <1>8 DEF Next

(* Session::refresh_export: a session whose replica moved sends no state that *)
(* Host::share withholds at that moment -- for any host, however it saves,    *)
(* and whatever was lost, repeated or restarted before.                       *)
THEOREM WithheldStaysWithheld == Spec => ShareIsAskedAgain
<1>1. Init => AskInv
    BY DEF Init, AskInv, NoSession, Fresh, Fields, Known
<1>2. AskInv /\ [Next]_vars => AskInv' /\ [AsksAgain]_vars
    BY NextAsks
<1>3. ShareIsAskedAgain <=> [][AsksAgain]_vars
    BY PTL DEF ShareIsAskedAgain, AsksAgain
<1> QED BY <1>1, <1>2, <1>3, PTL DEF Spec

=============================================================================
