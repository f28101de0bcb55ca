-------------------------------- MODULE Session --------------------------------
(***************************************************************************)
(* The sync session of sync.hpp: two devices, one session object each, and *)
(* a transport that loses, repeats and reorders frames. Handshake, whole-  *)
(* state exchange with acknowledgements, refusal, goodbye, timeouts, and   *)
(* devices that stop and come back under a new session.                    *)
(*                                                                         *)
(* A document is the set of facts recorded in it, and merging is union:    *)
(* module Replica shows that this is what `merge` does to documents that   *)
(* honest replicas hold. A digest names one document, so the digest of a   *)
(* document is the document. The session is one with no file references,   *)
(* so wants_ stays empty.                                                  *)
(***************************************************************************)
EXTENDS Integers, FiniteSets

CONSTANTS
    Peer,       \* the devices
    Other,      \* Other[p]: the device p's session is with
    IdOf,       \* IdOf[p]: the id of p's replica
    Fact,       \* what documents can record
    Maker,      \* Maker[f]: the device whose replica mints f
    Withheld,   \* the facts Host::share keeps on the device at first
    Malformed,  \* the facts a peer's `validate` rejects
    None,       \* an empty digest, an unknown peer
    SavesFirst, \* of "edits", "merges": what is saved before the next frame leaves
    Happens,    \* of "lose", "repeat", "crash", "close", "timeout", "share"
    MaxStarts,  \* bound: sessions started
    MaxNet,     \* bound: frames under way to one device; then the older are lost
    MaxRepeats  \* bound: frames delivered more than once

ASSUME PeerAssumption ==
    /\ Other \in [Peer -> Peer]
    /\ \A p \in Peer : Other[p] # p /\ Other[Other[p]] = p
    /\ None \notin {IdOf[p] : p \in Peer}
ASSUME FactAssumption ==
    /\ Maker \in [Fact -> Peer]
    /\ Withheld \subseteq Fact /\ Malformed \subseteq Fact
    /\ \A D \in SUBSET Fact : D # None
ASSUME BoundAssumption ==
    /\ SavesFirst \subseteq {"edits", "merges"}
    /\ Happens \subseteq {"lose", "repeat", "crash", "close", "timeout", "share"}
    /\ {MaxStarts, MaxNet, MaxRepeats} \subseteq Nat

VARIABLES
    doc,     \* doc[p]: the replica in memory
    saved,   \* saved[p]: the replica saved last
    share,   \* share[p]: the facts Host::share lets leave p
    sess,    \* sess[p]: the session object
    net,     \* net[p]: frames under way to p
    starts,  \* the clock, as far as nonces read it: sessions started so far
    repeats  \* frames delivered more than once so far

vars == <<doc, saved, share, sess, net, starts, repeats>>

Digest == (SUBSET Fact) \union {None}
Ids == {IdOf[p] : p \in Peer}

SessionObject ==
    [state       : {"none", "connecting", "open", "closed"},
     nonce       : 0..MaxStarts,
     peer        : Ids \union {None},
     peerSession : 0..MaxStarts,
     stale       : BOOLEAN,   \* seen_revision_ # replica_.revision()
     export      : Digest,
     acked       : Digest,
     refused     : Digest,
     sent        : Digest,
     merged      : Digest]

Message ==
    [kind    : {"hello", "doc", "ack", "refuse", "bye"},
     id      : Ids,
     session : 0..MaxStarts,
     seq     : {0, 1},
     digest  : Digest]

Fresh(n) ==
    [state |-> "connecting", nonce |-> n, peer |-> None, peerSession |-> 0,
     stale |-> TRUE, export |-> None, acked |-> None, refused |-> None,
     sent |-> None, merged |-> None]

NoSession == [Fresh(0) EXCEPT !.state = "none"]

TypeOK ==
    /\ doc \in [Peer -> SUBSET Fact]
    /\ saved \in [Peer -> SUBSET Fact]
    /\ share \in [Peer -> SUBSET Fact]
    /\ sess \in [Peer -> SessionObject]
    /\ net \in [Peer -> SUBSET Message]
    /\ starts \in 0..MaxStarts
    /\ repeats \in 0..MaxRepeats

Init ==
    /\ doc = [p \in Peer |-> {}]
    /\ saved = [p \in Peer |-> {}]
    /\ share = [p \in Peer |-> Fact \ Withheld]
    /\ sess = [p \in Peer |-> NoSession]
    /\ net = [p \in Peer |-> {}]
    /\ starts = 0
    /\ repeats = 0

-----------------------------------------------------------------------------
(* The pieces of a step. Each takes the session object and gives the object  *)
(* it becomes and the frames it sends.                                       *)

Frame(p, s, kind, digest) ==
    [kind |-> kind, id |-> IdOf[p], session |-> s.nonce,
     seq |-> IF kind = "hello" /\ s.peer # None THEN 1 ELSE 0, digest |-> digest]

Hello(p, s) == Frame(p, s, "hello", None)

Step(s, frames) == [sess |-> s, send |-> frames]

Closed(s) == [s EXCEPT !.state = "closed"]

(* Saying goodbye, unless the session is over already. *)
Finish(p, s, frames) ==
    Step(Closed(s), IF s.state = "closed" THEN frames
                                          ELSE frames \union {Frame(p, s, "bye", None)})

(* Mutant of Refreshed: the whole document is exported. *)
RefreshedWithoutShare(p, s, D) ==
    IF s.stale THEN [s EXCEPT !.stale = FALSE, !.export = D] ELSE s

(* The shareable state, recomputed only when the replica moved. *)
Refreshed(p, s, D) ==
    IF s.stale THEN [s EXCEPT !.stale = FALSE, !.export = D \intersect share[p]] ELSE s

(* What elapsed time does, given which timers have run out. A timeout        *)
(* overrides the rest, and inside the coalescing window (settling) a tick    *)
(* sends at most a keepalive, so every other combination acts like one of    *)
(* these or changes nothing.                                                 *)
Lateness ==
    {{}, {"hello_timeout"}, {"silence"}, {"resend"}, {"keepalive"},
     {"resend", "keepalive"}, {"settling", "keepalive"}}

TickConnecting(p, s, late) ==
    IF "hello_timeout" \in late THEN Step(Closed(s), {})
    ELSE Step(s, IF "resend" \in late THEN {Hello(p, s)} ELSE {})

(* Mutant of TickSettled: a state goes out once and is never repeated. *)
TickSettledSendsOnce(p, s, D, late) ==
    LET k == Refreshed(p, s, D)
    IN IF k.export \notin {k.acked, k.refused} /\ k.export # k.sent
       THEN Step([k EXCEPT !.sent = k.export], {Frame(p, k, "doc", k.export)})
       ELSE Step(k, IF "keepalive" \in late THEN {Hello(p, k)} ELSE {})

(* Past the coalescing window: a state equal to the one the peer sent last   *)
(* is held there; one the peer has neither taken nor refused goes out, once  *)
(* when it is new and then on the timer.                                     *)
TickSettled(p, s, D, late) ==
    LET r == Refreshed(p, s, D)
        k == IF r.export = r.merged THEN [r EXCEPT !.acked = r.export] ELSE r
        due == k.export # k.sent \/ "resend" \in late
    IN IF k.export \notin {k.acked, k.refused} /\ due
       THEN Step([k EXCEPT !.sent = k.export], {Frame(p, k, "doc", k.export)})
       ELSE Step(k, IF "keepalive" \in late THEN {Hello(p, k)} ELSE {})

TickOpen(p, s, D, late) ==
    CASE "silence" \in late  -> Step(Closed(s), {})
      [] "silence" \notin late /\ "settling" \in late ->
             Step(s, IF "keepalive" \in late THEN {Hello(p, s)} ELSE {})
      [] OTHER -> TickSettled(p, s, D, late)

Ticked(p, s, D, late) ==
    CASE s.state = "connecting" -> TickConnecting(p, s, late)
      [] s.state = "open"       -> TickOpen(p, s, D, late)
      [] OTHER                  -> Step(s, {})

(* Mutant of HearsHello: only the first hello is answered. *)
HearsHelloAnswersOnce(p, s, D, m) ==
    LET opening == s.state = "connecting" \/ m.session # s.peerSession
        met == [s EXCEPT !.state = "open", !.peer = m.id, !.peerSession = m.session]
    IN Step(met, IF opening THEN {Hello(p, met)} ELSE {})

(* Mutant of Met: what the peer acknowledged before is believed still. *)
MetRemembers(s, m) ==
    IF m.session = s.peerSession THEN s
    ELSE [s EXCEPT !.peerSession = m.session, !.refused = None, !.sent = None, !.merged = None]

(* A session not met before means the peer restarted: everything it          *)
(* acknowledged is forgotten.                                                *)
Met(s, m) ==
    IF m.session = s.peerSession THEN s
    ELSE [s EXCEPT !.peerSession = m.session, !.acked = None,
                   !.refused = None, !.sent = None, !.merged = None]

(* A hello. To a new session our state goes out at once.                     *)
HearsHello(p, s, D, m) ==
    LET opening == s.state = "connecting" \/ m.session # s.peerSession
        met == Met([s EXCEPT !.peer = m.id], m)
        back == IF m.seq = 0 \/ opening THEN {Hello(p, met)} ELSE {}
        ticked == Ticked(p, [met EXCEPT !.state = "open"], D, {})
    IN CASE m.id = IdOf[p]              -> Finish(p, s, {})
         [] m.id # IdOf[p] /\ s.peer \notin {None, m.id} -> Step(s, {})
         [] OTHER -> IF opening THEN Step(ticked.sess, back \union ticked.send)
                                ELSE Step(met, back)

(* Tags of this replica's own that it has no record of. *)
Collides(p, D, E) == \E f \in E \ D : Maker[f] = p

Merges(p, s, D, m) ==
    /\ m.kind = "doc" /\ s.state \in {"connecting", "open"} /\ s.peer = m.id
    /\ m.digest # s.merged
    /\ m.digest \intersect Malformed = {}
    /\ ~Collides(p, D, m.digest)

HearsDoc(p, s, D, m) ==
    CASE m.digest = s.merged \/ Merges(p, s, D, m) ->
             Step(IF m.digest = s.merged THEN s
                  ELSE [s EXCEPT !.merged = m.digest, !.stale = TRUE],
                  {Frame(p, s, "ack", m.digest)})
      [] m.digest # s.merged /\ m.digest \intersect Malformed # {} ->
             Step(s, {Frame(p, s, "refuse", m.digest)})
      [] OTHER -> Finish(p, s, {Frame(p, s, "refuse", m.digest)})

(* Mutant of HearsAck: an acknowledgement of any state counts. *)
HearsAckOfAnything(p, s, D, m) ==
    LET r == Refreshed(p, s, D) IN Step([r EXCEPT !.acked = r.export], {})

HearsAck(p, s, D, m) ==
    LET r == Refreshed(p, s, D)
    IN Step(IF m.digest = r.export THEN [r EXCEPT !.acked = m.digest] ELSE r, {})

Heard(p, s, D, m) ==
    CASE s.state \notin {"connecting", "open"} -> Step(s, {})
      [] s.state \in {"connecting", "open"} /\ m.kind = "hello" -> HearsHello(p, s, D, m)
      [] s.state \in {"connecting", "open"} /\ m.kind # "hello" /\ s.peer # m.id -> Step(s, {})
      [] OTHER -> CASE m.kind = "doc"    -> HearsDoc(p, s, D, m)
                    [] m.kind = "ack"    -> HearsAck(p, s, D, m)
                    [] m.kind = "refuse" -> Step([s EXCEPT !.refused = m.digest], {})
                    [] m.kind = "bye"    -> Step(Closed(s), {})

-----------------------------------------------------------------------------
(* Actions. *)

(* Frames for q join those under way to it, or push them out. *)
Carry(n, q, frames) ==
    [n EXCEPT ![q] = IF Cardinality(@ \union frames) <= MaxNet
                     THEN @ \union frames ELSE frames]

(* The host acts on a step that left the replica at D: saves it, if it saves *)
(* such a change first, then sends.                                          *)
Act(p, step, D, change, n) ==
    /\ sess' = [sess EXCEPT ![p] = step.sess]
    /\ doc' = [doc EXCEPT ![p] = D]
    /\ saved' = IF change \in SavesFirst THEN [saved EXCEPT ![p] = D] ELSE saved
    /\ net' = Carry(n, Other[p], step.send)
    /\ UNCHANGED share

Start(p) ==
    /\ sess[p].state \in {"none", "closed"}
    /\ starts < MaxStarts
    /\ starts' = starts + 1
    /\ LET s == Fresh(starts + 1) IN Act(p, Step(s, {Hello(p, s)}), doc[p], "nothing", net)
    /\ UNCHANGED repeats

(* The user changes the document; the session notices at its next tick. A    *)
(* fact is made once: nothing anywhere holds it yet.                         *)
Edit(p, f) ==
    /\ Maker[f] = p
    /\ \A q \in Peer : /\ f \notin doc[q]
                       /\ \A m \in net[q] : m.kind = "doc" => f \notin m.digest
    /\ Act(p, Step([sess[p] EXCEPT !.stale = TRUE], {}), doc[p] \union {f},
           "edits", net)
    /\ UNCHANGED <<starts, repeats>>

Tick(p, late) ==
    /\ late \intersect {"hello_timeout", "silence"} # {} => "timeout" \in Happens
    /\ "settling" \in late => sess[p].sent # None
    /\ sess[p].state \in {"connecting", "open"}
    /\ Act(p, Ticked(p, sess[p], doc[p], late), doc[p], "nothing", net)
    /\ UNCHANGED <<starts, repeats>>

(* A frame arrives; a copy of it may still be under way. *)
Receive(p, m, again) ==
    /\ m \in net[p]
    /\ again => "repeat" \in Happens /\ repeats < MaxRepeats
    /\ repeats' = IF again THEN repeats + 1 ELSE repeats
    /\ LET s == sess[p]
           D == IF Merges(p, s, doc[p], m) THEN doc[p] \union m.digest ELSE doc[p]
       IN Act(p, Heard(p, s, doc[p], m), D, "merges",
              IF again THEN net ELSE [net EXCEPT ![p] = @ \ {m}])
    /\ UNCHANGED starts

Close(p) ==
    /\ "close" \in Happens
    /\ sess[p].state \in {"connecting", "open"}
    /\ Act(p, Finish(p, sess[p], {}), doc[p], "nothing", net)
    /\ UNCHANGED <<starts, repeats>>

(* The user makes something private. Nothing tells the session. *)
Withhold(p, f) ==
    /\ "share" \in Happens
    /\ f \in share[p]
    /\ share' = [share EXCEPT ![p] = @ \ {f}]
    /\ UNCHANGED <<doc, saved, sess, net, starts, repeats>>

Save(p) ==
    /\ saved[p] # doc[p]
    /\ saved' = [saved EXCEPT ![p] = doc[p]]
    /\ UNCHANGED <<doc, share, sess, net, starts, repeats>>

(* The device stops; the replica comes back as it was saved. *)
Crash(p) ==
    /\ "crash" \in Happens
    /\ sess[p].state # "none"
    /\ sess' = [sess EXCEPT ![p] = NoSession]
    /\ doc' = [doc EXCEPT ![p] = saved[p]]
    /\ UNCHANGED <<saved, share, net, starts, repeats>>

Lose(p, m) ==
    /\ "lose" \in Happens
    /\ m \in net[p]
    /\ net' = [net EXCEPT ![p] = @ \ {m}]
    /\ UNCHANGED <<doc, saved, share, sess, starts, repeats>>

Next ==
    \E p \in Peer :
        \/ Start(p)
        \/ \E f \in Fact : Edit(p, f)
        \/ \E late \in Lateness : Tick(p, late)
        \/ \E m \in net[p], again \in BOOLEAN : Receive(p, m, again)
        \/ Close(p)
        \/ \E f \in Fact : Withhold(p, f)
        \/ Save(p)
        \/ Crash(p)
        \/ \E m \in net[p] : Lose(p, m)

Spec == Init /\ [][Next]_vars

(* The host keeps ticking, its timers run out, and a transport that is given *)
(* frames of one kind again and again delivers one of them.                  *)
Fairness ==
    \A p \in Peer :
        /\ WF_vars(Tick(p, {"resend", "keepalive"}))
        /\ \A k \in {"hello", "doc", "ack", "refuse"} :
              SF_vars(\E m \in net[p] : m.kind = k /\ Receive(p, m, FALSE))

FairSpec == Spec /\ Fairness

-----------------------------------------------------------------------------
(* Properties. *)

InSync(p) ==
    /\ sess[p].state = "open"
    /\ sess[p].export # None
    /\ sess[p].acked = sess[p].export
    /\ ~sess[p].stale

(* in_sync never lies: when it says so, the peer's replica holds everything  *)
(* this device shares, whatever was lost, repeated, overtaken or restarted.  *)
InSyncIsTrue ==
    \A p \in Peer : InSync(p) => doc[p] \intersect share[p] \subseteq doc[Other[p]]

(* The inductive invariant behind InSyncIsTrue, for a host that saves what   *)
(* it merged before it sends the acknowledgement.                            *)

(* A session object of a device that holds `mine` and lets `shared` leave,   *)
(* facing a peer that holds `theirs`.                                        *)
Truthful(s, mine, shared, theirs) ==
    /\ s \in SessionObject
    /\ ~s.stale => s.export # None /\ mine \intersect shared \subseteq s.export
    /\ s.export # None => s.export \subseteq mine
    /\ s.merged # None => s.merged \subseteq mine /\ s.merged \subseteq theirs
    /\ s.acked # None => s.acked \subseteq theirs

(* A state sent is held by its sender, and so is a state acknowledged.       *)
TruthfulFrame(m, sender) ==
    /\ m \in Message
    /\ m.kind \in {"doc", "ack"} => m.digest # None /\ m.digest \subseteq sender

IInv ==
    /\ TypeOK
    /\ saved = doc
    /\ \A p \in Peer : Truthful(sess[p], doc[p], share[p], doc[Other[p]])
    /\ \A p \in Peer : \A m \in net[p] : TruthfulFrame(m, doc[Other[p]])

(* A session whose replica moved asks the host again what may leave: the     *)
(* state it then sends holds nothing the host withholds at that moment.      *)
ShareIsAskedAgain ==
    [][\A p \in Peer : sess[p].stale =>
          \A m \in net'[Other[p]] \ net[Other[p]] :
              m.kind = "doc" => m.digest \subseteq share[p]]_vars

(* Anti-entropy: two sessions that stay open end up in sync, or one has      *)
(* refused what the other shares, whatever the network lost; and then no     *)
(* more states travel. In sync is the truth in the end, also of a peer that  *)
(* came back without what it had acknowledged: whatever a session still      *)
(* remembers of the one before, the peer holds all this device shares.       *)
BothOpen(p) == sess[p].state = "open" /\ sess[Other[p]].state = "open"

Converges ==
    <>[](\A p \in Peer : BothOpen(p) =>
            /\ InSync(p) \/ (sess[p].refused = sess[p].export /\ ~sess[p].stale)
            /\ InSync(p) => doc[p] \intersect share[p] \subseteq doc[Other[p]]
            /\ \A m \in net[p] : m.kind # "doc")

(* A session does not wait for ever on a peer that has heard it.             *)
HandshakeCompletes ==
    \A p \in Peer :
        (sess[p].state = "connecting") ~>
            (sess[p].state # "connecting" \/ sess[Other[p]].state \notin {"connecting", "open"})

=============================================================================
