------------------------------- MODULE NodeLink -------------------------------
(***************************************************************************)
(* One Reticulum link as voidpalabra::reticulum keeps it: Node (node.cpp), *)
(* which opens it, times it out, and sends large messages over it one at a *)
(* time, and SyncLinks (sync_links.cpp), which runs a sync session on it.  *)
(* Link ids are never reused and Node keeps every link's state under its   *)
(* id, so links do not meet and one is enough.                             *)
(*                                                                         *)
(* Everything runs on one thread. microReticulum is external: it keeps the *)
(* link's status and its outgoing Resource, and calls back inside loop().  *)
(* A session is whether it exists and whether it has ended; what it sends  *)
(* are messages too large for a packet (packets are sent and forgotten).   *)
(***************************************************************************)
EXTENDS Naturals, SequencesExt

CONSTANTS
    Msg,          \* large messages
    OutboxLimit,  \* OUTBOX_LIMIT
    None,
    MaxEvents     \* bound: events the host has not polled

Stage == {"sending", "proving"}   \* a Resource's parts are going out; all are out

ASSUME NodeAssumption ==
    /\ None \notin Msg \union [msg : Msg, stage : Stage] \union [msg : Msg, waited : BOOLEAN]
    /\ {OutboxLimit, MaxEvents} \subseteq Nat \ {0}

VARIABLES
    n,        \* Node's state for the link, and microReticulum's
    session,  \* SyncLinks: "none", "live", or "over" (Session::is_closed)
    owed,     \* messages send said yes to that no transfer has begun for yet
    begun     \* the messages whose transfer this step began

vars == <<n, session, owed, begun>>

Node ==
    [status  : {"none", "pending", "active", "closed"},  \* RNS::Link::status
     awaiting: BOOLEAN,                 \* its destination is in awaiting_path
     asked   : BOOLEAN,                 \* in `pending`
     listed  : BOOLEAN,                 \* in `links`
     outbox  : BoundedSeq(Msg, OutboxLimit),
     busy    : {None} \union [msg : Msg, stage : Stage], \* RNS's outgoing Resource
     flight  : {None} \union [msg : Msg, waited : BOOLEAN], \* in_flight
     events  : BoundedSeq({"established", "data", "closed", "error"}, MaxEvents)]

Init ==
    /\ n = [status |-> "none", awaiting |-> FALSE, asked |-> FALSE, listed |-> FALSE,
            outbox |-> <<>>, busy |-> None, flight |-> None, events |-> <<>>]
    /\ session = "none"
    /\ owed = <<>> /\ begun = <<>>

-----------------------------------------------------------------------------
(* Callbacks and helpers. Each takes Node's state and gives what it becomes. *)

Emit(s, e) == [s EXCEPT !.events = Append(@, e)]

(* Mutant of OnClosed: the link stays in `links`. *)
OnClosedKeepsListed(s) ==
    Emit([s EXCEPT !.asked = FALSE, !.outbox = <<>>, !.flight = None], "closed")

(* The link is gone: everything kept under its id goes, and the host is told. *)
OnClosed(s) ==
    Emit([s EXCEPT !.asked = FALSE, !.listed = FALSE, !.outbox = <<>>, !.flight = None],
         "closed")

(* RNS closes the link: it cancels the Resource and calls back. *)
Teardown(s) == OnClosed([s EXCEPT !.status = "closed", !.busy = None])

OnOutbound(s) == Emit([s EXCEPT !.asked = FALSE, !.listed = TRUE], "established")
OnInbound(s) == Emit([s EXCEPT !.listed = TRUE], "established")

(* A link is asked of the network; the destination's identity may be unknown. *)
OpenNow(s, recalled) ==
    IF recalled THEN [s EXCEPT !.status = "pending", !.asked = TRUE] ELSE Emit(s, "error")

Ready(s) == s.busy = None

StartResource(s, m) ==
    [s EXCEPT !.busy = [msg |-> m, stage |-> "sending"],
              !.flight = [msg |-> m, waited |-> FALSE]]

-----------------------------------------------------------------------------
(* Node::send of a large message: the new state and the answer. *)

Answer(s, ok) == [node |-> s, ok |-> ok]

(* Mutant of Send: a full outbox is not reported. *)
SendDropsWhenFull(s, m) ==
    IF ~s.listed \/ s.status # "active" THEN Answer(s, FALSE)
    ELSE IF s.outbox = <<>> /\ Ready(s) THEN Answer(StartResource(s, m), TRUE)
    ELSE IF \/ \E i \in DOMAIN s.outbox : s.outbox[i] = m
            \/ Len(s.outbox) >= OutboxLimit THEN Answer(s, TRUE)
    ELSE Answer([s EXCEPT !.outbox = Append(@, m)], TRUE)

Send(s, m) ==
    IF ~s.listed \/ s.status # "active" THEN Answer(s, FALSE)
    ELSE IF s.outbox = <<>> /\ Ready(s) THEN Answer(StartResource(s, m), TRUE)
    ELSE IF \E i \in DOMAIN s.outbox : s.outbox[i] = m THEN Answer(s, TRUE)
    ELSE IF Len(s.outbox) >= OutboxLimit THEN Answer(s, FALSE)
    ELSE Answer([s EXCEPT !.outbox = Append(@, m)], TRUE)

-----------------------------------------------------------------------------
(* Node::loop. *)

(* What the network brings in one call, as RNS hands it over: the handshake  *)
(* of our link or of a peer's, a message that arrived or broke off, our      *)
(* Resource with all parts out, proven or failed, the peer closing the link. *)
Occurrence == {"quiet", "proven", "inbound", "data", "broken", "sent", "done",
               "failed", "hangup"}

Happens(s, o) ==
    CASE o = "proven"  /\ s.status = "pending" -> OnOutbound([s EXCEPT !.status = "active"])
      [] o = "inbound" /\ s.status = "none" /\ ~s.awaiting -> OnInbound([s EXCEPT !.status = "active"])
      [] o = "data"    /\ s.status = "active"  -> Emit(s, "data")
      [] o = "broken"  /\ s.status = "active"  -> Emit(s, "error")
      [] o = "sent"    /\ s.busy # None        -> [s EXCEPT !.busy.stage = "proving"]
      [] o \in {"done", "failed"} /\ s.busy # None
           /\ (o = "done" => s.busy.stage = "proving") -> [s EXCEPT !.busy = None]
      [] o = "hangup"  /\ s.status = "active"  -> Teardown(s)
      [] OTHER -> s

(* Mutant of Watchdog: a request that is never answered is waited for. *)
WatchdogOfLinksOnly(s, late) ==
    IF late /\ s.status = "active" /\ s.listed THEN Teardown(s) ELSE s

(* The watchdog gives up on a link request that was never answered, and on a *)
(* link that has been silent for too long.                                   *)
Watchdog(s, late) ==
    IF late /\ \/ s.asked /\ s.status = "pending"
               \/ s.listed /\ s.status = "active"
    THEN Teardown(s) ELSE s

(* Mutant of UnblockLostProofs: waiting for a proof starts over at each look. *)
UnblockForgetsTheWait(s, grace) ==
    IF s.flight = None THEN s
    ELSE IF ~s.listed \/ Ready(s) THEN [s EXCEPT !.flight = None]
    ELSE [s EXCEPT !.flight.waited = FALSE]

(* A Resource that lacks only its proof is abandoned when others wait and it *)
(* has been seen waiting for long enough.                                    *)
UnblockLostProofs(s, grace) ==
    IF s.flight = None THEN s
    ELSE IF ~s.listed \/ Ready(s) THEN [s EXCEPT !.flight = None]
    ELSE IF s.busy.stage # "proving" \/ s.outbox = <<>> THEN [s EXCEPT !.flight.waited = FALSE]
    ELSE IF s.flight.waited /\ grace THEN [s EXCEPT !.flight = None, !.busy = None]
    ELSE [s EXCEPT !.flight.waited = TRUE]

(* The next message starts when the link is free. One starts at most: the *)
(* link is busy then.                                                     *)
DrainOutboxes(s) ==
    IF ~s.listed THEN [s EXCEPT !.outbox = <<>>]
    ELSE IF s.outbox # <<>> /\ s.status = "active" /\ Ready(s)
    THEN [StartResource(s, Head(s.outbox)) EXCEPT !.outbox = Tail(@)]
    ELSE s

(* Links that wait for a path are opened the moment there is one. *)
Paths(s, path, recalled) ==
    IF s.awaiting /\ path THEN OpenNow([s EXCEPT !.awaiting = FALSE], recalled) ELSE s

(* What can happen in state s, nothing included. *)
Possible(s) == {o \in Occurrence : o = "quiet" \/ Happens(s, o) # s}

(* Two things may happen in one call before Node looks at the outcome. *)
Occurred(s, o1, o2) == Happens(Happens(s, o1), o2)

(* The messages that were waiting before and whose transfer has begun now. *)
Started(s, t) ==
    IF Len(t.outbox) < Len(s.outbox) /\ t.listed THEN <<Head(s.outbox)>> ELSE <<>>

(* What is owed once these transfers have begun, or once the link is gone. *)
StillOwed(o, b, s) ==
    IF ~s.listed THEN <<>> ELSE IF b = <<>> THEN o ELSE RemoveFirst(o, Head(b))

Loop(o1, o2, late, grace, path, recalled) ==
    LET s1 == Occurred(n, o1, o2)
        s2 == UnblockLostProofs(Watchdog(s1, late), grace)
        s3 == Paths(DrainOutboxes(s2), path, recalled)
    IN  /\ Len(s3.events) <= MaxEvents
        /\ n' = s3
        /\ begun' = Started(s2, s3)
        /\ owed' = StillOwed(owed, begun', s3)
        /\ UNCHANGED session

(* Where an exception out of RNS can cut loop() short: before the watchdog,    *)
(* after it, or as the next message is started. (Out of open_now, it finds a   *)
(* link that waits for a path, and nothing else is done to such a link.)       *)
CutShort(s, late, grace) ==
    {s, Watchdog(s, late), UnblockLostProofs(Watchdog(s, late), grace)}

LoopThrows(o1, o2, late, grace) ==
    \E t \in CutShort(Occurred(n, o1, o2), late, grace) :
        /\ n' = Emit(t, "error")
        /\ Len(n'.events) <= MaxEvents
        /\ begun' = <<>>
        /\ owed' = StillOwed(owed, <<>>, n')
        /\ UNCHANGED session

-----------------------------------------------------------------------------
(* The host and SyncLinks. *)

(* Node::open: at once over a known path, or when one arrives. An identity *)
(* that is not known changes nothing here: open answers no.                *)
Open(path) ==
    /\ n.status = "none" /\ ~n.awaiting
    /\ n' = IF path THEN OpenNow(n, TRUE) ELSE [n EXCEPT !.awaiting = TRUE]
    /\ begun' = <<>>
    /\ UNCHANGED <<session, owed>>

(* Mutant of EndIfClosed: the link is left to the watchdog. *)
EndIfClosedNever(s, state) == s

(* SyncLinks::end_if_closed: a session that has ended closes a link that is up. *)
EndIfClosed(s, state) ==
    IF state = "over" /\ s.listed /\ s.status = "active" THEN Teardown(s) ELSE s

(* SyncLinks::route of one frame, or of none, and what follows it. A frame    *)
(* whose send throws is answered no and leaves everything as none does.       *)
Routed(s, m, state) ==
    LET r == IF m = None THEN Answer(s, FALSE) ELSE Send(s, m)
        t == EndIfClosed(r.node, state)
        b == IF r.ok /\ r.node.busy # s.busy THEN <<m>> ELSE <<>>
    IN  /\ Len(t.events) <= MaxEvents
        /\ n' = t
        /\ session' = state
        /\ begun' = b
        /\ owed' = StillOwed(IF r.ok /\ ~Contains(owed, m) THEN Append(owed, m) ELSE owed, b, t)

(* SyncLinks::handle of the next event. A message is fed to the session, which *)
(* may answer it and may end.                                                  *)
Handle(m, ends) ==
    /\ n.events # <<>>
    /\ LET e == Head(n.events)
           s == [n EXCEPT !.events = Tail(@)]
       IN  CASE e = "established" -> m = None /\ ~ends /\ Routed(s, None, "live")
             [] e = "data" /\ session # "none" ->
                    /\ session = "over" => m = None
                    /\ Routed(s, m, IF ends THEN "over" ELSE session)
             [] e = "closed" -> m = None /\ ~ends /\ Routed(s, None, "none")
             [] OTHER -> m = None /\ ~ends /\ Routed(s, None, session)

(* SyncLinks::tick: the session may send, and may end: no hello, silence. *)
Tick(m, ends) ==
    /\ session # "none"
    /\ session = "over" => m = None
    /\ Routed(n, m, IF ends THEN "over" ELSE session)

(* Node::close by the host. *)
Close ==
    /\ n.listed
    /\ n' = Teardown(n)
    /\ Len(n'.events) <= MaxEvents
    /\ begun' = <<>> /\ owed' = <<>>
    /\ UNCHANGED session

Next ==
    \/ \E o1 \in Possible(n) : \E o2 \in Possible(Happens(n, o1)) :
          \E late, grace \in BOOLEAN :
            \/ LoopThrows(o1, o2, late, grace)
            \/ \E path \in {FALSE, n.awaiting}, recalled \in BOOLEAN :
                  Loop(o1, o2, late, grace, path, recalled)
    \/ \E path \in BOOLEAN : Open(path)
    \/ \E m \in Msg \union {None}, ends \in BOOLEAN : Handle(m, ends) \/ Tick(m, ends)
    \/ Close

(* The host keeps calling loop, poll and tick, and not every call of loop      *)
(* throws. Each wait in RNS ends: a link request is answered or late, a        *)
(* Resource's parts go out or it fails. A proof need not come. Fairness of the *)
(* loops is strong because MaxEvents, which the code does not have, disables   *)
(* them until the host polls.                                                  *)
QuietLoop == Loop("quiet", "quiet", FALSE, TRUE, FALSE, FALSE)
PartsLoop == /\ n.busy # None /\ n.busy.stage = "sending"
             /\ \E o \in {"sent", "failed"} : Loop(o, "quiet", FALSE, TRUE, FALSE, FALSE)
LateLoop == n.status = "pending" /\ Loop("quiet", "quiet", TRUE, TRUE, FALSE, FALSE)
HostHandles == \E m \in Msg \union {None} : Handle(m, FALSE)
HostTicks == Tick(None, FALSE)

Spec == Init /\ [][Next]_vars
FairSpec == Spec /\ SF_vars(QuietLoop) /\ SF_vars(PartsLoop) /\ SF_vars(LateLoop)
                 /\ WF_vars(HostHandles) /\ WF_vars(HostTicks)

-----------------------------------------------------------------------------
(* Properties. *)

TypeOK ==
    /\ n \in Node
    /\ session \in {"none", "live", "over"}
    /\ owed \in BoundedSeq(Msg, OutboxLimit) /\ begun \in BoundedSeq(Msg, 1)

(* While the link is up, what waits is exactly what send promised and has not *)
(* begun: nothing is dropped in silence and nothing waits twice. Transfers     *)
(* begin in the order of the promises, also after a loop that threw before it  *)
(* could start one. And RNS is never busy with a transfer that Node has lost   *)
(* sight of, which nothing could then unblock.                                 *)
PromisesAreKept ==
    [][/\ begun' # <<>> => owed = <<>> \/ Head(owed) = Head(begun')
       /\ n'.listed => /\ n'.outbox = owed'
                       /\ n'.busy # None => n'.flight # None /\ n'.flight.msg = n'.busy.msg]_vars

(* Once the host has polled everything, there is a session exactly on a link *)
(* that is up: none is left behind on a link that has gone, none is missing. *)
SessionFollowsLink == TypeOK /\ (n.events = <<>> => (session # "none" <=> n.listed))

(* A link that was asked for comes up or is reported gone. *)
OpeningEnds == n.status = "pending" ~> n.status \in {"active", "closed"}

(* What waits in the outbox begins or the link goes, although a proof may be *)
(* lost: one transfer never holds the queue.                                 *)
QueueMoves == \A m \in Msg : Contains(n.outbox, m) ~> ~Contains(n.outbox, m)

(* A session that has ended does not keep its link: it and the link go. *)
EndedSessionEndsLink == session = "over" ~> session = "none" /\ ~n.listed

=============================================================================
