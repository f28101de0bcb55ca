------------------------------- MODULE Presence -------------------------------
(***************************************************************************)
(* Presence in a sync session (sync.hpp): a device publishes small         *)
(* payloads, numbered by its session; the peer shows the newest, by that   *)
(* number, and lets it expire. The publisher may restart, which starts a   *)
(* new session object there, while the watching session lives on and       *)
(* learns of it from a hello. Frames are lost, repeated and reordered.     *)
(*                                                                         *)
(* A payload is where it stands in the order it was published in: the      *)
(* publisher's session, then its number.                                   *)
(***************************************************************************)
EXTENDS Integers

CONSTANTS
    MaxSessions,  \* bound: sessions the publisher starts
    MaxSeq        \* bound: payloads one session publishes

ASSUME PresenceAssumption == {MaxSessions, MaxSeq} \subseteq Nat \ {0}

VARIABLES
    session,  \* the publisher's session
    out,      \* the publisher's presence_out_
    known,    \* the watcher's peer_session_
    in,       \* the watcher's presence_in_
    live,     \* the watcher's presence_live_
    shown,    \* the payload the watcher's host was last handed
    newest,   \* the newest payload to have reached the watcher's session
    frames    \* presence frames under way

presenceVars == <<session, out, known, in, live, shown, newest, frames>>

Payload == (1..MaxSessions) \X (1..MaxSeq)
Nothing == <<0, 0>>

(* The order payloads are published in. *)
Before(p, q) == p[1] < q[1] \/ (p[1] = q[1] /\ p[2] < q[2])

PresenceOK ==
    /\ session \in 1..MaxSessions /\ known \in 0..MaxSessions
    /\ out \in 0..MaxSeq /\ in \in 0..MaxSeq
    /\ live \in BOOLEAN
    /\ {shown, newest} \subseteq Payload \union {Nothing}
    /\ frames \subseteq Payload

PresenceInit ==
    /\ session = 1 /\ known = 1
    /\ out = 0 /\ in = 0
    /\ live = FALSE
    /\ shown = Nothing /\ newest = Nothing
    /\ frames = {}

(* publish_presence. *)
Publish ==
    /\ out < MaxSeq
    /\ out' = out + 1
    /\ frames' = frames \union {<<session, out + 1>>}
    /\ UNCHANGED <<session, known, in, live, shown, newest>>

(* The publisher's process goes and a new Session takes its place. *)
Restart ==
    /\ session < MaxSessions
    /\ session' = session + 1
    /\ out' = 0
    /\ UNCHANGED <<known, in, live, shown, newest, frames>>

(* A hello under a session the watcher does not know: acknowledgements are *)
(* forgotten there, presence_in_ is not.                                   *)
HearRestart ==
    /\ known # session
    /\ known' = session
    /\ UNCHANGED <<session, out, in, live, shown, newest, frames>>

(* Mutant of Newer: whatever arrives is newer. *)
NewerAlways(p) == TRUE

(* Mutant of Newer: a payload that is there already counts as newer. *)
NewerOrSame(p) == p[2] >= in

Newer(p) == p[2] > in

(* The watcher hears a frame; the transport may deliver it again. *)
HearPresence(p) ==
    /\ p \in frames
    /\ frames' \in {frames, frames \ {p}}
    /\ newest' = IF Before(newest, p) THEN p ELSE newest
    /\ IF Newer(p) THEN in' = p[2] /\ live' = TRUE /\ shown' = p
                   ELSE UNCHANGED <<in, live, shown>>
    /\ UNCHANGED <<session, out, known>>

(* tick finds presence_ttl passed since the last one taken. *)
Expire ==
    /\ live
    /\ live' = FALSE
    /\ UNCHANGED <<session, out, known, in, shown, newest, frames>>

LosePresence(p) ==
    /\ p \in frames
    /\ frames' = frames \ {p}
    /\ UNCHANGED <<session, out, known, in, live, shown, newest>>

PresenceNext ==
    \/ Publish \/ Restart \/ HearRestart \/ Expire
    \/ \E p \in frames : HearPresence(p) \/ LosePresence(p)

(* The watcher's host ticks. *)
PresenceSpec == PresenceInit /\ [][PresenceNext]_presenceVars /\ WF_presenceVars(Expire)

-----------------------------------------------------------------------------
(* Until the publisher restarts, what the watcher's host was handed last is   *)
(* the newest payload that reached the session, however frames were reordered, *)
(* repeated or delayed. (After a restart the numbers begin again and the       *)
(* watcher drops payloads until they pass the old session's last number.)      *)
ShowsTheNewest == PresenceOK /\ (session = 1 => shown = newest)

(* A publisher that falls silent is seen to: presence ends, and no frame that *)
(* the transport repeats, however often, keeps it alive. (Publishing ends in  *)
(* every behaviour here, at MaxSeq payloads of MaxSessions sessions.)         *)
PresenceEnds == <>[]~live

=============================================================================
