----------------------------- MODULE SessionFiles -----------------------------
(***************************************************************************)
(* The files half of a sync session (sync.hpp): the device whose document  *)
(* names files it does not hold keeps a table of wants, asks the peer for  *)
(* them, times the requests out, and takes what arrives. Module Session    *)
(* has the documents half; here its traffic appears as the moments at      *)
(* which it touches the table or seen_revision_.                           *)
(*                                                                         *)
(* A file is its address. What a frame carries for an address is "good"    *)
(* bytes, that match it, or "bad" ones. Time is whether a request's        *)
(* content_timeout has passed when tick looks.                             *)
(***************************************************************************)
EXTENDS Naturals, FiniteSets

CONSTANTS
    Address,      \* the files' addresses
    Attempts,     \* Timing::content_attempts
    Coalesces,    \* whether Timing::coalesce is above zero
    Damaged,      \* addresses the peer reads wrong bytes for
    Happens,      \* of "elsewhere", "lose", "repeat", "policy", "fetch", "close", "supply"
    MaxNet        \* bound: frames under way

ASSUME FilesAssumption ==
    /\ Attempts \in Nat \ {0}
    /\ Coalesces \in BOOLEAN
    /\ Damaged \subseteq Address
    /\ MaxNet \in Nat

VARIABLES
    state,   \* state_
    named,   \* the addresses the document names under Host::references
    have,    \* the addresses Host::have answers yes to
    stale,   \* seen_revision_ # replica_.revision()
    policy,  \* Host::fetch
    wants,   \* wants_; "unknown" for an address that is not in the table
    serves,  \* the addresses the peer's shareable document names and it can read
    net      \* frames under way, in both directions

vars == <<state, named, have, stale, policy, wants, serves, net>>

WantStates == {"deferred", "wanted", "requested", "unavailable"}
Want == [state : WantStates \union {"unknown"}, attempts : 0..(Attempts + 1)]
Untracked == [state |-> "unknown", attempts |-> 0]

Frame ==
    [kind : {"want", "absent"}, addresses : SUBSET Address]
        \union [kind : {"content"}, address : Address, bytes : {"good", "bad"}]

TypeOK ==
    /\ state \in {"connecting", "open", "closed"}
    /\ named \subseteq Address /\ have \subseteq Address /\ serves \subseteq Address
    /\ stale \in BOOLEAN
    /\ policy \in {"automatic", "cautious"}
    /\ wants \in [Address -> Want]
    /\ net \subseteq Frame

Init ==
    /\ state = "connecting"
    /\ named = {} /\ have = {} /\ net = {}
    /\ stale = TRUE
    /\ policy \in {"automatic", "cautious"}
    /\ wants = [a \in Address |-> Untracked]
    /\ serves = Address

-----------------------------------------------------------------------------
(* The table of wants. *)

In(w, s) == {a \in Address : w[a].state = s}

(* Wants no longer named, or held by now, are struck off. *)
Forgotten(w) ==
    [a \in Address |-> IF a \in named' \ have' THEN w[a] ELSE Untracked]

(* Mutant of Noticed: the fetch policy is not consulted. *)
NoticedAndWanted(w) ==
    [a \in Address |->
        IF w[a].state = "unknown" /\ a \in named' \ have'
        THEN [state |-> "wanted", attempts |-> 0] ELSE w[a]]

(* Named addresses that are missing get an entry the policy gives its state. *)
Noticed(w) ==
    [a \in Address |->
        IF w[a].state = "unknown" /\ a \in named' \ have'
        THEN [state |-> IF policy = "automatic" THEN "wanted" ELSE "deferred",
              attempts |-> 0]
        ELSE w[a]]

(* Mutant of Asked: the attempts are not counted. *)
AskedUncounted(w) ==
    [a \in Address |-> IF w[a].state = "wanted" THEN [w[a] EXCEPT !.state = "requested"]
                                                ELSE w[a]]

(* Everything wanted is asked for. The count stays at Attempts + 1 once it is *)
(* there: it is only ever compared with Attempts.                             *)
Asked(w) ==
    [a \in Address |->
        IF w[a].state # "wanted" THEN w[a]
        ELSE [state |-> "requested",
              attempts |-> IF w[a].attempts <= Attempts THEN w[a].attempts + 1
                                                        ELSE w[a].attempts]]

(* Requests that waited too long: given up after Attempts, else wanted again. *)
TimedOut(w, late) ==
    [a \in Address |->
        IF a \notin late THEN w[a]
        ELSE [w[a] EXCEPT !.state = IF w[a].attempts >= Attempts THEN "unavailable"
                                                                 ELSE "wanted"]]

(* The want frame of one ask, when there is anything to ask. *)
Request(w) ==
    IF In(w, "wanted") = {} THEN {} ELSE {[kind |-> "want", addresses |-> In(w, "wanted")]}

(* ask: a session that is not open asks for nothing. *)
Ask(w, s) == IF s = "open" THEN Asked(w) ELSE w
Asks(w, s) == IF s = "open" THEN Request(w) ELSE {}

(* Frames join the ones under way; those that find no room are lost. *)
Carry(old, new) ==
    net' = IF Cardinality(old \union new) <= MaxNet THEN old \union new ELSE old

-----------------------------------------------------------------------------
(* What changes the document or the store from outside this session. *)

(* The document moves: a local edit, a restore, another session's merge. *)
Edit(n) ==
    /\ state # "closed"
    /\ n # named
    /\ named' = n
    /\ stale' = TRUE
    /\ UNCHANGED <<state, have, policy, wants, serves, net>>

(* The host comes by a file another way. *)
FindElsewhere(a) ==
    /\ state # "closed"
    /\ "elsewhere" \in Happens
    /\ a \notin have
    /\ have' = have \union {a}
    /\ UNCHANGED <<state, named, stale, policy, wants, serves, net>>

(* The peer's shareable document comes to name other files. *)
Supply(s) ==
    /\ state # "closed"
    /\ "supply" \in Happens
    /\ serves' = s
    /\ UNCHANGED <<state, named, have, stale, policy, wants, net>>

-----------------------------------------------------------------------------
(* What the session does. *)

(* refresh_wants, after which the want frame leaves. *)
Refreshed(w) == Noticed(Forgotten(w))

(* The part of tick that looks at the document, outside the coalescing window *)
(* and only when the revision moved.                                          *)
TickWants(w, settling) == IF stale /\ ~settling THEN Refreshed(w) ELSE w

(* tick in an open session. *)
TickOpen(settling, late) ==
    LET w1 == TickWants(wants, settling)
        w2 == Asked(w1)
        w3 == TimedOut(w2, late \intersect In(wants, "requested") \intersect In(w2, "requested"))
    IN  /\ stale' = (stale /\ settling)
        /\ wants' = Asked(w3)
        /\ Carry(net, Request(w1) \union Request(w3))

Tick(settling, late) ==
    /\ state = "open"
    /\ settling => Coalesces
    /\ late \subseteq In(wants, "requested")
    /\ UNCHANGED <<state, named, have, policy, serves>>
    /\ TickOpen(settling, late)

(* The first hello, or one from a peer that restarted: the session opens and *)
(* ticks. No state has gone out yet, so there is no coalescing window.       *)
HearHello(late) ==
    /\ state \in {"connecting", "open"}
    /\ late \subseteq In(wants, "requested")
    /\ state' = "open"
    /\ UNCHANGED <<named, have, policy, serves>>
    /\ TickOpen(FALSE, late)

(* A doc is merged. The revision may stay where it is when nothing is new; *)
(* refresh_wants runs in either case.                                      *)
HearDoc(n) ==
    /\ state = "open"
    /\ named' = n
    /\ stale' \in (IF n = named THEN {stale, TRUE} ELSE {TRUE})
    /\ UNCHANGED <<state, have, policy, serves>>
    /\ wants' = Asked(Refreshed(wants))
    /\ Carry(net, Request(Refreshed(wants)))

(* An ack, or a want of the peer's: refresh_export alone runs. When it comes   *)
(* between a change and the tick that would have looked at it, the revision is *)
(* marked as seen and refresh_wants is passed over.                            *)
HearAckOrWant ==
    /\ state = "open"
    /\ stale' = FALSE
    /\ UNCHANGED <<state, named, have, policy, wants, serves, net>>

(* A frame is delivered, and may be delivered again. *)
Delivered(f) == {net \ {f}} \union (IF "repeat" \in Happens THEN {net} ELSE {})

(* The peer answers a want: content for what it serves, one absent for the rest. *)
Answer(f) ==
    /\ state # "closed"
    /\ f \in net /\ f.kind = "want"
    /\ LET content == {[kind |-> "content", address |-> a,
                        bytes |-> IF a \in Damaged THEN "bad" ELSE "good"]
                          : a \in f.addresses \intersect serves}
           none == f.addresses \ serves
           absent == IF none = {} THEN {} ELSE {[kind |-> "absent", addresses |-> none]}
       IN  \E rest \in Delivered(f) : Carry(rest, content \union absent)
    /\ UNCHANGED <<state, named, have, stale, policy, wants, serves>>

(* Mutant of Takes: the want is struck off before the bytes are looked at. *)
TakesAnything(f) ==
    LET a == f.address IN
    IF wants[a].state # "requested" THEN UNCHANGED <<wants, have>>
    ELSE /\ wants' = [wants EXCEPT ![a] = Untracked]
         /\ have' = IF f.bytes = "good" THEN have \union {a} ELSE have

(* Content is taken when it was requested and its bytes match; the host stores *)
(* what content_arrived hands it.                                              *)
Takes(f) ==
    LET a == f.address IN
    IF wants[a].state # "requested" THEN UNCHANGED <<wants, have>>
    ELSE IF f.bytes = "bad"
    THEN wants' = [wants EXCEPT ![a].state = "wanted"] /\ UNCHANGED have
    ELSE wants' = [wants EXCEPT ![a] = Untracked] /\ have' = have \union {a}

HearContent(f) ==
    /\ state = "open"
    /\ f \in net /\ f.kind = "content"
    /\ Takes(f)
    /\ net' \in Delivered(f)
    /\ UNCHANGED <<state, named, stale, policy, serves>>

HearAbsent(f) ==
    /\ state = "open"
    /\ f \in net /\ f.kind = "absent"
    /\ wants' = [a \in Address |->
                    IF a \in f.addresses /\ wants[a].state = "requested"
                    THEN [wants[a] EXCEPT !.state = "unavailable"] ELSE wants[a]]
    /\ net' \in Delivered(f)
    /\ UNCHANGED <<state, named, have, stale, policy, serves>>

(* The host asks for one file, or again for one that was unavailable. *)
Fetch(a) ==
    /\ "fetch" \in Happens
    /\ wants[a].state # "unknown"
    /\ LET w == IF wants[a].state \in {"deferred", "unavailable"}
                THEN [wants EXCEPT ![a] = [state |-> "wanted", attempts |-> 0]]
                ELSE wants
       IN  wants' = Ask(w, state) /\ Carry(net, Asks(w, state))
    /\ UNCHANGED <<state, named, have, stale, policy, serves>>

(* The user changes the setting on a live session. *)
SetFetch(p) ==
    /\ "policy" \in Happens
    /\ policy' = p
    /\ LET w == [a \in Address |->
                    IF p = "automatic" /\ wants[a].state = "deferred"
                    THEN [state |-> "wanted", attempts |-> 0]
                    ELSE IF p = "cautious" /\ wants[a].state = "wanted"
                    THEN [wants[a] EXCEPT !.state = "deferred"]
                    ELSE wants[a]]
       IN  wants' = Ask(w, state) /\ Carry(net, Asks(w, state))
    /\ UNCHANGED <<state, named, have, stale, serves>>

(* A goodbye, a timeout, the host closing. *)
Close ==
    /\ "close" \in Happens
    /\ state # "closed"
    /\ state' = "closed"
    /\ UNCHANGED <<named, have, stale, policy, wants, serves, net>>

Lose(f) ==
    /\ state # "closed"
    /\ "lose" \in Happens
    /\ f \in net
    /\ net' = net \ {f}
    /\ UNCHANGED <<state, named, have, stale, policy, wants, serves>>

Next ==
    \/ \E n \in SUBSET Address : Edit(n) \/ HearDoc(n) \/ Supply(n)
    \/ \E a \in Address : FindElsewhere(a) \/ Fetch(a)
    \/ \E late \in SUBSET Address : HearHello(late) \/ Tick(TRUE, late) \/ Tick(FALSE, late)
    \/ HearAckOrWant
    \/ \E f \in net : Answer(f) \/ HearContent(f) \/ HearAbsent(f) \/ Lose(f)
    \/ \E p \in {"automatic", "cautious"} : SetFetch(p)
    \/ Close

Spec == Init /\ [][Next]_vars

(* The host ticks, and a request that is never answered runs out of time: a   *)
(* tick that finds every outstanding request late comes about again and again.*)
LateTick == Tick(FALSE, In(wants, "requested"))
FairSpec == Spec /\ WF_vars(LateTick)

-----------------------------------------------------------------------------
(* Properties. *)

(* Every missing file the document names is in the table when the session is *)
(* open and has seen the document.                                           *)
KnownIsTracked ==
    state = "open" /\ ~stale => \A a \in named \ have : wants[a].state \in WantStates

(* The code does not keep it: see HearAckOrWant. But nothing else loses track *)
(* of a file: no order of edits, merges, ticks inside and outside the window, *)
(* hellos, contents taken or refused, files found elsewhere and settings      *)
(* changed, and what an ack or want passed over is tracked again by the first *)
(* tick that finds the revision moved, or the next merge.                     *)
OnlyAckOrWantMisses ==
    [][KnownIsTracked /\ ~KnownIsTracked' => stale /\ HearAckOrWant]_vars

(* What sync.hpp says of the automatic policy: "ask peers for every missing  *)
(* file as soon as it is known". Not so of the files an ack or want passed   *)
(* over: they are not even in the table, until the document changes again.   *)
MissingIsAskedFor == policy = "automatic" => KnownIsTracked

(* Under the cautious policy a file that has not been asked for yet, or was    *)
(* given up on, is asked for in no step but the host's fetch of that very file:*)
(* not by a merge, a tick, a hello, or the switch to cautious itself.          *)
CautiousAsksNothingNew ==
    [][\A a \in Address :
          policy' = "cautious" /\ wants'[a].state = "requested"
              /\ wants[a].state \in {"unknown", "deferred", "unavailable"}
          => Fetch(a)]_vars

(* A file asked for, of which the peer's copy is sound, stops being waited    *)
(* for while the session lives: it comes, it is given up on, or nothing names *)
(* it any more. (One whose bytes never match is asked for without end.)       *)
Waiting(a) == state = "open" /\ wants[a].state \in {"wanted", "requested"}
WaitingEnds == \A a \in Address \ Damaged : Waiting(a) ~> ~Waiting(a)

=============================================================================
