----------------------------- MODULE RRCSession -----------------------------
(***************************************************************************)
(* The RRC session of the helper process: rrc_helper/session.py, class     *)
(* RRCSession.                                                             *)
(*                                                                         *)
(* The class has no I/O of its own.  Every method reads and writes the     *)
(* session's fields, hands encoded envelopes to the "send" callable and    *)
(* events to the "emit" callable.  So a method is modelled as an operator  *)
(* from a session to an outcome: the session after the call, the           *)
(* envelopes it transmitted, in order, and the events it emitted.  Module  *)
(* Helper puts the envelopes on the Link and the events on the pipe.       *)
(*                                                                         *)
(* Rooms are names after normalise_room: every method normalises the name  *)
(* it is given before it looks at any field, so a raw name never reaches   *)
(* the state.  Bodies, nicknames in envelopes, member lists and the        *)
(* sliding rate window are abstracted to the one bit the control flow      *)
(* asks of them.                                                           *)
(***************************************************************************)
EXTENDS Naturals, FiniteSets, Sequences

CONSTANTS
    Room,       \* normalised room names
    Token,      \* PING correlation tokens (envelope.new_msg_id)
    Nick,       \* advisory nicknames
    NoNick,     \* the session was given no nickname
    Unlimited,  \* a limit the hub did not advertise (None)
    Advertised  \* what a WELCOME of this hub may carry: a set of Limits

Limits == [maxRooms: (Nat \ {0}) \cup {Unlimited}, \* max_rooms_per_session
           longNames: SUBSET Room,                 \* rooms over max_room_name_bytes
           direct: BOOLEAN]                        \* CAP_DIRECT_NOTICE in caps

ASSUME RoomsFinite == IsFiniteSet(Room)
ASSUME UnlimitedIsNoNumber == Unlimited \notin Nat
ASSUME AdvertisedAreLimits == Advertised \subseteq Limits

\* Limits() and an empty hub_caps: nothing known before the first WELCOME.
NothingKnown == [maxRooms |-> Unlimited, longNames |-> {}, direct |-> FALSE]

-----------------------------------------------------------------------------
(* Envelopes from the client to the hub.                                   *)

Hello        == [type |-> "HELLO"]
JoinMsg(r)   == [type |-> "JOIN", room |-> r]
PartMsg(r)   == [type |-> "PART", room |-> r]
Chat(r)      == [type |-> "CHAT", room |-> r]   \* MSG, NOTICE or ACTION to a room
Direct       == [type |-> "DIRECT"]             \* NOTICE with a dst
PingMsg(t)   == [type |-> "PING", token |-> t]
PongMsg      == [type |-> "PONG"]

ToHub == {Hello, Direct, PongMsg}
         \cup {JoinMsg(r) : r \in Room} \cup {PartMsg(r) : r \in Room}
         \cup {Chat(r) : r \in Room} \cup {PingMsg(t) : t \in Token}

(* Envelopes from the hub.  "own" is a ghost: whether the hub answers this *)
(* client's own request or reports somebody else's.  The envelope carries  *)
(* at most an optional, advisory member list, and no handler reads it to   *)
(* tell the two apart.                                                     *)
FromHub == [type: {"WELCOME"}, limits: Advertised]
           \cup [type: {"JOINED", "PARTED"}, room: Room, own: BOOLEAN]
           \cup [type: {"CHAT"}, room: Room]
           \cup [type: {"PONG"}, token: Token]
           \cup [type: {"DIRECT", "PING", "ERROR", "IGNORED"}]

(* Events for WeeChat.  An error is told apart by its cause only.          *)
Error(cause) == [op |-> "error", about |-> cause]
State(s)     == [op |-> "state", state |-> s]
AboutRoom(op, r) == [op |-> op, room |-> r]
Plain(op)    == [op |-> op]

Told == {Error(c) : c \in {"refused", "hub", "link", "command", "silent"}}
        \cup {State(s) : s \in {"connecting", "up", "down"}}
        \cup [op: {"joined", "join", "parted", "part", "chat"}, room: Room]
        \cup {Plain(o) : o \in {"identity", "welcome", "nick", "pong", "direct", "reconnect"}}

-----------------------------------------------------------------------------
(* The fields of RRCSession.  hub_caps and limits arrive together in       *)
(* WELCOME and are kept together.                                          *)
Session == [ready: BOOLEAN, rooms: SUBSET Room, pendingJoins: SUBSET Room,
            pendingParts: SUBSET Room, pings: SUBSET Token,
            nick: Nick \cup {NoNick}, limits: Limits]

NewSession(nick) ==
    [ready |-> FALSE, rooms |-> {}, pendingJoins |-> {}, pendingParts |-> {},
     pings |-> {}, nick |-> nick, limits |-> NothingKnown]

Outcome(s, tx, told) == [session |-> s, tx |-> tx, told |-> told]
Silently(s)    == Outcome(s, <<>>, {})
Transmit(s, m) == Outcome(s, <<m>>, {})
Emit(s, e)     == Outcome(s, <<>>, {e})
Fail(s, cause) == Emit(s, Error(cause))

-----------------------------------------------------------------------------
(* Requests.                                                               *)

Start(s) == Transmit(s, Hello)

\* Why join refuses a room: its name is too long, or the session is full.
\* Only confirmed rooms are counted.
Refuses(s, r) ==
    \/ r \in s.limits.longNames
    \/ /\ s.limits.maxRooms # Unlimited
       /\ Cardinality(s.rooms) >= s.limits.maxRooms

\* The rooms of "names" for which join transmits a JOIN.  One call does not
\* change the answer for the next: join adds nothing to s.rooms.
Asked(s, names) == {r \in names : r \notin s.rooms /\ ~Refuses(s, r)}

\* Every order in which the rooms of a set can be gone through.
Orders(S) == {q \in [1..Cardinality(S) -> S] : \A i, j \in DOMAIN q : q[i] = q[j] => i = j}

\* Mutant: join does not remember what it asked for.
JoinAllUnremembered(s, names, order) ==
    Outcome(s, [i \in DOMAIN order |-> JoinMsg(order[i])], {})

\* join, for each room of "names"; "order" is the order of those it asks for.
JoinAll(s, names, order) ==
    Outcome([s EXCEPT !.pendingJoins = @ \cup Asked(s, names)],
            [i \in DOMAIN order |-> JoinMsg(order[i])],
            IF \E r \in names \ s.rooms : Refuses(s, r) THEN {Error("refused")} ELSE {})

JoinRoom(s, r) ==
    JoinAll(s, {r}, IF Asked(s, {r}) = {} THEN <<>> ELSE <<r>>)

\* Mutant: part does nothing for a room whose JOIN is still unanswered.
PartConfirmedOnly(s, r) ==
    IF r \in s.rooms
    THEN Transmit([s EXCEPT !.pendingParts = @ \cup {r}], PartMsg(r))
    ELSE Silently(s)

PartRoom(s, r) == Transmit([s EXCEPT !.pendingParts = @ \cup {r}], PartMsg(r))

\* "fits": the body and the sliding rate window allow the message.
Say(s, r, fits) == IF fits THEN Transmit(s, Chat(r)) ELSE Fail(s, "refused")

\* "fits": the target is a whole identity hash and the body is short enough.
SayDirect(s, fits) ==
    IF s.limits.direct /\ fits THEN Transmit(s, Direct) ELSE Fail(s, "refused")

SetNick(s, n, fits) ==
    IF fits THEN Emit([s EXCEPT !.nick = n], Plain("nick")) ELSE Fail(s, "refused")

Ping(s, t) == Transmit([s EXCEPT !.pings = @ \cup {t}], PingMsg(t))

-----------------------------------------------------------------------------
(* What the hub sends, and the end of the Link.                            *)

\* on_ready (Helper._rejoin) runs last, on the session as WELCOME leaves it.
Welcomed(s, limits) == [s EXCEPT !.limits = limits, !.ready = TRUE]

OnWelcome(s, limits, wanted, order) ==
    LET rejoin == JoinAll(Welcomed(s, limits), wanted, order)
    IN  Outcome(rejoin.session, rejoin.tx, rejoin.told \cup {Plain("welcome")})

\* Mutant: every JOINED counts as our own.
OnJoinedAny(s, r) ==
    Emit([s EXCEPT !.pendingJoins = @ \ {r}, !.rooms = @ \cup {r}], AboutRoom("joined", r))

OnJoined(s, r) ==
    IF r \in s.pendingJoins
    THEN Emit([s EXCEPT !.pendingJoins = @ \ {r}, !.rooms = @ \cup {r}], AboutRoom("joined", r))
    ELSE Emit(s, AboutRoom("join", r))

OnParted(s, r) ==
    IF r \in s.pendingParts
    THEN Emit([s EXCEPT !.pendingParts = @ \ {r}, !.rooms = @ \ {r}], AboutRoom("parted", r))
    ELSE Emit(s, AboutRoom("part", r))

OnPong(s, t) ==
    IF t \in s.pings
    THEN Emit([s EXCEPT !.pings = @ \ {t}], Plain("pong"))
    ELSE Silently(s)

\* on_frame for everything but WELCOME.  "IGNORED" is a frame that decode
\* rejects or whose type has no handler.
OnFrame(s, f) ==
    CASE f.type = "JOINED"  -> OnJoined(s, f.room)
      [] f.type = "PARTED"  -> OnParted(s, f.room)
      [] f.type = "CHAT"    -> Emit(s, AboutRoom("chat", f.room))
      [] f.type = "DIRECT"  -> Emit(s, Plain("direct"))
      [] f.type = "PING"    -> Transmit(s, PongMsg)
      [] f.type = "PONG"    -> OnPong(s, f.token)
      [] f.type = "ERROR"   -> Fail(s, "hub")
      [] OTHER              -> Silently(s)

\* Mutants: one reset of on_link_down is missing.
OnLinkDownKeepsReady(s) ==
    Emit([s EXCEPT !.rooms = {}, !.pendingJoins = {}, !.pendingParts = {}, !.pings = {}],
         State("down"))
OnLinkDownKeepsPings(s) ==
    Emit([s EXCEPT !.ready = FALSE, !.rooms = {}, !.pendingJoins = {}, !.pendingParts = {}],
         State("down"))

OnLinkDown(s) ==
    Emit([s EXCEPT !.ready = FALSE, !.rooms = {}, !.pendingJoins = {},
                   !.pendingParts = {}, !.pings = {}], State("down"))
=============================================================================
