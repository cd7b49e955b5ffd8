---------------------------- MODULE HelperProofs ----------------------------
(***************************************************************************)
(* Proofs about Helper, for every set of rooms, links, tokens and          *)
(* nicknames, every hub and every bound.                                   *)
(***************************************************************************)
EXTENDS Helper, TLAPS, FiniteSetTheorems, SequenceTheorems

-----------------------------------------------------------------------------
(* Sequences.                                                              *)

\* Inserting an element into a queue (a callback overtaken by later ones)
\* gives a queue of the same kind.
LEMMA InsertAtType ==
    ASSUME NEW S, NEW s \in Seq(S), NEW i \in 1..Len(s), NEW e \in S
    PROVE  InsertAt(s, i, e) \in Seq(S)
<1>1. SubSeq(s, 1, i-1) \in Seq(S) /\ SubSeq(s, i, Len(s)) \in Seq(S)
  BY SubSeqProperties
<1>2. <<e>> \in Seq(S)
  OBVIOUS
<1> QED
  BY <1>1, <1>2, ConcatProperties DEF InsertAt

\* The number of HELLOs among the envelopes of one call is a number.
LEMMA HelloCount ==
    ASSUME NEW s \in Seq(ToHub)
    PROVE  Cardinality({i \in DOMAIN s : s[i] = Hello}) \in Nat
<1>1. IsFiniteSet(1..Len(s))
  BY FS_Interval, LenProperties
<1>2. {i \in DOMAIN s : s[i] = Hello} \subseteq 1..Len(s)
  BY LenProperties
<1> QED
  BY <1>1, <1>2, FS_Subset, FS_CardinalityType

\* Every order of a set of rooms is a sequence of them.
LEMMA OrdersType ==
    ASSUME NEW S \in SUBSET Room, NEW q \in Orders(S)
    PROVE  q \in Seq(Room)
<1>1. Cardinality(S) \in Nat
  BY RoomsFinite, FS_Subset, FS_CardinalityType
<1>2. q \in [1..Cardinality(S) -> S]
  BY DEF Orders
<1> QED
  BY <1>1, <1>2, IsASeq, SeqMonotonic

-----------------------------------------------------------------------------
(* The session's operators return outcomes of the right kind.              *)

Outcomes == [session: Session, tx: Seq(ToHub), told: SUBSET Told]

\* A method that only transmits has an outcome (session.py, _transmit).
LEMMA TransmitType ==
    ASSUME NEW s \in Session, NEW m \in ToHub
    PROVE  Transmit(s, m) \in Outcomes
<1>1. <<m>> \in Seq(ToHub)
  OBVIOUS
<1> QED
  BY <1>1 DEF Transmit, Outcome, Outcomes

\* ... and so has one that only emits
LEMMA EmitType ==
    ASSUME NEW s \in Session, NEW e \in Told
    PROVE  Emit(s, e) \in Outcomes
<1>1. <<>> \in Seq(ToHub)
  OBVIOUS
<1> QED
  BY <1>1 DEF Emit, Outcome, Outcomes

\* ... or only reports an error (_fail).
LEMMA FailType ==
    ASSUME NEW s \in Session, NEW c \in {"refused", "hub", "link", "command", "silent"}
    PROVE  Fail(s, c) \in Outcomes
<1>1. Error(c) \in Told
  BY DEF Told
<1> QED
  BY <1>1, EmitType DEF Fail

\* join, called for every room of a set, has an outcome.
LEMMA JoinAllType ==
    ASSUME NEW s \in Session, NEW names \in SUBSET Room, NEW q \in Seq(Room)
    PROVE  JoinAll(s, names, q) \in Outcomes
<1>1. [s EXCEPT !.pendingJoins = @ \cup Asked(s, names)] \in Session
  BY DEF Session, Asked
<1>2. [i \in DOMAIN q |-> JoinMsg(q[i])] \in Seq(ToHub)
  <2>1. DOMAIN q = 1..Len(q) /\ Len(q) \in Nat
    BY LenProperties
  <2>2. \A i \in 1..Len(q) : JoinMsg(q[i]) \in ToHub
    BY ElementOfSeq DEF ToHub
  <2> QED
    BY <2>1, <2>2, IsASeq
<1>3. Error("refused") \in Told
  BY DEF Told
<1> QED
  BY <1>1, <1>2, <1>3 DEF JoinAll, Outcome, Outcomes

\* join, called for one room, has one too.
LEMMA JoinRoomType ==
    ASSUME NEW s \in Session, NEW r \in Room
    PROVE  JoinRoom(s, r) \in Outcomes
<1>1. <<>> \in Seq(Room) /\ <<r>> \in Seq(Room)
  OBVIOUS
<1> QED
  BY <1>1, JoinAllType DEF JoinRoom

\* So has part.
LEMMA PartRoomType ==
    ASSUME NEW s \in Session, NEW r \in Room
    PROVE  PartRoom(s, r) \in Outcomes
<1>1. [s EXCEPT !.pendingParts = @ \cup {r}] \in Session
  BY DEF Session
<1>2. PartMsg(r) \in ToHub
  BY DEF ToHub
<1> QED
  BY <1>1, <1>2, TransmitType DEF PartRoom

\* Everything a member says or asks for that leaves the rooms alone.
LEMMA TalkTypes ==
    ASSUME NEW s \in Session, NEW fits \in BOOLEAN
    PROVE  /\ Start(s) \in Outcomes
           /\ \A r \in Room : Say(s, r, fits) \in Outcomes
           /\ SayDirect(s, fits) \in Outcomes
           /\ \A n \in Nick : SetNick(s, n, fits) \in Outcomes
           /\ \A t \in Token : Ping(s, t) \in Outcomes
<1>1. Hello \in ToHub /\ Direct \in ToHub
  BY DEF ToHub
<1>2. Start(s) \in Outcomes
  BY <1>1, TransmitType DEF Start
<1>3. ASSUME NEW r \in Room PROVE Say(s, r, fits) \in Outcomes
  <2>1. Chat(r) \in ToHub
    BY DEF ToHub
  <2> QED
    BY <2>1, TransmitType, FailType DEF Say
<1>4. SayDirect(s, fits) \in Outcomes
  BY <1>1, TransmitType, FailType DEF SayDirect
<1>5. ASSUME NEW n \in Nick PROVE SetNick(s, n, fits) \in Outcomes
  <2>1. [s EXCEPT !.nick = n] \in Session
    BY DEF Session
  <2>2. Plain("nick") \in Told
    BY DEF Told
  <2> QED
    BY <2>1, <2>2, EmitType, FailType DEF SetNick
<1>6. ASSUME NEW t \in Token PROVE Ping(s, t) \in Outcomes
  <2>1. [s EXCEPT !.pings = @ \cup {t}] \in Session
    BY DEF Session
  <2>2. PingMsg(t) \in ToHub
    BY DEF ToHub
  <2> QED
    BY <2>1, <2>2, TransmitType DEF Ping
<1> QED
  BY <1>2, <1>3, <1>4, <1>5, <1>6

\* WELCOME leaves a session behind (_on_welcome)
LEMMA WelcomedType ==
    ASSUME NEW s \in Session, NEW limits \in Advertised
    PROVE  Welcomed(s, limits) \in Session
BY AdvertisedAreLimits DEF Welcomed, Session

\* ... and _rejoin, which it runs, has an outcome.
LEMMA OnWelcomeType ==
    ASSUME NEW s \in Session, NEW limits \in Advertised, NEW names \in SUBSET Room,
           NEW q \in Orders(Asked(Welcomed(s, limits), names))
    PROVE  OnWelcome(s, limits, names, q) \in Outcomes
<1>1. Asked(Welcomed(s, limits), names) \in SUBSET Room
  BY DEF Asked
<1>2. q \in Seq(Room)
  BY <1>1, OrdersType
<1>3. JoinAll(Welcomed(s, limits), names, q) \in Outcomes
  BY <1>2, WelcomedType, JoinAllType
<1>4. Plain("welcome") \in Told
  BY DEF Told
<1> QED
  BY <1>3, <1>4 DEF OnWelcome, Outcome, Outcomes

\* What each type of frame carries.
LEMMA FrameFields ==
    ASSUME NEW f \in FromHub
    PROVE  /\ f.type = "WELCOME" => f.limits \in Advertised
           /\ f.type \in {"JOINED", "PARTED", "CHAT"} => f.room \in Room
           /\ f.type = "PONG" => f.token \in Token
BY DEF FromHub

\* on_frame has an outcome for every other frame of the hub.
LEMMA OnFrameType ==
    ASSUME NEW s \in Session, NEW f \in FromHub
    PROVE  OnFrame(s, f) \in Outcomes
<1>1. CASE f.type = "JOINED"
  <2>1. f.room \in Room
    BY <1>1, FrameFields
  <2>2. AboutRoom("joined", f.room) \in Told /\ AboutRoom("join", f.room) \in Told
    BY <2>1 DEF Told, AboutRoom
  <2>3. [s EXCEPT !.pendingJoins = @ \ {f.room}, !.rooms = @ \cup {f.room}] \in Session
    BY <2>1 DEF Session
  <2>4. OnJoined(s, f.room) \in Outcomes
    BY <2>2, <2>3, EmitType DEF OnJoined
  <2> QED
    BY <1>1, <2>4 DEF OnFrame
<1>2. CASE f.type = "PARTED"
  <2>1. f.room \in Room
    BY <1>2, FrameFields
  <2>2. AboutRoom("parted", f.room) \in Told /\ AboutRoom("part", f.room) \in Told
    BY <2>1 DEF Told, AboutRoom
  <2>3. [s EXCEPT !.pendingParts = @ \ {f.room}, !.rooms = @ \ {f.room}] \in Session
    BY <2>1 DEF Session
  <2>4. OnParted(s, f.room) \in Outcomes
    BY <2>2, <2>3, EmitType DEF OnParted
  <2> QED
    BY <1>2, <2>4 DEF OnFrame
<1>3. CASE f.type = "PONG"
  <2>1. [s EXCEPT !.pings = @ \ {f.token}] \in Session
    BY DEF Session
  <2>2. Plain("pong") \in Told
    BY DEF Told
  <2>3. Silently(s) \in Outcomes
    BY DEF Silently, Outcome, Outcomes
  <2>4. OnPong(s, f.token) \in Outcomes
    BY <2>1, <2>2, <2>3, EmitType DEF OnPong
  <2> QED
    BY <1>3, <2>4 DEF OnFrame
<1>4. CASE f.type = "CHAT"
  <2>1. AboutRoom("chat", f.room) \in Told
    BY <1>4, FrameFields DEF Told, AboutRoom
  <2> QED
    BY <1>4, <2>1, EmitType DEF OnFrame
<1>5. CASE f.type = "PING"
  <2>1. PongMsg \in ToHub
    BY DEF ToHub
  <2> QED
    BY <1>5, <2>1, TransmitType DEF OnFrame
<1>6. CASE f.type = "DIRECT"
  <2>1. Plain("direct") \in Told
    BY DEF Told
  <2> QED
    BY <1>6, <2>1, EmitType DEF OnFrame
<1>7. CASE f.type = "ERROR"
  BY <1>7, FailType DEF OnFrame
<1>8. CASE f.type \notin {"JOINED", "PARTED", "PONG", "CHAT", "PING", "DIRECT", "ERROR"}
  <2>1. Silently(s) \in Outcomes
    BY DEF Silently, Outcome, Outcomes
  <2> QED
    BY <1>8, <2>1 DEF OnFrame
<1> QED
  BY <1>1, <1>2, <1>3, <1>4, <1>5, <1>6, <1>7, <1>8

\* on_link_down has one.
LEMMA OnLinkDownType ==
    ASSUME NEW s \in Session
    PROVE  OnLinkDown(s) \in Outcomes
<1>1. [s EXCEPT !.ready = FALSE, !.rooms = {}, !.pendingJoins = {},
                !.pendingParts = {}, !.pings = {}] \in Session
  BY DEF Session
<1>2. State("down") \in Told
  BY DEF Told
<1> QED
  BY <1>1, <1>2, EmitType DEF OnLinkDown

-----------------------------------------------------------------------------
(* The parts the handlers are made of keep every variable in its type.     *)

\* What an entry of the queue carries.
LEMMA EventFields ==
    ASSUME NEW e \in Event
    PROVE  /\ e.kind = "frame" => e.frame \in FromHub
           /\ e.kind = "cmd" /\ e.op \in {"join", "part", "say"} => e.room \in Room
           /\ e.kind = "cmd" /\ e.op = "connect" => e.autojoin \in SUBSET Room /\ e.reconnect \in BOOLEAN
<1>1. CASE e \in LinkEvent
  BY <1>1 DEF LinkEvent, Up, Down
<1>2. CASE e \in Requests
  BY <1>2 DEF Requests, RoomCmd, Cmd
<1>3. CASE e \in Connects
  BY <1>3, ConnectsKnown DEF Connect
<1>4. CASE e \in {Eof, Retry, HelloDue}
  BY <1>4 DEF Eof, Retry, HelloDue
<1> QED
  BY <1>1, <1>2, <1>3, <1>4 DEF Event

\* The entry in hand is an event, and what is left is a queue.
LEMMA EntryType ==
    ASSUME TypeOK, events # <<>>
    PROVE  Head(events) \in Event /\ Rest \in Seq(Event)
BY HeadTailProperties DEF TypeOK, Rest

\* A callback leaves a queue behind, wherever its entry lands.
LEMMA CallbackType ==
    ASSUME TypeOK, NEW e \in Event, Callback(e)
    PROVE  events' \in Seq(Event)
<1>1. events \in Seq(Event)
  BY DEF TypeOK
<1>2. CASE events' = Append(events, e)
  BY <1>1, <1>2, AppendProperties
<1>3. CASE \E i \in 1..Len(events) : events' = InsertAt(events, i, e)
  BY <1>1, <1>3, InsertAtType
<1> QED
  BY <1>2, <1>3 DEF Callback

\* Emitting events leaves told and mode in their types (emit).
LEMMA TellingType ==
    ASSUME TypeOK, NEW S \in SUBSET Told, Telling(S)
    PROVE  told' \subseteq Told /\ mode' \in {"run", "stopping", "exited"}
BY DEF TypeOK, Telling

\* Putting envelopes on the link leaves the link's fields in their types
\* (Helper._send, HubLink.send).
LEMMA SendType ==
    ASSUME TypeOK, NEW tx \in Seq(ToHub), Send(hub, tx)
    PROVE  toHub' \in [Link -> Seq(ToHub)] /\ greeted' \in [Link -> Nat]
<1>1. CASE Usable(hub)
  <2>1. hub \in Link
    BY <1>1 DEF Usable, TypeOK
  <2>2. toHub[hub] \o tx \in Seq(ToHub)
    BY <2>1, ConcatProperties DEF TypeOK
  <2>3. toHub' \in [Link -> Seq(ToHub)]
    BY <1>1, <2>2 DEF Send, TypeOK
  <2> DEFINE n == Cardinality({i \in DOMAIN tx : tx[i] = Hello})
  <2>4. n \in Nat
    BY HelloCount
  <2>5. greeted' = [greeted EXCEPT ![hub] = @ + n]
    BY <1>1 DEF Send
  <2>6. greeted' \in [Link -> Nat]
    <3> HIDE DEF n
    <3> QED
      BY <2>1, <2>4, <2>5 DEF TypeOK
  <2> QED
    BY <2>3, <2>6
<1>2. CASE ~Usable(hub)
  BY <1>2 DEF Send, TypeOK
<1> QED
  BY <1>1, <1>2

\* A session's outcome, performed, leaves every variable it touches in its
\* type.
LEMMA PerformType ==
    ASSUME TypeOK, NEW o \in Outcomes, NEW more \in SUBSET Told, Perform(o, more)
    PROVE  /\ session' \in Session \cup {NoSession}
           /\ toHub' \in [Link -> Seq(ToHub)] /\ greeted' \in [Link -> Nat]
           /\ told' \subseteq Told /\ mode' \in {"run", "stopping", "exited"}
<1>1. o.session \in Session /\ o.tx \in Seq(ToHub) /\ o.told \in SUBSET Told
  BY DEF Outcomes
<1>2. Error("link") \in Told
  BY DEF Told
<1>3. o.told \cup more \cup (IF o.tx = <<>> \/ Usable(hub) THEN {} ELSE {Error("link")}) \in SUBSET Told
  BY <1>1, <1>2
<1> QED
  BY <1>1, <1>3, SendType, TellingType DEF Perform

\* So does _open_link, whether or not the hub could be resolved.
LEMMA OpenLinkType ==
    ASSUME TypeOK, NEW s \in Session \cup {NoSession}, NEW again \in BOOLEAN,
           NEW more \in SUBSET Told, OpenLink(s, again, more)
    PROVE  /\ session' \in Session \cup {NoSession}
           /\ hub' \in Link \cup {NoLink}
           /\ status' \in [Link -> {"closed", "pending", "active"}]
           /\ toHub' \in [Link -> Seq(ToHub)] /\ greeted' \in [Link -> Nat]
           /\ retries' \in Nat
           /\ told' \subseteq Told /\ mode' \in {"run", "stopping", "exited"}
<1>1. /\ State("connecting") \in Told /\ Error("link") \in Told /\ Plain("reconnect") \in Told
  BY DEF Told
<1>2. session' \in Session \cup {NoSession}
  BY DEF OpenLink
<1>3. CASE \E l \in Link : /\ Unused(l) /\ l # hub
                           /\ Open(l)
                           /\ hub' = l
                           /\ retries' = retries
                           /\ Telling(more \cup {State("connecting")})
  <2>1. told' \subseteq Told /\ mode' \in {"run", "stopping", "exited"}
    BY <1>1, <1>3, TellingType
  <2>2. <<>> \in Seq(ToHub)
    OBVIOUS
  <2> QED
    BY <1>2, <1>3, <2>1, <2>2 DEF TypeOK, Open
<1>4. CASE /\ hub' = NoLink
           /\ retries' = IF again THEN retries + 1 ELSE retries
           /\ Telling(more \cup {State("connecting"), Error("link")}
                           \cup IF again THEN {Plain("reconnect")} ELSE {})
           /\ UNCHANGED <<status, toHub, greeted>>
  <2>1. told' \subseteq Told /\ mode' \in {"run", "stopping", "exited"}
    BY <1>1, <1>4, TellingType
  <2> QED
    BY <1>2, <1>4, <2>1 DEF TypeOK
<1> QED
  BY <1>3, <1>4 DEF OpenLink

\* So does HubLink.close, which may put the link's end on the queue.
LEMMA CloseType ==
    ASSUME TypeOK, NEW rest \in Seq(Event), Close(hub, rest)
    PROVE  /\ events' \in Seq(Event)
           /\ status' \in [Link -> {"closed", "pending", "active"}]
           /\ toHub' \in [Link -> Seq(ToHub)]
<1>1. CASE hub \in Live
  <2>1. hub \in Link /\ Down(hub) \in Event
    BY <1>1 DEF Live, Event, LinkEvent
  <2>2. <<>> \in Seq(ToHub)
    OBVIOUS
  <2>3. /\ status' = [status EXCEPT ![hub] = "closed"]
        /\ toHub' = [toHub EXCEPT ![hub] = <<>>]
        /\ events' = Append(rest, Down(hub))
    BY <1>1 DEF Close
  <2>4. events' \in Seq(Event)
    BY <2>1, <2>3, AppendProperties
  <2> QED
    BY <2>1, <2>2, <2>3, <2>4 DEF TypeOK
<1>2. CASE hub \notin Live
  BY <1>2 DEF Close, TypeOK
<1> QED
  BY <1>1, <1>2

\* The hub's own bookkeeping keeps its types when a session ends.
LEMMA ForgetType ==
    ASSUME TypeOK, NEW l \in Link, Forget(l) \/ UNCHANGED hubVars
    PROVE  welcomed' \subseteq Link /\ members' \in [Link -> SUBSET Room]
BY DEF TypeOK, Forget, hubVars

-----------------------------------------------------------------------------
(* Type correctness.                                                       *)

\* The helper starts in the types.
LEMMA TypeInit == Init => TypeOK
<1> SUFFICES ASSUME Init PROVE TypeOK
  OBVIOUS
<1>1. events \in Seq(Event)
  <2>1. PICK c \in Connects : events = <<c>>
    BY DEF Init
  <2>2. c \in Event
    BY DEF Event
  <2> QED
    BY <2>1, <2>2
<1>2. <<>> \in Seq(ToHub)
  OBVIOUS
<1> QED
  BY <1>1, <1>2, TimerBound DEF Init, HubLinkInit, HubInit, TypeOK, HelloMaxAttempts

\* Taking an envelope off a link, and answering it.
LEMMA ReceiveType ==
    ASSUME TypeOK, NEW l \in Link, NEW type, Receive(l, type)
    PROVE  /\ Head(toHub[l]) \in ToHub /\ Head(toHub[l]).type = type
           /\ toHub' \in [Link -> Seq(ToHub)]
           /\ status' = status /\ greeted' = greeted
<1>1. toHub[l] \in Seq(ToHub) /\ toHub[l] # <<>>
  BY DEF TypeOK, Receive
<1>2. Head(toHub[l]) \in ToHub /\ Tail(toHub[l]) \in Seq(ToHub)
  BY <1>1, HeadTailProperties
<1> QED
  BY <1>2 DEF Receive, TypeOK

\* A frame of the hub reaches the queue as an event, or is lost.
LEMMA PacketType ==
    ASSUME TypeOK, NEW l \in Link, NEW f \in FromHub, Packet(l, f) \/ Reply(l, f)
    PROVE  events' \in Seq(Event)
<1>1. Frame(l, f) \in Event
  BY DEF Frame, Event, LinkEvent
<1> QED
  BY <1>1, CallbackType DEF Packet, Reply, TypeOK

\* JOINED and PARTED are frames of the hub
LEMMA RoomFrames ==
    ASSUME NEW r \in Room, NEW own \in BOOLEAN
    PROVE  Joined(r, own) \in FromHub /\ Parted(r, own) \in FromHub
BY DEF Joined, Parted, FromHub

\* ... and so are the frames that carry nothing.
LEMMA BareFrames ==
    \A type \in {"DIRECT", "PING", "ERROR", "IGNORED"} : Bare(type) \in FromHub
BY DEF Bare, FromHub

\* What each type of envelope carries.
LEMMA MessageFields ==
    ASSUME NEW m \in ToHub
    PROVE  /\ m.type \in {"JOIN", "PART"} => m.room \in Room
           /\ m.type = "PING" => m.token \in Token
BY DEF ToHub, Hello, Direct, PongMsg, JoinMsg, PartMsg, Chat, PingMsg

\* What a step of the network or the hub may change.
NetTypes == /\ events' \in Seq(Event)
            /\ status' \in [Link -> {"closed", "pending", "active"}]
            /\ toHub' \in [Link -> Seq(ToHub)]
            /\ greeted' \in [Link -> Nat]
            /\ welcomed' \subseteq Link
            /\ members' \in [Link -> SUBSET Room]

\* Whatever Reticulum, the network or the hub does, the types hold.
LEMMA NetworkType ==
    ASSUME TypeOK, NEW l \in Link, Network(l)
    PROVE  NetTypes
<1> USE DEF NetTypes
<1>1. CASE Established(l) /\ UNCHANGED hubVars
  <2>1. Up(l) \in Event
    BY DEF Event, LinkEvent
  <2>2. events' \in Seq(Event)
    BY <1>1, <2>1, CallbackType DEF Established
  <2> QED
    BY <1>1, <2>2 DEF Established, hubVars, TypeOK
<1>2. CASE HubClosed(l)
  <2>1. Down(l) \in Event
    BY DEF Event, LinkEvent
  <2>2. events' \in Seq(Event)
    BY <1>2, <2>1, CallbackType DEF HubClosed, Closed
  <2>3. <<>> \in Seq(ToHub)
    OBVIOUS
  <2> QED
    BY <1>2, <2>2, <2>3, ForgetType DEF HubClosed, Closed, TypeOK
<1>3. CASE Lose(l) /\ UNCHANGED hubVars
  <2>1. toHub[l] \in Seq(ToHub) /\ toHub[l] # <<>>
    BY <1>3 DEF TypeOK, Lose
  <2>2. Tail(toHub[l]) \in Seq(ToHub)
    BY <2>1, HeadTailProperties
  <2> QED
    BY <1>3, <2>2 DEF Lose, hubVars, TypeOK
<1>4. CASE HubHello(l)
  <2>1. PICK limits \in Advertised : Reply(l, Welcome(limits))
    BY <1>4 DEF HubHello
  <2>2. Welcome(limits) \in FromHub
    BY DEF Welcome, FromHub
  <2>3. events' \in Seq(Event)
    BY <2>1, <2>2, PacketType
  <2>4. Receive(l, "HELLO")
    BY <1>4 DEF HubHello
  <2> QED
    BY <1>4, <2>3, <2>4, ReceiveType DEF HubHello, TypeOK
<1>5. CASE HubJoin(l)
  <2>1. Receive(l, "JOIN")
    BY <1>5 DEF HubJoin
  <2> DEFINE r == Head(toHub[l]).room
  <2>2. r \in Room
    BY <2>1, ReceiveType, MessageFields
  <2>3. Joined(r, TRUE) \in FromHub /\ Bare("ERROR") \in FromHub
    BY <2>2, RoomFrames, BareFrames
  <2>4. events' \in Seq(Event)
    BY <1>5, <2>3, PacketType DEF HubJoin
  <2>5. members \in [Link -> SUBSET Room]
    BY DEF TypeOK
  <2>6. \/ members' = members
        \/ members' = [members EXCEPT ![l] = members[l] \cup {r}]
    BY <1>5, Zenon DEF HubJoin
  <2>7. members' \in [Link -> SUBSET Room]
    BY <2>2, <2>5, <2>6
  <2> QED
    BY <1>5, <2>1, <2>4, <2>7, ReceiveType DEF HubJoin, TypeOK
<1>6. CASE HubPart(l)
  <2>1. Receive(l, "PART")
    BY <1>6 DEF HubPart
  <2> DEFINE r == Head(toHub[l]).room
  <2>2. r \in Room
    BY <2>1, ReceiveType, MessageFields
  <2>3. Parted(r, TRUE) \in FromHub /\ Bare("ERROR") \in FromHub
    BY <2>2, RoomFrames, BareFrames
  <2>4. events' \in Seq(Event)
    BY <1>6, <2>3, PacketType DEF HubPart, TypeOK
  <2>5. members \in [Link -> SUBSET Room]
    BY DEF TypeOK
  <2>6. members' = [members EXCEPT ![l] = members[l] \ {r}]
    BY <1>6, Zenon DEF HubPart
  <2>7. members' \in [Link -> SUBSET Room]
    BY <2>2, <2>5, <2>6
  <2> QED
    BY <1>6, <2>1, <2>4, <2>7, ReceiveType DEF HubPart, TypeOK
<1>7. CASE HubOther(l)
  <2>1. UNCHANGED hubVars
    BY <1>7 DEF HubOther
  <2>2. CASE \E type \in {"CHAT", "DIRECT"} :
               Receive(l, type) /\ (UNCHANGED events \/ Reply(l, Bare("ERROR")))
    <3>1. PICK type \in {"CHAT", "DIRECT"} :
               Receive(l, type) /\ (UNCHANGED events \/ Reply(l, Bare("ERROR")))
      BY <2>2
    <3>2. events' \in Seq(Event)
      BY <3>1, BareFrames, PacketType DEF TypeOK
    <3> QED
      BY <2>1, <3>1, <3>2, ReceiveType DEF hubVars, TypeOK
  <2>3. CASE /\ Receive(l, "PING")
             /\ Reply(l, [type |-> "PONG", token |-> Head(toHub[l]).token])
    <3>1. [type |-> "PONG", token |-> Head(toHub[l]).token] \in FromHub
      BY <2>3, ReceiveType, MessageFields DEF FromHub
    <3>2. events' \in Seq(Event)
      BY <2>3, <3>1, PacketType
    <3> QED
      BY <2>1, <2>3, <3>2, ReceiveType DEF hubVars, TypeOK
  <2>4. CASE Receive(l, "PONG") /\ UNCHANGED events
    BY <2>1, <2>4, ReceiveType DEF hubVars, TypeOK
  <2> QED
    BY <1>7, <2>2, <2>3, <2>4 DEF HubOther
<1>8. CASE HubTalks(l)
  <2>1. CASE \E r \in members[l] : \E f \in {Joined(r, FALSE), Parted(r, FALSE), [type |-> "CHAT", room |-> r]} :
                 f.type \in HubTalk /\ Packet(l, f)
    <3>1. PICK r \in members[l] : \E f \in {Joined(r, FALSE), Parted(r, FALSE), [type |-> "CHAT", room |-> r]} :
                 Packet(l, f)
      BY <2>1
    <3>2. r \in Room
      BY <3>1 DEF TypeOK
    <3>3. [type |-> "CHAT", room |-> r] \in FromHub
      BY <3>2 DEF FromHub
    <3> QED
      BY <3>1, <3>2, <3>3, RoomFrames, PacketType, <1>8 DEF HubTalks, hubVars, TypeOK
  <2>2. CASE \E type \in HubTalk \cap {"DIRECT", "PING", "ERROR", "IGNORED"} : Packet(l, Bare(type))
    BY <2>2, BareFrames, PacketType, <1>8 DEF HubTalks, hubVars, TypeOK
  <2> QED
    BY <1>8, <2>1, <2>2 DEF HubTalks
<1> QED
  BY <1>1, <1>2, <1>3, <1>4, <1>5, <1>6, <1>7, <1>8 DEF Network

\* A command that needs a session keeps the types when its outcome does.
LEMMA WithSessionType ==
    ASSUME TypeOK, events # <<>>, NEW o, NEW keep \in SUBSET Room,
           session # NoSession => o \in Outcomes,
           WithSession(o, keep)
    PROVE  TypeOK'
<1>1. events' \in Seq(Event)
  BY EntryType DEF WithSession
<1>2. CASE session = NoSession
  <2>1. Error("link") \in Told
    BY DEF Told
  <2>2. Telling({Error("link")})
    BY <1>2 DEF WithSession
  <2>3. told' \subseteq Told /\ mode' \in {"run", "stopping", "exited"}
    BY <2>1, <2>2, TellingType
  <2> QED
    BY <1>1, <1>2, <2>3 DEF WithSession, TypeOK, hubVars
<1>3. CASE session # NoSession
  <2>1. Perform(o, {}) /\ wanted' = keep
    BY <1>3 DEF WithSession
  <2>2. o \in Outcomes
    BY <1>3
  <2> QED
    BY <1>1, <2>1, <2>2, PerformType DEF WithSession, TypeOK, hubVars
<1> QED
  BY <1>2, <1>3

\* A room command names a room.
LEMMA CommandTypes ==
    ASSUME TypeOK, NEW op \in {"join", "part", "say"}, Command(op)
    PROVE  /\ events # <<>> /\ Head(events).room \in Room
           /\ session # NoSession => session \in Session
BY EntryType, EventFields DEF Command, Next1, TypeOK

\* A HELLO and its timer keep the counters in their ranges.
LEMMA GreetType ==
    ASSUME TypeOK, NEW n \in 1..HelloMaxAttempts, Greet(n)
    PROVE  attempts' \in 0..HelloMaxAttempts /\ hellos' \in Nat
BY DEF TypeOK, Greet, HelloMaxAttempts

\* Every step of the main loop keeps the types.
LEMMA MainLoopType ==
    ASSUME TypeOK, MainLoop
    PROVE  TypeOK'
<1>1. CASE CmdConnect
  <2>1. events # <<>> /\ Head(events).autojoin \in SUBSET Room /\ Head(events).reconnect \in BOOLEAN
    BY <1>1, EntryType, EventFields DEF CmdConnect, Command, Next1
  <2>2. events' \in Seq(Event)
    BY <1>1, <2>1, EntryType DEF CmdConnect
  <2>3. CASE /\ Telling({Error("command")})
             /\ UNCHANGED <<status, toHub, greeted, session, hub, wanted, reconnect, retries>>
    <3>1. Error("command") \in Told
      BY DEF Told
    <3>2. told' \subseteq Told /\ mode' \in {"run", "stopping", "exited"}
      BY <2>3, <3>1, TellingType
    <3> QED
      BY <1>1, <2>2, <2>3, <3>2 DEF CmdConnect, TypeOK, hubVars
  <2>4. CASE /\ wanted' = Head(events).autojoin
             /\ reconnect' = Head(events).reconnect
             /\ \E nick \in Nick \cup {NoNick} :
                   OpenLink(NewSession(nick), reconnect', {Plain("identity")})
    <3>1. PICK nick \in Nick \cup {NoNick} : OpenLink(NewSession(nick), reconnect', {Plain("identity")})
      BY <2>4
    <3>2. NewSession(nick) \in Session
      BY DEF NewSession, Session, NothingKnown, Limits
    <3>3. Plain("identity") \in Told
      BY DEF Told
    <3>4. reconnect' \in BOOLEAN /\ wanted' \subseteq Room
      BY <2>1, <2>4
    <3> HIDE DEF NewSession
    <3> QED
      BY <1>1, <2>2, <3>1, <3>2, <3>3, <3>4, OpenLinkType DEF CmdConnect, TypeOK, hubVars
  <2> QED
    BY <1>1, <2>3, <2>4 DEF CmdConnect
<1>2. CASE CmdDisconnect
  <2>1. Rest \in Seq(Event)
    BY <1>2, EntryType DEF CmdDisconnect, Command, Next1
  <2>2. Close(hub, Rest)
    BY <1>2 DEF CmdDisconnect
  <2>3. \/ hub \in Link /\ Forget(hub)
        \/ UNCHANGED hubVars
    BY <1>2 DEF CmdDisconnect, Live
  <2>4. welcomed' \subseteq Link /\ members' \in [Link -> SUBSET Room]
    BY <2>3, ForgetType DEF hubVars, TypeOK
  <2>5. State("down") \in Told
    BY DEF Told
  <2>6. told' \subseteq Told /\ mode' \in {"run", "stopping", "exited"}
    BY <1>2, <2>5, TellingType DEF CmdDisconnect
  <2> QED
    BY <1>2, <2>1, <2>2, <2>4, <2>6, CloseType DEF CmdDisconnect, TypeOK
<1>3. CASE CmdJoin
  <2> DEFINE r == Head(events).room
  <2>1. events # <<>> /\ r \in Room /\ (session # NoSession => session \in Session)
    BY <1>3, CommandTypes DEF CmdJoin
  <2>2. session # NoSession => JoinRoom(session, r) \in Outcomes
    BY <2>1, JoinRoomType
  <2>3. wanted \cup {r} \in SUBSET Room
    BY <2>1 DEF TypeOK
  <2> QED
    BY <1>3, <2>1, <2>2, <2>3, WithSessionType DEF CmdJoin
<1>4. CASE CmdPart
  <2> DEFINE r == Head(events).room
  <2>1. events # <<>> /\ r \in Room /\ (session # NoSession => session \in Session)
    BY <1>4, CommandTypes DEF CmdPart
  <2>2. session # NoSession => PartRoom(session, r) \in Outcomes
    BY <2>1, PartRoomType
  <2>3. wanted \ {r} \in SUBSET Room
    BY DEF TypeOK
  <2> QED
    BY <1>4, <2>1, <2>2, <2>3, WithSessionType DEF CmdPart
<1>5. CASE CmdSay
  <2>1. PICK fits \in BOOLEAN : WithSession(Say(session, Head(events).room, fits), wanted)
    BY <1>5 DEF CmdSay
  <2>2. events # <<>> /\ Head(events).room \in Room /\ (session # NoSession => session \in Session)
    BY <1>5, CommandTypes DEF CmdSay
  <2>3. session # NoSession => Say(session, Head(events).room, fits) \in Outcomes
    BY <2>2, TalkTypes
  <2>4. wanted \in SUBSET Room
    BY DEF TypeOK
  <2> QED
    BY <2>1, <2>2, <2>3, <2>4, WithSessionType
<1>6. CASE CmdDirect \/ CmdNick \/ CmdPing
  <2>1. events # <<>> /\ (session # NoSession => session \in Session) /\ wanted \in SUBSET Room
    BY <1>6 DEF CmdDirect, CmdNick, CmdPing, Command, Next1, TypeOK
  <2>2. \E o : WithSession(o, wanted) /\ (session # NoSession => o \in Outcomes)
    <3>1. CASE CmdDirect
      BY <2>1, <3>1, TalkTypes DEF CmdDirect
    <3>2. CASE CmdNick
      BY <2>1, <3>2, TalkTypes DEF CmdNick
    <3>3. CASE CmdPing
      BY <2>1, <3>3, TalkTypes DEF CmdPing
    <3> QED
      BY <1>6, <3>1, <3>2, <3>3
  <2> QED
    BY <2>1, <2>2, WithSessionType
<1>7. CASE CmdQuit
  BY <1>7, EntryType DEF CmdQuit, Command, Next1, TypeOK, hubVars
<1>8. CASE OnUp
  <2>1. events # <<>> /\ events' \in Seq(Event)
    BY <1>8, EntryType DEF OnUp, Next1
  <2>2. State("up") \in Told
    BY DEF Told
  <2>3. CASE session = NoSession
    <3>1. told' \subseteq Told /\ mode' \in {"run", "stopping", "exited"}
      BY <1>8, <2>2, <2>3, TellingType DEF OnUp
    <3> QED
      BY <1>8, <2>1, <2>3, <3>1 DEF OnUp, TypeOK, hubVars
  <2>4. CASE session # NoSession
    <3>1. Start(session) \in Outcomes
      BY <2>4, TalkTypes DEF TypeOK
    <3>2. Perform(Start(session), {State("up")}) /\ Greet(1)
      BY <1>8, <2>4 DEF OnUp
    <3>3. attempts' \in 0..HelloMaxAttempts /\ hellos' \in Nat
      BY <3>2, GreetType DEF HelloMaxAttempts
    <3> QED
      BY <1>8, <2>1, <2>2, <3>1, <3>2, <3>3, PerformType DEF OnUp, TypeOK, hubVars
  <2> QED
    BY <2>3, <2>4
<1>9. CASE OnHelloDue
  <2>1. events # <<>> /\ events' \in Seq(Event)
    BY <1>9, EntryType DEF OnHelloDue, Next1
  <2>2. CASE /\ Telling({}) \/ Telling({Error("silent")})
             /\ UNCHANGED <<session, toHub, greeted, attempts, hellos>>
    <3>1. Error("silent") \in Told
      BY DEF Told
    <3>2. told' \subseteq Told /\ mode' \in {"run", "stopping", "exited"}
      BY <2>2, <3>1, TellingType
    <3> QED
      BY <1>9, <2>1, <2>2, <3>2 DEF OnHelloDue, TypeOK, hubVars
  <2>3. CASE /\ session # NoSession /\ ~(attempts >= HelloMaxAttempts)
             /\ Perform(Start(session), {})
             /\ Greet(attempts + 1)
    <3>1. Start(session) \in Outcomes
      BY <2>3, TalkTypes DEF TypeOK
    <3>2. attempts + 1 \in 1..HelloMaxAttempts
      BY <2>3 DEF TypeOK, HelloMaxAttempts
    <3>3. attempts' \in 0..HelloMaxAttempts /\ hellos' \in Nat
      BY <2>3, <3>2, GreetType
    <3> QED
      BY <1>9, <2>1, <2>3, <3>1, <3>3, PerformType DEF OnHelloDue, TypeOK, hubVars
  <2> QED
    BY <1>9, <2>2, <2>3 DEF OnHelloDue
<1>10. CASE OnFrameEvent
  <2> DEFINE f == Head(events).frame
  <2>1. events # <<>> /\ events' \in Seq(Event) /\ f \in FromHub
    BY <1>10, EntryType, EventFields DEF OnFrameEvent, Next1
  <2>2. CASE session = NoSession
    <3>1. Telling({}) /\ UNCHANGED <<session, toHub, greeted>>
      BY <1>10, <2>2 DEF OnFrameEvent
    <3>2. told' \subseteq Told /\ mode' \in {"run", "stopping", "exited"}
      BY <3>1, TellingType
    <3> QED
      BY <1>10, <2>1, <3>1, <3>2 DEF OnFrameEvent, TypeOK, hubVars
  <2>3. CASE session # NoSession
    <3>1. session \in Session /\ wanted \in SUBSET Room
      BY <2>3 DEF TypeOK
    <3>2. \E o \in Outcomes : Perform(o, {})
      <4>1. CASE f.type = "WELCOME"
        <5>1. PICK order \in Orders(Asked(Welcomed(session, f.limits), wanted)) :
                  Perform(OnWelcome(session, f.limits, wanted, order), {})
          BY <1>10, <2>3, <4>1 DEF OnFrameEvent
        <5>2. f.limits \in Advertised
          BY <2>1, <4>1, FrameFields
        <5> QED
          BY <3>1, <5>1, <5>2, OnWelcomeType
      <4>2. CASE f.type # "WELCOME"
        <5>1. Perform(OnFrame(session, f), {})
          BY <1>10, <2>3, <4>2 DEF OnFrameEvent
        <5> QED
          BY <2>1, <3>1, <5>1, OnFrameType
      <4> QED
        BY <4>1, <4>2
    <3> QED
      BY <1>10, <2>1, <3>2, PerformType DEF OnFrameEvent, TypeOK, hubVars
  <2> QED
    BY <2>2, <2>3
<1>11. CASE OnDown
  <2>1. events # <<>> /\ events' \in Seq(Event)
    BY <1>11, EntryType DEF OnDown, Next1
  <2>2. session # NoSession => OnLinkDown(session) \in Outcomes
    BY OnLinkDownType DEF TypeOK
  <2>3. session' \in Session \cup {NoSession}
    BY <1>11, <2>2 DEF OnDown, Outcomes
  <2>4. Plain("reconnect") \in Told
    BY DEF Told
  <2> DEFINE S == (IF session = NoSession THEN {} ELSE OnLinkDown(session).told)
                  \cup IF reconnect THEN {Plain("reconnect")} ELSE {}
  <2>5. S \in SUBSET Told
    BY <2>2, <2>4 DEF Outcomes
  <2>6. Telling(S)
    BY <1>11 DEF OnDown
  <2>7. told' \subseteq Told /\ mode' \in {"run", "stopping", "exited"}
    BY <2>5, <2>6, TellingType
  <2>8. retries' \in Nat
    BY <1>11 DEF OnDown, TypeOK
  <2> QED
    BY <1>11, <2>1, <2>3, <2>7, <2>8 DEF OnDown, TypeOK, hubVars
<1>12. CASE OnRetry
  <2>1. events # <<>> /\ events' \in Seq(Event)
    BY <1>12, EntryType DEF OnRetry, Next1
  <2>2. OpenLink(session, reconnect, {}) /\ reconnect \in BOOLEAN /\ session \in Session \cup {NoSession}
    BY <1>12 DEF OnRetry, TypeOK
  <2> QED
    BY <1>12, <2>1, <2>2, OpenLinkType DEF OnRetry, TypeOK, hubVars
<1>13. CASE OnEof
  BY <1>13, EntryType DEF OnEof, Next1, TypeOK, hubVars
<1>14. CASE Exit
  <2>1. Close(hub, events) /\ events \in Seq(Event)
    BY <1>14 DEF Exit, TypeOK
  <2>2. \/ hub \in Link /\ Forget(hub)
        \/ UNCHANGED hubVars
    BY <1>14 DEF Exit, Live
  <2>3. welcomed' \subseteq Link /\ members' \in [Link -> SUBSET Room]
    BY <2>2, ForgetType DEF hubVars, TypeOK
  <2> QED
    BY <1>14, <2>1, <2>3, CloseType DEF Exit, TypeOK
<1> QED
  BY <1>1, <1>2, <1>3, <1>4, <1>5, <1>6, <1>7, <1>8, <1>9, <1>10, <1>11, <1>12, <1>13, <1>14 DEF MainLoop

\* Type correctness is an invariant of the helper.
THEOREM TypeCorrect == Spec => []TypeOK
<1>1. TypeOK /\ [Next]_vars => TypeOK'
  <2> SUFFICES ASSUME TypeOK, [Next]_vars PROVE TypeOK'
    OBVIOUS
  <2>1. CASE MainLoop
    BY <2>1, MainLoopType
  <2>2. CASE ReadCommand
    <3>1. PICK c \in Requests : events' = Append(events, c)
      BY <2>2 DEF ReadCommand
    <3>2. events' \in Seq(Event)
      BY <3>1, AppendProperties DEF TypeOK, Event
    <3> QED
      BY <2>2, <3>2 DEF ReadCommand, TypeOK, hubVars, loopVars
  <2>3. CASE ReadEof \/ RetryTimer \/ HelloTimer
    <3>1. Eof \in Event /\ Retry \in Event /\ HelloDue \in Event
      BY DEF Event
    <3>2. \E e \in Event : events' = Append(events, e)
      BY <2>3, <3>1 DEF ReadEof, RetryTimer, HelloTimer
    <3>3. events' \in Seq(Event)
      BY <3>2, AppendProperties DEF TypeOK
    <3>4. CASE ReadEof
      BY <3>3, <3>4 DEF ReadEof, TypeOK, hubVars, loopVars
    <3>5. CASE RetryTimer
      BY <3>3, <3>5 DEF RetryTimer, TypeOK, hubVars
    <3>6. CASE HelloTimer
      BY <3>3, <3>6, TimerBound DEF HelloTimer, TypeOK, hubVars
    <3> QED
      BY <2>3, <3>4, <3>5, <3>6
  <2>4. CASE PipeBreaks
    BY <2>4 DEF PipeBreaks, TypeOK, linkVars, hubVars, loopVars
  <2>5. CASE Net
    <3>1. PICK l \in Link : Network(l)
      BY <2>5 DEF Net
    <3>2. NetTypes
      BY <3>1, NetworkType
    <3> QED
      BY <2>5, <3>2 DEF Net, NetTypes, TypeOK, loopVars
  <2>6. CASE UNCHANGED vars
    BY <2>6 DEF vars, linkVars, hubVars, loopVars, TypeOK
  <2> QED
    BY <2>1, <2>2, <2>3, <2>4, <2>5, <2>6 DEF Next, Finished
<1> QED
  BY <1>1, TypeInit, PTL DEF Spec
=============================================================================
