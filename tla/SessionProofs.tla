---------------------------- MODULE SessionProofs ----------------------------
(***************************************************************************)
(* What the session takes over from one link to the next: nothing.  Its    *)
(* readiness and its rooms (SessionIsCurrent), the rooms the hub keeps it  *)
(* in (NoLingering) and its lag reports (PongIsCurrent of Helper), for     *)
(* every hub and every bound, each with the faults it excludes.            *)
(***************************************************************************)
EXTENDS LifelineProofs

-----------------------------------------------------------------------------
(* What the handlers that keep the link do to session, link and wanted     *)
(* rooms.                                                                  *)

\* Envelopes that ask for no room and no answer.
Chatter == {Hello, Direct, PongMsg} \cup {Chat(r) : r \in Room}

\* An outcome that leaves everything the hub may hold against it alone.
Neutral(s, o) ==
    /\ o.session.ready = s.ready /\ o.session.rooms = s.rooms
    /\ o.session.pings = s.pings
    /\ Range(o.tx) \subseteq Chatter

\* What a call sends, as a set.
LEMMA RangesOfCalls ==
    /\ Range(<<>>) = {}
    /\ \A m : Range(<<m>>) = {m}
<1>1. Range(<<>>) = {}
  BY DEF Range
<1>2. ASSUME NEW m PROVE Range(<<m>>) = {m}
  <2>1. DOMAIN <<m>> = {1} /\ <<m>>[1] = m
    OBVIOUS
  <2> QED
    BY <2>1 DEF Range
<1> QED
  BY <1>1, <1>2

\* Talk, a nickname and HELLO are neutral.
LEMMA NeutralOutcomes ==
    ASSUME NEW s \in Session, NEW fits \in BOOLEAN
    PROVE  /\ Neutral(s, Start(s)) /\ Neutral(s, SayDirect(s, fits))
           /\ \A r \in Room : Neutral(s, Say(s, r, fits))
           /\ \A n \in Nick : Neutral(s, SetNick(s, n, fits))
<1>1. \A m \in Chatter : Neutral(s, Transmit(s, m))
  BY RangesOfCalls DEF Neutral, Transmit, Outcome
<1>2. \A t \in Session : \A e : t.ready = s.ready /\ t.rooms = s.rooms /\ t.pings = s.pings
                             => Neutral(s, Emit(t, e))
  BY RangesOfCalls DEF Neutral, Emit, Outcome
<1>3. \A c : Neutral(s, Fail(s, c))
  BY <1>2 DEF Fail
<1>4. Neutral(s, Start(s)) /\ Neutral(s, SayDirect(s, fits))
  BY <1>1, <1>3 DEF Start, SayDirect, Chatter
<1>5. \A r \in Room : Neutral(s, Say(s, r, fits))
  BY <1>1, <1>3 DEF Say, Chatter
<1>6. ASSUME NEW n \in Nick PROVE Neutral(s, SetNick(s, n, fits))
  <2>1. [s EXCEPT !.nick = n] \in Session
    BY DEF Session
  <2>2. /\ [s EXCEPT !.nick = n].ready = s.ready /\ [s EXCEPT !.nick = n].rooms = s.rooms
        /\ [s EXCEPT !.nick = n].pings = s.pings
    BY DEF Session
  <2> QED
    BY <1>2, <1>3, <2>1, <2>2 DEF SetNick
<1> QED
  BY <1>4, <1>5, <1>6

\* join, for all rooms of a set, asks for some of them.
LEMMA JoinAllEffect ==
    ASSUME NEW s \in Session, NEW names \in SUBSET Room, NEW q \in Seq(names)
    PROVE  LET o == JoinAll(s, names, q)
           IN  /\ o.session.ready = s.ready /\ o.session.rooms = s.rooms
               /\ o.session.pings = s.pings
               /\ Range(o.tx) \subseteq {JoinMsg(r) : r \in names}
<1> DEFINE o == JoinAll(s, names, q)
<1>1. /\ o.session = [s EXCEPT !.pendingJoins = @ \cup Asked(s, names)]
      /\ o.tx = [i \in DOMAIN q |-> JoinMsg(q[i])]
  BY DEF JoinAll, Outcome
<1>2. o.session.ready = s.ready /\ o.session.rooms = s.rooms /\ o.session.pings = s.pings
  BY <1>1 DEF Session
<1>3. \A i \in DOMAIN q : q[i] \in names
  BY ElementOfSeq, LenProperties
<1>4. Range(o.tx) \subseteq {JoinMsg(r) : r \in names}
  BY <1>1, <1>3 DEF Range
<1> QED
  BY <1>2, <1>4

\* One room is a case of it.
LEMMA JoinRoomEffect ==
    ASSUME NEW s \in Session, NEW r \in Room
    PROVE  LET o == JoinRoom(s, r)
           IN  /\ o.session.ready = s.ready /\ o.session.rooms = s.rooms
               /\ o.session.pings = s.pings
               /\ Range(o.tx) \subseteq {JoinMsg(r)}
<1>1. {r} \in SUBSET Room /\ <<>> \in Seq({r}) /\ <<r>> \in Seq({r})
  OBVIOUS
<1>2. PICK q \in Seq({r}) : JoinRoom(s, r) = JoinAll(s, {r}, q)
  BY <1>1 DEF JoinRoom
<1> DEFINE o == JoinAll(s, {r}, q)
<1>3. /\ o.session.ready = s.ready /\ o.session.rooms = s.rooms
      /\ o.session.pings = s.pings
      /\ Range(o.tx) \subseteq {JoinMsg(x) : x \in {r}}
  BY <1>1, JoinAllEffect
<1>4. {JoinMsg(x) : x \in {r}} = {JoinMsg(r)}
  OBVIOUS
<1> QED
  BY <1>2, <1>3, <1>4

\* part and ping transmit one envelope each and leave the rooms alone.
LEMMA PartAndPingEffect ==
    ASSUME NEW s \in Session
    PROVE  /\ \A r \in Room : LET o == PartRoom(s, r)
                              IN  /\ o.session.ready = s.ready /\ o.session.rooms = s.rooms
                                  /\ o.session.pings = s.pings
                                  /\ Range(o.tx) = {PartMsg(r)}
           /\ \A t \in Token : LET o == Ping(s, t)
                               IN  /\ o.session.ready = s.ready /\ o.session.rooms = s.rooms
                                   /\ o.session.pings = s.pings \cup {t}
                                   /\ Range(o.tx) = {PingMsg(t)}
<1>1. ASSUME NEW r \in Room
      PROVE  LET o == PartRoom(s, r)
             IN  /\ o.session.ready = s.ready /\ o.session.rooms = s.rooms
                 /\ o.session.pings = s.pings
                 /\ Range(o.tx) = {PartMsg(r)}
  <2>1. /\ PartRoom(s, r).session = [s EXCEPT !.pendingParts = @ \cup {r}]
        /\ PartRoom(s, r).tx = <<PartMsg(r)>>
    BY DEF PartRoom, Transmit, Outcome
  <2> QED
    BY <2>1, RangesOfCalls DEF Session
<1>2. ASSUME NEW t \in Token
      PROVE  LET o == Ping(s, t)
             IN  /\ o.session.ready = s.ready /\ o.session.rooms = s.rooms
                 /\ o.session.pings = s.pings \cup {t}
                 /\ Range(o.tx) = {PingMsg(t)}
  <2>1. /\ Ping(s, t).session = [s EXCEPT !.pings = @ \cup {t}]
        /\ Ping(s, t).tx = <<PingMsg(t)>>
    BY DEF Ping, Transmit, Outcome
  <2> QED
    BY <2>1, RangesOfCalls DEF Session
<1> QED
  BY <1>1, <1>2

\* A frame other than WELCOME makes no session ready, adds no room but the one
\* of a JOINED, no ping, and has no room asked for.
LEMMA OnFrameEffect ==
    ASSUME NEW s \in Session, NEW f \in FromHub
    PROVE  LET o == OnFrame(s, f)
           IN  /\ o.session.ready = s.ready
               /\ o.session.rooms \subseteq s.rooms \/ f.type = "JOINED"
               /\ o.session.pings \subseteq s.pings
               /\ Range(o.tx) \subseteq Chatter
<1> DEFINE Keeps(o) == /\ o.session.ready = s.ready
                       /\ o.session.rooms \subseteq s.rooms \/ f.type = "JOINED"
                       /\ o.session.pings \subseteq s.pings
                       /\ Range(o.tx) \subseteq Chatter
<1>1. ASSUME NEW t \in Session, NEW e, t.ready = s.ready, t.pings \subseteq s.pings,
             t.rooms \subseteq s.rooms \/ f.type = "JOINED"
      PROVE  Keeps(Emit(t, e))
  BY <1>1, RangesOfCalls DEF Emit, Outcome
<1>2. Keeps(Silently(s))
  BY RangesOfCalls DEF Silently, Outcome
<1>3. Keeps(Transmit(s, PongMsg))
  BY RangesOfCalls DEF Transmit, Outcome, Chatter
<1> HIDE DEF Keeps
<1>4. CASE f.type = "JOINED"
  <2> DEFINE t == [s EXCEPT !.pendingJoins = @ \ {f.room}, !.rooms = @ \cup {f.room}]
  <2>1. t \in Session /\ t.ready = s.ready /\ t.pings = s.pings
    BY <1>4, FrameFields DEF Session
  <2>2. Keeps(OnJoined(s, f.room))
    <3> HIDE DEF t
    <3>1. Keeps(Emit(t, AboutRoom("joined", f.room))) /\ Keeps(Emit(s, AboutRoom("join", f.room)))
      BY <1>1, <1>4, <2>1
    <3> QED
      BY <3>1 DEF OnJoined, t
  <2> QED
    BY <1>4, <2>2 DEF OnFrame, Keeps
<1>5. CASE f.type = "PARTED"
  <2> DEFINE t == [s EXCEPT !.pendingParts = @ \ {f.room}, !.rooms = @ \ {f.room}]
  <2>1. t \in Session /\ t.ready = s.ready /\ t.pings = s.pings /\ t.rooms \subseteq s.rooms
    BY DEF Session
  <2>2. Keeps(OnParted(s, f.room))
    <3> HIDE DEF t
    <3>1. Keeps(Emit(t, AboutRoom("parted", f.room))) /\ Keeps(Emit(s, AboutRoom("part", f.room)))
      BY <1>1, <2>1
    <3> QED
      BY <3>1 DEF OnParted, t
  <2> QED
    BY <1>5, <2>2 DEF OnFrame, Keeps
<1>6. CASE f.type = "PONG"
  <2> DEFINE t == [s EXCEPT !.pings = @ \ {f.token}]
  <2>1. t \in Session /\ t.ready = s.ready /\ t.pings \subseteq s.pings /\ t.rooms = s.rooms
    BY DEF Session
  <2>2. Keeps(OnPong(s, f.token))
    <3> HIDE DEF t
    <3>1. Keeps(Emit(t, Plain("pong")))
      BY <1>1, <2>1
    <3> QED
      BY <1>2, <3>1 DEF OnPong, t
  <2> QED
    BY <1>6, <2>2 DEF OnFrame, Keeps
<1>7. CASE f.type \notin {"JOINED", "PARTED", "PONG"}
  <2>1. \A e : Keeps(Emit(s, e))
    BY <1>1
  <2> QED
    BY <1>2, <1>3, <1>7, <2>1 DEF OnFrame, Fail, Keeps
<1> QED
  BY <1>4, <1>5, <1>6, <1>7 DEF Keeps

\* WELCOME makes the session ready and asks for wanted rooms only.
LEMMA OnWelcomeEffect ==
    ASSUME NEW s \in Session, NEW limits \in Advertised, NEW names \in SUBSET Room,
           NEW q \in Orders(Asked(Welcomed(s, limits), names))
    PROVE  LET o == OnWelcome(s, limits, names, q)
           IN  /\ o.session.rooms = s.rooms
               /\ o.session.pings = s.pings
               /\ Range(o.tx) \subseteq {JoinMsg(r) : r \in names}
<1> DEFINE w == Welcomed(s, limits)
           o == JoinAll(w, names, q)
<1>1. w \in Session /\ w.rooms = s.rooms /\ w.pings = s.pings
  BY WelcomedType DEF Welcomed, Session
<1>2. q \in Seq(names)
  <2>1. Asked(w, names) \in SUBSET Room /\ Asked(w, names) \subseteq names
    BY DEF Asked
  <2>2. Cardinality(Asked(w, names)) \in Nat
    BY <2>1, RoomsFinite, FS_Subset, FS_CardinalityType
  <2>3. q \in [1..Cardinality(Asked(w, names)) -> Asked(w, names)]
    BY DEF Orders
  <2> QED
    BY <2>1, <2>2, <2>3, IsASeq, SeqMonotonic
<1>3. o.session.rooms = s.rooms /\ o.session.pings = s.pings
      /\ Range(o.tx) \subseteq {JoinMsg(r) : r \in names}
  <2> HIDE DEF w
  <2> QED
    BY <1>1, <1>2, JoinAllEffect
<1>4. OnWelcome(s, limits, names, q).session = o.session /\ OnWelcome(s, limits, names, q).tx = o.tx
  BY DEF OnWelcome, Outcome
<1> QED
  BY <1>3, <1>4

\* What the outcome of a handler may be: only a WELCOME makes ready, only a
\* JOINED brings a room; rooms asked for are wanted and rooms no longer wanted
\* are left; a ping's token is fresh.
Effect(o) ==
    /\ o.session.ready =>
           session.ready \/ (Head(events).kind = "frame" /\ Head(events).frame.type = "WELCOME")
    /\ o.session.rooms \subseteq session.rooms
           \/ (Head(events).kind = "frame" /\ Head(events).frame.type = "JOINED")
    /\ \A r \in Room : JoinMsg(r) \in Range(o.tx) => r \in wanted'
    /\ \A r \in wanted \ wanted' : PartMsg(r) \in Range(o.tx)
    /\ \A t \in Token : PingMsg(t) \in Range(o.tx) => FreshToken(t)
    /\ o.session.pings \subseteq session.pings \cup {t \in Token : FreshToken(t)}

Idle == session' = session /\ toHub' = toHub /\ wanted' = wanted

\* Neutral outcomes qualify, and those that send only what they may.
LEMMA EffectOf ==
    ASSUME NEW o, o.session.ready = session.ready \/ (Head(events).kind = "frame" /\ Head(events).frame.type = "WELCOME"),
           o.session.rooms \subseteq session.rooms
               \/ (Head(events).kind = "frame" /\ Head(events).frame.type = "JOINED"),
           o.session.pings \subseteq session.pings,
           Range(o.tx) \subseteq Chatter \cup {JoinMsg(r) : r \in wanted'} \cup {PartMsg(r) : r \in Room},
           \A r \in wanted \ wanted' : PartMsg(r) \in Range(o.tx)
    PROVE  Effect(o)
<1>1. \A t \in Token : PingMsg(t) \notin Range(o.tx)
  BY DEF PingMsg, Chatter, Hello, Direct, PongMsg, Chat, JoinMsg, PartMsg
<1>2. \A r \in Room : JoinMsg(r) \in Range(o.tx) => r \in wanted'
  BY DEF Chatter, Hello, Direct, PongMsg, Chat, JoinMsg, PartMsg
<1> QED
  BY <1>1, <1>2 DEF Effect

\* A command with a session has its outcome's effect; without one it is idle.
LEMMA CommandEffect ==
    ASSUME TypeOK, NEW o, NEW keep, WithSession(o, keep),
           session # NoSession /\ wanted' = keep => o \in Outcomes /\ Effect(o)
    PROVE  \/ Idle
           \/ /\ session # NoSession
              /\ \E p \in Outcomes : session' = p.session /\ Send(hub, p.tx) /\ Effect(p)
BY DEF WithSession, Idle, Perform

\* Every handler that keeps the link is idle or has such an outcome.
LEMMA HandlerEffect ==
    ASSUME TypeOK, PlainHandler
    PROVE  /\ UNCHANGED hubVars
           /\ \/ Idle
              \/ /\ session # NoSession
                 /\ \E o \in Outcomes : session' = o.session /\ Send(hub, o.tx) /\ Effect(o)
<1> DEFINE Does == \/ Idle
                   \/ /\ session # NoSession
                      /\ \E o \in Outcomes : session' = o.session /\ Send(hub, o.tx) /\ Effect(o)
<1>1. UNCHANGED hubVars
  BY DEF PlainHandler, CmdJoin, CmdPart, CmdSay, CmdDirect, CmdNick, CmdPing, CmdQuit,
         WithSession, OnUp, OnHelloDue, OnFrameEvent, OnEof
<1>. SUFFICES Does
  BY <1>1
<1>2. session # NoSession => session \in Session
  BY DEF TypeOK
<1>3. wanted \in SUBSET Room
  BY DEF TypeOK
<1>4. ASSUME session # NoSession, NEW o \in Outcomes, Neutral(session, o), wanted' = wanted
      PROVE  Effect(o)
  BY <1>4, EffectOf DEF Neutral
<1>5. CASE CmdJoin
  <2> DEFINE r == Head(events).room
             o == JoinRoom(session, r)
  <2>1. r \in Room
    BY <1>5, CommandTypes DEF CmdJoin
  <2>2. WithSession(o, wanted \cup {r})
    BY <1>5 DEF CmdJoin
  <2>3. ASSUME session # NoSession, wanted' = wanted \cup {r}
        PROVE  o \in Outcomes /\ Effect(o)
    <3>1. /\ o.session.ready = session.ready /\ o.session.rooms = session.rooms
          /\ o.session.pings = session.pings /\ Range(o.tx) \subseteq {JoinMsg(r)}
      BY <1>2, <2>1, <2>3, JoinRoomEffect
    <3>2. o \in Outcomes
      BY <1>2, <2>1, <2>3, JoinRoomType
    <3> HIDE DEF o
    <3> QED
      BY <2>3, <3>1, <3>2, EffectOf
  <2> QED
    BY <2>2, <2>3, CommandEffect
<1>6. CASE CmdPart
  <2> DEFINE r == Head(events).room
             o == PartRoom(session, r)
  <2>1. r \in Room
    BY <1>6, CommandTypes DEF CmdPart
  <2>2. WithSession(o, wanted \ {r})
    BY <1>6 DEF CmdPart
  <2>3. ASSUME session # NoSession, wanted' = wanted \ {r}
        PROVE  o \in Outcomes /\ Effect(o)
    <3>1. /\ o.session.ready = session.ready /\ o.session.rooms = session.rooms
          /\ o.session.pings = session.pings /\ Range(o.tx) = {PartMsg(r)}
      BY <1>2, <2>1, <2>3, PartAndPingEffect
    <3>2. o \in Outcomes
      BY <1>2, <2>1, <2>3, PartRoomType
    <3> HIDE DEF o
    <3> QED
      BY <2>1, <2>3, <3>1, <3>2, EffectOf
  <2> QED
    BY <2>2, <2>3, CommandEffect
<1>7. CASE CmdSay
  <2>1. PICK fits \in BOOLEAN : WithSession(Say(session, Head(events).room, fits), wanted)
    BY <1>7 DEF CmdSay
  <2>2. Head(events).room \in Room
    BY <1>7, CommandTypes DEF CmdSay
  <2>3. session # NoSession => /\ Say(session, Head(events).room, fits) \in Outcomes
                               /\ Neutral(session, Say(session, Head(events).room, fits))
    BY <1>2, <2>2, TalkTypes, NeutralOutcomes
  <2> QED
    BY <1>4, <2>1, <2>3, CommandEffect
<1>8. CASE CmdDirect
  <2>1. PICK fits \in BOOLEAN : WithSession(SayDirect(session, fits), wanted)
    BY <1>8 DEF CmdDirect
  <2>2. session # NoSession => /\ SayDirect(session, fits) \in Outcomes
                               /\ Neutral(session, SayDirect(session, fits))
    BY <1>2, TalkTypes, NeutralOutcomes
  <2> QED
    BY <1>4, <2>1, <2>2, CommandEffect
<1>9. CASE CmdNick
  <2>1. PICK n \in Nick, fits \in BOOLEAN : WithSession(SetNick(session, n, fits), wanted)
    BY <1>9 DEF CmdNick
  <2>2. session # NoSession => /\ SetNick(session, n, fits) \in Outcomes
                               /\ Neutral(session, SetNick(session, n, fits))
    BY <1>2, TalkTypes, NeutralOutcomes
  <2> QED
    BY <1>4, <2>1, <2>2, CommandEffect
<1>10. CASE CmdPing
  <2>1. PICK t \in Token : FreshToken(t) /\ WithSession(Ping(session, t), wanted)
    BY <1>10 DEF CmdPing
  <2> DEFINE o == Ping(session, t)
  <2>2. ASSUME session # NoSession, wanted' = wanted
        PROVE  o \in Outcomes /\ Effect(o)
    <3>1. /\ o.session.ready = session.ready /\ o.session.rooms = session.rooms
          /\ o.session.pings = session.pings \cup {t} /\ Range(o.tx) = {PingMsg(t)}
      BY <1>2, <2>2, PartAndPingEffect
    <3>2. o \in Outcomes
      BY <1>2, <2>2, TalkTypes
    <3>3. \A r \in Room : JoinMsg(r) # PingMsg(t)
      BY DEF JoinMsg, PingMsg
    <3>4. \A u \in Token : PingMsg(u) = PingMsg(t) => u = t
      BY DEF PingMsg
    <3> HIDE DEF o
    <3> QED
      BY <2>1, <2>2, <3>1, <3>2, <3>3, <3>4 DEF Effect
  <2> QED
    BY <2>1, <2>2, CommandEffect
<1>11. CASE CmdQuit \/ OnEof
  BY <1>11 DEF CmdQuit, OnEof, Idle
<1>12. CASE OnUp
  <2>1. session # NoSession => Start(session) \in Outcomes /\ Neutral(session, Start(session))
    BY <1>2, TalkTypes, NeutralOutcomes
  <2> QED
    BY <1>4, <1>12, <2>1 DEF OnUp, Idle, Perform
<1>13. CASE OnHelloDue
  <2>1. session # NoSession => Start(session) \in Outcomes /\ Neutral(session, Start(session))
    BY <1>2, TalkTypes, NeutralOutcomes
  <2>2. wanted' = wanted
    BY <1>13 DEF OnHelloDue
  <2>3. \/ UNCHANGED <<session, toHub>>
        \/ session # NoSession /\ Perform(Start(session), {})
    BY <1>13 DEF OnHelloDue
  <2> QED
    BY <1>4, <2>1, <2>2, <2>3 DEF Idle, Perform
<1>14. CASE OnFrameEvent
  <2> DEFINE f == Head(events).frame
  <2>1. f \in FromHub /\ Head(events).kind = "frame" /\ wanted' = wanted
    BY <1>14, EntryType, EventFields DEF OnFrameEvent, Next1
  <2>2. CASE session = NoSession
    BY <1>14, <2>2 DEF OnFrameEvent, Idle
  <2>3. CASE session # NoSession /\ f.type = "WELCOME"
    <3>1. PICK q \in Orders(Asked(Welcomed(session, f.limits), wanted)) :
              Perform(OnWelcome(session, f.limits, wanted, q), {})
      BY <1>14, <2>3 DEF OnFrameEvent
    <3>2. f.limits \in Advertised
      BY <2>1, <2>3, FrameFields
    <3> DEFINE o == OnWelcome(session, f.limits, wanted, q)
    <3>3. o \in Outcomes
      BY <1>2, <1>3, <2>3, <3>2, OnWelcomeType
    <3>4. /\ o.session.rooms = session.rooms /\ o.session.pings = session.pings
          /\ Range(o.tx) \subseteq {JoinMsg(r) : r \in wanted}
      BY <1>2, <1>3, <2>3, <3>2, OnWelcomeEffect
    <3> HIDE DEF o
    <3>5. Effect(o)
      BY <2>1, <2>3, <3>4, EffectOf
    <3> QED
      BY <2>3, <3>1, <3>3, <3>5 DEF Perform, o
  <2>4. CASE session # NoSession /\ f.type # "WELCOME"
    <3> DEFINE o == OnFrame(session, f)
    <3>1. Perform(o, {})
      BY <1>14, <2>4 DEF OnFrameEvent
    <3>2. o \in Outcomes
      BY <1>2, <2>1, <2>4, OnFrameType
    <3>3. /\ o.session.ready = session.ready
          /\ o.session.rooms \subseteq session.rooms \/ f.type = "JOINED"
          /\ o.session.pings \subseteq session.pings /\ Range(o.tx) \subseteq Chatter
      BY <1>2, <2>1, <2>4, OnFrameEffect
    <3> HIDE DEF o
    <3>4. Effect(o)
      BY <2>1, <2>4, <3>3, EffectOf
    <3> QED
      BY <2>4, <3>1, <3>2, <3>4 DEF Perform
  <2> QED
    BY <2>2, <2>3, <2>4
<1> QED
  BY <1>1, <1>5, <1>6, <1>7, <1>8, <1>9, <1>10, <1>11, <1>12, <1>13, <1>14 DEF PlainHandler

\* What a step of the network queues: an entry of its own link, and a frame
\* only of an active one; a WELCOME of one the hub has welcomed, a PONG for
\* the PING that was on its way.
LEMMA NetworkFrames ==
    ASSUME TypeOK, NEW l \in Link, Network(l), ~HubClosed(l)
    PROVE  \/ events' = events
           \/ Callback(Up(l))
           \/ /\ status[l] = "active"
              /\ \E f \in FromHub :
                    /\ Callback(Frame(l, f))
                    /\ f.type = "WELCOME" => l \in welcomed'
                    /\ f.type = "PONG" => toHub[l] # <<>> /\ Head(toHub[l]) = PingMsg(f.token)
<1> DEFINE Frames == /\ status[l] = "active"
                     /\ \E f \in FromHub :
                           /\ Callback(Frame(l, f))
                           /\ f.type = "WELCOME" => l \in welcomed'
                           /\ f.type = "PONG" => toHub[l] # <<>> /\ Head(toHub[l]) = PingMsg(f.token)
<1>. SUFFICES events' = events \/ Callback(Up(l)) \/ Frames
  OBVIOUS
<1>1. ASSUME NEW f \in FromHub, f.type \notin {"WELCOME", "PONG"}, Packet(l, f), status[l] = "active"
      PROVE  Frames
  BY <1>1 DEF Packet
<1> HIDE DEF Frames
<1>2. Bare("ERROR") \in FromHub /\ Bare("ERROR").type = "ERROR"
  BY BareFrames DEF Bare
<1>3. CASE Established(l)
  BY <1>3 DEF Established
<1>4. CASE Lose(l)
  BY <1>4 DEF Lose
<1>5. CASE HubHello(l)
  <2>1. PICK limits \in Advertised : Reply(l, Welcome(limits))
    BY <1>5 DEF HubHello
  <2>2. Welcome(limits) \in FromHub /\ Welcome(limits).type = "WELCOME"
    BY DEF Welcome, FromHub
  <2>3. status[l] = "active" /\ l \in welcomed'
    BY <1>5 DEF HubHello, Receive
  <2> QED
    BY <2>1, <2>2, <2>3 DEF Reply, Packet, Frames
<1>6. CASE HubJoin(l)
  <2>1. Receive(l, "JOIN")
    BY <1>6 DEF HubJoin
  <2>2. Head(toHub[l]).room \in Room
    BY <2>1, ReceiveType, MessageFields
  <2>3. Joined(Head(toHub[l]).room, TRUE) \in FromHub /\ Joined(Head(toHub[l]).room, TRUE).type = "JOINED"
    BY <2>2, RoomFrames DEF Joined
  <2> QED
    BY <1>1, <1>2, <1>6, <2>1, <2>3 DEF HubJoin, Reply, Receive
<1>7. CASE HubPart(l)
  <2>1. Receive(l, "PART")
    BY <1>7 DEF HubPart
  <2>2. Head(toHub[l]).room \in Room
    BY <2>1, ReceiveType, MessageFields
  <2>3. Parted(Head(toHub[l]).room, TRUE) \in FromHub /\ Parted(Head(toHub[l]).room, TRUE).type = "PARTED"
    BY <2>2, RoomFrames DEF Parted
  <2> QED
    BY <1>1, <1>2, <1>7, <2>1, <2>3 DEF HubPart, Reply, Receive
<1>8. CASE HubOther(l)
  <2>1. CASE Receive(l, "PING") /\ Reply(l, [type |-> "PONG", token |-> Head(toHub[l]).token])
    <3> DEFINE f == [type |-> "PONG", token |-> Head(toHub[l]).token]
    <3>1. Head(toHub[l]) \in ToHub /\ Head(toHub[l]).type = "PING"
      BY <2>1, ReceiveType
    <3>2. f \in FromHub
      BY <3>1, MessageFields DEF FromHub
    <3>3. Head(toHub[l]) = PingMsg(f.token)
      BY <3>1 DEF ToHub, Hello, Direct, PongMsg, JoinMsg, PartMsg, Chat, PingMsg
    <3>4. status[l] = "active" /\ toHub[l] # <<>>
      BY <2>1 DEF Receive
    <3> QED
      BY <2>1, <3>2, <3>3, <3>4 DEF Reply, Packet, Frames
  <2>2. CASE UNCHANGED events
    BY <2>2
  <2>3. CASE status[l] = "active" /\ Reply(l, Bare("ERROR"))
    <3> QED
      BY <1>1, <1>2, <2>3 DEF Reply
  <2> QED
    BY <1>8, <2>1, <2>2, <2>3 DEF HubOther, Receive
<1>9. CASE HubTalks(l)
  <2>1. \A r \in members[l] :
            /\ r \in Room /\ [type |-> "CHAT", room |-> r] \in FromHub
            /\ Joined(r, FALSE).type = "JOINED" /\ Parted(r, FALSE).type = "PARTED"
    BY DEF TypeOK, FromHub, Joined, Parted
  <2>2. \A type \in {"DIRECT", "PING", "ERROR", "IGNORED"} :
            Bare(type) \in FromHub /\ Bare(type).type = type
    BY BareFrames DEF Bare
  <2>3. status[l] = "active" /\ \E f \in FromHub : f.type \notin {"WELCOME", "PONG"} /\ Packet(l, f)
    BY <1>9, <2>1, <2>2, RoomFrames DEF HubTalks
  <2> QED
    BY <1>1, <2>3
<1> QED
  BY <1>3, <1>4, <1>5, <1>6, <1>7, <1>8, <1>9 DEF Network

-----------------------------------------------------------------------------
(* Readiness and rooms belong to the link in hand.                         *)

\* SessionIsCurrent is not inductive: a WELCOME or JOINED of an earlier link
\* may be on the queue.  But then that link's end is queued behind it, as
\* long as Reticulum's threads keep their order, and what the frame does to
\* the session is undone before the session is next used on a link.
Downs(q) == \E e \in Range(q) : e.kind = "down"
Fine(q, S) == \A i \in DOMAIN q : q[i] \in S \/ \E j \in DOMAIN q : j > i /\ q[j].kind = "down"

CurrentEntries ==
    {e \in Event : e.kind = "frame" =>
         e.link \in Live /\ (e.frame.type = "WELCOME" => e.link \in welcomed)}

Belongs == session # NoSession =>
    /\ session.ready => hub \in welcomed \/ Downs(events)
    /\ session.rooms # {} => hub \in Live \/ Downs(events)

CurrentInv == Fine(events, CurrentEntries) /\ welcomed \subseteq Live /\ Belongs

\* Adding and taking entries.
LEMMA FineQueues ==
    ASSUME NEW S, NEW T, NEW q \in Seq(Event), NEW e \in T, T \subseteq Event, Fine(q, S)
    PROVE  /\ S \subseteq T \/ e.kind = "down" => Fine(Append(q, e), T)
           /\ q # <<>> /\ S \subseteq T => Fine(Tail(q), T)
           /\ q # <<>> => Head(q) \in S \/ Downs(Tail(q))
<1>1. DOMAIN q = 1..Len(q) /\ Len(q) \in Nat /\ e \in Event
  BY LenProperties
<1>2. ASSUME S \subseteq T \/ e.kind = "down" PROVE Fine(Append(q, e), T)
  <2> DEFINE p == Append(q, e)
  <2>1. /\ DOMAIN p = 1..(Len(q) + 1)
        /\ \A i \in 1..Len(q) : p[i] = q[i]
        /\ p[Len(q) + 1] = e
    BY <1>1, AppendProperties, LenProperties
  <2> HIDE DEF p
  <2> SUFFICES ASSUME NEW i \in 1..Len(q)
               PROVE  p[i] \in T \/ \E j \in DOMAIN p : j > i /\ p[j].kind = "down"
    BY <1>1, <2>1 DEF Fine, p
  <2>2. CASE e.kind = "down"
    BY <1>1, <2>1, <2>2
  <2>3. CASE S \subseteq T
    BY <1>1, <2>1, <2>3 DEF Fine
  <2> QED
    BY <1>2, <2>2, <2>3
<1>3. ASSUME q # <<>>
      PROVE  /\ S \subseteq T => Fine(Tail(q), T)
             /\ Head(q) \in S \/ Downs(Tail(q))
  <2> DEFINE p == Tail(q)
  <2>1. /\ Len(q) # 0 /\ Head(q) = q[1] /\ DOMAIN p = 1..(Len(q) - 1)
        /\ \A i \in 1..(Len(q) - 1) : p[i] = q[i + 1]
    <3>1. Len(q) # 0
      BY <1>3, EmptySeq
    <3>2. p \in Seq(Event) /\ Len(p) = Len(q) - 1 /\ \A i \in 1..Len(p) : p[i] = q[i + 1]
      BY <1>3, HeadTailProperties
    <3> QED
      BY <3>1, <3>2, LenProperties
  <2> HIDE DEF p
  <2>2. \A j \in DOMAIN q : j > 1 => j - 1 \in DOMAIN p /\ p[j - 1] = q[j]
    BY <1>1, <2>1
  <2>3. ASSUME S \subseteq T, NEW i \in DOMAIN p
        PROVE  p[i] \in T \/ \E j \in DOMAIN p : j > i /\ p[j].kind = "down"
    <3>1. i + 1 \in DOMAIN q /\ p[i] = q[i + 1]
      BY <1>1, <2>1
    <3>2. CASE q[i + 1] \in S
      BY <2>3, <3>1, <3>2
    <3>3. CASE \E j \in DOMAIN q : j > i + 1 /\ q[j].kind = "down"
      <4>1. PICK j \in DOMAIN q : j > i + 1 /\ q[j].kind = "down"
        BY <3>3
      <4>2. j - 1 \in DOMAIN p /\ p[j - 1] = q[j] /\ j - 1 > i
        BY <1>1, <2>1, <2>2, <4>1
      <4> QED
        BY <4>1, <4>2
    <3> QED
      BY <3>1, <3>2, <3>3 DEF Fine
  <2>4. Head(q) \in S \/ Downs(p)
    <3>1. 1 \in DOMAIN q
      BY <1>1, <2>1
    <3>2. ASSUME NEW j \in DOMAIN q, j > 1, q[j].kind = "down" PROVE Downs(p)
      <4>1. j - 1 \in DOMAIN p /\ p[j - 1] = q[j]
        BY <2>2, <3>2
      <4> QED
        BY <3>2, <4>1 DEF Downs, Range
    <3> QED
      BY <2>1, <3>1, <3>2 DEF Fine
  <2> QED
    BY <2>3, <2>4 DEF Fine, p
<1> QED
  BY <1>2, <1>3

\* What of a queue's ends is left when an entry is added or taken.
LEMMA DownsOf ==
    ASSUME NEW q \in Seq(Event), NEW e \in Event
    PROVE  /\ Downs(Append(q, e)) <=> Downs(q) \/ e.kind = "down"
           /\ q # <<>> /\ Head(q).kind # "down" => (Downs(Tail(q)) <=> Downs(q))
           /\ Downs(q) => Waits(q) # {}
<1>1. Downs(q) => Waits(q) # {}
  BY DEF Downs, Waits, Range, Reopens
<1> QED
  BY <1>1, QueueRanges DEF Downs

\* What the hub holds grows with the links, so what is current stays so.
LEMMA CurrentGrows ==
    ASSUME Live \subseteq Live', welcomed \subseteq welcomed'
    PROVE  CurrentEntries \subseteq CurrentEntries'
BY DEF CurrentEntries

\* An entry that is no frame is current.
LEMMA OthersAreCurrent ==
    \A e \in Event : e.kind # "frame" => e \in CurrentEntries /\ e \in CurrentEntries'
BY DEF CurrentEntries

\* The first entry of a queue in which nothing else waits to open a link.
LEMMA NothingEnds ==
    ASSUME TypeOK, events # <<>>, Waits(Rest) = {}, Head(events).kind # "down"
    PROVE  ~Downs(events) /\ ~Downs(Rest)
BY EntryType, DownsOf DEF TypeOK, Rest

\* Closing the link in hand leaves the invariant, whatever the helper then
\* takes for its link.
LEMMA CloseCurrent ==
    ASSUME TypeOK, LifelineInv, CurrentInv, NEW rest \in Seq(Event), Fine(rest, CurrentEntries),
           Downs(events) => Downs(rest), Close(hub, rest),
           IF hub \in Live THEN Forget(hub) ELSE UNCHANGED hubVars,
           session' = session
    PROVE  CurrentInv'
<1>1. CASE hub \in Live
  <2>1. Live = {hub} /\ hub \in Link
    BY <1>1 DEF LifelineInv, Exclusive, Live
  <2>2. events' = Append(rest, Down(hub)) /\ status' = [status EXCEPT ![hub] = "closed"]
    BY <1>1 DEF Close
  <2>3. Live' = {} /\ welcomed' = {}
    BY <1>1, <2>1, <2>2 DEF Live, TypeOK, Forget, CurrentInv
  <2>4. Down(hub) \in Event /\ Down(hub).kind = "down"
    BY <2>1 DEF Event, LinkEvent, Down
  <2>5. Fine(events', CurrentEntries') /\ Downs(events')
    <3>1. Down(hub) \in CurrentEntries' /\ CurrentEntries' \subseteq Event
      BY <2>4 DEF CurrentEntries
    <3> QED
      BY <2>2, <2>4, <3>1, FineQueues, DownsOf
  <2> QED
    BY <2>3, <2>5 DEF CurrentInv, Belongs
<1>2. CASE hub \notin Live
  <2>1. Live = {} /\ events' = rest /\ Live' = {} /\ welcomed' = welcomed
    BY <1>2 DEF LifelineInv, NoOrphan, Close, Live, hubVars
  <2>2. CurrentEntries' = CurrentEntries
    BY <2>1 DEF CurrentEntries
  <2> QED
    BY <2>1, <2>2 DEF CurrentInv, Belongs
<1> QED
  BY <1>1, <1>2

\* The handlers that keep the link: a WELCOME or JOINED comes from the link in
\* hand, or is followed by an end.
LEMMA PlainCurrent ==
    ASSUME TypeOK, LifelineInv, CurrentInv, PlainHandler
    PROVE  CurrentInv'
<1>1. events # <<>> /\ events' = Rest /\ Live' = Live /\ hub' = hub
  BY PlainFacts
<1>2. welcomed' = welcomed
  BY HandlerEffect DEF hubVars
<1>3. events \in Seq(Event) /\ Head(events) \in Event /\ CurrentEntries' = CurrentEntries
      /\ CurrentEntries \subseteq Event
  BY <1>1, <1>2, EntryType DEF TypeOK, CurrentEntries
<1>4. Fine(events', CurrentEntries') /\ (Head(events) \in CurrentEntries \/ Downs(Rest))
  <2>1. Eof \in CurrentEntries
    BY DEF CurrentEntries, Event, Eof
  <2> QED
    BY <1>1, <1>3, <2>1, FineQueues DEF CurrentInv, Rest
<1>5. Downs(events) => Downs(events')
  <2>1. Head(events).kind # "down"
    BY DEF PlainHandler, CmdJoin, CmdPart, CmdSay, CmdDirect, CmdNick, CmdPing, CmdQuit,
           OnUp, OnHelloDue, OnFrameEvent, OnEof, Command, Next1
  <2> QED
    BY <1>1, <1>3, <2>1, DownsOf DEF Rest
<1>6. Belongs'
  <2>1. CASE Idle
    BY <1>1, <1>2, <1>5, <2>1 DEF Idle, CurrentInv, Belongs
  <2>2. CASE session # NoSession /\ \E o \in Outcomes : session' = o.session /\ Send(hub, o.tx) /\ Effect(o)
    <3>1. /\ session'.ready => session.ready \/ (Head(events).kind = "frame" /\ Head(events).frame.type = "WELCOME")
          /\ session'.rooms \subseteq session.rooms \/ (Head(events).kind = "frame" /\ Head(events).frame.type = "JOINED")
      BY <2>2 DEF Effect
    <3>2. Head(events).kind = "frame" =>
              Downs(events') \/ (Head(events).link = hub /\ hub \in Live
                                 /\ (Head(events).frame.type = "WELCOME" => hub \in welcomed))
      BY <1>1, <1>4 DEF CurrentEntries, LifelineInv, NoOrphan
    <3> QED
      BY <1>1, <1>2, <1>5, <2>2, <3>1, <3>2 DEF CurrentInv, Belongs
  <2> QED
    BY <2>1, <2>2, HandlerEffect
<1> QED
  BY <1>1, <1>2, <1>4, <1>6 DEF CurrentInv

\* Every step of the main loop.
LEMMA MainLoopCurrent ==
    ASSUME TypeOK, LifelineInv, CurrentInv, MainLoop
    PROVE  CurrentInv'
<1>1. ASSUME events # <<>>
      PROVE  /\ events \in Seq(Event) /\ Rest \in Seq(Event) /\ Head(events) \in Event
             /\ Fine(Rest, CurrentEntries)
             /\ Live \subseteq Live' /\ welcomed' = welcomed => Fine(Rest, CurrentEntries')
  <2>1. events \in Seq(Event) /\ Rest \in Seq(Event) /\ Head(events) \in Event
    BY <1>1, EntryType DEF TypeOK
  <2>2. Eof \in CurrentEntries /\ Eof \in CurrentEntries'
        /\ CurrentEntries \subseteq Event /\ CurrentEntries' \subseteq Event
    BY DEF CurrentEntries, Event, Eof
  <2>3. \A T : CurrentEntries \subseteq T /\ T \subseteq Event => Fine(Rest, T)
    BY <1>1, <2>1, <2>2, FineQueues DEF CurrentInv, Rest
  <2> QED
    BY <2>1, <2>2, <2>3, CurrentGrows
<1>2. CASE PlainHandler
  BY <1>2, PlainCurrent
<1>3. CASE CmdConnect
  <2>1. /\ events # <<>> /\ events' = Rest /\ welcomed' = welcomed
        /\ Head(events).kind = "cmd" /\ Head(events).op = "connect"
    BY <1>3 DEF CmdConnect, Command, Next1, hubVars
  <2>2. Live = {} /\ welcomed = {} /\ Live \subseteq Live'
    BY <2>1, WaitingEntry DEF CurrentInv
  <2>3. Belongs'
    <3>1. CASE session' = session
      <4>1. Head(events) \in Connects
        BY <1>1, <2>1, WaitingKinds DEF Reopens
      <4>2. 1 \in DOMAIN events /\ events[1] = Head(events)
        BY <1>1, <2>1, EmptySeq, LenProperties
      <4> QED
        BY <3>1, <4>1, <4>2 DEF LifelineInv, Fresh, Unstarted, Belongs
    <3>2. CASE \E nick \in Nick \cup {NoNick} : session' = NewSession(nick)
      BY <3>2 DEF NewSession, Belongs
    <3> QED
      BY <1>3, <3>1, <3>2 DEF CmdConnect, OpenLink
  <2> QED
    BY <1>1, <2>1, <2>2, <2>3 DEF CurrentInv
<1>4. CASE OnRetry
  <2>1. /\ events # <<>> /\ events' = Rest /\ welcomed' = welcomed /\ session' = session
        /\ Head(events).kind = "retry"
    BY <1>4 DEF OnRetry, Next1, hubVars, OpenLink
  <2>2. Live = {} /\ welcomed = {} /\ Live \subseteq Live' /\ ~Downs(events)
    BY <2>1, WaitingEntry, NothingEnds DEF CurrentInv
  <2> QED
    BY <1>1, <2>1, <2>2 DEF CurrentInv, Belongs
<1>5. CASE OnDown
  <2>1. events # <<>> /\ events' = Rest /\ welcomed' = welcomed /\ Live' = Live
    BY <1>5 DEF OnDown, Next1, hubVars, Live
  <2>2. session # NoSession => OnLinkDown(session).session.ready = FALSE /\ OnLinkDown(session).session.rooms = {}
    BY DEF OnLinkDown, Emit, Outcome, TypeOK, Session
  <2>3. Belongs'
    BY <1>5, <2>2 DEF OnDown, Belongs
  <2> QED
    BY <1>1, <2>1, <2>3 DEF CurrentInv
<1>6. CASE CmdDisconnect
  <2>1. /\ events # <<>> /\ Head(events).kind = "cmd" /\ Close(hub, Rest) /\ session' = session
        /\ IF hub \in Live THEN Forget(hub) ELSE UNCHANGED hubVars
    BY <1>6 DEF CmdDisconnect, Command, Next1
  <2>2. Downs(events) => Downs(Rest)
    BY <1>1, <2>1, DownsOf DEF Rest
  <2> QED
    BY <1>1, <2>1, <2>2, CloseCurrent
<1>7. CASE Exit
  <2>1. /\ Close(hub, events) /\ session' = session
        /\ IF hub \in Live THEN Forget(hub) ELSE UNCHANGED hubVars
    BY <1>7 DEF Exit
  <2> QED
    BY <2>1, CloseCurrent DEF TypeOK, CurrentInv
<1> QED
  BY <1>2, <1>3, <1>4, <1>5, <1>6, <1>7 DEF MainLoop, PlainHandler

\* The network, the hub and the other threads, as long as the callbacks come
\* in their order.
LEMMA OthersCurrent ==
    ASSUME TypeOK, LifelineInv, CurrentInv, "reorder" \notin Faults,
           Net \/ ReadCommand \/ ReadEof \/ PipeBreaks \/ RetryTimer \/ HelloTimer
    PROVE  CurrentInv'
<1>1. events \in Seq(Event)
  BY DEF TypeOK
<1>2. hub' = hub /\ session' = session
  BY DEF Net, ReadCommand, ReadEof, PipeBreaks, RetryTimer, HelloTimer, loopVars
<1>3. ASSUME NEW e \in CurrentEntries', events' = Append(events, e),
             Live \subseteq Live', welcomed \subseteq welcomed', welcomed' \subseteq Live'
      PROVE  CurrentInv'
  <2>1. e \in Event /\ CurrentEntries' \subseteq Event
    BY <1>3 DEF CurrentEntries
  <2>2. Fine(events', CurrentEntries')
    BY <1>1, <1>3, <2>1, CurrentGrows, FineQueues DEF CurrentInv
  <2>3. Downs(events) => Downs(events')
    BY <1>1, <1>3, <2>1, DownsOf
  <2> QED
    BY <1>2, <1>3, <2>2, <2>3 DEF CurrentInv, Belongs
<1>4. ASSUME NEW e, Callback(e) PROVE events' = Append(events, e)
  BY <1>4 DEF Callback
<1>5. CASE Net
  <2>1. PICK l \in Link : Network(l)
    BY <1>5 DEF Net
  <2>2. CASE HubClosed(l)
    <3>1. l \in Live /\ status' = [status EXCEPT ![l] = "closed"] /\ Callback(Down(l)) /\ welcomed' = welcomed \ {l}
      BY <2>2 DEF HubClosed, Closed, Forget
    <3>2. events' = Append(events, Down(l))
      BY <1>4, <3>1
    <3>3. welcomed' \subseteq Live'
      BY <3>1 DEF Live, TypeOK, CurrentInv
    <3>4. Down(l) \in CurrentEntries' /\ Down(l).kind = "down" /\ CurrentEntries' \subseteq Event
      BY DEF CurrentEntries, Down, Event, LinkEvent
    <3>5. Fine(events', CurrentEntries') /\ Downs(events')
      BY <1>1, <3>2, <3>4, FineQueues, DownsOf DEF CurrentInv
    <3> QED
      BY <3>3, <3>5 DEF CurrentInv, Belongs
  <2>3. CASE ~HubClosed(l)
    <3>1. Live' = Live
      <4>1. status' = status \/ (status[l] = "pending" /\ status' = [status EXCEPT ![l] = "active"])
        BY <2>1, <2>3 DEF Network, Established, Lose, HubHello, HubJoin, HubPart, HubOther, HubTalks, Receive
      <4> QED
        BY <4>1 DEF Live, TypeOK
    <3>2. welcomed' = welcomed \/ (status[l] = "active" /\ welcomed' = welcomed \cup {l})
      BY <2>1, <2>3 DEF Network, hubVars, HubHello, HubJoin, HubPart, HubOther, HubTalks, Receive
    <3>3. welcomed \subseteq welcomed' /\ welcomed' \subseteq Live'
      BY <3>1, <3>2 DEF CurrentInv, Live
    <3>4. CASE events' = events
      BY <1>2, <3>1, <3>3, <3>4, CurrentGrows DEF CurrentInv, Belongs, Fine
    <3>5. CASE Callback(Up(l))
      <4>1. Up(l) \in CurrentEntries'
        BY DEF CurrentEntries, Up, Event, LinkEvent
      <4> QED
        BY <1>3, <1>4, <3>1, <3>3, <3>5, <4>1
    <3>6. CASE /\ status[l] = "active"
               /\ \E f \in FromHub : Callback(Frame(l, f)) /\ (f.type = "WELCOME" => l \in welcomed')
      <4>1. PICK f \in FromHub : Callback(Frame(l, f)) /\ (f.type = "WELCOME" => l \in welcomed')
        BY <3>6
      <4>2. l \in Live'
        BY <3>1, <3>6 DEF Live
      <4>3. Frame(l, f) \in CurrentEntries'
        BY <4>1, <4>2 DEF CurrentEntries, Frame, Event, LinkEvent
      <4> QED
        BY <1>3, <1>4, <3>1, <3>3, <4>1, <4>3
    <3> QED
      BY <2>1, <2>3, <3>4, <3>5, <3>6, NetworkFrames
  <2> QED
    BY <2>2, <2>3
<1>6. CASE PipeBreaks
  <2>1. events' = events /\ status' = status /\ welcomed' = welcomed
    BY <1>6 DEF PipeBreaks, linkVars, hubVars
  <2> QED
    BY <1>2, <2>1 DEF CurrentInv, Belongs, CurrentEntries, Live
<1>7. CASE ReadCommand \/ ReadEof \/ RetryTimer \/ HelloTimer
  <2>1. PICK e \in Requests \cup {Eof, Retry, HelloDue} : events' = Append(events, e)
    BY <1>7 DEF ReadCommand, ReadEof, RetryTimer, HelloTimer
  <2>2. e \in Event /\ e.kind # "frame"
    BY DEF Requests, RoomCmd, Cmd, Eof, Retry, HelloDue, Event
  <2>3. status' = status /\ welcomed' = welcomed
    BY <1>7 DEF ReadCommand, ReadEof, RetryTimer, HelloTimer, hubVars
  <2>4. Live' = Live
    BY <2>3 DEF Live
  <2>5. e \in CurrentEntries'
    BY <2>2, OthersAreCurrent
  <2> QED
    BY <1>3, <2>1, <2>3, <2>4, <2>5 DEF CurrentInv
<1> QED
  BY <1>5, <1>6, <1>7

\* What the queue holds belongs to the link it came from, in every state.
LEMMA CurrentInvariant ==
    ASSUME "reorder" \notin Faults
    PROVE  Spec => []CurrentInv
<1>1. Init => CurrentInv
  <2> SUFFICES ASSUME Init PROVE CurrentInv
    OBVIOUS
  <2>1. PICK c \in Connects : events = <<c>>
    BY DEF Init
  <2>2. c \in CurrentEntries
    <3>1. c \in Event /\ c.kind = "cmd"
      BY ConnectsKnown DEF Event, Connect
    <3> QED
      BY <3>1, OthersAreCurrent
  <2>3. Fine(events, CurrentEntries)
    BY <2>1, <2>2 DEF Fine
  <2> QED
    BY <2>3 DEF Init, HubInit, CurrentInv, Belongs
<1>2. TypeOK /\ LifelineInv /\ CurrentInv /\ [Next]_vars => CurrentInv'
  <2> SUFFICES ASSUME TypeOK, LifelineInv, CurrentInv, [Next]_vars PROVE CurrentInv'
    OBVIOUS
  <2>1. CASE UNCHANGED vars
    BY <2>1 DEF vars, linkVars, hubVars, loopVars, CurrentInv, Fine, CurrentEntries, Belongs, Downs, Live
  <2> QED
    BY <2>1, MainLoopCurrent, OthersCurrent DEF Next, Finished
<1> QED
  BY <1>1, <1>2, TypeCorrect, LifelineInvariant, PTL DEF Spec

\* A session is ready, or in a room, only on the link in hand or while that
\* link's end waits on the queue: no WELCOME or JOINED of an earlier link
\* reaches into the next (on_link_down), provided that Reticulum's threads
\* queue what they report in its order.  Without that it fails:
\* WelcomeOvertaken.cfg.
THEOREM SessionIsCurrentHolds ==
    ASSUME "reorder" \notin Faults
    PROVE  Spec => []SessionIsCurrent
<1>1. TypeOK /\ LifelineInv /\ CurrentInv => SessionIsCurrent
  <2> SUFFICES ASSUME TypeOK, LifelineInv, CurrentInv PROVE SessionIsCurrent
    OBVIOUS
  <2>1. Downs(events) => Ended
    <3> SUFFICES ASSUME NEW e \in Range(events), e.kind = "down" PROVE Ended
      BY DEF Downs
    <3>1. DOMAIN events = 1..Len(events)
      BY LenProperties DEF TypeOK
    <3>2. PICK i \in 1..Len(events) : events[i] = e
      BY <3>1 DEF Range
    <3>3. e \in Event
      BY <3>2, ElementOfSeq DEF TypeOK
    <3>4. PICK l \in Link : e = Down(l)
      BY <3>3, ConnectsKnown DEF Event, LinkEvent, Requests, RoomCmd, Cmd, Connect, Eof, Retry,
                                  HelloDue, Up, Down
    <3> QED
      BY <3>2, <3>4 DEF Ended, Contains
  <2> QED
    BY <2>1 DEF CurrentInv, Belongs, SessionIsCurrent
<1> QED
  BY <1>1, CurrentInvariant, TypeCorrect, LifelineInvariant, PTL

-----------------------------------------------------------------------------
(* Leaving is honoured.                                                    *)

\* NoLingering is not inductive: a JOIN may still be on its way for a room
\* that has been left since.  But then the PART is on its way behind it.
Meant(q, W) ==
    \A r \in Room : \A i \in DOMAIN q :
        q[i] = JoinMsg(r) => r \in W \/ \E j \in DOMAIN q : j > i /\ q[j] = PartMsg(r)

LingerInv ==
    \A l \in Link :
        /\ status[l] # "active" => toHub[l] = <<>> /\ members[l] = {}
        /\ \A r \in members[l] : r \in wanted \/ PartMsg(r) \in Range(toHub[l])
        /\ Meant(toHub[l], wanted)

\* JOINs, PARTs and the rest are told apart by type and room.
LEMMA MessagesDiffer ==
    ASSUME NEW m \in ToHub, NEW r
    PROVE  /\ m = JoinMsg(r) => m.type = "JOIN" /\ m.room = r
           /\ m = PartMsg(r) => m.type = "PART" /\ m.room = r
BY DEF JoinMsg, PartMsg

\* A queue of envelopes, some taken from the front, or some more put behind.
LEMMA MeantQueues ==
    ASSUME NEW q \in Seq(ToHub), NEW W, NEW V, Meant(q, W)
    PROVE  /\ q # <<>> => Meant(Tail(q), W)
           /\ q # <<>> => \A r \in Room :
                 Head(q) = JoinMsg(r) => r \in W \/ PartMsg(r) \in Range(Tail(q))
           /\ \A t \in Seq(ToHub) :
                 /\ \A r \in Room : JoinMsg(r) \in Range(t) => r \in V
                 /\ \A r \in W \ V : PartMsg(r) \in Range(t)
                 => Meant(q \o t, V)
<1>1. DOMAIN q = 1..Len(q) /\ Len(q) \in Nat
  BY LenProperties
<1>2. ASSUME q # <<>>
      PROVE  /\ Meant(Tail(q), W)
             /\ \A r \in Room : Head(q) = JoinMsg(r) => r \in W \/ PartMsg(r) \in Range(Tail(q))
  <2> DEFINE p == Tail(q)
  <2>1. /\ Len(q) # 0 /\ Head(q) = q[1] /\ DOMAIN p = 1..(Len(q) - 1)
        /\ \A i \in 1..(Len(q) - 1) : p[i] = q[i + 1]
    <3>1. Len(q) # 0
      BY <1>2, EmptySeq
    <3>2. p \in Seq(ToHub) /\ Len(p) = Len(q) - 1 /\ \A i \in 1..Len(p) : p[i] = q[i + 1]
      BY <1>2, HeadTailProperties
    <3> QED
      BY <3>1, <3>2, LenProperties
  <2> HIDE DEF p
  <2>2. \A j \in DOMAIN q : j > 1 => j - 1 \in DOMAIN p /\ p[j - 1] = q[j]
    BY <1>1, <2>1
  <2>3. ASSUME NEW r \in Room, NEW i \in DOMAIN p, p[i] = JoinMsg(r)
        PROVE  r \in W \/ \E j \in DOMAIN p : j > i /\ p[j] = PartMsg(r)
    <3>1. i + 1 \in DOMAIN q /\ q[i + 1] = JoinMsg(r)
      BY <1>1, <2>1, <2>3
    <3>2. r \in W \/ \E j \in DOMAIN q : j > i + 1 /\ q[j] = PartMsg(r)
      BY <3>1 DEF Meant
    <3>3. ASSUME NEW j \in DOMAIN q, j > i + 1, q[j] = PartMsg(r)
          PROVE  \E k \in DOMAIN p : k > i /\ p[k] = PartMsg(r)
      <4>1. j - 1 \in DOMAIN p /\ p[j - 1] = PartMsg(r) /\ j - 1 > i
        BY <1>1, <2>1, <2>2, <3>3
      <4> QED
        BY <4>1
    <3> QED
      BY <3>2, <3>3
  <2>4. ASSUME NEW r \in Room, q[1] = JoinMsg(r)
        PROVE  r \in W \/ PartMsg(r) \in Range(p)
    <3>1. r \in W \/ \E j \in DOMAIN q : j > 1 /\ q[j] = PartMsg(r)
      BY <1>1, <2>1, <2>4 DEF Meant
    <3> QED
      BY <2>2, <3>1 DEF Range
  <2> QED
    BY <2>1, <2>3, <2>4 DEF Meant, p
<1>3. ASSUME NEW t \in Seq(ToHub),
             \A r \in Room : JoinMsg(r) \in Range(t) => r \in V,
             \A r \in W \ V : PartMsg(r) \in Range(t)
      PROVE  Meant(q \o t, V)
  <2> DEFINE p == q \o t
  <2>1. DOMAIN t = 1..Len(t) /\ Len(t) \in Nat
    BY LenProperties
  <2>2. /\ DOMAIN p = 1..(Len(q) + Len(t))
        /\ \A i \in 1..(Len(q) + Len(t)) : p[i] = IF i <= Len(q) THEN q[i] ELSE t[i - Len(q)]
    BY ConcatProperties, LenProperties
  <2> HIDE DEF p
  <2> SUFFICES ASSUME NEW r \in Room, NEW i \in DOMAIN p, p[i] = JoinMsg(r), r \notin V
               PROVE  \E j \in DOMAIN p : j > i /\ p[j] = PartMsg(r)
    BY DEF Meant, p
  <2>3. i <= Len(q)
    <3> SUFFICES ASSUME ~(i <= Len(q)) PROVE FALSE
      OBVIOUS
    <3>1. i - Len(q) \in DOMAIN t /\ t[i - Len(q)] = JoinMsg(r)
      BY <1>1, <2>1, <2>2
    <3> QED
      BY <1>3, <3>1 DEF Range
  <2>4. i \in DOMAIN q /\ q[i] = JoinMsg(r)
    BY <1>1, <2>1, <2>2, <2>3
  <2>5. CASE r \in W
    <3>1. PICK j \in DOMAIN t : t[j] = PartMsg(r)
      BY <1>3, <2>5 DEF Range
    <3>2. Len(q) + j \in DOMAIN p /\ p[Len(q) + j] = t[j] /\ Len(q) + j > i
      BY <1>1, <2>1, <2>2, <2>4
    <3> QED
      BY <3>1, <3>2
  <2>6. CASE r \notin W
    <3>1. PICK j \in DOMAIN q : j > i /\ q[j] = PartMsg(r)
      BY <2>4, <2>6 DEF Meant
    <3>2. j \in DOMAIN p /\ p[j] = q[j]
      BY <1>1, <2>1, <2>2
    <3> QED
      BY <3>1, <3>2
  <2> QED
    BY <2>5, <2>6
<1> QED
  BY <1>2, <1>3

\* What is on a link after more is put behind it.
LEMMA ConcatRange ==
    ASSUME NEW q \in Seq(ToHub), NEW t \in Seq(ToHub)
    PROVE  Range(q \o t) = Range(q) \cup Range(t)
<1>1. /\ DOMAIN q = 1..Len(q) /\ Len(q) \in Nat /\ DOMAIN t = 1..Len(t) /\ Len(t) \in Nat
      /\ DOMAIN (q \o t) = 1..(Len(q) + Len(t))
      /\ \A i \in 1..(Len(q) + Len(t)) : (q \o t)[i] = IF i <= Len(q) THEN q[i] ELSE t[i - Len(q)]
  BY ConcatProperties, LenProperties
<1> DEFINE p == q \o t
<1> HIDE DEF p
<1>2. \A i \in 1..(Len(q) + Len(t)) : p[i] \in Range(q) \cup Range(t)
  <2> SUFFICES ASSUME NEW i \in 1..(Len(q) + Len(t)) PROVE p[i] \in Range(q) \cup Range(t)
    OBVIOUS
  <2>1. CASE i <= Len(q)
    <3>1. i \in DOMAIN q /\ p[i] = q[i]
      BY <1>1, <2>1 DEF p
    <3> QED
      BY <3>1 DEF Range
  <2>2. CASE ~(i <= Len(q))
    <3>1. i - Len(q) \in DOMAIN t /\ p[i] = t[i - Len(q)]
      BY <1>1, <2>2 DEF p
    <3> QED
      BY <3>1 DEF Range
  <2> QED
    BY <2>1, <2>2
<1>3. \A i \in 1..Len(q) : q[i] \in Range(p)
  BY <1>1 DEF Range, p
<1>4. \A i \in 1..Len(t) : t[i] \in Range(p)
  <2> SUFFICES ASSUME NEW i \in 1..Len(t) PROVE t[i] \in Range(p)
    OBVIOUS
  <2>1. Len(q) + i \in 1..(Len(q) + Len(t)) /\ p[Len(q) + i] = t[i]
    BY <1>1 DEF p
  <2> QED
    BY <1>1, <2>1 DEF Range, p
<1>5. DOMAIN p = 1..(Len(q) + Len(t))
  BY <1>1 DEF p
<1> QED
  BY <1>1, <1>2, <1>3, <1>4, <1>5 DEF Range, p

\* What the links carry after a handler's envelopes are sent.
LEMMA SendIs ==
    ASSUME TypeOK, NEW tx \in Seq(ToHub), Send(hub, tx), NEW l \in Link
    PROVE  toHub'[l] = IF l = hub /\ status[l] = "active" THEN toHub[l] \o tx ELSE toHub[l]
BY NoLinkIsNone DEF Send, Usable, TypeOK

\* Closing the link in hand leaves nothing on it, there and at the hub.
LEMMA CloseLinger ==
    ASSUME TypeOK, LingerInv, NEW rest, Close(hub, rest), wanted' = wanted,
           IF hub \in Live THEN Forget(hub) ELSE UNCHANGED hubVars
    PROVE  LingerInv'
<1>1. CASE hub \in Live
  <2>1. /\ status' = [status EXCEPT ![hub] = "closed"] /\ toHub' = [toHub EXCEPT ![hub] = <<>>]
        /\ members' = [members EXCEPT ![hub] = {}]
    BY <1>1 DEF Close, Forget
  <2>2. Meant(<<>>, wanted)
    BY DEF Meant
  <2> QED
    BY <2>1, <2>2 DEF LingerInv, TypeOK
<1>2. CASE hub \notin Live
  BY <1>2 DEF Close, hubVars, LingerInv
<1> QED
  BY <1>1, <1>2

\* Every step of the main loop.
LEMMA MainLoopLinger ==
    ASSUME TypeOK, LifelineInv, LingerInv, MainLoop
    PROVE  LingerInv'
<1>1. ASSUME Live = {}, status' = status \/ \E l \in Link : status' = [status EXCEPT ![l] = "pending"],
             toHub' = toHub \/ \E l \in Link : toHub' = [toHub EXCEPT ![l] = <<>>], members' = members
      PROVE  LingerInv'
  <2>1. \A l \in Link : toHub[l] = <<>> /\ members[l] = {}
    BY <1>1 DEF LingerInv, Live
  <2>2. \A l \in Link : toHub'[l] = <<>> /\ members'[l] = {}
    BY <1>1, <2>1 DEF TypeOK
  <2>3. Meant(<<>>, wanted')
    BY DEF Meant
  <2> QED
    BY <2>2, <2>3 DEF LingerInv
<1>2. CASE PlainHandler
  <2>1. status' = status /\ members' = members
    BY <1>2, PlainFacts, HandlerEffect DEF hubVars
  <2>2. CASE Idle
    BY <2>1, <2>2 DEF Idle, LingerInv
  <2>3. CASE \E o \in Outcomes : session' = o.session /\ Send(hub, o.tx) /\ Effect(o)
    <3>1. PICK o \in Outcomes : Send(hub, o.tx) /\ Effect(o)
      BY <2>3
    <3> DEFINE t == o.tx
    <3>2. t \in Seq(ToHub)
      BY DEF Outcomes
    <3>3. /\ \A r \in Room : JoinMsg(r) \in Range(t) => r \in wanted'
          /\ \A r \in wanted \ wanted' : PartMsg(r) \in Range(t)
      BY <3>1 DEF Effect
    <3>4. \A l \in Link : toHub'[l] = IF l = hub /\ status[l] = "active" THEN toHub[l] \o t ELSE toHub[l]
      BY <3>1, <3>2, SendIs
    <3> HIDE DEF t
    <3> SUFFICES ASSUME NEW l \in Link
                 PROVE  /\ status[l] # "active" => toHub'[l] = <<>> /\ members[l] = {}
                        /\ \A r \in members[l] : r \in wanted' \/ PartMsg(r) \in Range(toHub'[l])
                        /\ Meant(toHub'[l], wanted')
      BY <2>1 DEF LingerInv
    <3>5. CASE status[l] # "active"
      <4>1. toHub'[l] = <<>> /\ members[l] = {}
        BY <3>4, <3>5 DEF LingerInv
      <4> QED
        BY <4>1 DEF Meant
    <3>6. CASE status[l] = "active"
      <4>1. l = hub
        BY <3>6 DEF LifelineInv, NoOrphan, Live
      <4>2. toHub'[l] = toHub[l] \o t /\ toHub[l] \in Seq(ToHub)
        BY <3>4, <3>6, <4>1 DEF TypeOK
      <4>3. Range(toHub'[l]) = Range(toHub[l]) \cup Range(t)
        BY <3>2, <4>2, ConcatRange
      <4>4. Meant(toHub'[l], wanted')
        <5>1. Meant(toHub[l], wanted)
          BY DEF LingerInv
        <5>2. Meant(toHub[l] \o t, wanted')
          BY <3>2, <3>3, <4>2, <5>1, MeantQueues
        <5> QED
          BY <4>2, <5>2
      <4>5. \A r \in members[l] : r \in wanted' \/ PartMsg(r) \in Range(toHub'[l])
        BY <3>3, <4>3 DEF LingerInv
      <4> QED
        BY <3>6, <4>4, <4>5
    <3> QED
      BY <3>5, <3>6
  <2> QED
    BY <1>2, <2>2, <2>3, HandlerEffect
<1>3. CASE CmdConnect
  <2>1. events # <<>> /\ events' = Rest /\ Head(events).kind = "cmd" /\ Head(events).op = "connect"
        /\ members' = members
    BY <1>3 DEF CmdConnect, Command, Next1, hubVars
  <2>2. Live = {}
    BY <2>1, WaitingEntry
  <2> QED
    BY <1>1, <1>3, <2>1, <2>2 DEF CmdConnect, OpenLink, Open
<1>4. CASE OnRetry
  <2>1. events # <<>> /\ events' = Rest /\ Head(events).kind = "retry" /\ members' = members
    BY <1>4 DEF OnRetry, Next1, hubVars
  <2>2. Live = {}
    BY <2>1, WaitingEntry
  <2> QED
    BY <1>1, <1>4, <2>1, <2>2 DEF OnRetry, OpenLink, Open
<1>5. CASE OnDown
  BY <1>5 DEF OnDown, hubVars, LingerInv
<1>6. CASE CmdDisconnect
  BY <1>6, CloseLinger DEF CmdDisconnect
<1>7. CASE Exit
  BY <1>7, CloseLinger DEF Exit
<1> QED
  BY <1>2, <1>3, <1>4, <1>5, <1>6, <1>7 DEF MainLoop, PlainHandler

\* The hub takes the first envelope; what it makes of it is what was meant.
LEMMA NetworkLinger ==
    ASSUME TypeOK, LingerInv, "loss" \notin Faults, Net
    PROVE  LingerInv'
<1>1. PICK l \in Link : Network(l)
  BY DEF Net
<1>2. wanted' = wanted
  BY DEF Net, loopVars
<1> DEFINE Good(q, M) == /\ \A r \in M : r \in wanted \/ PartMsg(r) \in Range(q)
                         /\ Meant(q, wanted)
<1>3. /\ Good(toHub[l], members[l])
      /\ status[l] # "active" => toHub[l] = <<>> /\ members[l] = {}
  BY DEF LingerInv
<1>4. ASSUME status'[l] # "active" => toHub'[l] = <<>> /\ members'[l] = {},
             Good(toHub'[l], members'[l]),
             \A k \in Link \ {l} : /\ status'[k] = status[k] /\ toHub'[k] = toHub[k]
                                   /\ members'[k] = members[k]
      PROVE  LingerInv'
  BY <1>2, <1>4 DEF LingerInv
<1>5. CASE HubClosed(l)
  <2>1. /\ status' = [status EXCEPT ![l] = "closed"] /\ toHub' = [toHub EXCEPT ![l] = <<>>]
        /\ members' = [members EXCEPT ![l] = {}]
    BY <1>5 DEF HubClosed, Closed, Forget
  <2>2. toHub'[l] = <<>> /\ members'[l] = {} /\ Meant(<<>>, wanted)
    BY <2>1 DEF TypeOK, Meant
  <2> QED
    BY <1>4, <2>1, <2>2 DEF TypeOK
<1>6. CASE Established(l) /\ UNCHANGED hubVars
  <2>1. status' = [status EXCEPT ![l] = "active"] /\ toHub' = toHub /\ members' = members
    BY <1>6 DEF Established, hubVars
  <2> QED
    BY <1>3, <1>4, <2>1 DEF TypeOK
<1>7. CASE HubTalks(l)
  <2>1. status' = status /\ toHub' = toHub /\ members' = members
    BY <1>7 DEF HubTalks, hubVars
  <2> QED
    BY <1>3, <1>4, <2>1
<1>8. ASSUME NEW type, Receive(l, type), NEW M \in SUBSET Room,
             members' = [members EXCEPT ![l] = M],
             \A r \in M : \/ r \in members[l] /\ Head(toHub[l]) # PartMsg(r)
                          \/ r \in Room /\ Head(toHub[l]) = JoinMsg(r)
      PROVE  LingerInv'
  <2> DEFINE q == toHub[l]
  <2>1. /\ status[l] = "active" /\ q # <<>> /\ toHub' = [toHub EXCEPT ![l] = Tail(q)]
        /\ status' = status
    BY <1>8 DEF Receive
  <2>2. q \in Seq(ToHub)
    BY DEF TypeOK
  <2>3. toHub'[l] = Tail(q) /\ members'[l] = M
    BY <1>8, <2>1 DEF TypeOK
  <2>4. Meant(Tail(q), wanted)
    BY <1>3, <2>1, <2>2, MeantQueues
  <2>5. ASSUME NEW r \in M PROVE r \in wanted \/ PartMsg(r) \in Range(Tail(q))
    <3>1. CASE r \in members[l] /\ Head(q) # PartMsg(r)
      <4>1. Range(q) = Range(Tail(q)) \cup {Head(q)}
        BY <2>1, <2>2, QueueRanges, HeadTailProperties
      <4> QED
        BY <1>3, <3>1, <4>1
    <3>2. CASE r \in Room /\ Head(q) = JoinMsg(r)
      BY <1>3, <2>1, <2>2, <3>2, MeantQueues
    <3> QED
      BY <1>8, <3>1, <3>2
  <2>6. Good(toHub'[l], members'[l])
    BY <2>3, <2>4, <2>5
  <2> HIDE DEF Good
  <2> QED
    BY <1>4, <1>8, <2>1, <2>6 DEF TypeOK
<1>9. ASSUME NEW type, Receive(l, type), type # "PART", members' = members
      PROVE  LingerInv'
  <2>1. members' = [members EXCEPT ![l] = members[l]] /\ members[l] \in SUBSET Room
    BY <1>9 DEF TypeOK
  <2>2. \A r : Head(toHub[l]) # PartMsg(r)
    BY <1>9 DEF Receive, PartMsg
  <2> QED
    BY <1>8, <1>9, <2>1, <2>2
<1>10. CASE HubHello(l)
  <2>1. Receive(l, "HELLO")
        /\ members' = (IF l \in welcomed THEN [members EXCEPT ![l] = {}] ELSE members)
    BY <1>10 DEF HubHello
  <2>2. CASE members' = [members EXCEPT ![l] = {}]
    BY <1>8, <2>1, <2>2
  <2>3. CASE members' = members
    BY <1>9, <2>1, <2>3
  <2> QED
    BY <2>1, <2>2, <2>3
<1>11. CASE HubJoin(l)
  <2> DEFINE m == Head(toHub[l])
  <2>1. Receive(l, "JOIN") /\ m \in ToHub /\ m.type = "JOIN"
    BY <1>11, ReceiveType DEF HubJoin
  <2>2. m.room \in Room /\ m = JoinMsg(m.room)
    BY <2>1, MessageFields DEF ToHub, Hello, Direct, PongMsg, JoinMsg, PartMsg, Chat, PingMsg
  <2>3. members' = members \/ members' = [members EXCEPT ![l] = members[l] \cup {m.room}]
    BY <1>11, Zenon DEF HubJoin
  <2>4. CASE members' = members
    BY <1>9, <2>1, <2>4
  <2>5. CASE members' = [members EXCEPT ![l] = members[l] \cup {m.room}]
    <3>1. members[l] \cup {m.room} \in SUBSET Room
      BY <2>2 DEF TypeOK
    <3>2. \A r : m # PartMsg(r)
      BY <2>1 DEF PartMsg
    <3>3. \A r \in members[l] \cup {m.room} : \/ r \in members[l] /\ m # PartMsg(r)
                                              \/ r \in Room /\ m = JoinMsg(r)
      BY <2>2, <3>2
    <3> QED
      BY <1>8, <2>1, <2>5, <3>1, <3>3
  <2> QED
    BY <2>3, <2>4, <2>5
<1>12. CASE HubPart(l)
  <2> DEFINE m == Head(toHub[l])
  <2>1. Receive(l, "PART") /\ m \in ToHub /\ m.type = "PART"
    BY <1>12, ReceiveType DEF HubPart
  <2>2. members' = [members EXCEPT ![l] = members[l] \ {m.room}]
    BY <1>12, Zenon DEF HubPart
  <2>3. members[l] \ {m.room} \in SUBSET Room
    BY DEF TypeOK
  <2>4. \A r \in members[l] \ {m.room} : r \in members[l] /\ m # PartMsg(r)
    BY <2>1, MessagesDiffer
  <2> QED
    BY <1>8, <2>1, <2>2, <2>3, <2>4
<1>13. CASE HubOther(l)
  <2>1. members' = members
    BY <1>13 DEF HubOther, hubVars
  <2>2. \E type : type # "PART" /\ Receive(l, type)
    BY <1>13 DEF HubOther
  <2> QED
    BY <1>9, <2>1, <2>2
<1> QED
  BY <1>1, <1>5, <1>6, <1>7, <1>10, <1>11, <1>12, <1>13 DEF Network, Lose

\* What is on the links was meant, in every state.
LEMMA LingerInvariant ==
    ASSUME "loss" \notin Faults
    PROVE  Spec => []LingerInv
<1>1. Init => LingerInv
  BY DEF Init, HubLinkInit, HubInit, LingerInv, Meant
<1>2. TypeOK /\ LifelineInv /\ LingerInv /\ [Next]_vars => LingerInv'
  <2> SUFFICES ASSUME TypeOK, LifelineInv, LingerInv, [Next]_vars PROVE LingerInv'
    OBVIOUS
  <2>1. CASE UNCHANGED vars
    BY <2>1 DEF vars, linkVars, hubVars, loopVars, LingerInv
  <2>2. CASE ReadCommand \/ ReadEof \/ PipeBreaks \/ RetryTimer \/ HelloTimer
    <3>1. status' = status /\ toHub' = toHub /\ members' = members /\ wanted' = wanted
      BY <2>2 DEF ReadCommand, ReadEof, PipeBreaks, RetryTimer, HelloTimer, linkVars, hubVars, loopVars
    <3> QED
      BY <3>1 DEF LingerInv
  <2> QED
    BY <2>1, <2>2, MainLoopLinger, NetworkLinger DEF Next, Finished
<1> QED
  BY <1>1, <1>2, TypeCorrect, LifelineInvariant, PTL DEF Spec

\* As long as no envelope is lost, the hub keeps the client in no room the user
\* has left, but while the PART is on its way: whatever the user asks for in
\* whatever order, and whether or not the hub waits for HELLO or refuses.
THEOREM NoLingeringHolds ==
    ASSUME "loss" \notin Faults
    PROVE  Spec => []NoLingering
<1>1. TypeOK /\ LingerInv => NoLingering
  <2> SUFFICES ASSUME TypeOK, LingerInv PROVE NoLingering
    OBVIOUS
  <2>1. \A l \in Link : \A m : m \in Range(toHub[l]) => Contains(toHub[l], m)
    BY LenProperties DEF TypeOK, Range, Contains
  <2> QED
    BY <2>1 DEF LingerInv, NoLingering, Live
<1> QED
  BY <1>1, LingerInvariant, TypeCorrect, PTL

-----------------------------------------------------------------------------
(* Lag reports.                                                            *)

\* A PING, or the answer to it, is on link l.
Pong(l, t) == Frame(l, [type |-> "PONG", token |-> t])
Carries(l, t) == PingMsg(t) \in Range(toHub[l]) \/ Pong(l, t) \in Range(events)

\* The pings a session remembers are on no link but the one in hand, and on
\* none at all when the next link will be opened with that session.
RetryDue == retries > 0 \/ Retry \in Range(events)
PingInv == session # NoSession =>
    \A t \in session.pings, l \in Link : Carries(l, t) => hub \in {l, NoLink} /\ ~RetryDue

\* ... and, unless the user drops the link, on none when there is none in hand.
HandInv == session # NoSession /\ hub = NoLink =>
    \A t \in session.pings, l \in Link : ~Carries(l, t)

\* A retry that is due excludes a link.
LEMMA RetryAlone ==
    ASSUME TypeOK, LifelineInv, RetryDue
    PROVE  Live = {}
<1>1. Retry \in Range(events) => Waits(events) # {}
  BY DEF Range, Waits, Reopens, Retry
<1> QED
  BY <1>1 DEF RetryDue, LifelineInv, Exclusive

\* A fresh token is on no link.
LEMMA FreshIsNowhere ==
    ASSUME TypeOK, NEW t \in Token, FreshToken(t)
    PROVE  /\ \A l \in Link : ~Carries(l, t)
           /\ session # NoSession => t \notin session.pings
<1>1. \A l \in Link : PingMsg(t) \notin Range(toHub[l])
  <2> SUFFICES ASSUME NEW l \in Link, PingMsg(t) \in Range(toHub[l]) PROVE FALSE
    OBVIOUS
  <2>1. DOMAIN toHub[l] = 1..Len(toHub[l])
    BY LenProperties DEF TypeOK
  <2> QED
    BY <2>1 DEF FreshToken, Contains, Range
<1>2. \A l \in Link : Pong(l, t) \notin Range(events)
  <2> SUFFICES ASSUME NEW l \in Link, Pong(l, t) \in Range(events) PROVE FALSE
    OBVIOUS
  <2>1. DOMAIN events = 1..Len(events)
    BY LenProperties DEF TypeOK
  <2> QED
    BY <2>1 DEF FreshToken, Contains, Range, Pong
<1> QED
  BY <1>1, <1>2 DEF Carries, FreshToken

\* The handlers that keep the link put no PING on it but that of a fresh
\* token, and remember no other.
LEMMA PlainCarries ==
    ASSUME TypeOK, PlainHandler
    PROVE  /\ \A t \in Token, l \in Link :
                 Carries(l, t)' => Carries(l, t) \/ (FreshToken(t) /\ l = hub /\ status[l] = "active")
           /\ session' # NoSession => /\ session # NoSession
                                      /\ \A t \in session'.pings : t \in session.pings \/ FreshToken(t)
<1>1. events # <<>> /\ events' = Rest /\ ((session' = NoSession) <=> (session = NoSession))
  BY PlainFacts
<1>2. Range(events') \subseteq Range(events)
  <2>1. events \in Seq(Event) /\ Head(events) \in Event
    BY <1>1, EntryType DEF TypeOK
  <2> QED
    BY <1>1, <2>1, QueueRanges DEF Rest
<1>3. CASE Idle
  BY <1>1, <1>2, <1>3 DEF Idle, Carries
<1>4. CASE \E o \in Outcomes : session' = o.session /\ Send(hub, o.tx) /\ Effect(o)
  <2>1. PICK o \in Outcomes : session' = o.session /\ Send(hub, o.tx) /\ Effect(o)
    BY <1>4
  <2>2. o.tx \in Seq(ToHub)
    BY DEF Outcomes
  <2>3. \A t \in Token : PingMsg(t) \in Range(o.tx) => FreshToken(t)
    BY <2>1 DEF Effect
  <2>4. ASSUME NEW t \in Token, NEW l \in Link, Carries(l, t)'
        PROVE  Carries(l, t) \/ (FreshToken(t) /\ l = hub /\ status[l] = "active")
    <3>1. CASE Pong(l, t) \in Range(events')
      BY <1>2, <3>1 DEF Carries
    <3>2. CASE PingMsg(t) \in Range(toHub'[l])
      <4>1. toHub'[l] = IF l = hub /\ status[l] = "active" THEN toHub[l] \o o.tx ELSE toHub[l]
        BY <2>1, <2>2, SendIs
      <4>2. toHub[l] \in Seq(ToHub)
        BY DEF TypeOK
      <4>3. Range(toHub[l] \o o.tx) = Range(toHub[l]) \cup Range(o.tx)
        BY <2>2, <4>2, ConcatRange
      <4> QED
        BY <2>3, <3>2, <4>1, <4>3 DEF Carries
    <3> QED
      BY <2>4, <3>1, <3>2 DEF Carries, Pong
  <2>5. \A t \in session'.pings : t \in session.pings \/ FreshToken(t)
    BY <2>1 DEF Effect
  <2> QED
    BY <1>1, <2>4, <2>5
<1> QED
  BY <1>3, <1>4, HandlerEffect

\* No other step puts a PING on a link, nor an answer to none.
Emptier == \A t \in Token, l \in Link : Carries(l, t)' => Carries(l, t)

\* Every step but those of the plain handlers leaves the links emptier.
LEMMA OthersCarry ==
    ASSUME TypeOK, LifelineInv, [Next]_vars, ~PlainHandler
    PROVE  Emptier
<1> USE DEF Emptier
<1>1. ASSUME NEW e, e.kind # "frame", e \in Event,
             events' = Append(events, e) \/ events' = events,
             \A l \in Link : toHub'[l] = toHub[l] \/ toHub'[l] = <<>>
      PROVE  Emptier
  <2>1. Range(events') \subseteq Range(events) \cup {e}
    <3>1. Range(Append(events, e)) = Range(events) \cup {e}
      BY <1>1, QueueRanges DEF TypeOK
    <3> QED
      BY <1>1, <3>1
  <2>2. \A l, t : e # Pong(l, t)
    BY <1>1 DEF Pong, Frame
  <2> QED
    BY <1>1, <2>1, <2>2, RangesOfCalls DEF Carries, Pong
<1>2. ASSUME events # <<>>, events' = Rest,
             \A l \in Link : toHub'[l] = toHub[l] \/ toHub'[l] = <<>>
      PROVE  Emptier
  <2>1. Range(events') \subseteq Range(events)
    BY <1>2, EntryType, QueueRanges DEF TypeOK, Rest
  <2> QED
    BY <1>2, <2>1, RangesOfCalls DEF Carries, Pong
<1>3. CASE CmdConnect \/ OnRetry \/ OnDown
  <2>1. events # <<>> /\ events' = Rest
    BY <1>3 DEF CmdConnect, OnRetry, OnDown, Command, Next1
  <2>2. \A l \in Link : toHub'[l] = toHub[l] \/ toHub'[l] = <<>>
    BY <1>3 DEF CmdConnect, OnRetry, OnDown, OpenLink, Open, TypeOK
  <2> QED
    BY <1>2, <2>1, <2>2
<1>4. ASSUME NEW rest \in Seq(Event), Range(rest) \subseteq Range(events), Close(hub, rest)
      PROVE  Emptier
  <2>1. \A l \in Link : toHub'[l] = toHub[l] \/ toHub'[l] = <<>>
    BY <1>4 DEF Close, Live, TypeOK
  <2>2. \A l \in Link : \A t : Pong(l, t) \in Range(events') => Pong(l, t) \in Range(events)
    <3>1. CASE hub \in Live
      <4>1. events' = Append(rest, Down(hub)) /\ Down(hub) \in Event
        BY <1>4, <3>1 DEF Close, Live, Event, LinkEvent
      <4>2. Range(events') = Range(rest) \cup {Down(hub)}
        BY <4>1, QueueRanges
      <4>3. \A l, t : Down(hub) # Pong(l, t)
        BY DEF Down, Pong, Frame
      <4> QED
        BY <1>4, <4>2, <4>3
    <3>2. CASE hub \notin Live
      BY <1>4, <3>2 DEF Close
    <3> QED
      BY <3>1, <3>2
  <2> QED
    BY <2>1, <2>2, RangesOfCalls DEF Carries, Pong
<1>5. CASE CmdDisconnect
  <2>1. events # <<>> /\ Close(hub, Rest)
    BY <1>5 DEF CmdDisconnect, Command, Next1
  <2>2. Rest \in Seq(Event) /\ Range(Rest) \subseteq Range(events)
    BY <2>1, EntryType, QueueRanges DEF TypeOK, Rest
  <2> QED
    BY <1>4, <2>1, <2>2
<1>6. CASE Exit
  BY <1>4, <1>6 DEF Exit, TypeOK
<1>7. CASE ReadCommand \/ ReadEof \/ RetryTimer \/ HelloTimer
  <2>1. PICK e \in Requests \cup {Eof, Retry, HelloDue} : events' = Append(events, e)
    BY <1>7 DEF ReadCommand, ReadEof, RetryTimer, HelloTimer
  <2>2. e \in Event /\ e.kind # "frame"
    BY DEF Requests, RoomCmd, Cmd, Eof, Retry, HelloDue, Event
  <2>3. toHub' = toHub
    BY <1>7 DEF ReadCommand, ReadEof, RetryTimer, HelloTimer
  <2> QED
    BY <1>1, <2>1, <2>2, <2>3
<1>8. CASE PipeBreaks \/ UNCHANGED vars
  BY <1>8 DEF PipeBreaks, vars, linkVars, Carries
<1>9. CASE Net
  <2>1. PICK l \in Link : Network(l)
    BY <1>9 DEF Net
  <2>2. \A k \in Link : Range(toHub'[k]) \subseteq Range(toHub[k])
    <3>1. ASSUME toHub[l] # <<>>, toHub' = [toHub EXCEPT ![l] = Tail(@)]
          PROVE  \A k \in Link : Range(toHub'[k]) \subseteq Range(toHub[k])
      <4>1. Range(Tail(toHub[l])) \subseteq Range(toHub[l])
        BY <3>1, QueueRanges, HeadTailProperties DEF TypeOK
      <4> QED
        BY <3>1, <4>1 DEF TypeOK
    <3>2. CASE toHub' = toHub
      BY <3>2
    <3>3. CASE HubClosed(l)
      <4>1. toHub' = [toHub EXCEPT ![l] = <<>>]
        BY <3>3 DEF HubClosed, Closed
      <4> QED
        BY <4>1, RangesOfCalls DEF TypeOK
    <3>4. CASE ~(toHub' = toHub) /\ ~HubClosed(l)
      BY <2>1, <3>1, <3>4 DEF Network, Established, Lose, HubHello, HubJoin, HubPart, HubOther, HubTalks, Receive
    <3> QED
      BY <3>2, <3>3, <3>4
  <2>3. ASSUME NEW t \in Token, NEW k \in Link, Pong(k, t) \in Range(events')
        PROVE  Carries(k, t)
    <3>1. ASSUME NEW e \in Event, Callback(e)
          PROVE  Pong(k, t) \in Range(events) \/ e = Pong(k, t)
      BY <2>3, <3>1, CallbackRange
    <3>2. Up(l) \in Event /\ Down(l) \in Event /\ Up(l) # Pong(k, t) /\ Down(l) # Pong(k, t)
      BY DEF Event, LinkEvent, Up, Down, Pong, Frame
    <3>3. CASE HubClosed(l)
      BY <3>1, <3>2, <3>3 DEF HubClosed, Closed, Carries
    <3>4. CASE events' = events \/ Callback(Up(l))
      BY <2>3, <3>1, <3>2, <3>4 DEF Carries
    <3>5. CASE \E f \in FromHub : /\ Callback(Frame(l, f))
                                  /\ f.type = "PONG" => toHub[l] # <<>> /\ Head(toHub[l]) = PingMsg(f.token)
      <4>1. PICK f \in FromHub : /\ Callback(Frame(l, f))
                                 /\ f.type = "PONG" => toHub[l] # <<>> /\ Head(toHub[l]) = PingMsg(f.token)
        BY <3>5
      <4>2. Frame(l, f) \in Event
        BY DEF Frame, Event, LinkEvent
      <4>3. CASE Frame(l, f) = Pong(k, t)
        <5>1. l = k /\ f.type = "PONG" /\ f.token = t
          BY <4>3 DEF Frame, Pong
        <5>2. toHub[l] \in Seq(ToHub) /\ toHub[l] # <<>> /\ Head(toHub[l]) = PingMsg(t)
          BY <4>1, <5>1 DEF TypeOK
        <5>3. Head(toHub[l]) \in Range(toHub[l])
          BY <5>2, QueueRanges, HeadTailProperties
        <5> QED
          BY <5>1, <5>2, <5>3 DEF Carries
      <4> QED
        BY <3>1, <4>1, <4>2, <4>3 DEF Carries
    <3> QED
      BY <2>1, <3>3, <3>4, <3>5, NetworkFrames
  <2> QED
    BY <2>2, <2>3 DEF Carries, Pong
<1> QED
  BY <1>3, <1>5, <1>6, <1>7, <1>8, <1>9 DEF Next, MainLoop, PlainHandler, Finished

\* What else the steps do to the session's pings, the link in hand and the
\* retry that is due.
LEMMA OthersHand ==
    ASSUME TypeOK, LifelineInv, [Next]_vars, ~PlainHandler
    PROVE  \/ session' # NoSession => session'.pings = {}
           \/ OnRetry /\ session' = session /\ RetryDue
           \/ /\ session' = session
              /\ hub' = hub \/ (hub' = NoLink /\ CmdDisconnect)
              /\ RetryDue' => RetryDue
<1> DEFINE Same == /\ session' = session
                   /\ hub' = hub \/ (hub' = NoLink /\ CmdDisconnect)
                   /\ RetryDue' => RetryDue
<1>1. ASSUME events # <<>>
      PROVE  /\ Range(Rest) \subseteq Range(events) /\ Head(events) \in Range(events)
             /\ Rest \in Seq(Event) /\ Head(events) \in Event
  <2>1. events \in Seq(Event) /\ Head(events) \in Event /\ Rest \in Seq(Event)
    BY <1>1, EntryType DEF TypeOK
  <2> QED
    BY <1>1, <2>1, QueueRanges DEF Rest
<1>2. ASSUME NEW q \in Seq(Event), NEW e \in Event, e.kind # "retry"
      PROVE  Retry \in Range(Append(q, e)) => Retry \in Range(q)
  <2>1. Range(Append(q, e)) = Range(q) \cup {e} /\ e # Retry
    BY <1>2, QueueRanges DEF Retry
  <2> QED
    BY <2>1
<1>3. CASE CmdConnect
  <2>1. events # <<>> /\ Head(events).kind = "cmd" /\ Head(events).op = "connect"
    BY <1>3 DEF CmdConnect, Command, Next1
  <2>2. session = NoSession
    <3>1. Head(events) \in Connects
      BY <1>1, <2>1, WaitingKinds DEF Reopens
    <3>2. 1 \in DOMAIN events /\ events[1] = Head(events)
      BY <2>1, EmptySeq, LenProperties DEF TypeOK
    <3> QED
      BY <3>1, <3>2 DEF LifelineInv, Fresh, Unstarted
  <2>3. session' = session \/ \E nick \in Nick \cup {NoNick} : session' = NewSession(nick)
    BY <1>3 DEF CmdConnect, OpenLink
  <2> QED
    BY <2>2, <2>3 DEF NewSession
<1>4. CASE OnRetry
  <2>1. events # <<>> /\ Head(events).kind = "retry" /\ session' = session
    BY <1>4 DEF OnRetry, Next1, OpenLink
  <2>2. Head(events) = Retry
    BY <1>1, <2>1, ConnectsKnown DEF Event, LinkEvent, Requests, RoomCmd, Cmd, Connect, Eof, Retry,
                                     HelloDue, Up, Down
  <2> QED
    BY <1>1, <1>4, <2>1, <2>2 DEF RetryDue
<1>5. CASE OnDown
  <2>1. session # NoSession => OnLinkDown(session).session.pings = {}
    BY DEF OnLinkDown, Emit, Outcome, TypeOK, Session
  <2> QED
    BY <1>5, <2>1 DEF OnDown
<1>6. ASSUME NEW rest \in Seq(Event), Range(rest) \subseteq Range(events), Close(hub, rest),
             session' = session, retries' = retries, hub' = hub \/ (hub' = NoLink /\ CmdDisconnect)
      PROVE  Same
  <2>1. CASE hub \in Live
    <3>1. events' = Append(rest, Down(hub)) /\ Down(hub) \in Event /\ Down(hub).kind # "retry"
      BY <1>6, <2>1 DEF Close, Live, Event, LinkEvent, Down
    <3> QED
      BY <1>2, <1>6, <3>1 DEF RetryDue
  <2>2. CASE hub \notin Live
    BY <1>6, <2>2 DEF Close, RetryDue
  <2> QED
    BY <2>1, <2>2
<1>7. CASE CmdDisconnect
  <2>1. events # <<>> /\ Close(hub, Rest) /\ session' = session /\ retries' = retries /\ hub' = NoLink
    BY <1>7 DEF CmdDisconnect, Command, Next1
  <2> QED
    BY <1>1, <1>6, <1>7, <2>1
<1>8. CASE Exit
  <2>1. Close(hub, events) /\ session' = session /\ retries' = retries /\ hub' = hub
    BY <1>8 DEF Exit
  <2> QED
    BY <1>6, <2>1 DEF TypeOK
<1>9. CASE ReadCommand \/ ReadEof \/ HelloTimer
  <2>1. PICK e \in Requests \cup {Eof, HelloDue} : events' = Append(events, e)
    BY <1>9 DEF ReadCommand, ReadEof, HelloTimer
  <2>2. e \in Event /\ e.kind # "retry"
    BY DEF Requests, RoomCmd, Cmd, Eof, HelloDue, Event
  <2>3. session' = session /\ hub' = hub /\ retries' = retries
    BY <1>9 DEF ReadCommand, ReadEof, HelloTimer, loopVars
  <2> QED
    BY <1>2, <2>1, <2>2, <2>3 DEF RetryDue, TypeOK
<1>10. CASE RetryTimer
  BY <1>10 DEF RetryTimer, RetryDue
<1>11. CASE PipeBreaks \/ UNCHANGED vars
  BY <1>11 DEF PipeBreaks, vars, linkVars, loopVars, RetryDue
<1>12. CASE Net
  <2>1. PICK l \in Link : Network(l)
    BY <1>12 DEF Net
  <2>2. session' = session /\ hub' = hub /\ retries' = retries
    BY <1>12 DEF Net, loopVars
  <2>3. events' = events \/ \E e \in Event : e.kind # "retry" /\ Callback(e)
    <3>1. Down(l) \in Event /\ Down(l).kind = "down"
      BY DEF Event, LinkEvent, Down
    <3> QED
      BY <2>1, <3>1, NetworkFacts
  <2>4. Retry \in Range(events') => Retry \in Range(events)
    BY <2>3, CallbackRange DEF Retry
  <2> QED
    BY <2>2, <2>4 DEF RetryDue
<1> QED
  BY <1>3, <1>4, <1>5, <1>7, <1>8, <1>9, <1>10, <1>11, <1>12 DEF Next, MainLoop, PlainHandler, Finished

\* The invariants of the pings.
LEMMA PingStep ==
    ASSUME TypeOK, LifelineInv, PingInv, [Next]_vars
    PROVE  PingInv' /\ (HandInv /\ ~CmdDisconnect => HandInv')
<1>1. ASSUME session # NoSession PROVE session.pings \subseteq Token
  BY <1>1 DEF TypeOK, Session
<1>2. CASE PlainHandler
  <2>1. hub' = hub /\ retries' = retries /\ events # <<>> /\ events' = Rest
    BY <1>2, PlainFacts
  <2>2. RetryDue' => RetryDue
    <3>1. Range(Rest) \subseteq Range(events)
      BY <2>1, EntryType, QueueRanges DEF TypeOK, Rest
    <3> QED
      BY <2>1, <3>1 DEF RetryDue
  <2>3. ASSUME session' # NoSession, NEW t \in session'.pings, NEW l \in Link, Carries(l, t)'
        PROVE  \/ session # NoSession /\ t \in session.pings /\ Carries(l, t)
               \/ l = hub /\ hub \in Live
    <3>1. session # NoSession /\ (t \in session.pings \/ FreshToken(t))
      BY <1>2, <2>3, PlainCarries
    <3>2. session' \in Session
      <4>1. CASE Idle
        BY <2>3, <4>1 DEF Idle, TypeOK
      <4>2. CASE \E o \in Outcomes : session' = o.session
        BY <4>2 DEF Outcomes
      <4> QED
        BY <1>2, <4>1, <4>2, HandlerEffect
    <3>3. t \in Token
      BY <3>2 DEF Session
    <3>4. Carries(l, t) \/ (FreshToken(t) /\ l = hub /\ status[l] = "active")
      BY <1>2, <2>3, <3>3, PlainCarries
    <3>5. CASE FreshToken(t)
      <4>1. ~Carries(l, t)
        BY <3>3, <3>5, FreshIsNowhere
      <4> QED
        BY <3>4, <4>1 DEF Live
    <3>6. CASE ~FreshToken(t)
      BY <3>1, <3>4, <3>6
    <3> QED
      BY <3>5, <3>6
  <2>4. hub \in Live => ~RetryDue
    BY RetryAlone
  <2>5. PingInv'
    <3> SUFFICES ASSUME session' # NoSession, NEW t \in session'.pings, NEW l \in Link, Carries(l, t)'
                 PROVE  hub' \in {l, NoLink} /\ ~RetryDue'
      BY DEF PingInv
    <3> QED
      BY <2>1, <2>2, <2>3, <2>4 DEF PingInv
  <2>6. HandInv => HandInv'
    <3> SUFFICES ASSUME HandInv, session' # NoSession, hub' = NoLink,
                        NEW t \in session'.pings, NEW l \in Link, Carries(l, t)'
                 PROVE  FALSE
      BY DEF HandInv
    <3> QED
      BY <2>1, <2>3, NoLinkIsNone DEF HandInv
  <2> QED
    BY <2>5, <2>6
<1>3. CASE ~PlainHandler
  <2>1. Emptier
    BY <1>3, OthersCarry
  <2>2. CASE session' # NoSession => session'.pings = {}
    BY <2>2 DEF PingInv, HandInv
  <2>3. CASE OnRetry /\ session' = session /\ RetryDue
    <3>1. session # NoSession => \A t \in session.pings, l \in Link : ~Carries(l, t)
      BY <2>3 DEF PingInv
    <3>2. session' # NoSession => \A t \in session'.pings, l \in Link : ~Carries(l, t)'
      BY <1>1, <2>1, <2>3, <3>1 DEF Emptier
    <3> QED
      BY <3>2 DEF PingInv, HandInv
  <2>4. CASE /\ session' = session
             /\ hub' = hub \/ (hub' = NoLink /\ CmdDisconnect)
             /\ RetryDue' => RetryDue
    <3>1. session # NoSession => \A t \in session.pings, l \in Link : Carries(l, t)' => Carries(l, t)
      BY <1>1, <2>1 DEF Emptier
    <3>2. PingInv'
      <4> SUFFICES ASSUME session' # NoSession, NEW t \in session'.pings, NEW l \in Link, Carries(l, t)'
                   PROVE  hub' \in {l, NoLink} /\ ~RetryDue'
        BY DEF PingInv
      <4> QED
        BY <2>4, <3>1 DEF PingInv
    <3>3. HandInv /\ ~CmdDisconnect => HandInv'
      <4> SUFFICES ASSUME HandInv, ~CmdDisconnect, session' # NoSession, hub' = NoLink,
                          NEW t \in session'.pings, NEW l \in Link, Carries(l, t)'
                   PROVE  FALSE
        BY DEF HandInv
      <4> QED
        BY <2>4, <3>1 DEF HandInv
    <3> QED
      BY <3>2, <3>3
  <2> QED
    BY <1>3, <2>2, <2>3, <2>4, OthersHand
<1> QED
  BY <1>2, <1>3

\* "pong" is no other event.
LEMMA PongIsAlone ==
    /\ \A c : Error(c) # Plain("pong")
    /\ \A s : State(s) # Plain("pong")
    /\ \A op, r : op # "pong" => AboutRoom(op, r) # Plain("pong")
    /\ \A op : op # "pong" => Plain(op) # Plain("pong")
BY DEF Error, State, AboutRoom, Plain

\* No call of the session tells of an answered ping, but that on the answer.
LEMMA QuietCalls ==
    ASSUME NEW s \in Session
    PROVE  /\ \A names, order : Plain("pong") \notin JoinAll(s, names, order).told
           /\ \A r : Plain("pong") \notin JoinRoom(s, r).told
           /\ \A r : Plain("pong") \notin PartRoom(s, r).told
           /\ \A r, fits : Plain("pong") \notin Say(s, r, fits).told
           /\ \A fits : Plain("pong") \notin SayDirect(s, fits).told
           /\ \A n, fits : Plain("pong") \notin SetNick(s, n, fits).told
           /\ \A t : Plain("pong") \notin Ping(s, t).told
           /\ Plain("pong") \notin Start(s).told
           /\ Plain("pong") \notin OnLinkDown(s).told
           /\ \A limits, W, order : Plain("pong") \notin OnWelcome(s, limits, W, order).told
<1>1. \A q, names, order : Plain("pong") \notin JoinAll(q, names, order).told
  BY PongIsAlone DEF JoinAll, Outcome
<1>2. \A q, m : Plain("pong") \notin Transmit(q, m).told
  BY DEF Transmit, Outcome
<1>3. \A q, e : e # Plain("pong") => Plain("pong") \notin Emit(q, e).told
  BY DEF Emit, Outcome
<1>4. \A q, c : Plain("pong") \notin Fail(q, c).told
  BY <1>3, PongIsAlone DEF Fail
<1>5. /\ \A r : Plain("pong") \notin JoinRoom(s, r).told
      /\ \A r : Plain("pong") \notin PartRoom(s, r).told
      /\ \A t : Plain("pong") \notin Ping(s, t).told
      /\ Plain("pong") \notin Start(s).told
  BY <1>1, <1>2 DEF JoinRoom, PartRoom, Ping, Start
<1>6. /\ \A r, fits : Plain("pong") \notin Say(s, r, fits).told
      /\ \A fits : Plain("pong") \notin SayDirect(s, fits).told
  BY <1>2, <1>4 DEF Say, SayDirect
<1>7. \A n, fits : Plain("pong") \notin SetNick(s, n, fits).told
  BY <1>3, <1>4, PongIsAlone DEF SetNick
<1>8. Plain("pong") \notin OnLinkDown(s).told
  BY <1>3, PongIsAlone DEF OnLinkDown
<1>9. \A limits, W, order : Plain("pong") \notin OnWelcome(s, limits, W, order).told
  BY <1>1, PongIsAlone DEF OnWelcome, Outcome
<1> QED
  BY <1>1, <1>5, <1>6, <1>7, <1>8, <1>9

\* The answer to a ping is told of only when the session remembers the ping.
LEMMA PongFrames ==
    ASSUME NEW s \in Session, NEW f \in FromHub, Plain("pong") \in OnFrame(s, f).told
    PROVE  \E t \in s.pings : f = [type |-> "PONG", token |-> t]
<1>1. f.type \in {"WELCOME", "JOINED", "PARTED", "CHAT", "PONG", "DIRECT", "PING", "ERROR", "IGNORED"}
  BY DEF FromHub
<1>2. f.type # "PONG" => Plain("pong") \notin OnFrame(s, f).told
  <2>1. /\ \A q, e : e # Plain("pong") => Plain("pong") \notin Emit(q, e).told
        /\ \A q, m : Plain("pong") \notin Transmit(q, m).told
        /\ Plain("pong") \notin Silently(s).told
    BY DEF Emit, Transmit, Silently, Outcome
  <2>2. CASE f.type = "JOINED"
    BY <2>1, <2>2, PongIsAlone DEF OnFrame, OnJoined
  <2>3. CASE f.type = "PARTED"
    BY <2>1, <2>3, PongIsAlone DEF OnFrame, OnParted
  <2>4. CASE f.type \in {"CHAT", "DIRECT", "ERROR"}
    BY <2>1, <2>4, PongIsAlone DEF OnFrame, Fail
  <2>5. CASE f.type \in {"WELCOME", "PING", "IGNORED"}
    BY <2>1, <2>5 DEF OnFrame
  <2> QED
    BY <1>1, <2>2, <2>3, <2>4, <2>5
<1>3. f.type = "PONG" => f.token \in s.pings /\ f = [type |-> "PONG", token |-> f.token]
  <2> SUFFICES ASSUME f.type = "PONG" PROVE f.token \in s.pings /\ f = [type |-> "PONG", token |-> f.token]
    OBVIOUS
  <2>1. f = [type |-> "PONG", token |-> f.token]
    BY DEF FromHub
  <2>2. OnFrame(s, f) = OnPong(s, f.token)
    BY DEF OnFrame
  <2>3. f.token \in s.pings
    BY <2>2 DEF OnPong, Silently, Outcome
  <2> QED
    BY <2>1, <2>3
<1> QED
  BY <1>2, <1>3

\* A lag report is told only on the answer to a ping the session remembers.
LEMMA PongsTold ==
    ASSUME TypeOK, Next, ~UNCHANGED vars, Plain("pong") \in told'
    PROVE  /\ events # <<>> /\ session # NoSession
           /\ \E l \in Link, t \in session.pings : Head(events) = Pong(l, t)
<1>1. session # NoSession => session \in Session
  BY DEF TypeOK
<1>2. ASSUME NEW o, NEW more, Plain("pong") \notin o.told \cup more, Perform(o, more) PROVE FALSE
  BY <1>2, PongIsAlone DEF Perform, Telling
<1>3. ASSUME NEW o, NEW keep, session # NoSession => Plain("pong") \notin o.told, WithSession(o, keep)
      PROVE  FALSE
  BY <1>2, <1>3, PongIsAlone DEF WithSession, Telling
<1>4. ~(CmdJoin \/ CmdPart \/ CmdSay \/ CmdDirect \/ CmdNick \/ CmdPing)
  <2>1. ~CmdJoin
    BY <1>1, <1>3, QuietCalls DEF CmdJoin
  <2>2. ~CmdPart
    BY <1>1, <1>3, QuietCalls DEF CmdPart
  <2>3. ~CmdSay
    BY <1>1, <1>3, QuietCalls DEF CmdSay
  <2>4. ~CmdDirect
    BY <1>1, <1>3, QuietCalls DEF CmdDirect
  <2>5. ~CmdNick
    BY <1>1, <1>3, QuietCalls DEF CmdNick
  <2>6. ~CmdPing
    BY <1>1, <1>3, QuietCalls DEF CmdPing
  <2> QED
    BY <2>1, <2>2, <2>3, <2>4, <2>5, <2>6
<1>5. ASSUME NEW s, NEW again, NEW more, Plain("pong") \notin more, OpenLink(s, again, more) PROVE FALSE
  BY <1>5, PongIsAlone DEF OpenLink, Telling
<1>6. ~(CmdConnect \/ OnRetry \/ CmdDisconnect)
  <2>1. ~CmdConnect
    BY <1>5, PongIsAlone DEF CmdConnect, Telling
  <2>2. ~OnRetry
    BY <1>5 DEF OnRetry
  <2>3. ~CmdDisconnect
    BY PongIsAlone DEF CmdDisconnect, Telling
  <2> QED
    BY <2>1, <2>2, <2>3
<1>7. ~(OnUp \/ OnHelloDue \/ OnDown)
  <2>1. ~OnUp
    BY <1>1, <1>2, QuietCalls, PongIsAlone DEF OnUp, Telling
  <2>2. ~OnHelloDue
    <3>1. ~(session # NoSession /\ Perform(Start(session), {}))
      BY <1>1, <1>2, QuietCalls
    <3>2. ~Telling({}) /\ ~Telling({Error("silent")})
      BY PongIsAlone DEF Telling
    <3> QED
      BY <3>1, <3>2 DEF OnHelloDue
  <2>3. ~OnDown
    BY <1>1, QuietCalls, PongIsAlone DEF OnDown, Telling
  <2> QED
    BY <2>1, <2>2, <2>3
<1>8. ~(ReadCommand \/ ReadEof \/ PipeBreaks \/ RetryTimer \/ HelloTimer \/ Net
        \/ CmdQuit \/ OnEof \/ Exit \/ Finished)
  BY DEF ReadCommand, ReadEof, PipeBreaks, RetryTimer, HelloTimer, Net, CmdQuit, OnEof, Exit, Finished
<1>9. OnFrameEvent
  BY <1>4, <1>6, <1>7, <1>8 DEF Next, MainLoop
<1>10. events # <<>> /\ Head(events) \in Event /\ Head(events).kind = "frame"
  BY <1>9, EntryType DEF OnFrameEvent, Next1, TypeOK
<1>11. PICK l \in Link, f \in FromHub : Head(events) = Frame(l, f)
  BY <1>10, EventFields, ConnectsKnown
     DEF Event, LinkEvent, Requests, RoomCmd, Cmd, Connect, Eof, Retry, HelloDue, Up, Down, Frame
<1>12. Head(events).frame = f
  BY <1>11 DEF Frame
<1>13. session # NoSession /\ Plain("pong") \in OnFrame(session, f).told
  <2>1. session # NoSession
    BY <1>9 DEF OnFrameEvent, Telling
  <2>2. f.type # "WELCOME"
    <3>1. \A order : ~Perform(OnWelcome(session, f.limits, wanted, order), {})
      BY <1>1, <1>2, <2>1, QuietCalls
    <3> QED
      BY <1>9, <1>12, <2>1, <3>1 DEF OnFrameEvent
  <2>3. Perform(OnFrame(session, f), {})
    BY <1>9, <1>12, <2>1, <2>2 DEF OnFrameEvent
  <2> QED
    BY <1>2, <2>1, <2>3
<1> QED
  BY <1>1, <1>10, <1>11, <1>13, PongFrames DEF Pong

\* Where disconnect is not among the commands, none is ever in the queue.
LEMMA NeverDropped ==
    ASSUME TypeOK, "disconnect" \notin Commands
    PROVE  ~CmdDisconnect
<1> SUFFICES ASSUME CmdDisconnect PROVE FALSE
  OBVIOUS
<1>1. events # <<>> /\ Head(events).kind = "cmd" /\ Head(events).op = "disconnect"
  BY DEF CmdDisconnect, Command, Next1
<1>2. Head(events) \in Event
  BY <1>1, EntryType
<1>3. Head(events) \in Requests
  BY <1>1, <1>2, ConnectsKnown DEF Event, LinkEvent, Connect, Eof, Retry, HelloDue, Up, Down
<1> QED
  BY <1>1, <1>3 DEF Requests, RoomCmd, Cmd

\* A session remembers no ping of a link that was given up for the next.
LEMMA PingInvariant == Spec => []PingInv
<1>1. Init => PingInv
  BY DEF Init, PingInv
<1>2. TypeOK /\ LifelineInv /\ PingInv /\ [Next]_vars => PingInv'
  BY PingStep
<1> QED
  BY <1>1, <1>2, TypeCorrect, LifelineInvariant, PTL DEF Spec

\* The answer came over the link in hand, or there is none in hand.
PongIsNoOther == Plain("pong") \in told' => hub \in {Head(events).link, NoLink}

\* A lag report never credits an earlier link's answer to the link in hand
\* (_on_pong, on_link_down), whatever the faults and the commands.
THEOREM PongNeverStale == Spec => [][PongIsNoOther]_vars
<1>1. TypeOK /\ PingInv /\ [Next]_vars => [PongIsNoOther]_vars
  <2> SUFFICES ASSUME TypeOK, PingInv, Next, ~UNCHANGED vars, Plain("pong") \in told'
               PROVE  hub \in {Head(events).link, NoLink}
    BY DEF PongIsNoOther
  <2>1. events # <<>> /\ session # NoSession
    BY PongsTold
  <2>2. PICK l \in Link, t \in session.pings : Head(events) = Pong(l, t)
    BY PongsTold
  <2>3. Head(events) \in Range(events)
    BY <2>1, QueueRanges DEF TypeOK
  <2>4. Carries(l, t) /\ Head(events).link = l
    BY <2>2, <2>3 DEF Carries, Pong, Frame
  <2> QED
    BY <2>1, <2>2, <2>4 DEF PingInv
<1> QED
  BY <1>1, TypeCorrect, PingInvariant, PTL DEF Spec

\* ... and where the user never drops the link by hand, that link is in hand.
\* After a disconnect the session keeps its pings until the link's end is
\* handled, and an answer already queued is then reported with no link.
THEOREM PongIsCurrentHolds ==
    ASSUME "disconnect" \notin Commands
    PROVE  Spec => PongIsCurrent
<1>1. Init => HandInv
  BY DEF Init, HandInv
<1>2. TypeOK /\ LifelineInv /\ PingInv /\ HandInv /\ [Next]_vars => HandInv'
  BY PingStep, NeverDropped
<1> DEFINE Current == Plain("pong") \in told' => Head(events).link = hub
<1>3. TypeOK /\ PingInv /\ HandInv /\ [Next]_vars => [Current]_vars
  <2> SUFFICES ASSUME TypeOK, PingInv, HandInv, Next, ~UNCHANGED vars, Plain("pong") \in told'
               PROVE  Head(events).link = hub
    OBVIOUS
  <2>1. events # <<>> /\ session # NoSession
    BY PongsTold
  <2>2. PICK l \in Link, t \in session.pings : Head(events) = Pong(l, t)
    BY PongsTold
  <2>3. Head(events) \in Range(events)
    BY <2>1, QueueRanges DEF TypeOK
  <2>4. Carries(l, t) /\ Head(events).link = l
    BY <2>2, <2>3 DEF Carries, Pong, Frame
  <2> QED
    BY <2>1, <2>2, <2>4 DEF PingInv, HandInv
<1> QED
  BY <1>1, <1>2, <1>3, TypeCorrect, LifelineInvariant, PingInvariant, PTL DEF Spec, PongIsCurrent
=============================================================================
