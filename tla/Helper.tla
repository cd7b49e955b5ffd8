------------------------------- MODULE Helper -------------------------------
(***************************************************************************)
(* The helper process: rrc_helper/__main__.py, class Helper, composed with *)
(* its session (RRCSession), its Link (HubLink) and the hub (Hub).         *)
(*                                                                         *)
(* Everything that happens reaches the main loop as an entry of one FIFO   *)
(* queue.  Commands come from the thread that reads WeeChat's pipe, "up",  *)
(* "frame" and "down" from Reticulum's threads, "retry" and "hello" from   *)
(* timer threads.  Timers are never cancelled, and no entry says which     *)
(* link or session it belongs to.  One step of the main loop handles one   *)
(* entry; everything the handler does is part of that step.                *)
(*                                                                         *)
(* Time is abstract: a timer that is set fires eventually, whatever else   *)
(* happens first.  The backoff delay is therefore not part of the state.   *)
(***************************************************************************)
EXTENDS Hub

CONSTANTS
    NoSession,  \* Helper.session is None
    Connects,   \* the connect command rrc.py may start with
    Commands,   \* the operations it uses afterwards
    Patient,    \* the user waits for the answer to one JOIN or PART of a
                \* room before asking for another
    MaxTimers   \* bound: HELLO timers of earlier links left when one comes up

\* HELLO_MAX_ATTEMPTS.
HelloMaxAttempts == 3

Operations == {"join", "part", "say", "direct", "nick", "ping", "quit", "disconnect"}
Connect(rooms, again) == [kind |-> "cmd", op |-> "connect", autojoin |-> rooms, reconnect |-> again]

ASSUME NoSessionIsNone == NoSession \notin Session
ASSUME PatientIsBoolean == Patient \in BOOLEAN
ASSUME CommandsKnown == Commands \subseteq Operations
ASSUME ConnectsKnown == Connects \subseteq {Connect(S, b) : S \in SUBSET Room, b \in BOOLEAN}
ASSUME TimerBound == MaxTimers \in Nat \ {0}

VARIABLES
    mode,       \* "run": in the main loop; "stopping": leaving it; "exited"
    session,    \* Helper.session
    hub,        \* Helper.hub, by its link: NoLink also for a HubLink without one
    wanted,     \* Helper.wanted: the list decides the order of JOINs only
    reconnect,  \* Helper.reconnect
    attempts,   \* Helper.hello_attempts
    retries,    \* reconnect timers running
    hellos,     \* HELLO timers running
    stdin,      \* "open", or "closed" once the reader has met EOF
    stdout,     \* "open", or "closed" once WeeChat no longer reads it
    told        \* the events emitted in the last step

loopVars == <<mode, session, hub, wanted, reconnect, attempts, retries, hellos>>
vars == <<linkVars, hubVars, loopVars, stdin, stdout, told>>

Cmd(op)     == [kind |-> "cmd", op |-> op]
RoomCmd(op, r) == [kind |-> "cmd", op |-> op, room |-> r]
Requests == {RoomCmd(op, r) : op \in Commands \cap {"join", "part", "say"}, r \in Room}
            \cup {Cmd(op) : op \in Commands \cap {"direct", "nick", "ping", "quit", "disconnect"}}
Eof   == [kind |-> "eof"]
Retry == [kind |-> "retry"]
HelloDue == [kind |-> "hello"]
Event == LinkEvent \cup Requests \cup Connects \cup {Eof, Retry, HelloDue}

\* rrc.py writes one connect command as soon as it has started the helper
\* (Connection.start), and never another to the same process.
Init ==
    /\ HubLinkInit /\ HubInit
    /\ \E c \in Connects : events = <<c>>
    /\ mode = "run" /\ session = NoSession /\ hub = NoLink /\ wanted = {}
    /\ reconnect = TRUE /\ attempts = 0 /\ retries = 0 /\ hellos = 0
    /\ stdin = "open" /\ stdout = "open" /\ told = {}

-----------------------------------------------------------------------------
(* One entry of the queue.                                                 *)

Next1(kind) == mode = "run" /\ events # <<>> /\ Head(events).kind = kind
Rest == Tail(events)

\* Emitting to a pipe nobody reads clears _running (emit); the entry in hand
\* is handled to its end.
Telling(S) == /\ told' = S
              /\ mode' = IF stdout = "closed" /\ S # {} THEN "stopping" ELSE mode

\* What _send adds to a session's outcome: the envelopes on the link, or an
\* error when there is none to carry them.
Perform(outcome, more) ==
    /\ session' = outcome.session
    /\ Send(hub, outcome.tx)
    /\ Telling(outcome.told \cup more \cup
               IF outcome.tx = <<>> \/ Usable(hub) THEN {} ELSE {Error("link")})

\* Mutant: a hub that cannot be resolved is not tried again.
OpenLinkGivesUp(s, again, more) ==
    /\ session' = s
    /\ retries' = retries
    /\ \/ \E l \in Link : /\ Unused(l) /\ l # hub
                          /\ Open(l)
                          /\ hub' = l
                          /\ Telling(more \cup {State("connecting")})
       \/ /\ hub' = NoLink
          /\ Telling(more \cup {State("connecting"), Error("link")})
          /\ UNCHANGED <<status, toHub, greeted>>

\* Mutant: a retry is scheduled although a link is on its way.
OpenLinkAndRetry(s, again, more) ==
    /\ session' = s
    /\ retries' = IF again THEN retries + 1 ELSE retries
    /\ Telling(more \cup {State("connecting")})
    /\ \E l \in Link : Unused(l) /\ l # hub /\ Open(l) /\ hub' = l

\* _open_link, with "again" for self.reconnect: either a link is on its way,
\* or the hub could not be resolved and a retry is scheduled.
OpenLink(s, again, more) ==
    /\ session' = s
    /\ \/ \E l \in Link : /\ Unused(l) /\ l # hub
                          /\ Open(l)
                          /\ hub' = l
                          /\ retries' = retries
                          /\ Telling(more \cup {State("connecting")})
       \/ /\ hub' = NoLink
          /\ retries' = IF again THEN retries + 1 ELSE retries
          /\ Telling(more \cup {State("connecting"), Error("link")}
                          \cup IF again THEN {Plain("reconnect")} ELSE {})
          /\ UNCHANGED <<status, toHub, greeted>>

-----------------------------------------------------------------------------
(* Commands.                                                               *)

Command(op) == Next1("cmd") /\ Head(events).op = op

\* A connect whose hub address or identity file is unusable changes nothing
\* but the error it reports.  An old link is not closed.
CmdConnect ==
    /\ Command("connect")
    /\ events' = Rest
    /\ \/ /\ Telling({Error("command")})
          /\ UNCHANGED <<status, toHub, greeted, session, hub, wanted, reconnect, retries>>
       \/ /\ wanted' = Head(events).autojoin
          /\ reconnect' = Head(events).reconnect
          /\ \E nick \in Nick \cup {NoNick} :
                OpenLink(NewSession(nick), reconnect', {Plain("identity")})
    /\ UNCHANGED <<hubVars, attempts, hellos, stdin, stdout>>

\* Mutant: the link is dropped but not closed.
DisconnectForgets ==
    /\ Command("disconnect")
    /\ events' = Rest
    /\ reconnect' = FALSE
    /\ hub' = NoLink
    /\ Telling({State("down")})
    /\ UNCHANGED <<status, toHub, hubVars, greeted, session, wanted, attempts, retries, hellos, stdin, stdout>>

CmdDisconnect ==
    /\ Command("disconnect")
    /\ reconnect' = FALSE
    /\ Close(hub, Rest)
    /\ hub' = NoLink
    /\ IF hub \in Live THEN Forget(hub) ELSE UNCHANGED hubVars
    /\ Telling({State("down")})
    /\ UNCHANGED <<greeted, session, wanted, attempts, retries, hellos, stdin, stdout>>

\* A command that needs a session: _require_session, then the session's
\* method, then what it does to the wanted rooms.
WithSession(outcome, keep) ==
    /\ events' = Rest
    /\ IF session = NoSession
       THEN /\ Telling({Error("link")})
            /\ UNCHANGED <<session, toHub, greeted, wanted>>
       ELSE /\ Perform(outcome, {})
            /\ wanted' = keep
    /\ UNCHANGED <<status, hubVars, hub, reconnect, attempts, retries, hellos, stdin, stdout>>

\* Mutants: join does not add to the wanted rooms, part does not remove.
JoinUnwanted == /\ Command("join")
                /\ WithSession(JoinRoom(session, Head(events).room), wanted)
PartStillWanted == /\ Command("part")
                   /\ WithSession(PartRoom(session, Head(events).room), wanted)

\* The room is wanted even when the session refuses to join it.
CmdJoin == /\ Command("join")
           /\ LET r == Head(events).room
              IN  WithSession(JoinRoom(session, r), wanted \cup {r})

CmdPart == /\ Command("part")
           /\ LET r == Head(events).room
              IN  WithSession(PartRoom(session, r), wanted \ {r})

CmdSay == /\ Command("say")
          /\ \E fits \in BOOLEAN : WithSession(Say(session, Head(events).room, fits), wanted)

CmdDirect == /\ Command("direct")
             /\ \E fits \in BOOLEAN : WithSession(SayDirect(session, fits), wanted)

CmdNick == /\ Command("nick")
           /\ \E n \in Nick, fits \in BOOLEAN : WithSession(SetNick(session, n, fits), wanted)

\* A token is random: never one that is still in use anywhere.
FreshToken(t) ==
    /\ session # NoSession => t \notin session.pings
    /\ \A l \in Link : ~Contains(toHub[l], PingMsg(t))
    /\ \A l \in Link : ~Contains(events, Frame(l, [type |-> "PONG", token |-> t]))

CmdPing == /\ Command("ping")
           /\ \E t \in Token : FreshToken(t) /\ WithSession(Ping(session, t), wanted)

\* Mutant: quit only ends reconnecting.
QuitKeepsRunning ==
    /\ Command("quit")
    /\ events' = Rest
    /\ reconnect' = FALSE
    /\ told' = {}
    /\ UNCHANGED <<status, toHub, greeted, hubVars, mode, session, hub, wanted, attempts, retries, hellos, stdin, stdout>>

CmdQuit ==
    /\ Command("quit")
    /\ events' = Rest
    /\ reconnect' = FALSE
    /\ mode' = "stopping"
    /\ told' = {}
    /\ UNCHANGED <<status, toHub, greeted, hubVars, session, hub, wanted, attempts, retries, hellos, stdin, stdout>>

-----------------------------------------------------------------------------
(* The link's life.                                                        *)

\* Mutants: the attempts of an earlier link count too; no timer is set.
GreetOnTop(n) == attempts' = attempts + 1 /\ hellos' = hellos + 1
GreetOnce(n) == attempts' = n /\ hellos' = hellos

\* A timer to repeat HELLO, beside any that an earlier link has left running.
Greet(n) == attempts' = n /\ hellos' = hellos + 1

OnUp ==
    /\ Next1("up")
    /\ events' = Rest
    /\ IF session = NoSession
       THEN /\ Telling({State("up")})
            /\ UNCHANGED <<session, toHub, greeted, attempts, hellos>>
       ELSE /\ Perform(Start(session), {State("up")})
            /\ Greet(1)
    /\ UNCHANGED <<status, hubVars, hub, wanted, reconnect, retries, stdin, stdout>>

\* _resend_hello.
OnHelloDue ==
    /\ Next1("hello")
    /\ events' = Rest
    /\ CASE session = NoSession \/ (session # NoSession /\ session.ready) ->
              /\ Telling({})
              /\ UNCHANGED <<session, toHub, greeted, attempts, hellos>>
         [] session # NoSession /\ ~session.ready /\ attempts >= HelloMaxAttempts ->
              /\ Telling({Error("silent")})
              /\ UNCHANGED <<session, toHub, greeted, attempts, hellos>>
         [] OTHER ->
              /\ Perform(Start(session), {})
              /\ Greet(attempts + 1)
    /\ UNCHANGED <<status, hubVars, hub, wanted, reconnect, retries, stdin, stdout>>

\* session.on_frame; WELCOME runs _rejoin before it returns.
OnFrameEvent ==
    /\ Next1("frame")
    /\ events' = Rest
    /\ LET f == Head(events).frame
       IN  CASE session = NoSession ->
                  /\ Telling({})
                  /\ UNCHANGED <<session, toHub, greeted>>
             [] session # NoSession /\ f.type = "WELCOME" ->
                  \E order \in Orders(Asked(Welcomed(session, f.limits), wanted)) :
                      Perform(OnWelcome(session, f.limits, wanted, order), {})
             [] OTHER -> Perform(OnFrame(session, f), {})
    /\ UNCHANGED <<status, hubVars, hub, wanted, reconnect, attempts, retries, hellos, stdin, stdout>>

\* Mutant: only a session that was ready is reconnected.
DownOnceReady ==
    /\ Next1("down")
    /\ events' = Rest
    /\ hub' = NoLink
    /\ session' = IF session = NoSession THEN NoSession ELSE OnLinkDown(session).session
    /\ retries' = IF reconnect /\ session # NoSession /\ session.ready THEN retries + 1 ELSE retries
    /\ Telling({State("down")})
    /\ UNCHANGED <<status, toHub, greeted, hubVars, wanted, reconnect, attempts, hellos, stdin, stdout>>

\* _on_down, whichever link the entry came from.
OnDown ==
    /\ Next1("down")
    /\ events' = Rest
    /\ hub' = NoLink
    /\ session' = IF session = NoSession THEN NoSession ELSE OnLinkDown(session).session
    /\ retries' = IF reconnect THEN retries + 1 ELSE retries
    /\ Telling((IF session = NoSession THEN {} ELSE OnLinkDown(session).told)
               \cup IF reconnect THEN {Plain("reconnect")} ELSE {})
    /\ UNCHANGED <<status, toHub, greeted, hubVars, wanted, reconnect, attempts, hellos, stdin, stdout>>

\* The main loop opens a link for every retry it takes from the queue.
OnRetry ==
    /\ Next1("retry")
    /\ events' = Rest
    /\ OpenLink(session, reconnect, {})
    /\ UNCHANGED <<hubVars, wanted, reconnect, attempts, hellos, stdin, stdout>>

-----------------------------------------------------------------------------
(* The end.                                                                *)

OnEof ==
    /\ Next1("eof")
    /\ events' = Rest
    /\ mode' = "stopping"
    /\ told' = {}
    /\ UNCHANGED <<status, toHub, greeted, hubVars, session, hub, wanted, reconnect, attempts, retries, hellos, stdin, stdout>>

\* After the loop, run closes the link and returns; the process ends.
Exit ==
    /\ mode = "stopping"
    /\ mode' = "exited"
    /\ Close(hub, events)
    /\ IF hub \in Live THEN Forget(hub) ELSE UNCHANGED hubVars
    /\ told' = {}
    /\ UNCHANGED <<greeted, session, hub, wanted, reconnect, attempts, retries, hellos, stdin, stdout>>

-----------------------------------------------------------------------------
(* The other threads.  Each puts one entry on the queue.                   *)

Alive == mode # "exited"

Answered(c) ==
    c.op \in {"join", "part"} =>
        /\ \A op \in {"join", "part"} : ~Contains(events, RoomCmd(op, c.room))
        /\ session # NoSession => c.room \notin session.pendingJoins \cup session.pendingParts

\* read_commands: one command, or EOF.  Token bounds the pings under way.
ReadCommand ==
    /\ Alive /\ stdin = "open"
    /\ Len(events) < MaxQueue
    /\ \E c \in Requests : /\ Patient => Answered(c)
                           /\ c.op = "ping" => \E t \in Token : FreshToken(t)
                           /\ events' = Append(events, c)
    /\ told' = {}
    /\ UNCHANGED <<status, toHub, greeted, hubVars, loopVars, stdin, stdout>>

ReadEof ==
    /\ "ui" \in Faults
    /\ Alive /\ stdin = "open"
    /\ stdin' = "closed"
    /\ events' = Append(events, Eof)
    /\ told' = {}
    /\ UNCHANGED <<status, toHub, greeted, hubVars, loopVars, stdout>>

PipeBreaks ==
    /\ "ui" \in Faults
    /\ Alive /\ stdout = "open"
    /\ stdout' = "closed"
    /\ told' = {}
    /\ UNCHANGED <<linkVars, hubVars, loopVars, stdin>>

\* Mutant: the reconnect timer goes off again and again.
RetryTimerRepeats ==
    /\ Alive /\ retries > 0
    /\ events' = Append(events, Retry)
    /\ told' = {}
    /\ UNCHANGED <<status, toHub, greeted, hubVars, loopVars, stdin, stdout>>

RetryTimer ==
    /\ Alive /\ retries > 0
    /\ retries' = retries - 1
    /\ events' = Append(events, Retry)
    /\ told' = {}
    /\ UNCHANGED <<status, toHub, greeted, hubVars, mode, session, hub, wanted, reconnect, attempts, hellos, stdin, stdout>>

HelloTimer ==
    /\ Alive /\ hellos > 0
    /\ hellos' = hellos - 1
    /\ events' = Append(events, HelloDue)
    /\ told' = {}
    /\ UNCHANGED <<status, toHub, greeted, hubVars, mode, session, hub, wanted, reconnect, attempts, retries, stdin, stdout>>

\* HELLO timers that are running, or have gone off and wait in the queue.
TimersLeft == hellos + Cardinality({i \in DOMAIN events : events[i] = HelloDue})

\* MaxTimers bounds how fast links come and go: one comes up only while fewer
\* HELLO timers of earlier ones are left.
Net == /\ Alive
       /\ \E l \in Link : Network(l)
       /\ TimersLeft >= MaxTimers =>
              \A l \in Link : status[l] = "pending" => status'[l] # "active"
       /\ told' = {}
       /\ UNCHANGED <<loopVars, stdin, stdout>>

\* The process is gone: nothing is left that could act.
Finished == mode = "exited" /\ UNCHANGED vars

-----------------------------------------------------------------------------
MainLoop ==
    \/ CmdConnect \/ CmdDisconnect \/ CmdJoin \/ CmdPart \/ CmdSay \/ CmdDirect
    \/ CmdNick \/ CmdPing \/ CmdQuit
    \/ OnUp \/ OnHelloDue \/ OnFrameEvent \/ OnDown \/ OnRetry \/ OnEof \/ Exit

Next == \/ MainLoop
        \/ ReadCommand \/ ReadEof \/ PipeBreaks
        \/ RetryTimer \/ HelloTimer
        \/ Net
        \/ Finished

Spec == Init /\ [][Next]_vars

\* The main loop's thread runs, and a timer that is set goes off.  Nothing is
\* assumed of the hub, the network or the user.
LiveSpec == Spec /\ WF_vars(MainLoop) /\ WF_vars(RetryTimer) /\ WF_vars(HelloTimer)

-----------------------------------------------------------------------------
\* Every field keeps to its values; in particular no more than
\* HELLO_MAX_ATTEMPTS HELLOs are ever counted, however many timers of how many
\* links go off (_on_up, _resend_hello).
TypeOK ==
    /\ events \in Seq(Event)
    /\ status \in [Link -> {"closed", "pending", "active"}]
    /\ toHub \in [Link -> Seq(ToHub)]
    /\ greeted \in [Link -> Nat]
    /\ welcomed \subseteq Link
    /\ members \in [Link -> SUBSET Room]
    /\ mode \in {"run", "stopping", "exited"}
    /\ session \in Session \cup {NoSession}
    /\ hub \in Link \cup {NoLink}
    /\ wanted \subseteq Room
    /\ reconnect \in BOOLEAN
    /\ attempts \in 0..HelloMaxAttempts
    /\ retries \in Nat
    /\ hellos \in Nat
    /\ stdin \in {"open", "closed"} /\ stdout \in {"open", "closed"}
    /\ told \subseteq Told

-----------------------------------------------------------------------------
(* The lifeline.  What keeps, or will bring, the helper a link: a live     *)
(* link, a queue entry whose handling opens one or schedules that, or a    *)
(* reconnect timer.                                                        *)

Reopens(e) == e.kind \in {"down", "retry"} \/ e \in Connects

Lifelines == {<<"link", l>> : l \in Live}
             \cup {<<"entry", i>> : i \in {j \in DOMAIN events : Reopens(events[j])}}
             \cup {<<"timer", n>> : n \in 1..retries}

\* There is never more than one lifeline, so no second link is ever opened
\* beside a live one, and retries do not multiply; and while the helper is to
\* reconnect there is always one, so no outage is the last.  (_on_down,
\* _schedule_retry, _open_link; one connect per process, as rrc.py uses it.)
OneLifeline ==
    /\ \A a, b \in Lifelines : a = b
    /\ mode = "run" /\ session # NoSession /\ reconnect => Lifelines # {}

\* A link that is open is the one the helper sends on and will close: no
\* late entry of the queue makes it forget a live link.  (_on_down clears
\* Helper.hub whichever link the entry is about.)
NoOrphan == \A l \in Live : mode # "exited" /\ hub = l

\* Readiness and membership belong to the link in hand: a session is ready,
\* or in a room, only on a link whose HELLO the hub has answered and whose
\* end, if it has ended, is still in the queue.  No earlier link's WELCOME
\* or JOINED survives into the next.  (on_link_down; FIFO queue.)
Ended == \E l \in Link : Contains(events, Down(l))
SessionIsCurrent ==
    session # NoSession =>
        /\ session.ready => hub \in welcomed \/ Ended
        /\ session.rooms # {} => hub \in Live \/ Ended

\* The helper implements the one connection of Reconnector: seen from
\* outside it is never in two phases, never skips the wait between an outage
\* and the next attempt, and gives up only when told not to reconnect.
Phase == CASE mode = "exited" -> "stopped"
           [] mode # "exited" /\ \E l \in Link : status[l] = "active" -> "open"
           [] mode # "exited" /\ Live # {} /\ \A l \in Live : status[l] = "pending" -> "connecting"
           [] mode # "exited" /\ Live = {} /\ session = NoSession -> "idle"
           [] mode # "exited" /\ Live = {} /\ session # NoSession ->
                  IF Lifelines # {} THEN "waiting" ELSE "dropped"

Abstract == INSTANCE Reconnector WITH phase <- Phase, again <- reconnect
Supervised == Abstract!Spec

\* When the user is told that the hub never answered HELLO, the hub has been
\* sent HELLO_MAX_ATTEMPTS of them on the link in hand.
SilenceIsTrue ==
    [][Error("silent") \in told' => hub # NoLink /\ greeted[hub] = HelloMaxAttempts]_vars

\* An outage is always followed by another attempt, for as long as the helper
\* runs and is to reconnect.
OutageEnds ==
    mode = "run" /\ session # NoSession /\ reconnect /\ Live = {}
        ~> State("connecting") \in told \/ mode # "run" \/ ~reconnect

\* Every link that comes up is welcomed, or lost again, or the user is told
\* that the hub does not answer: no session waits for WELCOME in silence.
UpIsAnswered ==
    State("up") \in told
        ~> \/ session # NoSession /\ session.ready
           \/ Error("silent") \in told
           \/ hub = NoLink \/ mode # "run"

\* Whatever is queued and whatever the link is doing, the helper ends once
\* WeeChat has closed its pipe or said quit.
HelperEnds == stdin = "closed" \/ Contains(events, Cmd("quit")) ~> mode = "exited"

\* Once reconnecting is off, no link is opened.
DisconnectStays ==
    [][\A l \in Link : status[l] = "closed" /\ status'[l] # "closed" => reconnect']_vars

-----------------------------------------------------------------------------
(* Membership: what the client wants, what it believes and what the hub    *)
(* has.                                                                    *)

InFlight(m) == \E l \in Link : Contains(toHub[l], m)

\* Nothing about room r is on its way or waiting for an answer.
Settled(r) ==
    /\ session # NoSession /\ session.ready
    /\ hub \in Live
    /\ r \notin session.pendingJoins \cup session.pendingParts
    /\ toHub[hub] = <<>>
    /\ \A i \in DOMAIN events : events[i].kind \in {"up", "hello", "retry"}

\* The rooms the client is in, when all is settled, are those the user asked
\* to be in: nothing said by the hub or done by the reconnect logic adds or
\* drops one.  (join, part, _on_joined, _on_parted, _rejoin.)
WantedIsJoined == \A r \in Room : Settled(r) => (r \in session.rooms <=> r \in wanted)

\* ... and the hub agrees, even on a link whose HELLO was repeated, which
\* resets the hub's idea of it.
HubAgrees == \A r \in Room : Settled(r) => (r \in session.rooms <=> r \in members[hub])

\* Repeating HELLO is safe: it costs no room the client takes itself to be in.
RepeatIsSafe == \A r \in Room : Settled(r) /\ r \in session.rooms => r \in members[hub]

\* A room the client is in is one it will rejoin after an outage, or one it
\* is leaving: no outage forgets a room or undoes a part.  (_want, _unwant.)
RoomsAreWanted ==
    session # NoSession =>
        \A r \in session.rooms \ wanted : r \in session.pendingParts \/ InFlight(PartMsg(r))

\* Leaving is honoured: when no envelope is lost, the hub keeps the client
\* in no room it has left except while the PART is on its way.
NoLingering ==
    \A l \in Live : \A r \in members[l] : r \in wanted \/ Contains(toHub[l], PartMsg(r))

\* The hub never relays a room that the client takes itself not to be in,
\* unless it is on its way out.  (pendingJoins, on_link_down, _rejoin.)
HubIsKnown ==
    \A l \in Live : \A r \in members[l] :
        r \in session.rooms \cup session.pendingJoins \/ Contains(toHub[l], PartMsg(r))

\* No more rooms are asked for than the hub allows.
RoomLimitIsLocal ==
    session # NoSession /\ session.limits.maxRooms # Unlimited =>
        Cardinality(session.rooms \cup session.pendingJoins) <= session.limits.maxRooms

\* "parted" confirms our own part, never a frame that reports another member.
PartedIsOurs ==
    [][\A r \in Room : AboutRoom("parted", r) \in told' => Head(events).frame.own]_vars

\* Room joins wait for WELCOME: no JOIN is on a link the hub has not welcomed.
JoinWaits == \A r \in Room, l \in Live : Contains(toHub[l], JoinMsg(r)) => l \in welcomed

\* A lag report answers a ping of the link in hand.
PongIsCurrent == [][Plain("pong") \in told' => Head(events).link = hub]_vars
=============================================================================
