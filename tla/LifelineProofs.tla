--------------------------- MODULE LifelineProofs ---------------------------
(***************************************************************************)
(* The helper has one lifeline at a time and forgets no live link, for     *)
(* every hub, every fault and every bound (OneLifeline and NoOrphan of     *)
(* Helper).                                                                *)
(***************************************************************************)
EXTENDS HelperProofs

\* The entries of a queue whose handling opens a link or schedules that.
Waits(q) == {i \in DOMAIN q : Reopens(q[i])}
Single(q) == \A i, j \in Waits(q) : i = j

\* OneLifeline and NoOrphan are not inductive: that no second link is opened
\* depends on where the first one is known, and that a timer is the only one
\* on the queue having none.  LifelineInv adds what each lifeline excludes.
Exclusive ==
    /\ Single(events)
    /\ \A k, l \in Live : k = l
    /\ retries \in {0, 1}
    /\ Waits(events) # {} => Live = {} /\ retries = 0
    /\ Live # {} => retries = 0

Present ==
    mode = "run" /\ session # NoSession /\ reconnect =>
        Waits(events) # {} \/ Live # {} \/ retries = 1

\* Before the one connect there is no session.
Unstarted(q) == \E i \in DOMAIN q : q[i] \in Connects
Fresh == Unstarted(events) => session = NoSession

LifelineInv == Exclusive /\ Present /\ NoOrphan /\ Fresh

-----------------------------------------------------------------------------
(* What the queue operations do to the waiting entries.                    *)

\* q has a waiting entry when p has, and no more of them.
Alike(p, q) == /\ Waits(q) = {} <=> Waits(p) = {}
               /\ Single(p) => Single(q)
               /\ Unstarted(q) => Unstarted(p)

\* An entry added at the end waits too if it reopens, and else changes
\* nothing of what waits.
LEMMA AppendWaits ==
    ASSUME NEW q \in Seq(Event), NEW e \in Event
    PROVE  /\ ~Reopens(e) => Alike(q, Append(q, e))
           /\ Waits(q) = {} => Single(Append(q, e))
           /\ Reopens(e) => Waits(Append(q, e)) # {}
           /\ e \notin Connects /\ Unstarted(Append(q, e)) => Unstarted(q)
<1> DEFINE p == Append(q, e)
<1>1. /\ DOMAIN q = 1..Len(q) /\ DOMAIN p = 1..(Len(q) + 1) /\ Len(q) \in Nat
      /\ \A i \in 1..Len(q) : p[i] = q[i]
      /\ p[Len(q) + 1] = e
  BY AppendProperties, LenProperties
<1> HIDE DEF p
<1>2. Waits(p) = Waits(q) \cup IF Reopens(e) THEN {Len(q) + 1} ELSE {}
  BY <1>1 DEF Waits
<1>3. e \notin Connects /\ Unstarted(p) => Unstarted(q)
  BY <1>1 DEF Unstarted
<1>4. ~Reopens(e) => Alike(q, p)
  BY <1>2, <1>3 DEF Alike, Single, Reopens
<1> QED
  BY <1>2, <1>3, <1>4 DEF Single, p

\* Inserting an entry moves those from its place on one further.
LEMMA InsertAtIs ==
    ASSUME NEW S, NEW q \in Seq(S), NEW n \in 1..Len(q), NEW e \in S
    PROVE  /\ DOMAIN InsertAt(q, n, e) = 1..(Len(q) + 1)
           /\ \A i \in 1..(Len(q) + 1) :
                 InsertAt(q, n, e)[i] = IF i < n THEN q[i] ELSE IF i = n THEN e ELSE q[i - 1]
<1> DEFINE p == InsertAt(q, n, e)
<1>1. DOMAIN q = 1..Len(q) /\ Len(q) \in Nat
  BY LenProperties
<1>2. /\ DOMAIN p = 1..(Len(q) + 1)
      /\ \A i \in 1..(Len(q) + 1) :
            p[i] = IF i < n THEN q[i] ELSE IF i = n THEN e ELSE q[i - 1]
  <2> DEFINE a == SubSeq(q, 1, n - 1)
             b == SubSeq(q, n, Len(q))
  <2>1. /\ a \in Seq(S) /\ Len(a) = n - 1
        /\ \A i \in 1..(n - 1) : a[i] = q[i]
    BY <1>1, SubSeqProperties
  <2>2. /\ b \in Seq(S) /\ Len(b) = Len(q) - n + 1
        /\ \A i \in 1..(Len(q) - n + 1) : b[i] = q[n + i - 1]
    BY <1>1, SubSeqProperties
  <2>3. <<e>> \in Seq(S) /\ Len(<<e>>) = 1 /\ <<e>>[1] = e
    OBVIOUS
  <2> DEFINE ae == a \o <<e>>
  <2> HIDE DEF a, b
  <2>4. /\ ae \in Seq(S) /\ Len(ae) = n
        /\ \A i \in 1..n : ae[i] = IF i <= n - 1 THEN a[i] ELSE <<e>>[i - (n - 1)]
    BY <2>1, <2>3, ConcatProperties, <1>1
  <2> HIDE DEF ae
  <2>5. /\ ae \o b \in Seq(S) /\ Len(ae \o b) = Len(q) + 1
        /\ \A i \in 1..(Len(q) + 1) : (ae \o b)[i] = IF i <= n THEN ae[i] ELSE b[i - n]
    <3>1. /\ ae \o b \in Seq(S) /\ Len(ae \o b) = Len(ae) + Len(b)
          /\ \A i \in 1..(Len(ae) + Len(b)) :
                (ae \o b)[i] = IF i <= Len(ae) THEN ae[i] ELSE b[i - Len(ae)]
      BY <2>2, <2>4, ConcatProperties
    <3>2. Len(ae) = n /\ Len(ae) + Len(b) = Len(q) + 1
      BY <1>1, <2>2, <2>4
    <3> QED
      BY <3>1, <3>2
  <2>6. p = ae \o b
    BY DEF InsertAt, ae, a, b
  <2> HIDE DEF p
  <2>7. DOMAIN p = 1..(Len(q) + 1)
    BY <2>5, <2>6, LenProperties
  <2>8. ASSUME NEW i \in 1..(Len(q) + 1)
        PROVE  p[i] = IF i < n THEN q[i] ELSE IF i = n THEN e ELSE q[i - 1]
    <3>1. CASE i < n
      BY <3>1, <1>1, <2>1, <2>4, <2>5, <2>6
    <3>2. CASE i = n
      BY <3>2, <1>1, <2>3, <2>4, <2>5, <2>6
    <3>3. CASE i > n
      <4>1. p[i] = b[i - n] /\ i - n \in 1..(Len(q) - n + 1)
        BY <3>3, <1>1, <2>5, <2>6
      <4>2. b[i - n] = q[n + (i - n) - 1]
        BY <4>1, <2>2
      <4>3. n + (i - n) - 1 = i - 1
        BY <1>1
      <4> QED
        BY <3>3, <4>1, <4>2, <4>3
    <3> QED
      BY <3>1, <3>2, <3>3, <1>1
  <2> QED
    BY <2>7, <2>8
<1> QED
  BY <1>2 DEF p

\* The same for an entry that overtakes others.
LEMMA InsertWaits ==
    ASSUME NEW q \in Seq(Event), NEW n \in 1..Len(q), NEW e \in Event
    PROVE  /\ ~Reopens(e) => Alike(q, InsertAt(q, n, e))
           /\ Waits(q) = {} => Single(InsertAt(q, n, e))
           /\ Reopens(e) => Waits(InsertAt(q, n, e)) # {}
           /\ e \notin Connects /\ Unstarted(InsertAt(q, n, e)) => Unstarted(q)
<1> DEFINE p == InsertAt(q, n, e)
<1>1. DOMAIN q = 1..Len(q) /\ Len(q) \in Nat
  BY LenProperties
<1>2. /\ DOMAIN p = 1..(Len(q) + 1)
      /\ \A i \in 1..(Len(q) + 1) :
            p[i] = IF i < n THEN q[i] ELSE IF i = n THEN e ELSE q[i - 1]
  BY InsertAtIs
<1> HIDE DEF p
<1>3. Reopens(e) => n \in Waits(p)
  BY <1>1, <1>2 DEF Waits
<1>4. \A i \in Waits(p) : (i = n /\ Reopens(e)) \/ (i < n /\ i \in Waits(q)) \/ (i > n /\ i - 1 \in Waits(q))
  <2> SUFFICES ASSUME NEW i \in Waits(p)
               PROVE  (i = n /\ Reopens(e)) \/ (i < n /\ i \in Waits(q)) \/ (i > n /\ i - 1 \in Waits(q))
    OBVIOUS
  <2>1. i \in 1..(Len(q) + 1) /\ Reopens(p[i])
    BY <1>2 DEF Waits
  <2>2. p[i] = IF i < n THEN q[i] ELSE IF i = n THEN e ELSE q[i - 1]
    BY <1>2, <2>1
  <2>3. CASE i < n
    BY <1>1, <2>1, <2>2, <2>3 DEF Waits
  <2>4. CASE i = n
    BY <2>1, <2>2, <2>4
  <2>5. CASE i > n
    <3>1. i - 1 \in 1..Len(q) /\ p[i] = q[i - 1]
      BY <1>1, <2>1, <2>2, <2>5
    <3> QED
      BY <1>1, <2>1, <2>5, <3>1 DEF Waits
  <2> QED
    BY <1>1, <2>1, <2>3, <2>4, <2>5
<1>5. \A i \in Waits(q) : IF i < n THEN i \in Waits(p) ELSE i + 1 \in Waits(p)
  <2> SUFFICES ASSUME NEW i \in Waits(q)
               PROVE  IF i < n THEN i \in Waits(p) ELSE i + 1 \in Waits(p)
    OBVIOUS
  <2>1. i \in 1..Len(q) /\ Reopens(q[i])
    BY <1>1 DEF Waits
  <2>2. CASE i < n
    BY <1>1, <1>2, <2>1, <2>2 DEF Waits
  <2>3. CASE ~(i < n)
    <3>1. p[i + 1] = q[i]
      BY <1>1, <1>2, <2>1, <2>3
    <3> QED
      BY <1>1, <1>2, <2>1, <2>3, <3>1 DEF Waits
  <2> QED
    BY <2>2, <2>3
<1>6. Waits(q) \subseteq Int /\ Waits(p) \subseteq Int /\ n \in Int
  BY <1>1, <1>2 DEF Waits
<1>7. e \notin Connects /\ Unstarted(p) => Unstarted(q)
  <2> SUFFICES ASSUME e \notin Connects, NEW i \in DOMAIN p, p[i] \in Connects
               PROVE  \E j \in DOMAIN q : q[j] \in Connects
    BY DEF Unstarted
  <2>1. CASE i < n
    BY <1>1, <1>2, <2>1
  <2>2. CASE i > n
    <3>1. i - 1 \in 1..Len(q) /\ p[i] = q[i - 1]
      BY <1>1, <1>2, <2>2
    <3> QED
      BY <1>1, <3>1
  <2>3. i # n
    BY <1>2
  <2> QED
    BY <1>1, <1>2, <2>1, <2>2, <2>3
<1>8. ~Reopens(e) => Alike(q, p)
  BY <1>4, <1>5, <1>6, <1>7 DEF Alike, Single, Reopens
<1>9. Waits(q) = {} => Single(p)
  BY <1>4 DEF Single
<1> QED
  BY <1>3, <1>7, <1>8, <1>9 DEF p

\* Taking an entry that does not reopen changes nothing of what waits; taking
\* the only one that does leaves none.
LEMMA TailWaits ==
    ASSUME NEW q \in Seq(Event), q # <<>>
    PROVE  /\ ~Reopens(Head(q)) => Alike(q, Tail(q))
           /\ Reopens(Head(q)) => Waits(q) # {} /\ (Single(q) => Waits(Tail(q)) = {})
<1> DEFINE p == Tail(q)
<1>1. /\ DOMAIN q = 1..Len(q) /\ Len(q) \in Nat \ {0} /\ Head(q) = q[1]
      /\ DOMAIN p = 1..(Len(q) - 1)
      /\ \A i \in 1..(Len(q) - 1) : p[i] = q[i + 1]
  <2>1. DOMAIN q = 1..Len(q) /\ Len(q) \in Nat /\ Len(q) # 0
    BY LenProperties, EmptySeq
  <2>2. p \in Seq(Event) /\ Len(p) = Len(q) - 1 /\ \A i \in 1..Len(p) : p[i] = q[i + 1]
    BY HeadTailProperties
  <2> QED
    BY <2>1, <2>2, LenProperties
<1> HIDE DEF p
<1>2. \A i \in Waits(p) : i \in 1..(Len(q) - 1) /\ i + 1 \in Waits(q)
  BY <1>1 DEF Waits
<1>3. \A i \in Waits(q) : i = 1 \/ i - 1 \in Waits(p)
  <2> SUFFICES ASSUME NEW i \in Waits(q), i # 1
               PROVE  i - 1 \in Waits(p)
    OBVIOUS
  <2>1. i \in 1..Len(q) /\ Reopens(q[i])
    BY <1>1 DEF Waits
  <2>2. i - 1 \in 1..(Len(q) - 1) /\ p[i - 1] = q[i]
    BY <1>1, <2>1
  <2> QED
    BY <1>1, <2>1, <2>2 DEF Waits
<1>4. 1 \in Waits(q) <=> Reopens(Head(q))
  BY <1>1 DEF Waits
<1>5. Waits(q) \subseteq Int /\ Waits(p) \subseteq Int
  BY <1>1 DEF Waits
<1>6. ~Reopens(Head(q)) => Alike(q, p)
  <2>1. Unstarted(p) => Unstarted(q)
    BY <1>1 DEF Unstarted
  <2> QED
    BY <2>1, <1>2, <1>3, <1>4, <1>5 DEF Alike, Single
<1>7. Reopens(Head(q)) /\ Single(q) => Waits(p) = {}
  <2> SUFFICES ASSUME Reopens(Head(q)), Single(q), NEW i \in Waits(p) PROVE FALSE
    OBVIOUS
  <2>1. i + 1 = 1 /\ i \in 1..(Len(q) - 1)
    BY <1>2, <1>4 DEF Single
  <2> QED
    BY <2>1, <1>1
<1> QED
  BY <1>4, <1>6, <1>7 DEF p

\* Which entries wait to open a link.
LEMMA WaitingKinds ==
    ASSUME NEW e \in Event
    PROVE  /\ e.kind \in {"up", "frame", "eof", "hello"} => ~Reopens(e)
           /\ e.kind = "cmd" /\ e.op # "connect" => ~Reopens(e)
           /\ e.kind = "cmd" /\ e.op = "connect" => Reopens(e)
           /\ e.kind \in {"down", "retry"} => Reopens(e) /\ e \notin Connects
<1>1. \A c \in Connects : c.kind = "cmd" /\ c.op = "connect"
  BY ConnectsKnown DEF Connect
<1>2. \A c \in Requests : c.kind = "cmd" /\ c.op # "connect"
  BY DEF Requests, RoomCmd, Cmd
<1>3. \A c \in LinkEvent : c.kind \in {"up", "down", "frame"}
  BY DEF LinkEvent, Up, Down
<1>4. Eof.kind = "eof" /\ Retry.kind = "retry" /\ HelloDue.kind = "hello"
  BY DEF Eof, Retry, HelloDue
<1> QED
  BY <1>1, <1>2, <1>3, <1>4 DEF Event, Reopens

\* A thread of Reticulum puts an entry on the queue, in its turn or before.
LEMMA CallbackWaits ==
    ASSUME TypeOK, NEW e \in Event, Callback(e)
    PROVE  /\ ~Reopens(e) => Alike(events, events')
           /\ Waits(events) = {} => Single(events')
           /\ Reopens(e) => Waits(events') # {}
           /\ e \notin Connects /\ Unstarted(events') => Unstarted(events)
<1>1. events \in Seq(Event)
  BY DEF TypeOK
<1>2. CASE events' = Append(events, e)
  BY <1>1, <1>2, AppendWaits
<1>3. CASE \E i \in 1..Len(events) : events' = InsertAt(events, i, e)
  BY <1>1, <1>3, InsertWaits
<1> QED
  BY <1>2, <1>3 DEF Callback

\* What a step of the network other than the loss of a link queues.
LEMMA NetworkEntries ==
    ASSUME TypeOK, NEW l \in Link, Network(l), ~HubClosed(l)
    PROVE  events' = events \/ \E e \in Event : e.kind \in {"up", "frame"} /\ Callback(e)
<1>1. \A f \in FromHub : Packet(l, f) => \E e \in Event : e.kind \in {"up", "frame"} /\ Callback(e)
  BY DEF Packet, Frame, Event, LinkEvent
<1>2. CASE Established(l)
  BY <1>2 DEF Established, Up, Event, LinkEvent
<1>3. CASE Lose(l)
  BY <1>3 DEF Lose
<1>4. CASE HubHello(l)
  <2>1. \A limits \in Advertised : Welcome(limits) \in FromHub
    BY DEF Welcome, FromHub
  <2> QED
    BY <1>1, <1>4, <2>1 DEF HubHello, Reply
<1>5. CASE HubJoin(l)
  <2>1. Receive(l, "JOIN")
    BY <1>5 DEF HubJoin
  <2>2. Head(toHub[l]).room \in Room
    BY <2>1, ReceiveType, MessageFields
  <2>3. Joined(Head(toHub[l]).room, TRUE) \in FromHub /\ Bare("ERROR") \in FromHub
    BY <2>2, RoomFrames, BareFrames
  <2> QED
    BY <1>1, <1>5, <2>3 DEF HubJoin, Reply
<1>6. CASE HubPart(l)
  <2>1. Receive(l, "PART")
    BY <1>6 DEF HubPart
  <2>2. Head(toHub[l]).room \in Room
    BY <2>1, ReceiveType, MessageFields
  <2>3. Parted(Head(toHub[l]).room, TRUE) \in FromHub /\ Bare("ERROR") \in FromHub
    BY <2>2, RoomFrames, BareFrames
  <2> QED
    BY <1>1, <1>6, <2>3 DEF HubPart, Reply
<1>7. CASE HubOther(l)
  <2>1. CASE Receive(l, "PING") /\ Reply(l, [type |-> "PONG", token |-> Head(toHub[l]).token])
    <3>1. [type |-> "PONG", token |-> Head(toHub[l]).token] \in FromHub
      BY <2>1, ReceiveType, MessageFields DEF FromHub
    <3> QED
      BY <1>1, <2>1, <3>1 DEF Reply
  <2>2. CASE UNCHANGED events \/ Reply(l, Bare("ERROR"))
    BY <1>1, <2>2, BareFrames DEF Reply
  <2> QED
    BY <1>7, <2>1, <2>2 DEF HubOther
<1>8. CASE HubTalks(l)
  <2>1. \A r \in members[l] : r \in Room /\ [type |-> "CHAT", room |-> r] \in FromHub
    BY DEF TypeOK, FromHub
  <2>2. \E f \in FromHub : Packet(l, f)
    BY <1>8, <2>1, RoomFrames, BareFrames DEF HubTalks
  <2> QED
    BY <1>1, <2>2
<1> QED
  BY <1>2, <1>3, <1>4, <1>5, <1>6, <1>7, <1>8 DEF Network

\* What a frame makes of a session is a session.
LEMMA FrameOutcome ==
    ASSUME TypeOK, OnFrameEvent
    PROVE  \/ session' = session /\ \E S : Telling(S)
           \/ session # NoSession /\ \E o \in Outcomes : \E S : Perform(o, S)
<1> DEFINE f == Head(events).frame
<1>1. f \in FromHub
  BY EntryType, EventFields DEF OnFrameEvent, Next1
<1>2. CASE session = NoSession
  BY <1>2 DEF OnFrameEvent
<1>3. CASE session # NoSession /\ f.type = "WELCOME"
  <2>1. PICK order \in Orders(Asked(Welcomed(session, f.limits), wanted)) :
            Perform(OnWelcome(session, f.limits, wanted, order), {})
    BY <1>3 DEF OnFrameEvent
  <2>2. f.limits \in Advertised /\ session \in Session /\ wanted \in SUBSET Room
    BY <1>1, <1>3, FrameFields DEF TypeOK
  <2> QED
    BY <1>3, <2>1, <2>2, OnWelcomeType
<1>4. CASE session # NoSession /\ f.type # "WELCOME"
  BY <1>1, <1>4, OnFrameType DEF OnFrameEvent, TypeOK
<1> QED
  BY <1>2, <1>3, <1>4

-----------------------------------------------------------------------------
(* The steps.                                                              *)

\* A step that leaves the links, the timer and the waiting entries alone.
LEMMA PlainStep ==
    ASSUME LifelineInv, Alike(events, events'), Live' = Live, retries' = retries, hub' = hub,
           mode' = mode \/ (mode = "run" /\ mode' = "stopping"),
           (session' = NoSession) <=> (session = NoSession), reconnect' => reconnect
    PROVE  LifelineInv'
BY DEF LifelineInv, Exclusive, Present, NoOrphan, Fresh, Alike

\* Telling ends the main loop at most.
LEMMA TellingMode ==
    ASSUME NEW S, mode = "run", Telling(S)
    PROVE  mode' = mode \/ mode' = "stopping"
BY DEF Telling

\* The entry in hand, when it is not one that waits to open a link.
LEMMA PlainEntry ==
    ASSUME TypeOK, events # <<>>, events' = Rest,
           \/ Head(events).kind \in {"up", "frame", "eof", "hello"}
           \/ Head(events).kind = "cmd" /\ Head(events).op # "connect"
    PROVE  Alike(events, events')
BY EntryType, WaitingKinds, TailWaits DEF TypeOK, Rest

\* ... and when it is: nothing else is on its way, and nothing is left.
LEMMA WaitingEntry ==
    ASSUME TypeOK, LifelineInv, events # <<>>, events' = Rest,
           \/ Head(events).kind \in {"down", "retry"}
           \/ Head(events).kind = "cmd" /\ Head(events).op = "connect"
    PROVE  Waits(events') = {} /\ Live = {} /\ retries = 0 /\ ~Unstarted(events')
<1>1. Reopens(Head(events))
  BY EntryType, WaitingKinds
<1>2. Waits(events) # {} /\ Waits(events') = {}
  BY <1>1, TailWaits DEF TypeOK, Rest, LifelineInv, Exclusive
<1>3. ~Unstarted(events')
  BY <1>2 DEF Unstarted, Waits, Reopens
<1> QED
  BY <1>2, <1>3 DEF LifelineInv, Exclusive

\* _open_link, with no lifeline left, makes exactly one: a link or a timer.
LEMMA OpenLinkStep ==
    ASSUME TypeOK, Live = {}, retries = 0, mode = "run",
           Waits(events') = {}, ~Unstarted(events'),
           NEW s, NEW more, OpenLink(s, reconnect', more), reconnect' \in BOOLEAN
    PROVE  LifelineInv'
<1>1. mode' \in {"run", "stopping"}
  BY TellingMode DEF OpenLink
<1>2. Single(events')
  BY DEF Single
<1>3. CASE \E l \in Link : Open(l) /\ hub' = l /\ retries' = retries
  <2>1. PICK l \in Link : Open(l) /\ hub' = l /\ retries' = retries
    BY <1>3
  <2>2. Live' = {l}
    BY <2>1 DEF Live, Open, TypeOK
  <2> QED
    BY <1>1, <1>2, <2>1, <2>2 DEF LifelineInv, Exclusive, Present, NoOrphan, Fresh
<1>4. CASE status' = status /\ retries' = IF reconnect' THEN retries + 1 ELSE retries
  <2>1. Live' = {}
    BY <1>4 DEF Live
  <2> QED
    BY <1>1, <1>2, <1>4, <2>1 DEF LifelineInv, Exclusive, Present, NoOrphan, Fresh
<1> QED
  BY <1>3, <1>4 DEF OpenLink

\* Closing the link in hand: its DOWN takes its place.
LEMMA CloseStep ==
    ASSUME TypeOK, LifelineInv, NEW rest \in Seq(Event), Alike(events, rest), Close(hub, rest),
           retries' = retries, mode' # "run" \/ ~reconnect', session' = session
    PROVE  LifelineInv' /\ Live' = {}
<1>1. CASE hub \in Live
  <2>1. Waits(events) = {} /\ retries = 0 /\ Live = {hub}
    BY <1>1 DEF LifelineInv, Exclusive
  <2>2. Down(hub) \in Event /\ Reopens(Down(hub)) /\ Down(hub) \notin Connects
    BY <1>1, WaitingKinds DEF Live, Event, LinkEvent, Down
  <2>3. events' = Append(rest, Down(hub)) /\ status' = [status EXCEPT ![hub] = "closed"]
    BY <1>1 DEF Close
  <2>4. Live' = {}
    BY <2>1, <2>3 DEF Live, TypeOK
  <2>5. Single(events') /\ (Unstarted(events') => Unstarted(events))
    BY <2>1, <2>2, <2>3, AppendWaits DEF Alike
  <2> QED
    BY <2>1, <2>4, <2>5 DEF LifelineInv, Exclusive, Present, NoOrphan, Fresh
<1>2. CASE hub \notin Live
  <2>1. Live = {}
    BY <1>2 DEF LifelineInv, NoOrphan
  <2>2. Live' = {} /\ events' = rest
    BY <1>2, <2>1 DEF Close, Live
  <2> QED
    BY <2>1, <2>2 DEF LifelineInv, Exclusive, Present, NoOrphan, Fresh, Alike
<1> QED
  BY <1>1, <1>2

\* The helper starts with one lifeline, its connect command.
LEMMA LifelineInit == Init => LifelineInv
<1> SUFFICES ASSUME Init PROVE LifelineInv
  OBVIOUS
<1>1. PICK c \in Connects : events = <<c>>
  BY DEF Init
<1>2. Single(events)
  BY <1>1 DEF Single, Waits
<1>3. Live = {}
  BY DEF Init, HubLinkInit, Live
<1> QED
  BY <1>2, <1>3 DEF Init, LifelineInv, Exclusive, Present, NoOrphan, Fresh

\* The handlers that open, close and lose no link.
PlainHandler ==
    \/ CmdJoin \/ CmdPart \/ CmdSay \/ CmdDirect \/ CmdNick \/ CmdPing \/ CmdQuit
    \/ OnUp \/ OnHelloDue \/ OnFrameEvent \/ OnEof

\* They take one entry, which waits for nothing, and make neither a session
\* nor an end of one.
LEMMA PlainFacts ==
    ASSUME TypeOK, PlainHandler
    PROVE  /\ mode = "run" /\ events # <<>> /\ events' = Rest /\ Alike(events, events')
           /\ status' = status /\ Live' = Live /\ retries' = retries /\ hub' = hub
           /\ reconnect' = reconnect \/ reconnect' = FALSE
           /\ mode' \in {"run", "stopping"}
           /\ (session' = NoSession) <=> (session = NoSession)
<1> USE DEF PlainHandler
<1>1. /\ mode = "run" /\ events # <<>> /\ events' = Rest
      /\ \/ Head(events).kind \in {"up", "frame", "eof", "hello"}
         \/ Head(events).kind = "cmd" /\ Head(events).op # "connect"
  BY DEF CmdJoin, CmdPart, CmdSay, CmdDirect, CmdNick, CmdPing, CmdQuit, WithSession,
         OnUp, OnHelloDue, OnFrameEvent, OnEof, Command, Next1
<1>2. Alike(events, events')
  BY <1>1, PlainEntry
<1>3. status' = status /\ retries' = retries /\ hub' = hub
  BY DEF CmdJoin, CmdPart, CmdSay, CmdDirect, CmdNick, CmdPing, CmdQuit, WithSession,
         OnUp, OnHelloDue, OnFrameEvent, OnEof
<1>6. reconnect' = reconnect \/ reconnect' = FALSE
  <2>1. CASE CmdQuit
    BY <2>1, Zenon DEF CmdQuit
  <2>2. CASE ~CmdQuit
    BY <2>2, Zenon DEF CmdJoin, CmdPart, CmdSay, CmdDirect, CmdNick, CmdPing, WithSession,
           OnUp, OnHelloDue, OnFrameEvent, OnEof
  <2> QED
    BY <2>1, <2>2
<1>4. Live' = Live
  BY <1>3 DEF Live
<1>5. /\ mode' \in {"run", "stopping"}
      /\ (session' = NoSession) <=> (session = NoSession)
  <2>1. CASE \E o, keep : WithSession(o, keep) /\ (session # NoSession => o \in Outcomes)
    BY <1>1, <2>1, TellingMode, NoSessionIsNone DEF WithSession, Perform, Outcomes
  <2>2. CASE CmdJoin \/ CmdPart \/ CmdSay
    <3>1. Head(events).room \in Room /\ (session # NoSession => session \in Session)
      BY <2>2, CommandTypes DEF CmdJoin, CmdPart, CmdSay
    <3>2. CASE CmdJoin
      BY <2>1, <3>1, <3>2, JoinRoomType DEF CmdJoin
    <3>3. CASE CmdPart
      BY <2>1, <3>1, <3>3, PartRoomType DEF CmdPart
    <3>4. CASE CmdSay
      BY <2>1, <3>1, <3>4, TalkTypes DEF CmdSay
    <3> QED
      BY <2>2, <3>2, <3>3, <3>4
  <2>3. CASE CmdDirect \/ CmdNick \/ CmdPing
    <3>1. session # NoSession => session \in Session
      BY DEF TypeOK
    <3>2. CASE CmdDirect
      BY <2>1, <3>1, <3>2, TalkTypes DEF CmdDirect
    <3>3. CASE CmdNick
      BY <2>1, <3>1, <3>3, TalkTypes DEF CmdNick
    <3>4. CASE CmdPing
      BY <2>1, <3>1, <3>4, TalkTypes DEF CmdPing
    <3> QED
      BY <2>3, <3>2, <3>3, <3>4
  <2>4. CASE CmdQuit \/ OnEof
    BY <2>4 DEF CmdQuit, OnEof
  <2>5. CASE OnUp \/ OnHelloDue \/ OnFrameEvent
    <3>1. \/ session' = session /\ \E S : Telling(S)
          \/ session # NoSession /\ \E o \in Outcomes : \E S : Perform(o, S)
      <4>1. CASE OnUp
        BY <4>1, TalkTypes DEF OnUp, TypeOK
      <4>2. CASE OnHelloDue
        BY <4>2, TalkTypes DEF OnHelloDue, TypeOK
      <4>3. CASE OnFrameEvent
        BY <4>3, FrameOutcome DEF OnFrameEvent
      <4> QED
        BY <2>5, <4>1, <4>2, <4>3
    <3> QED
      BY <1>1, <3>1, TellingMode, NoSessionIsNone DEF Perform, Outcomes
  <2> QED
    BY <2>2, <2>3, <2>4, <2>5
<1> QED
  BY <1>1, <1>2, <1>3, <1>4, <1>5, <1>6, Zenon

\* So they keep the invariant.
LEMMA PlainHandlers ==
    ASSUME TypeOK, LifelineInv, PlainHandler
    PROVE  LifelineInv'
<1>1. /\ Alike(events, events') /\ Live' = Live /\ retries' = retries /\ hub' = hub
      /\ mode' = mode \/ (mode = "run" /\ mode' = "stopping")
      /\ (session' = NoSession) <=> (session = NoSession)
  BY PlainFacts
<1>2. reconnect' => reconnect
  BY PlainFacts
<1> QED
  BY <1>1, <1>2, PlainStep

\* Every step of the main loop keeps the invariant: what it uses up of the
\* lifeline it makes anew.
LEMMA MainLoopLifeline ==
    ASSUME TypeOK, LifelineInv, MainLoop
    PROVE  LifelineInv'
<1>1. CASE CmdConnect
  <2>1. mode = "run" /\ events # <<>> /\ events' = Rest
        /\ Head(events).kind = "cmd" /\ Head(events).op = "connect"
    BY <1>1 DEF CmdConnect, Command, Next1
  <2>2. Waits(events') = {} /\ Live = {} /\ retries = 0 /\ ~Unstarted(events')
    BY <2>1, WaitingEntry
  <2>3. CASE /\ Telling({Error("command")})
             /\ UNCHANGED <<status, toHub, greeted, session, hub, wanted, reconnect, retries>>
    <3>1. session = NoSession
      <4>1. Head(events) \in Connects
        BY <2>1, EntryType, WaitingKinds DEF Reopens
      <4>2. 1 \in DOMAIN events /\ events[1] = Head(events)
        BY <2>1, EmptySeq, LenProperties DEF TypeOK
      <4> QED
        BY <4>1, <4>2 DEF LifelineInv, Fresh, Unstarted
    <3>2. Live' = {} /\ mode' \in {"run", "stopping"}
      BY <2>1, <2>2, <2>3, TellingMode DEF Live
    <3> QED
      BY <2>2, <2>3, <3>1, <3>2 DEF LifelineInv, Exclusive, Single, Present, NoOrphan, Fresh
  <2>4. CASE /\ reconnect' = Head(events).reconnect
             /\ \E nick \in Nick \cup {NoNick} :
                   OpenLink(NewSession(nick), reconnect', {Plain("identity")})
    <3>1. reconnect' \in BOOLEAN
      BY <2>1, <2>4, EntryType, EventFields
    <3> QED
      BY <2>1, <2>2, <2>4, <3>1, OpenLinkStep
  <2> QED
    BY <1>1, <2>3, <2>4 DEF CmdConnect
<1>2. CASE CmdDisconnect
  <2>1. /\ mode = "run" /\ events # <<>> /\ Head(events).kind = "cmd" /\ Head(events).op # "connect"
        /\ Close(hub, Rest) /\ reconnect' = FALSE /\ retries' = retries /\ session' = session
    BY <1>2 DEF CmdDisconnect, Command, Next1
  <2>2. Alike(events, Rest) /\ Rest \in Seq(Event)
    BY <2>1, EntryType, WaitingKinds, TailWaits DEF TypeOK, Rest
  <2> QED
    BY <2>1, <2>2, CloseStep
<1>3. CASE OnDown
  <2>1. mode = "run" /\ events # <<>> /\ events' = Rest /\ Head(events).kind = "down"
    BY <1>3 DEF OnDown, Next1
  <2>2. Waits(events') = {} /\ Live = {} /\ retries = 0 /\ ~Unstarted(events')
    BY <2>1, WaitingEntry
  <2>3. Live' = {} /\ mode' \in {"run", "stopping"}
    BY <1>3, <2>1, <2>2, TellingMode DEF OnDown, Live
  <2>4. retries' = (IF reconnect THEN 1 ELSE 0) /\ reconnect' = reconnect
    BY <1>3, <2>2 DEF OnDown
  <2> QED
    BY <2>2, <2>3, <2>4 DEF LifelineInv, Exclusive, Single, Present, NoOrphan, Fresh
<1>4. CASE OnRetry
  <2>1. mode = "run" /\ events # <<>> /\ events' = Rest /\ Head(events).kind = "retry"
    BY <1>4 DEF OnRetry, Next1
  <2>2. Waits(events') = {} /\ Live = {} /\ retries = 0 /\ ~Unstarted(events')
    BY <2>1, WaitingEntry
  <2>3. OpenLink(session, reconnect', {}) /\ reconnect' \in BOOLEAN
    BY <1>4 DEF OnRetry, TypeOK
  <2> QED
    BY <2>1, <2>2, <2>3, OpenLinkStep
<1>5. CASE Exit
  <2>1. Close(hub, events) /\ mode' # "run" /\ retries' = retries /\ session' = session
    BY <1>5 DEF Exit
  <2>2. Alike(events, events) /\ events \in Seq(Event)
    BY DEF Alike, TypeOK
  <2> QED
    BY <2>1, <2>2, CloseStep
<1> QED
  BY <1>1, <1>2, <1>3, <1>4, <1>5, PlainHandlers DEF MainLoop, PlainHandler

\* The network and the hub put no entry on the queue that opens a link, but
\* for the DOWN of the link that is lost.
LEMMA NetworkLifeline ==
    ASSUME TypeOK, LifelineInv, Net
    PROVE  LifelineInv'
<1>1. PICK l \in Link : Network(l)
  BY DEF Net
<1>2. /\ mode' = mode /\ session' = session /\ hub' = hub
      /\ reconnect' = reconnect /\ retries' = retries
  BY DEF Net, loopVars
<1>3. CASE HubClosed(l)
  <2>1. /\ l \in Live /\ status' = [status EXCEPT ![l] = "closed"] /\ Callback(Down(l))
    BY <1>3 DEF HubClosed, Closed
  <2>2. Waits(events) = {} /\ retries = 0 /\ Live = {l}
    BY <2>1 DEF LifelineInv, Exclusive
  <2>3. Down(l) \in Event /\ Reopens(Down(l)) /\ Down(l) \notin Connects
    BY WaitingKinds DEF Event, LinkEvent, Down
  <2>4. Live' = {}
    BY <2>1, <2>2 DEF Live, TypeOK
  <2>5. Single(events') /\ Waits(events') # {} /\ (Unstarted(events') => Unstarted(events))
    BY <2>1, <2>2, <2>3, CallbackWaits
  <2> QED
    BY <1>2, <2>2, <2>4, <2>5 DEF LifelineInv, Exclusive, Present, NoOrphan, Fresh
<1>4. CASE ~HubClosed(l)
  <2>1. Live' = Live
    <3>1. status' = status \/ (status[l] = "pending" /\ status' = [status EXCEPT ![l] = "active"])
      BY <1>1, <1>4 DEF Network, Established, Lose, HubHello, HubJoin, HubPart, HubOther,
                        HubTalks, Receive
    <3> QED
      BY <3>1 DEF Live, TypeOK
  <2>2. events' = events \/ \E e \in Event : e.kind \in {"up", "frame"} /\ Callback(e)
    BY <1>1, <1>4, NetworkEntries
  <2>3. Alike(events, events')
    BY <2>2, WaitingKinds, CallbackWaits DEF Alike
  <2> QED
    BY <1>2, <2>1, <2>3, PlainStep
<1> QED
  BY <1>3, <1>4

\* The other threads: the reader and the timers.
LEMMA ThreadsLifeline ==
    ASSUME TypeOK, LifelineInv, ReadCommand \/ ReadEof \/ PipeBreaks \/ RetryTimer \/ HelloTimer
    PROVE  LifelineInv'
<1>1. /\ mode' = mode /\ session' = session /\ hub' = hub
      /\ reconnect' = reconnect /\ Live' = Live
  BY DEF ReadCommand, ReadEof, PipeBreaks, RetryTimer, HelloTimer, loopVars, linkVars, Live
<1>2. CASE PipeBreaks
  BY <1>1, <1>2, PlainStep DEF PipeBreaks, linkVars, loopVars, Alike
<1>3. CASE RetryTimer
  <2>1. Waits(events) = {} /\ Live = {} /\ retries' = 0
    BY <1>3 DEF RetryTimer, LifelineInv, Exclusive
  <2>2. events' = Append(events, Retry) /\ Retry \in Event
    BY <1>3 DEF RetryTimer, Event
  <2>3. Reopens(Retry) /\ Retry \notin Connects
    BY <2>2, WaitingKinds DEF Retry
  <2>4. Single(events') /\ Waits(events') # {} /\ (Unstarted(events') => Unstarted(events))
    BY <2>1, <2>2, <2>3, AppendWaits DEF TypeOK
  <2> QED
    BY <1>1, <2>1, <2>4 DEF LifelineInv, Exclusive, Present, NoOrphan, Fresh
<1>4. CASE ReadCommand \/ ReadEof \/ HelloTimer
  <2>1. \E e \in Requests \cup {Eof, HelloDue} : events' = Append(events, e)
    BY <1>4 DEF ReadCommand, ReadEof, HelloTimer
  <2>2. \A e \in Requests \cup {Eof, HelloDue} : e \in Event /\ ~Reopens(e)
    <3>1. \A e \in Requests : e.kind = "cmd" /\ e.op # "connect"
      BY DEF Requests, RoomCmd, Cmd
    <3>2. Eof.kind = "eof" /\ HelloDue.kind = "hello"
      BY DEF Eof, HelloDue
    <3> QED
      BY <3>1, <3>2, WaitingKinds DEF Event
  <2>3. Alike(events, events')
    BY <2>1, <2>2, AppendWaits DEF TypeOK
  <2>4. retries' = retries
    BY <1>4 DEF ReadCommand, ReadEof, HelloTimer, loopVars
  <2> QED
    BY <1>1, <2>3, <2>4, PlainStep
<1> QED
  BY <1>2, <1>3, <1>4

\* The inductive invariant.
THEOREM LifelineInvariant == Spec => []LifelineInv
<1>1. TypeOK /\ LifelineInv /\ [Next]_vars => LifelineInv'
  <2> SUFFICES ASSUME TypeOK, LifelineInv, [Next]_vars PROVE LifelineInv'
    OBVIOUS
  <2>1. CASE UNCHANGED vars
    BY <2>1 DEF vars, linkVars, hubVars, loopVars, LifelineInv, Exclusive, Single, Waits,
                Live, Present, NoOrphan, Fresh, Unstarted
  <2> QED
    BY <2>1, MainLoopLifeline, NetworkLifeline, ThreadsLifeline DEF Next, Finished
<1> QED
  BY <1>1, LifelineInit, TypeCorrect, PTL DEF Spec

\* What keeps the helper a link exists exactly once: never two links, never a
\* retry too many, and never none while the helper is to reconnect.
THEOREM OneLifelineHolds == Spec => []OneLifeline
<1>1. TypeOK /\ LifelineInv => OneLifeline
  <2> SUFFICES ASSUME TypeOK, LifelineInv PROVE OneLifeline
    OBVIOUS
  <2>1. Lifelines = {<<"link", l>> : l \in Live} \cup {<<"entry", i>> : i \in Waits(events)}
                    \cup {<<"timer", n>> : n \in 1..retries}
    BY DEF Lifelines, Waits
  <2>2. 1..retries = IF retries = 0 THEN {} ELSE {1}
    <3>1. retries = 0 => 1..retries = {}
      OBVIOUS
    <3>2. retries = 1 => 1..retries = {1}
      OBVIOUS
    <3> QED
      BY <3>1, <3>2 DEF LifelineInv, Exclusive
  <2>3. \A a, b \in Lifelines : a = b
    <3>1. CASE Live # {}
      <4>1. retries = 0 /\ Waits(events) = {}
        BY <3>1 DEF LifelineInv, Exclusive
      <4>2. Lifelines = {<<"link", l>> : l \in Live}
        BY <2>1, <2>2, <4>1
      <4> QED
        BY <4>2 DEF LifelineInv, Exclusive
    <3>2. CASE Waits(events) # {}
      <4>1. retries = 0 /\ Live = {}
        BY <3>2 DEF LifelineInv, Exclusive
      <4>2. Lifelines = {<<"entry", i>> : i \in Waits(events)}
        BY <2>1, <2>2, <4>1
      <4> QED
        BY <4>2 DEF LifelineInv, Exclusive, Single
    <3>3. CASE Live = {} /\ Waits(events) = {}
      <4>1. Lifelines = {<<"timer", n>> : n \in 1..retries}
        BY <2>1, <3>3
      <4> QED
        BY <2>2, <4>1
    <3> QED
      BY <3>1, <3>2, <3>3
  <2>4. mode = "run" /\ session # NoSession /\ reconnect => Lifelines # {}
    <3>1. Live # {} => Lifelines # {}
      BY <2>1
    <3>2. Waits(events) # {} => Lifelines # {}
      BY <2>1
    <3>3. retries = 1 => <<"timer", 1>> \in Lifelines
      BY <2>1, <2>2
    <3> QED
      BY <3>1, <3>2, <3>3 DEF LifelineInv, Present
  <2> QED
    BY <2>3, <2>4 DEF OneLifeline
<1> QED
  BY <1>1, TypeCorrect, LifelineInvariant, PTL

\* A live link is always the one in hand: no late entry makes the helper
\* forget one, and none outlives the process.
THEOREM NoOrphanHolds == Spec => []NoOrphan
<1>1. LifelineInv => NoOrphan
  BY DEF LifelineInv
<1> QED
  BY <1>1, LifelineInvariant, PTL

-----------------------------------------------------------------------------
(* The refinement of Reconnector.                                          *)

\* What is in a queue after an entry is added, wherever it lands, and after
\* one is taken.
LEMMA QueueRanges ==
    ASSUME NEW S, NEW q \in Seq(S), NEW e \in S
    PROVE  /\ Range(Append(q, e)) = Range(q) \cup {e}
           /\ \A n \in 1..Len(q) : Range(InsertAt(q, n, e)) = Range(q) \cup {e}
           /\ q # <<>> => Range(q) = Range(Tail(q)) \cup {Head(q)}
<1>1. DOMAIN q = 1..Len(q) /\ Len(q) \in Nat
  BY LenProperties
<1>2. Range(Append(q, e)) = Range(q) \cup {e}
  <2>1. /\ DOMAIN Append(q, e) = 1..(Len(q) + 1)
        /\ \A i \in 1..Len(q) : Append(q, e)[i] = q[i]
        /\ Append(q, e)[Len(q) + 1] = e
    BY AppendProperties, LenProperties
  <2> QED
    BY <1>1, <2>1 DEF Range
<1>3. ASSUME NEW n \in 1..Len(q)
      PROVE  Range(InsertAt(q, n, e)) = Range(q) \cup {e}
  <2> DEFINE p == InsertAt(q, n, e)
  <2>1. /\ DOMAIN p = 1..(Len(q) + 1)
        /\ \A i \in 1..(Len(q) + 1) :
              p[i] = IF i < n THEN q[i] ELSE IF i = n THEN e ELSE q[i - 1]
    BY InsertAtIs
  <2> HIDE DEF p
  <2>2. Range(p) \subseteq Range(q) \cup {e}
    <3> SUFFICES ASSUME NEW i \in 1..(Len(q) + 1) PROVE p[i] \in Range(q) \cup {e}
      BY <2>1 DEF Range
    <3>1. CASE i < n
      <4>1. i \in DOMAIN q /\ p[i] = q[i]
        BY <1>1, <2>1, <3>1
      <4> QED
        BY <4>1 DEF Range
    <3>2. CASE i = n
      BY <2>1, <3>2
    <3>3. CASE i > n
      <4>1. i - 1 \in DOMAIN q /\ ~(i < n) /\ i # n
        BY <1>1, <3>3
      <4>2. p[i] = q[i - 1]
        BY <2>1, <4>1
      <4> QED
        BY <4>1, <4>2 DEF Range
    <3> QED
      BY <1>1, <3>1, <3>2, <3>3
  <2>3. e \in Range(p)
    <3>1. n \in DOMAIN p /\ p[n] = e
      BY <1>1, <2>1
    <3> QED
      BY <3>1 DEF Range
  <2>4. ASSUME NEW i \in 1..Len(q) PROVE q[i] \in Range(p)
    <3>1. CASE i < n
      BY <1>1, <2>1, <3>1 DEF Range
    <3>2. CASE ~(i < n)
      <4>1. i + 1 \in DOMAIN p /\ p[i + 1] = q[i]
        BY <1>1, <2>1, <3>2
      <4> QED
        BY <4>1 DEF Range
    <3> QED
      BY <3>1, <3>2
  <2> QED
    BY <1>1, <2>2, <2>3, <2>4 DEF Range, p
<1>4. ASSUME q # <<>> PROVE Range(q) = Range(Tail(q)) \cup {Head(q)}
  <2> DEFINE p == Tail(q)
  <2>1. /\ DOMAIN p = 1..(Len(q) - 1) /\ Len(q) # 0 /\ Head(q) = q[1]
        /\ \A i \in 1..(Len(q) - 1) : p[i] = q[i + 1]
    <3>1. Len(q) # 0
      BY <1>4, EmptySeq
    <3>2. p \in Seq(S) /\ Len(p) = Len(q) - 1 /\ \A i \in 1..Len(p) : p[i] = q[i + 1]
      BY <1>4, HeadTailProperties
    <3> QED
      BY <3>1, <3>2, LenProperties
  <2> HIDE DEF p
  <2>2. \A i \in 1..Len(q) : q[i] \in Range(p) \cup {q[1]}
    <3> SUFFICES ASSUME NEW i \in 1..Len(q), i # 1 PROVE q[i] \in Range(p)
      OBVIOUS
    <3>1. i - 1 \in DOMAIN p /\ p[i - 1] = q[i]
      BY <1>1, <2>1
    <3> QED
      BY <3>1 DEF Range
  <2>3. \A i \in 1..(Len(q) - 1) : p[i] \in Range(q)
    BY <1>1, <2>1 DEF Range
  <2>4. q[1] \in Range(q)
    BY <1>1, <2>1 DEF Range
  <2> QED
    BY <1>1, <2>1, <2>2, <2>3, <2>4 DEF Range, p
<1> QED
  BY <1>2, <1>3, <1>4

\* The same for a callback of Reticulum's.
LEMMA CallbackRange ==
    ASSUME TypeOK, NEW e \in Event, Callback(e)
    PROVE  Range(events') = Range(events) \cup {e}
<1>1. events \in Seq(Event)
  BY DEF TypeOK
<1>2. /\ Range(Append(events, e)) = Range(events) \cup {e}
      /\ \A n \in 1..Len(events) : Range(InsertAt(events, n, e)) = Range(events) \cup {e}
  BY <1>1, QueueRanges
<1> QED
  BY <1>2 DEF Callback

\* Before the connect command is carried out there is neither a link, nor the
\* end of one, nor a retry.
BeforeSession ==
    session = NoSession =>
        /\ Live = {} /\ retries = 0
        /\ \A e \in Range(events) : e.kind \notin {"down", "retry"}

\* What keeps it so: a step that makes no session touches nothing of this.
LEMMA BeforeKept ==
    ASSUME BeforeSession,
           session' = NoSession =>
               /\ session = NoSession /\ Live' = Live /\ retries' = retries
               /\ \A e \in Range(events') : e \in Range(events) \/ e.kind \notin {"down", "retry"}
    PROVE  BeforeSession'
BY DEF BeforeSession

\* Sessions and nothing else follow the connect command.
LEMMA BeforeMainLoop ==
    ASSUME TypeOK, LifelineInv, BeforeSession, MainLoop
    PROVE  BeforeSession'
<1>1. ASSUME events # <<>>
      PROVE  /\ Range(Rest) \subseteq Range(events) /\ Head(events) \in Range(events)
             /\ Rest \in Seq(Event)
  <2>1. events \in Seq(Event) /\ Head(events) \in Event
    BY <1>1, EntryType DEF TypeOK
  <2> QED
    BY <1>1, <2>1, QueueRanges, EntryType DEF Rest
<1>2. CASE PlainHandler
  BY <1>1, <1>2, PlainFacts, BeforeKept
<1>3. CASE CmdConnect
  <2>1. events # <<>> /\ events' = Rest
    BY <1>3 DEF CmdConnect, Command, Next1
  <2>2. ASSUME session' = NoSession
        PROVE  session = NoSession /\ status' = status /\ retries' = retries
    <3>1. \A nick \in Nick \cup {NoNick} : NewSession(nick) \in Session
      BY DEF NewSession, Session, NothingKnown, Limits
    <3>2. \A nick \in Nick \cup {NoNick} : ~OpenLink(NewSession(nick), reconnect', {Plain("identity")})
      BY <2>2, <3>1, NoSessionIsNone DEF OpenLink
    <3> QED
      BY <1>3, <2>2, <3>2 DEF CmdConnect
  <2> QED
    BY <1>1, <2>1, <2>2, BeforeKept DEF Live
<1>4. CASE CmdDisconnect
  <2>1. events # <<>> /\ Close(hub, Rest) /\ session' = session /\ retries' = retries
    BY <1>4 DEF CmdDisconnect, Command, Next1
  <2>2. session = NoSession => events' = Rest /\ Live' = Live
    BY <2>1 DEF BeforeSession, Close, Live
  <2> QED
    BY <1>1, <2>1, <2>2, BeforeKept
<1>5. CASE OnDown \/ OnRetry
  <2>1. events # <<>> /\ Head(events).kind \in {"down", "retry"}
    BY <1>5 DEF OnDown, OnRetry, Next1
  <2>2. session # NoSession
    BY <1>1, <2>1 DEF BeforeSession
  <2>3. session \in Session
    BY <2>2 DEF TypeOK
  <2>4. session' # NoSession
    <3>1. OnLinkDown(session).session # NoSession
      BY <2>3, OnLinkDownType, NoSessionIsNone DEF Outcomes
    <3> QED
      BY <1>5, <2>2, <3>1 DEF OnDown, OnRetry, OpenLink
  <2> QED
    BY <2>4 DEF BeforeSession
<1>6. CASE Exit
  <2>1. Close(hub, events) /\ session' = session /\ retries' = retries
    BY <1>6 DEF Exit
  <2>2. session = NoSession => events' = events /\ Live' = Live
    BY <2>1 DEF BeforeSession, Close, Live
  <2> QED
    BY <2>1, <2>2, BeforeKept
<1> QED
  BY <1>2, <1>3, <1>4, <1>5, <1>6 DEF MainLoop, PlainHandler

\* What a step of the network does to the links: the one there is comes up,
\* or is lost, or nothing changes; and what it queues.
LEMMA NetworkFacts ==
    ASSUME TypeOK, LifelineInv, NEW l \in Link, Network(l)
    PROVE  \/ /\ l \in Live /\ Callback(Down(l)) /\ status' = [status EXCEPT ![l] = "closed"]
           \/ /\ \/ status' = status
                 \/ /\ status[l] = "pending"
                    /\ status' = [status EXCEPT ![l] = "active"]
              /\ Live' = Live
              /\ \/ events' = events
                 \/ \E e \in Event : e.kind \in {"up", "frame"} /\ Callback(e)
<1>1. CASE HubClosed(l)
  BY <1>1 DEF HubClosed, Closed
<1>2. CASE ~HubClosed(l)
  <2>1. status' = status \/ (status[l] = "pending" /\ status' = [status EXCEPT ![l] = "active"])
    BY <1>2 DEF Network, Established, Lose, HubHello, HubJoin, HubPart, HubOther, HubTalks, Receive
  <2>2. Live' = Live
    BY <2>1 DEF Live, TypeOK
  <2> QED
    BY <1>2, <2>1, <2>2, NetworkEntries
<1> QED
  BY <1>1, <1>2

\* The other threads queue no end of a link.
LEMMA BeforeOthers ==
    ASSUME TypeOK, LifelineInv, BeforeSession,
           Net \/ ReadCommand \/ ReadEof \/ PipeBreaks \/ RetryTimer \/ HelloTimer
    PROVE  BeforeSession'
<1>1. CASE Net
  <2>1. PICK l \in Link : Network(l)
    BY <1>1 DEF Net
  <2>2. session' = session /\ retries' = retries
    BY <1>1 DEF Net, loopVars
  <2>3. ASSUME session = NoSession
        PROVE  /\ Live' = Live
               /\ \A e \in Range(events') : e \in Range(events) \/ e.kind \notin {"down", "retry"}
    <3>1. /\ Live' = Live
          /\ \/ events' = events
             \/ \E e \in Event : e.kind \in {"up", "frame"} /\ Callback(e)
      BY <2>1, <2>3, NetworkFacts DEF BeforeSession
    <3> QED
      BY <3>1, CallbackRange
  <2> QED
    BY <2>2, <2>3, BeforeKept
<1>2. CASE PipeBreaks
  BY <1>2, BeforeKept DEF PipeBreaks, linkVars, loopVars, Live
<1>3. CASE RetryTimer
  BY <1>3 DEF RetryTimer, BeforeSession
<1>4. CASE ReadCommand \/ ReadEof \/ HelloTimer
  <2>1. PICK e \in Requests \cup {Eof, HelloDue} : events' = Append(events, e)
    BY <1>4 DEF ReadCommand, ReadEof, HelloTimer
  <2>2. e \in Event /\ e.kind \notin {"down", "retry"}
    BY DEF Requests, RoomCmd, Cmd, Eof, HelloDue, Event
  <2>3. Range(events') = Range(events) \cup {e}
    BY <2>1, <2>2, QueueRanges DEF TypeOK
  <2>4. session' = session /\ retries' = retries /\ Live' = Live
    BY <1>4 DEF ReadCommand, ReadEof, HelloTimer, loopVars, Live
  <2> QED
    BY <2>2, <2>3, <2>4, BeforeKept
<1> QED
  BY <1>1, <1>2, <1>3, <1>4

\* So it is an invariant.
LEMMA BeforeSessionInvariant == Spec => []BeforeSession
<1>1. Init => BeforeSession
  <2> SUFFICES ASSUME Init PROVE BeforeSession
    OBVIOUS
  <2>1. PICK c \in Connects : events = <<c>>
    BY DEF Init
  <2>2. Range(events) = {c} /\ c.kind = "cmd"
    BY <2>1, ConnectsKnown DEF Range, Connect
  <2> QED
    BY <2>2 DEF Init, HubLinkInit, BeforeSession, Live
<1>2. TypeOK /\ LifelineInv /\ BeforeSession /\ [Next]_vars => BeforeSession'
  <2> SUFFICES ASSUME TypeOK, LifelineInv, BeforeSession, [Next]_vars PROVE BeforeSession'
    OBVIOUS
  <2>1. CASE UNCHANGED vars
    BY <2>1 DEF vars, linkVars, loopVars, BeforeSession, Live
  <2> QED
    BY <2>1, BeforeMainLoop, BeforeOthers DEF Next, Finished
<1> QED
  BY <1>1, <1>2, TypeCorrect, LifelineInvariant, PTL DEF Spec

\* The phase, told by the links, the queue and the timer one after the other.
Connected == \E l \in Link : status[l] = "active"
Due == Waits(events) # {} \/ retries = 1
PhaseNow == IF mode = "exited" THEN "stopped"
            ELSE IF Connected THEN "open"
            ELSE IF Live # {} THEN "connecting"
            ELSE IF session = NoSession THEN "idle"
            ELSE IF Due THEN "waiting" ELSE "dropped"

\* That is the phase Helper shows the world.
LEMMA PhaseIs == TypeOK /\ LifelineInv => Phase = PhaseNow
<1> SUFFICES ASSUME TypeOK, LifelineInv PROVE Phase = PhaseNow
  OBVIOUS
<1>1. Connected => \E l \in Live : status[l] # "pending"
  BY DEF Connected, Live
<1>2. ~Connected => \A l \in Live : status[l] = "pending"
  BY DEF Connected, Live, TypeOK
<1>3. Live = {} => (Lifelines # {} <=> Due)
  <2> SUFFICES ASSUME Live = {} PROVE Lifelines # {} <=> Due
    OBVIOUS
  <2>1. Lifelines = {<<"entry", i>> : i \in Waits(events)} \cup {<<"timer", n>> : n \in 1..retries}
    BY DEF Lifelines, Waits
  <2>2. (\E n \in 1..retries : TRUE) <=> retries = 1
    BY DEF LifelineInv, Exclusive
  <2> QED
    BY <2>1, <2>2 DEF Due
<1> USE DEF Phase, PhaseNow
<1>4. CASE mode = "exited"
  BY <1>4
<1>5. CASE mode # "exited" /\ Connected
  BY <1>1, <1>5 DEF Connected
<1>6. CASE mode # "exited" /\ ~Connected /\ Live # {}
  BY <1>2, <1>6 DEF Connected
<1>7. CASE mode # "exited" /\ ~Connected /\ Live = {} /\ session = NoSession
  BY <1>7 DEF Connected
<1>8. CASE mode # "exited" /\ ~Connected /\ Live = {} /\ session # NoSession
  BY <1>3, <1>8 DEF Connected
<1> QED
  BY <1>4, <1>5, <1>6, <1>7, <1>8

\* ... also in the next state.
LEMMA PhaseIsNext == TypeOK' /\ LifelineInv' => (Phase = PhaseNow)'
BY PhaseIs, PTL

\* Steps that show nothing, or only that reconnecting is off.
LEMMA QuietStep ==
    ASSUME Phase = PhaseNow, Phase' = PhaseNow', PhaseNow' = PhaseNow,
           reconnect' = reconnect \/ reconnect' = FALSE
    PROVE  [Abstract!Next]_<<Phase, reconnect>>
<1>1. CASE reconnect' = reconnect
  BY <1>1
<1>2. CASE reconnect' = FALSE
  BY <1>2 DEF Abstract!Next, Abstract!SwitchOff
<1> QED
  BY <1>1, <1>2

\* Alike queues wait alike, so the phase is the same when nothing else is new.
LEMMA SamePhase ==
    ASSUME Alike(events, events'), status' = status, retries' = retries,
           (session' = NoSession) <=> (session = NoSession),
           mode # "exited", mode' # "exited"
    PROVE  PhaseNow' = PhaseNow
BY DEF PhaseNow, Connected, Live, Due, Alike

\* _open_link, with no link left, is an attempt: it is under way, or it has
\* failed and is due again, unless reconnecting is off.
LEMMA OpenLinkAttempts ==
    ASSUME TypeOK, Phase = PhaseNow, Phase' = PhaseNow', Live = {}, retries = 0,
           mode = "run", PhaseNow \in {"idle", "waiting"},
           Waits(events') = {}, session' # NoSession,
           PhaseNow # "idle" => reconnect' = reconnect,
           NEW s, NEW more, OpenLink(s, reconnect', more)
    PROVE  Abstract!Attempt
<1>1. mode' # "exited"
  BY TellingMode DEF OpenLink
<1>2. PhaseNow' \in {"connecting", "waiting"} \cup (IF reconnect' THEN {} ELSE {"dropped"})
  <2>1. CASE \E l \in Link : Open(l)
    <3>1. PICK l \in Link : Open(l)
      BY <2>1
    <3>2. status' = [status EXCEPT ![l] = "pending"]
      BY <3>1 DEF Open
    <3>3. l \in Live' /\ \A k \in Link : status'[k] # "active"
      BY <3>2 DEF Live, TypeOK
    <3> QED
      BY <1>1, <3>3 DEF PhaseNow, Connected
  <2>2. CASE status' = status /\ retries' = IF reconnect' THEN retries + 1 ELSE retries
    <3>1. Live' = {} /\ ~Connected'
      BY <2>2 DEF Live, Connected
    <3> QED
      BY <1>1, <2>2, <3>1 DEF PhaseNow, Due
  <2> QED
    BY <2>1, <2>2 DEF OpenLink
<1> QED
  BY <1>2 DEF Abstract!Attempt

\* Closing the link in hand ends in a wait; with none in hand nothing shows.
LEMMA ClosePhase ==
    ASSUME TypeOK, LifelineInv, BeforeSession, NEW rest \in Seq(Event), Alike(events, rest),
           Close(hub, rest), retries' = retries, session' = session,
           mode # "exited", mode' # "exited"
    PROVE  \/ PhaseNow \in {"open", "connecting"} /\ PhaseNow' = "waiting"
           \/ PhaseNow' = PhaseNow
<1>1. CASE hub \in Live
  <2>1. Waits(events) = {} /\ Live = {hub} /\ session # NoSession
    BY <1>1 DEF LifelineInv, Exclusive, BeforeSession
  <2>2. events' = Append(rest, Down(hub)) /\ status' = [status EXCEPT ![hub] = "closed"]
    BY <1>1 DEF Close
  <2>3. Live' = {} /\ ~Connected'
    BY <2>1, <2>2 DEF Live, TypeOK, Connected
  <2>4. Down(hub) \in Event /\ Reopens(Down(hub))
    BY <1>1, WaitingKinds DEF Live, Event, LinkEvent, Down
  <2>5. Waits(events') # {}
    BY <2>2, <2>4, AppendWaits
  <2> QED
    BY <1>1, <2>1, <2>3, <2>5 DEF PhaseNow, Due
<1>2. CASE hub \notin Live
  <2>1. status' = status /\ Alike(events, events')
    BY <1>2 DEF Close
  <2> QED
    BY <2>1, SamePhase
<1> QED
  BY <1>1, <1>2

\* Every step of the main loop is one of Reconnector's, or shows nothing.
LEMMA MainLoopSupervised ==
    ASSUME TypeOK, LifelineInv, BeforeSession, Phase = PhaseNow, Phase' = PhaseNow', MainLoop
    PROVE  [Abstract!Next]_<<Phase, reconnect>>
<1>1. CASE PlainHandler
  <2>1. PhaseNow' = PhaseNow
    BY <1>1, PlainFacts, SamePhase
  <2>2. reconnect' = reconnect \/ reconnect' = FALSE
    BY <1>1, PlainFacts
  <2> QED
    BY <2>1, <2>2, QuietStep
<1>2. CASE CmdConnect
  <2>1. /\ mode = "run" /\ events # <<>> /\ events' = Rest
        /\ Head(events).kind = "cmd" /\ Head(events).op = "connect"
    BY <1>2 DEF CmdConnect, Command, Next1
  <2>2. Waits(events') = {} /\ Live = {} /\ retries = 0
    BY <2>1, WaitingEntry
  <2>3. session = NoSession
    <3>1. Head(events) \in Connects
      BY <2>1, EntryType, WaitingKinds DEF Reopens
    <3>2. 1 \in DOMAIN events /\ events[1] = Head(events)
      BY <2>1, EmptySeq, LenProperties DEF TypeOK
    <3> QED
      BY <3>1, <3>2 DEF LifelineInv, Fresh, Unstarted
  <2>4. ~Connected
    BY <2>2 DEF Connected, Live
  <2>5. PhaseNow = "idle"
    BY <2>1, <2>2, <2>3, <2>4 DEF PhaseNow
  <2>6. CASE /\ Telling({Error("command")})
             /\ UNCHANGED <<status, toHub, greeted, session, hub, wanted, reconnect, retries>>
    <3>1. mode' # "exited"
      BY <2>1, <2>6, TellingMode
    <3>2. PhaseNow' = "idle"
      BY <2>2, <2>3, <2>4, <2>6, <3>1 DEF PhaseNow, Connected, Live
    <3> QED
      BY <2>5, <2>6, <3>2
  <2>7. CASE \E nick \in Nick \cup {NoNick} :
                 OpenLink(NewSession(nick), reconnect', {Plain("identity")})
    <3>1. PICK nick \in Nick \cup {NoNick} :
              OpenLink(NewSession(nick), reconnect', {Plain("identity")})
      BY <2>7
    <3>2. NewSession(nick) \in Session
      BY DEF NewSession, Session, NothingKnown, Limits
    <3>3. session' # NoSession
      BY <3>1, <3>2, NoSessionIsNone DEF OpenLink
    <3>4. Abstract!Attempt
      BY <2>1, <2>2, <2>5, <3>1, <3>3, OpenLinkAttempts
    <3> QED
      BY <3>4 DEF Abstract!Next
  <2> QED
    BY <1>2, <2>6, <2>7 DEF CmdConnect
<1>3. CASE CmdDisconnect
  <2>1. /\ mode = "run" /\ events # <<>> /\ Head(events).kind = "cmd" /\ Head(events).op # "connect"
        /\ Close(hub, Rest) /\ reconnect' = FALSE /\ retries' = retries /\ session' = session
        /\ Telling({State("down")})
    BY <1>3 DEF CmdDisconnect, Command, Next1
  <2>2. Alike(events, Rest) /\ Rest \in Seq(Event)
    BY <2>1, EntryType, WaitingKinds, TailWaits DEF TypeOK, Rest
  <2>3. mode' # "exited"
    BY <2>1, TellingMode
  <2>4. \/ PhaseNow \in {"open", "connecting"} /\ PhaseNow' = "waiting"
        \/ PhaseNow' = PhaseNow
    BY <2>1, <2>2, <2>3, ClosePhase
  <2> QED
    BY <2>1, <2>4 DEF Abstract!Next, Abstract!SwitchOff
<1>4. CASE OnDown
  <2>1. mode = "run" /\ events # <<>> /\ events' = Rest /\ Head(events).kind = "down"
    BY <1>4 DEF OnDown, Next1
  <2>2. Waits(events') = {} /\ Live = {} /\ retries = 0
    BY <2>1, WaitingEntry
  <2>3. Waits(events) # {} /\ Head(events) \in Range(events)
    BY <2>1, EntryType, WaitingKinds, TailWaits, QueueRanges DEF TypeOK
  <2>4. session # NoSession /\ session \in Session
    BY <2>1, <2>3 DEF BeforeSession, TypeOK
  <2>5. session' # NoSession
    BY <1>4, <2>4, OnLinkDownType, NoSessionIsNone DEF OnDown, Outcomes
  <2>6. mode' # "exited"
    BY <1>4, <2>1, TellingMode DEF OnDown
  <2>7. status' = status /\ retries' = (IF reconnect THEN 1 ELSE 0)
    BY <1>4, <2>2 DEF OnDown
  <2>8. reconnect' = reconnect
    BY <1>4, Zenon DEF OnDown
  <2>9. PhaseNow = "waiting"
    BY <2>1, <2>2, <2>3, <2>4 DEF PhaseNow, Connected, Live, Due
  <2>10. PhaseNow' = IF reconnect THEN "waiting" ELSE "dropped"
    BY <2>2, <2>5, <2>6, <2>7 DEF PhaseNow, Connected, Live, Due
  <2> QED
    BY <2>8, <2>9, <2>10 DEF Abstract!Next, Abstract!Drop
<1>5. CASE OnRetry
  <2>1. mode = "run" /\ events # <<>> /\ events' = Rest /\ Head(events).kind = "retry"
    BY <1>5 DEF OnRetry, Next1
  <2>2. Waits(events') = {} /\ Live = {} /\ retries = 0
    BY <2>1, WaitingEntry
  <2>3. Waits(events) # {} /\ Head(events) \in Range(events)
    BY <2>1, EntryType, WaitingKinds, TailWaits, QueueRanges DEF TypeOK
  <2>4. session # NoSession
    BY <2>1, <2>3 DEF BeforeSession
  <2>5. reconnect' = reconnect
    BY <1>5, Zenon DEF OnRetry
  <2>6. OpenLink(session, reconnect', {}) /\ session' = session
    BY <1>5, <2>5 DEF OnRetry, OpenLink
  <2>7. PhaseNow = "waiting"
    BY <2>1, <2>2, <2>3, <2>4 DEF PhaseNow, Connected, Live, Due
  <2>8. Abstract!Attempt
    BY <2>1, <2>2, <2>4, <2>5, <2>6, <2>7, OpenLinkAttempts
  <2> QED
    BY <2>8 DEF Abstract!Next
<1>6. CASE Exit
  <2>1. PhaseNow' = "stopped"
    BY <1>6 DEF Exit, PhaseNow
  <2>2. reconnect' = reconnect
    BY <1>6, Zenon DEF Exit
  <2> QED
    BY <2>1, <2>2 DEF Abstract!Next, Abstract!Stop
<1> QED
  BY <1>1, <1>2, <1>3, <1>4, <1>5, <1>6 DEF MainLoop, PlainHandler

\* So is every step of the network and of the other threads.
LEMMA OthersSupervised ==
    ASSUME TypeOK, LifelineInv, BeforeSession, Phase = PhaseNow, Phase' = PhaseNow',
           Net \/ ReadCommand \/ ReadEof \/ PipeBreaks \/ RetryTimer \/ HelloTimer
    PROVE  [Abstract!Next]_<<Phase, reconnect>>
<1>1. reconnect' = reconnect /\ session' = session /\ mode' = mode
  BY Zenon DEF Net, ReadCommand, ReadEof, PipeBreaks, RetryTimer, HelloTimer, loopVars
<1>2. CASE mode = "exited"
  <2>1. PhaseNow' = PhaseNow
    BY <1>1, <1>2 DEF PhaseNow
  <2> QED
    BY <1>1, <2>1
<1>3. CASE mode # "exited" /\ Net
  <2>1. PICK l \in Link : Network(l)
    BY <1>3 DEF Net
  <2>2. retries' = retries
    BY <1>3 DEF Net, loopVars
  <2>3. CASE l \in Live /\ Callback(Down(l)) /\ status' = [status EXCEPT ![l] = "closed"]
    <3>1. Waits(events) = {} /\ Live = {l} /\ session # NoSession
      BY <2>3 DEF LifelineInv, Exclusive, BeforeSession
    <3>2. Live' = {} /\ ~Connected'
      BY <2>3, <3>1 DEF Live, TypeOK, Connected
    <3>3. Down(l) \in Event /\ Reopens(Down(l))
      BY WaitingKinds DEF Event, LinkEvent, Down
    <3>4. Waits(events') # {}
      BY <2>3, <3>3, CallbackWaits
    <3>5. PhaseNow \in {"open", "connecting"} /\ PhaseNow' = "waiting"
      BY <1>1, <1>3, <3>1, <3>2, <3>4 DEF PhaseNow, Due
    <3> QED
      BY <1>1, <3>5 DEF Abstract!Next, Abstract!Lose
  <2>4. CASE /\ status[l] = "pending" /\ status' = [status EXCEPT ![l] = "active"]
             /\ Live' = Live
    <3>1. Live = {l}
      BY <2>4 DEF Live, LifelineInv, Exclusive
    <3>2. ~Connected /\ Connected'
      BY <2>4, <3>1 DEF Connected, Live, TypeOK
    <3>3. PhaseNow = "connecting" /\ PhaseNow' = "open"
      BY <1>1, <1>3, <3>1, <3>2 DEF PhaseNow
    <3> QED
      BY <1>1, <3>3 DEF Abstract!Next, Abstract!Come
  <2>5. CASE /\ status' = status
             /\ \/ events' = events
                \/ \E e \in Event : e.kind \in {"up", "frame"} /\ Callback(e)
    <3>1. Alike(events, events')
      BY <2>5, WaitingKinds, CallbackWaits DEF Alike
    <3>2. PhaseNow' = PhaseNow
      BY <1>1, <1>3, <2>2, <2>5, <3>1, SamePhase
    <3> QED
      BY <1>1, <3>2
  <2> QED
    BY <2>1, <2>3, <2>4, <2>5, NetworkFacts
<1>4. CASE mode # "exited" /\ PipeBreaks
  <2>1. PhaseNow' = PhaseNow
    BY <1>1, <1>4 DEF PipeBreaks, PhaseNow, Connected, Due, Live, linkVars, loopVars
  <2> QED
    BY <1>1, <2>1
<1>5. CASE mode # "exited" /\ RetryTimer
  <2>1. Waits(events) = {} /\ Live = {} /\ retries = 1 /\ session # NoSession
    BY <1>5 DEF RetryTimer, LifelineInv, Exclusive, BeforeSession
  <2>2. events' = Append(events, Retry) /\ Retry \in Event /\ status' = status
    BY <1>5 DEF RetryTimer, Event
  <2>3. Waits(events') # {}
    BY <2>2, WaitingKinds, AppendWaits DEF Retry, TypeOK
  <2>4. PhaseNow' = PhaseNow
    BY <1>1, <1>5, <2>1, <2>2, <2>3 DEF PhaseNow, Connected, Live, Due
  <2> QED
    BY <1>1, <2>4
<1>6. CASE mode # "exited" /\ (ReadCommand \/ ReadEof \/ HelloTimer)
  <2>1. PICK e \in Requests \cup {Eof, HelloDue} : events' = Append(events, e)
    BY <1>6 DEF ReadCommand, ReadEof, HelloTimer
  <2>2. e \in Event /\ ~Reopens(e)
    <3>1. e \in Requests => e.kind = "cmd" /\ e.op # "connect"
      BY DEF Requests, RoomCmd, Cmd
    <3>2. Eof.kind = "eof" /\ HelloDue.kind = "hello"
      BY DEF Eof, HelloDue
    <3> QED
      BY <3>1, <3>2, WaitingKinds DEF Event
  <2>3. Alike(events, events')
    BY <2>1, <2>2, AppendWaits DEF TypeOK
  <2>4. status' = status /\ retries' = retries
    BY <1>6 DEF ReadCommand, ReadEof, HelloTimer, loopVars
  <2>5. PhaseNow' = PhaseNow
    BY <1>1, <1>6, <2>3, <2>4, SamePhase
  <2> QED
    BY <1>1, <2>5
<1> QED
  BY <1>2, <1>3, <1>4, <1>5, <1>6

\* The helper implements Reconnector: whatever the hub, the network and the
\* user do, an outage is followed by a wait and another attempt, and nothing
\* ends the attempts but being told to.
THEOREM SupervisedHolds == Spec => Supervised
<1>1. Init => Abstract!Init
  <2> SUFFICES ASSUME Init PROVE Abstract!Init
    OBVIOUS
  <2>1. Live = {} /\ session = NoSession /\ mode = "run"
    BY DEF Init, HubLinkInit, Live
  <2>2. ~\E l \in Link : status[l] = "active"
    BY <2>1 DEF Live
  <2>3. Phase = "idle"
    BY <2>1, <2>2 DEF Phase
  <2> QED
    BY <2>3 DEF Abstract!Init, Init
<1>2. /\ TypeOK /\ LifelineInv /\ BeforeSession /\ TypeOK' /\ LifelineInv'
      /\ [Next]_vars
      => [Abstract!Next]_<<Phase, reconnect>>
  <2> SUFFICES ASSUME TypeOK, LifelineInv, BeforeSession, TypeOK', LifelineInv', [Next]_vars
               PROVE  [Abstract!Next]_<<Phase, reconnect>>
    OBVIOUS
  <2>1. Phase = PhaseNow /\ Phase' = PhaseNow'
    BY PhaseIs, PhaseIsNext
  <2>2. CASE UNCHANGED vars
    <3>1. PhaseNow' = PhaseNow
      BY <2>2 DEF vars, linkVars, loopVars, PhaseNow, Connected, Live, Due, Waits
    <3>2. reconnect' = reconnect
      BY <2>2, Zenon DEF vars, loopVars
    <3> QED
      BY <2>1, <3>1, <3>2
  <2> QED
    BY <2>1, <2>2, MainLoopSupervised, OthersSupervised DEF Next, Finished
<1> QED
  BY <1>1, <1>2, TypeCorrect, LifelineInvariant, BeforeSessionInvariant, PTL
     DEF Spec, Supervised, Abstract!Spec

=============================================================================
