----------------------------- MODULE PluginProofs -----------------------------
(***************************************************************************)
(* The WeeChat script's properties, for all rooms, people, nicknames and   *)
(* pipes: whatever the user closes and reopens, and whenever the helper    *)
(* dies, pointers, mention words, nicklists and memberships stay in line.  *)
(***************************************************************************)
EXTENDS Plugin, SequenceTheorems, TLAPS

-----------------------------------------------------------------------------
(* What every callback leaves of the one Connection.                       *)

\* A connection whose buffers are open, highlight for what it has published
\* and list everybody it knows ...
Sound(u) ==
    /\ u \in UI
    /\ Owned(u) \subseteq u.buffers
    /\ \A b \in Owned(u) : u.seeded \subseteq u.words[b]
    /\ \A r \in Room : u.members[r] \subseteq u.nicklist[r]

\* ... and that has published all of its mention keys.
Healthy(u) == Sound(u) /\ u.seeded = MentionKeys(u)

\* The same connection, with at least the rooms it had.
Grown(u, v) == /\ v.open = u.open /\ v.process = u.process /\ v.hooked = u.hooked
               /\ u.rooms \subseteq v.rooms

\* The mention keys are keys, the owned buffers are buffers.
LEMMA Kinds ==
    ASSUME NEW u \in UI
    PROVE  MentionKeys(u) \subseteq Key /\ Owned(u) \subseteq Buffer
BY DEF UI, MentionKeys, Key, Owned, Buffer

\* Publishing brings every owned buffer into line (publish_mentions).
LEMMA PublishIs ==
    ASSUME NEW u, Sound(u)
    PROVE  Healthy(Publish(u)) /\ Grown(u, Publish(u))
<1> DEFINE v == Publish(u)
<1>1. u \in UI /\ MentionKeys(u) \subseteq Key /\ Owned(u) \subseteq Buffer
  BY Kinds DEF Sound
<1>2. CASE MentionKeys(u) = u.seeded
  BY <1>2 DEF Publish, Healthy, Grown
<1>3. CASE MentionKeys(u) # u.seeded
  <2> DEFINE words == [b \in Buffer |-> IF b \in Owned(u)
                                        THEN (u.words[b] \ u.seeded) \cup MentionKeys(u)
                                        ELSE u.words[b]]
  <2>1. v = [u EXCEPT !.seeded = MentionKeys(u), !.words = words]
    BY <1>3 DEF Publish
  <2>2. words \in [Buffer -> SUBSET Key]
    BY <1>1 DEF UI
  <2> HIDE DEF words
  <2>3. v \in UI /\ v.seeded = MentionKeys(u) /\ v.words = words
    BY <1>1, <2>1, <2>2 DEF UI
  <2>4. /\ v.open = u.open /\ v.process = u.process /\ v.hooked = u.hooked
        /\ v.rooms = u.rooms /\ v.dms = u.dms /\ v.buffers = u.buffers
        /\ v.members = u.members /\ v.nicklist = u.nicklist
        /\ v.nick = u.nick /\ v.identified = u.identified
    BY <1>1, <2>1 DEF UI
  <2>5. Owned(v) = Owned(u) /\ MentionKeys(v) = MentionKeys(u)
    BY <2>4 DEF Owned, MentionKeys
  <2>6. \A b \in Owned(v) : v.seeded \subseteq v.words[b]
    BY <1>1, <2>3, <2>5 DEF words
  <2> HIDE DEF v
  <2> QED
    BY <2>3, <2>4, <2>5, <2>6 DEF Sound, Healthy, Grown, v
<1> QED
  BY <1>2, <1>3

\* A buffer that is new to the connection, entered in one of its tables.
LEMMA PrepareIs ==
    ASSUME NEW u, NEW w, NEW b \in Buffer, Sound(u), w \in UI,
           w.buffers = u.buffers \cup {b}, Owned(w) = Owned(u) \cup {b},
           w.seeded = u.seeded, w.words = u.words, w.nick = u.nick, w.identified = u.identified,
           w.members = u.members, w.nicklist = u.nicklist, Grown(u, w)
    PROVE  /\ Sound(Prepare(w, b)) /\ Grown(u, Prepare(w, b))
           /\ Prepare(w, b).rooms = w.rooms
           /\ Healthy(u) => Healthy(Prepare(w, b))
<1> DEFINE v == Prepare(w, b)
           words == [w.words EXCEPT ![b] = @ \cup w.seeded]
<1>1. v = [w EXCEPT !.words = words]
  BY DEF Prepare
<1>2. words \in [Buffer -> SUBSET Key]
  BY DEF UI
<1>3. v \in UI /\ v.words = words
  BY <1>1, <1>2 DEF UI
<1>4. /\ v.open = w.open /\ v.process = w.process /\ v.hooked = w.hooked
      /\ v.rooms = w.rooms /\ v.dms = w.dms /\ v.buffers = w.buffers
      /\ v.members = w.members /\ v.nicklist = w.nicklist
      /\ v.nick = w.nick /\ v.identified = w.identified /\ v.seeded = w.seeded
  BY <1>1 DEF UI
<1>5. Owned(v) = Owned(w) /\ MentionKeys(v) = MentionKeys(u)
  BY <1>4 DEF Owned, MentionKeys
<1>6. \A c \in Owned(v) : v.seeded \subseteq v.words[c]
  <2>1. Owned(u) \subseteq Buffer
    BY Kinds DEF Sound
  <2>2. \A c \in Buffer : v.words[c] = IF c = b THEN u.words[c] \cup u.seeded ELSE u.words[c]
    BY <1>3 DEF UI
  <2>3. Owned(v) \subseteq Buffer
    BY <1>5, <2>1
  <2> HIDE DEF v, words
  <2>4. \A c \in Owned(u) : u.seeded \subseteq u.words[c]
    BY DEF Sound
  <2>5. \A c \in Owned(v) : c # b => c \in Owned(u)
    BY <1>5
  <2> QED
    BY <1>4, <2>2, <2>3, <2>4, <2>5
<1> HIDE DEF v, words
<1>7. Sound(v) /\ Grown(u, v) /\ (Healthy(u) => Healthy(v))
  BY <1>3, <1>4, <1>5, <1>6 DEF Sound, Healthy, Grown
<1> QED
  BY <1>4, <1>7 DEF v

\* A room's buffer, found or made (room_buffer).
LEMMA RoomBufferIs ==
    ASSUME NEW u, NEW r \in Room, Healthy(u)
    PROVE  Healthy(RoomBuffer(u, r)) /\ Grown(u, RoomBuffer(u, r)) /\ r \in RoomBuffer(u, r).rooms
<1>1. CASE r \in u.rooms
  BY <1>1 DEF RoomBuffer, Grown
<1>2. CASE r \notin u.rooms
  <2> DEFINE w == [u EXCEPT !.rooms = @ \cup {r}, !.buffers = @ \cup {r}]
  <2>1. u \in UI /\ r \in Buffer
    BY DEF Healthy, Sound, Buffer
  <2>2. /\ w \in UI /\ w.buffers = u.buffers \cup {r} /\ w.rooms = u.rooms \cup {r}
        /\ w.dms = u.dms /\ w.seeded = u.seeded /\ w.words = u.words
        /\ w.nick = u.nick /\ w.identified = u.identified
        /\ w.members = u.members /\ w.nicklist = u.nicklist
        /\ w.open = u.open /\ w.process = u.process /\ w.hooked = u.hooked
    BY <2>1 DEF UI
  <2>3. RoomBuffer(u, r) = Prepare(w, r)
    BY <1>2 DEF RoomBuffer
  <2> HIDE DEF w
  <2>4. Owned(w) = Owned(u) \cup {r} /\ Grown(u, w)
    BY <2>2 DEF Owned, Grown
  <2>5. Healthy(Prepare(w, r)) /\ Grown(u, Prepare(w, r)) /\ Prepare(w, r).rooms = w.rooms
    BY <2>1, <2>2, <2>4, PrepareIs DEF Healthy
  <2> QED
    BY <2>2, <2>3, <2>5
<1> QED
  BY <1>1, <1>2

\* A private buffer, found or made (dm_buffer).
LEMMA DmBufferIs ==
    ASSUME NEW u, NEW p \in Person, Healthy(u)
    PROVE  Healthy(DmBuffer(u, p)) /\ Grown(u, DmBuffer(u, p))
<1>1. CASE p \in u.dms
  BY <1>1 DEF DmBuffer, Grown
<1>2. CASE p \notin u.dms
  <2> DEFINE w == [u EXCEPT !.dms = @ \cup {p}, !.buffers = @ \cup {p}]
  <2>1. u \in UI /\ p \in Buffer
    BY DEF Healthy, Sound, Buffer
  <2>2. /\ w \in UI /\ w.buffers = u.buffers \cup {p} /\ w.dms = u.dms \cup {p}
        /\ w.rooms = u.rooms /\ w.seeded = u.seeded /\ w.words = u.words
        /\ w.nick = u.nick /\ w.identified = u.identified
        /\ w.members = u.members /\ w.nicklist = u.nicklist
        /\ w.open = u.open /\ w.process = u.process /\ w.hooked = u.hooked
    BY <2>1 DEF UI
  <2>3. DmBuffer(u, p) = Prepare(w, p)
    BY <1>2 DEF DmBuffer
  <2> HIDE DEF w
  <2>4. Owned(w) = Owned(u) \cup {p} /\ Grown(u, w)
    BY <2>2 DEF Owned, Grown
  <2> QED
    BY <2>1, <2>2, <2>3, <2>4, PrepareIs DEF Healthy
<1> QED
  BY <1>1, <1>2

\* A connection of which only one room's members and nicklist change.
LEMMA MembersIs ==
    ASSUME NEW u, NEW v, Healthy(u), NEW M \in [Room -> SUBSET Person], NEW N \in [Room -> SUBSET Person],
           v = [u EXCEPT !.members = M, !.nicklist = N], \A r \in Room : M[r] \subseteq N[r]
    PROVE  Healthy(v) /\ Grown(u, v) /\ v.rooms = u.rooms /\ v.members = M /\ v.nicklist = N
<1>1. u \in UI
  BY DEF Healthy, Sound
<1>2. v \in UI /\ v.members = M /\ v.nicklist = N
  BY <1>1 DEF UI
<1>3. /\ v.open = u.open /\ v.process = u.process /\ v.hooked = u.hooked
      /\ v.rooms = u.rooms /\ v.dms = u.dms /\ v.buffers = u.buffers /\ v.words = u.words
      /\ v.nick = u.nick /\ v.identified = u.identified /\ v.seeded = u.seeded
  BY <1>1 DEF UI
<1>4. Owned(v) = Owned(u) /\ MentionKeys(v) = MentionKeys(u)
  BY <1>3 DEF Owned, MentionKeys
<1> QED
  BY <1>2, <1>3, <1>4 DEF Healthy, Sound, Grown

\* Noting members of a room with a buffer, or dropping one, keeps the
\* nicklist complete (note_member, drop_member, refresh_nicklist).
LEMMA NotedIs ==
    ASSUME NEW u, Healthy(u), NEW r \in u.rooms
    PROVE  /\ \A S \in SUBSET Person : Healthy(NoteMembers(u, r, S)) /\ Grown(u, NoteMembers(u, r, S))
           /\ \A p : Healthy(DropMember(u, r, p)) /\ Grown(u, DropMember(u, r, p))
<1>1. u \in UI /\ r \in Room /\ u.members[r] \in SUBSET Person
  BY DEF Healthy, Sound, UI
<1>2. ASSUME NEW T \in SUBSET Person
      PROVE  /\ Healthy(RefreshNicklist([u EXCEPT !.members[r] = T], r))
             /\ Grown(u, RefreshNicklist([u EXCEPT !.members[r] = T], r))
  <2> DEFINE w == [u EXCEPT !.members[r] = T]
             v == RefreshNicklist(w, r)
             M == [u.members EXCEPT ![r] = T]
             N == [u.nicklist EXCEPT ![r] = T]
  <2>1. M \in [Room -> SUBSET Person] /\ N \in [Room -> SUBSET Person]
    BY <1>1 DEF UI
  <2>2. w \in UI /\ w.rooms = u.rooms /\ w.members = M /\ w.nicklist = u.nicklist
    BY <1>1, <2>1 DEF UI
  <2>3. v = [w EXCEPT !.nicklist[r] = T]
    BY <1>1, <2>2 DEF RefreshNicklist, UI
  <2>4. v = [u EXCEPT !.members = M, !.nicklist = N]
    BY <1>1, <2>1, <2>3 DEF UI
  <2>5. \A s \in Room : M[s] \subseteq N[s]
    BY <1>1 DEF Healthy, Sound, UI
  <2> HIDE DEF v, M, N
  <2> QED
    BY <2>1, <2>4, <2>5, MembersIs DEF v
<1>3. \A S \in SUBSET Person : NoteMembers(u, r, S) = RefreshNicklist([u EXCEPT !.members[r] = u.members[r] \cup S], r)
  BY <1>1 DEF NoteMembers, UI
<1>4. \A p : DropMember(u, r, p) = RefreshNicklist([u EXCEPT !.members[r] = u.members[r] \ {p}], r)
  BY <1>1 DEF DropMember, UI
<1>5. ASSUME NEW S \in SUBSET Person
      PROVE  Healthy(NoteMembers(u, r, S)) /\ Grown(u, NoteMembers(u, r, S))
  <2>1. u.members[r] \cup S \in SUBSET Person
    BY <1>1
  <2> QED
    BY <1>2, <1>3, <2>1
<1>6. ASSUME NEW p
      PROVE  Healthy(DropMember(u, r, p)) /\ Grown(u, DropMember(u, r, p))
  <2>1. u.members[r] \ {p} \in SUBSET Person
    BY <1>1
  <2> QED
    BY <1>2, <1>4, <2>1
<1> QED
  BY <1>5, <1>6

\* Forgetting a room's members is always safe.
LEMMA ForgottenIs ==
    ASSUME NEW u, Healthy(u), NEW r \in Room
    PROVE  /\ Healthy([u EXCEPT !.members[r] = {}]) /\ Grown(u, [u EXCEPT !.members[r] = {}])
           /\ [u EXCEPT !.members[r] = {}].rooms = u.rooms
<1> DEFINE M == [u.members EXCEPT ![r] = {}]
           N == u.nicklist
           v == [u EXCEPT !.members[r] = {}]
<1>1. u \in UI
  BY DEF Healthy, Sound
<1>2. M \in [Room -> SUBSET Person] /\ N \in [Room -> SUBSET Person]
  BY <1>1 DEF UI
<1>3. v = [u EXCEPT !.members = M, !.nicklist = N]
  BY <1>1 DEF UI
<1>4. \A s \in Room : M[s] \subseteq N[s]
  BY <1>1 DEF Healthy, Sound, UI
<1>5. v.rooms = u.rooms
  BY <1>1 DEF UI
<1> HIDE DEF v, M, N
<1>6. Healthy(v) /\ Grown(u, v)
  BY <1>2, <1>3, <1>4, MembersIs
<1> QED
  BY <1>5, <1>6 DEF v

\* What one event does to a connection: it stays healthy, loses no room, and
\* our own join leaves the room with a buffer (rrc_stdout_cb, on_event).
LEMMA OnEventIs ==
    ASSUME NEW u, NEW e \in Event, Healthy(u)
    PROVE  /\ Healthy(OnEvent(u, e)) /\ Grown(u, OnEvent(u, e))
           /\ e.op = "joined" => e.room \in OnEvent(u, e).rooms
<1>1. /\ e.op \in {"identity", "nick", "joined", "parted", "join", "part", "chat", "direct"}
      /\ e.op = "nick" => e.nick \in Nick
      /\ e.op \in {"joined", "parted", "join", "part", "chat"} => e.room \in Room
      /\ e.op = "joined" => e.members \in SUBSET Person
      /\ e.op \in {"join", "part", "direct"} => e.src \in Person
      /\ e.op = "chat" => e.src \in Person \cup {Hub}
  BY DEF Event, Identity, NickCmd, JoinedEv, RoomEv, MemberEv, DirectEv
<1>2. u \in UI
  BY DEF Healthy, Sound
<1>3. ASSUME NEW r \in Room, NEW p \in Person
      PROVE  Healthy(OnJoin(u, r, p)) /\ Grown(u, OnJoin(u, r, p))
  <2> DEFINE v == RoomBuffer(u, r)
  <2>1. Healthy(v) /\ Grown(u, v) /\ r \in v.rooms
    BY RoomBufferIs
  <2> HIDE DEF v
  <2>2. Healthy(NoteMembers(v, r, {p})) /\ Grown(v, NoteMembers(v, r, {p}))
    BY <2>1, NotedIs
  <2> QED
    BY <2>1, <2>2 DEF OnJoin, Grown, v
<1>4. CASE e.op = "identity"
  <2>1. Sound([u EXCEPT !.identified = TRUE]) /\ Grown(u, [u EXCEPT !.identified = TRUE])
    BY <1>2 DEF Healthy, Sound, Grown, Owned, UI
  <2> QED
    BY <1>4, <2>1, PublishIs DEF OnEvent, Grown
<1>5. CASE e.op = "nick"
  <2>1. Sound([u EXCEPT !.nick = e.nick]) /\ Grown(u, [u EXCEPT !.nick = e.nick])
    BY <1>1, <1>2, <1>5 DEF Healthy, Sound, Grown, Owned, UI
  <2> QED
    BY <1>5, <2>1, PublishIs DEF OnEvent, Grown
<1>6. CASE e.op = "joined"
  <2> DEFINE r == e.room
             v == RoomBuffer(u, r)
             w == [v EXCEPT !.members[r] = {}]
  <2>1. r \in Room /\ e.members \in SUBSET Person
    BY <1>1, <1>6
  <2>2. Healthy(v) /\ Grown(u, v) /\ r \in v.rooms
    BY <2>1, RoomBufferIs
  <2>3. OnEvent(u, e) = IF e.members = {} THEN w ELSE NoteMembers(w, r, e.members)
    BY <1>6 DEF OnEvent, OnJoined
  <2> HIDE DEF v
  <2>4. Healthy(w) /\ Grown(v, w) /\ w.rooms = v.rooms
    BY <2>1, <2>2, ForgottenIs
  <2> HIDE DEF w
  <2>5. /\ Healthy(NoteMembers(w, r, e.members))
        /\ Grown(w, NoteMembers(w, r, e.members))
    BY <2>1, <2>2, <2>4, NotedIs
  <2> QED
    BY <2>2, <2>3, <2>4, <2>5 DEF Grown
<1>7. CASE e.op = "parted"
  BY <1>1, <1>7, ForgottenIs DEF OnEvent, OnParted
<1>8. CASE e.op = "join"
  BY <1>1, <1>3, <1>8 DEF OnEvent
<1>9. CASE e.op = "chat"
  <2>1. OnEvent(u, e) = OnChat(u, e.room, e.src)
    BY <1>9 DEF OnEvent
  <2> QED
    BY <1>1, <1>3, <1>9, <2>1, RoomBufferIs DEF OnChat
<1>10. CASE e.op = "part"
  <2>1. OnEvent(u, e) = OnPart(u, e.room, e.src)
    BY <1>10 DEF OnEvent
  <2>2. Grown(u, u)
    BY DEF Grown
  <2> QED
    BY <1>10, <2>1, <2>2, NotedIs DEF OnPart
<1>11. CASE e.op = "direct"
  <2>1. OnEvent(u, e) = DmBuffer(u, e.src)
    BY <1>11 DEF OnEvent
  <2> QED
    BY <1>1, <1>11, <2>1, DmBufferIs
<1> QED
  BY <1>1, <1>4, <1>5, <1>6, <1>7, <1>8, <1>9, <1>10, <1>11

-----------------------------------------------------------------------------
(* Closing buffers, dropping connections and making them anew.             *)

\* A connection, once open, is healthy.
UiInv == ui \in UI /\ (ui.open => Healthy(ui))

\* What is left of a dropped connection can be opened no more.
LEMMA DroppedIs ==
    ASSUME NEW u \in UI
    PROVE  /\ Dropped(u) \in UI /\ ~Dropped(u).open /\ Dropped(u).buffers = u.buffers
           /\ Dropped(u).rooms = {} /\ Dropped(u).dms = {} /\ Dropped(u).seeded = {}
           /\ Dropped(u).members = [r \in Room |-> {}]
BY DEF Dropped, UI

\* Closing a buffer that the connection has no pointer to.
LEMMA ClosedIs ==
    ASSUME NEW u \in UI, NEW b \in Buffer
    PROVE  /\ Closed(u, b) \in UI
           /\ Closed(u, b).open = u.open /\ Closed(u, b).process = u.process
           /\ Closed(u, b).hooked = u.hooked /\ Closed(u, b).rooms = u.rooms
           /\ Healthy(u) /\ b \notin Owned(u) /\ (b \in Room => u.members[b] = {})
                  => Healthy(Closed(u, b))
<1> DEFINE words == [u.words EXCEPT ![b] = {}]
           lists == [r \in Room |-> IF r = b THEN {} ELSE u.nicklist[r]]
           v == [u EXCEPT !.buffers = @ \ {b}, !.words = words, !.nicklist = lists]
<1>1. words \in [Buffer -> SUBSET Key] /\ lists \in [Room -> SUBSET Person]
  BY DEF UI
<1>2. Closed(u, b) = v
  BY DEF Closed, UI
<1>3. v \in UI /\ v.buffers = u.buffers \ {b} /\ v.words = words /\ v.nicklist = lists
  <2> HIDE DEF words, lists
  <2> QED
    BY <1>1 DEF UI
<1>4. /\ v.open = u.open /\ v.process = u.process /\ v.hooked = u.hooked
      /\ v.rooms = u.rooms /\ v.dms = u.dms /\ v.members = u.members
      /\ v.nick = u.nick /\ v.identified = u.identified /\ v.seeded = u.seeded
  BY DEF UI
<1>5. Owned(v) = Owned(u) /\ MentionKeys(v) = MentionKeys(u) /\ Owned(u) \subseteq Buffer
  BY <1>4, Kinds DEF Owned, MentionKeys
<1>6. ASSUME Healthy(u), b \notin Owned(u), b \in Room => u.members[b] = {}
      PROVE  Healthy(v)
  <2>1. \A c \in Owned(v) : v.seeded \subseteq v.words[c]
    <3>1. \A c \in Owned(u) : words[c] = u.words[c]
      BY <1>5, <1>6 DEF UI
    <3> HIDE DEF v, words
    <3> QED
      BY <1>3, <1>4, <1>5, <1>6, <3>1 DEF Healthy, Sound
  <2>2. \A r \in Room : v.members[r] \subseteq v.nicklist[r]
    <3>1. \A r \in Room : u.members[r] \subseteq lists[r]
      BY <1>6 DEF Healthy, Sound
    <3> HIDE DEF v, lists
    <3> QED
      BY <1>3, <1>4, <3>1
  <2>3. v \in UI /\ Owned(v) \subseteq v.buffers /\ v.seeded = MentionKeys(v)
    <3> HIDE DEF v, lists, words
    <3> QED
      BY <1>3, <1>4, <1>5, <1>6 DEF Healthy, Sound
  <2> QED
    BY <2>1, <2>2, <2>3 DEF Healthy, Sound
<1> HIDE DEF v
<1> QED
  BY <1>2, <1>3, <1>4, <1>6

\* Taking a room out of the connection's tables (rrc_close_cb).
LEMMA RoomTakenIs ==
    ASSUME NEW u, Healthy(u), NEW r \in Room
    PROVE  /\ Healthy(Closed([u EXCEPT !.rooms = @ \ {r}, !.members[r] = {}], r))
           /\ Closed([u EXCEPT !.rooms = @ \ {r}, !.members[r] = {}], r).rooms = u.rooms \ {r}
           /\ Closed([u EXCEPT !.rooms = @ \ {r}, !.members[r] = {}], r).open = u.open
           /\ Closed([u EXCEPT !.rooms = @ \ {r}, !.members[r] = {}], r).process = u.process
           /\ Closed([u EXCEPT !.rooms = @ \ {r}, !.members[r] = {}], r).hooked = u.hooked
<1> DEFINE v == [u EXCEPT !.rooms = @ \ {r}, !.members[r] = {}]
           M == [u.members EXCEPT ![r] = {}]
<1>1. u \in UI /\ M \in [Room -> SUBSET Person]
  BY DEF Healthy, Sound, UI
<1>2. v \in UI /\ v.rooms = u.rooms \ {r} /\ v.members = M
  BY <1>1 DEF UI
<1>3. /\ v.open = u.open /\ v.process = u.process /\ v.hooked = u.hooked
      /\ v.dms = u.dms /\ v.buffers = u.buffers /\ v.words = u.words /\ v.nicklist = u.nicklist
      /\ v.nick = u.nick /\ v.identified = u.identified /\ v.seeded = u.seeded
  BY <1>1 DEF UI
<1>4. v.members[r] = {} /\ \A s \in Room : v.members[s] \subseteq v.nicklist[s]
  <2>1. M[r] = {} /\ \A s \in Room : M[s] \subseteq u.nicklist[s]
    BY <1>1 DEF Healthy, Sound, UI
  <2> HIDE DEF v, M
  <2> QED
    BY <1>2, <1>3, <2>1
<1> HIDE DEF v, M
<1>5. MentionKeys(v) = MentionKeys(u) /\ Owned(v) \subseteq Owned(u) /\ r \notin Owned(v)
  <2>1. u.dms \subseteq Person
    BY <1>1 DEF UI
  <2> QED
    BY <1>2, <1>3, <2>1, BufferKinds DEF Owned, MentionKeys
<1>6. Healthy(v)
  BY <1>2, <1>3, <1>4, <1>5 DEF Healthy, Sound
<1>7. r \in Buffer
  BY DEF Buffer
<1>8. Healthy(Closed(v, r))
  BY <1>2, <1>4, <1>5, <1>6, <1>7, ClosedIs
<1>9. /\ Closed(v, r).open = u.open /\ Closed(v, r).process = u.process
      /\ Closed(v, r).hooked = u.hooked /\ Closed(v, r).rooms = u.rooms \ {r}
  BY <1>2, <1>3, <1>7, ClosedIs
<1> QED
  BY <1>8, <1>9 DEF v

\* Taking a private buffer out of the connection's tables.
LEMMA DmTakenIs ==
    ASSUME NEW u, Healthy(u), NEW p \in Person
    PROVE  Healthy(Closed([u EXCEPT !.dms = @ \ {p}], p))
<1> DEFINE v == [u EXCEPT !.dms = @ \ {p}]
<1>1. u \in UI
  BY DEF Healthy, Sound
<1>2. v \in UI /\ v.dms = u.dms \ {p}
  BY <1>1 DEF UI
<1>3. /\ v.open = u.open /\ v.process = u.process /\ v.hooked = u.hooked
      /\ v.rooms = u.rooms /\ v.members = u.members
      /\ v.buffers = u.buffers /\ v.words = u.words /\ v.nicklist = u.nicklist
      /\ v.nick = u.nick /\ v.identified = u.identified /\ v.seeded = u.seeded
  BY <1>1 DEF UI
<1> HIDE DEF v
<1>4. MentionKeys(v) = MentionKeys(u) /\ Owned(v) \subseteq Owned(u) /\ p \notin Owned(v)
  <2>1. u.rooms \subseteq Room
    BY <1>1 DEF UI
  <2> QED
    BY <1>2, <1>3, <2>1, BufferKinds DEF Owned, MentionKeys
<1>5. Healthy(v)
  BY <1>2, <1>3, <1>4 DEF Healthy, Sound
<1>6. p \in Buffer /\ p \notin Room
  BY BufferKinds DEF Buffer
<1> QED
  BY <1>2, <1>4, <1>5, <1>6, ClosedIs DEF v

\* A new connection starts healthy, in the hub's buffer, old or new.
LEMMA NewConnectionIs ==
    ASSUME NEW u \in UI, NEW n \in Nick \cup {NoNick}
    PROVE  Healthy(NewConnection(u, n)) /\ NewConnection(u, n).open
<1> DEFINE d == Dropped(u)
           w == [d EXCEPT !.open = TRUE, !.nick = n, !.buffers = @ \cup {Hub}]
           words == [w.words EXCEPT ![Hub] = @ \cup w.seeded]
           x == Prepare(w, Hub)
<1>1. /\ d \in UI /\ d.rooms = {} /\ d.dms = {} /\ d.seeded = {}
      /\ d.members = [r \in Room |-> {}]
  BY DroppedIs
<1> HIDE DEF d
<1>2. Hub \in Buffer
  BY DEF Buffer
<1>3. w \in UI /\ w.open /\ Hub \in w.buffers
  BY <1>1, <1>2 DEF UI
<1>4. w.rooms = {} /\ w.dms = {} /\ w.seeded = {} /\ w.members = [r \in Room |-> {}]
  BY <1>1 DEF UI
<1> HIDE DEF w
<1>5. x = [w EXCEPT !.words = words]
  BY DEF Prepare
<1>6. words \in [Buffer -> SUBSET Key]
  BY <1>2, <1>3 DEF UI
<1> HIDE DEF words
<1>7. x \in UI
  BY <1>3, <1>5, <1>6 DEF UI
<1>8. x.open = w.open /\ x.buffers = w.buffers /\ x.rooms = w.rooms /\ x.dms = w.dms
  BY <1>3, <1>5 DEF UI
<1>9. x.seeded = w.seeded /\ x.members = w.members
  BY <1>3, <1>5 DEF UI
<1> HIDE DEF x
<1>10. Sound(x) /\ x.open
  BY <1>3, <1>4, <1>7, <1>8, <1>9 DEF Sound, Owned
<1> QED
  BY <1>10, PublishIs DEF NewConnection, Grown, d, w, x

-----------------------------------------------------------------------------
(* The invariant.                                                          *)

Holds(q, m) == \E i \in DOMAIN q : q[i] = m

\* Every room the helper is in, and is not leaving, has its buffer, or will
\* get it from the "joined" on its way, or is parted by the command on its way.
RoomsShown ==
    helper = "running" =>
        \A r \in rooms.inside \ rooms.leaving :
            \/ r \in ui.rooms
            \/ Holds(toHelper, RoomCmd("part", r))
            \/ \E S \in SUBSET Person : Holds(toUI, JoinedEv(r, S))

PluginInv == TypeOK /\ UiInv /\ NoStrayHelper /\ RoomsShown

\* What a pipe holds after a write, and after a read.
LEMMA PipeHolds ==
    ASSUME NEW T, NEW q \in Seq(T)
    PROVE  /\ \A m \in T : /\ Append(q, m) \in Seq(T) /\ Holds(Append(q, m), m)
                           /\ \A n : Holds(q, n) => Holds(Append(q, m), n)
           /\ q # <<>> => /\ Head(q) \in T /\ Tail(q) \in Seq(T)
                          /\ \A n : Holds(q, n) => n = Head(q) \/ Holds(Tail(q), n)
<1>1. DOMAIN q = 1..Len(q) /\ Len(q) \in Nat
  BY LenProperties
<1>2. ASSUME NEW m \in T
      PROVE  /\ Append(q, m) \in Seq(T) /\ Holds(Append(q, m), m)
             /\ \A n : Holds(q, n) => Holds(Append(q, m), n)
  <2>1. /\ Append(q, m) \in Seq(T) /\ DOMAIN Append(q, m) = 1..(Len(q) + 1)
        /\ Append(q, m)[Len(q) + 1] = m
        /\ \A i \in 1..Len(q) : Append(q, m)[i] = q[i]
    BY AppendProperties, LenProperties
  <2> QED
    BY <1>1, <2>1 DEF Holds
<1>3. ASSUME q # <<>>
      PROVE  /\ Head(q) \in T /\ Tail(q) \in Seq(T)
             /\ \A n : Holds(q, n) => n = Head(q) \/ Holds(Tail(q), n)
  <2>1. /\ Head(q) \in T /\ Tail(q) \in Seq(T) /\ Head(q) = q[1] /\ Len(q) # 0
        /\ Len(Tail(q)) = Len(q) - 1 /\ \A i \in 1..Len(Tail(q)) : Tail(q)[i] = q[i + 1]
    BY <1>3, HeadTailProperties, EmptySeq
  <2>2. DOMAIN Tail(q) = 1..(Len(q) - 1)
    BY <2>1, LenProperties
  <2>3. ASSUME NEW i \in DOMAIN q PROVE q[i] = Head(q) \/ Holds(Tail(q), q[i])
    <3>1. CASE i = 1
      BY <2>1, <3>1
    <3>2. CASE i # 1
      <4>1. i - 1 \in DOMAIN Tail(q) /\ Tail(q)[i - 1] = q[i]
        BY <1>1, <2>1, <2>2, <3>2
      <4> QED
        BY <4>1 DEF Holds
    <3> QED
      BY <3>1, <3>2
  <2> QED
    BY <2>1, <2>3 DEF Holds
<1> QED
  BY <1>2, <1>3

\* A command sent on behalf of a healthy connection: nothing is lost but, at
\* most, the process; and a helper that runs will get it (Connection.send).
LEMMA SendIs ==
    ASSUME TypeOK, NEW u, Healthy(u), u.open, NEW m \in Command, Send(u, m), helper' = helper,
           helper = "running" => u.process /\ u.hooked
    PROVE  /\ ui' \in UI /\ UiInv' /\ ui'.rooms = u.rooms /\ NoStrayHelper'
           /\ toHelper' \in Seq(Command)
           /\ said' \in {"not connected", "sent", "gone"}
           /\ \A n : Holds(toHelper, n) => Holds(toHelper', n)
           /\ helper = "running" => Holds(toHelper', m)
<1> DEFINE v == [u EXCEPT !.process = FALSE]
<1>1. u \in UI /\ toHelper \in Seq(Command)
  BY DEF Healthy, Sound, TypeOK
<1>2. Healthy(v) /\ v.open = u.open /\ v.rooms = u.rooms
  BY <1>1 DEF Healthy, Sound, Owned, MentionKeys, UI
<1>3. CASE ui' = u /\ toHelper' = toHelper /\ said' = "not connected" /\ ~u.process
  BY <1>1, <1>3 DEF UiInv, NoStrayHelper
<1>4. CASE ui' = u /\ toHelper' = Append(toHelper, m) /\ said' = "sent"
  BY <1>1, <1>4, PipeHolds DEF UiInv, NoStrayHelper
<1>5. CASE ui' = v /\ toHelper' = toHelper /\ said' = "gone" /\ helper = "dead"
  <2> HIDE DEF v
  <2> QED
    BY <1>1, <1>2, <1>5 DEF UiInv, NoStrayHelper, Healthy, Sound
<1> QED
  BY <1>3, <1>4, <1>5 DEF Send

\* The commands a user's action and a callback may send.
LEMMA CommandsAre ==
    /\ Cmd("connect") \in Command /\ Cmd("direct") \in Command
    /\ \A r \in Room : /\ RoomCmd("join", r) \in Command /\ RoomCmd("part", r) \in Command
                       /\ RoomCmd("say", r) \in Command
    /\ \A n \in Nick : NickCmd(n) \in Command
BY DEF Command

\* A callback that sends one command, for a connection that has lost at most
\* one room, and that room if it is the one it parts.
LEMMA CallbackSends ==
    ASSUME PluginInv, ui.open, NEW u, Healthy(u), u.open = ui.open, u.process = ui.process,
           u.hooked = ui.hooked, NEW m \in Command, Send(u, m),
           \A r \in ui.rooms : r \in u.rooms \/ m = RoomCmd("part", r),
           UNCHANGED <<helper, toUI, rooms>>
    PROVE  PluginInv'
<1>1. helper = "running" => u.process /\ u.hooked
  BY DEF PluginInv, NoStrayHelper
<1>2. /\ ui' \in UI /\ UiInv' /\ ui'.rooms = u.rooms /\ NoStrayHelper'
      /\ toHelper' \in Seq(Command) /\ said' \in {"not connected", "sent", "gone"}
      /\ \A n : Holds(toHelper, n) => Holds(toHelper', n)
      /\ helper = "running" => Holds(toHelper', m)
  BY <1>1, SendIs DEF PluginInv
<1>3. TypeOK'
  BY <1>2 DEF PluginInv, TypeOK
<1>4. RoomsShown'
  BY <1>2 DEF PluginInv, RoomsShown
<1> QED
  BY <1>2, <1>3, <1>4 DEF PluginInv

\* A connection that is dropped takes its helper with it (stop).
LEMMA StopIs ==
    ASSUME PluginInv, NEW u \in UI, Stop(u), said' = "nothing"
    PROVE  PluginInv'
<1>1. Dropped(u) \in UI /\ ~Dropped(u).open
  BY DroppedIs
<1>2. NoRooms \in Session /\ <<>> \in Seq(Command) /\ <<>> \in Seq(Event)
  BY DEF NoRooms, Session
<1> QED
  BY <1>1, <1>2 DEF Stop, PluginInv, TypeOK, UiInv, NoStrayHelper, RoomsShown

\* A callback that changes only the buffers of a closed connection, or its own
\* healthy one without losing a room.
LEMMA CallbackKeeps ==
    ASSUME PluginInv, ui' \in UI, ui'.open = ui.open, ui.open => Healthy(ui') /\ Grown(ui, ui'),
           said' \in {"nothing", "not connected", "raised"},
           UNCHANGED <<helper, toHelper, toUI, rooms>>
    PROVE  PluginInv'
BY DEF PluginInv, TypeOK, UiInv, NoStrayHelper, RoomsShown, Grown

\* Every action of the user keeps the invariant.
LEMMA UserKeeps ==
    ASSUME PluginInv, User
    PROVE  PluginInv'
<1>1. ui \in UI /\ (ui.open => Healthy(ui))
  BY DEF PluginInv, UiInv
<1>2. ASSUME NEW m \in Command, ui.open, Send(ui, m), UNCHANGED <<helper, toUI, rooms>>
      PROVE  PluginInv'
  <2>1. \A r \in ui.rooms : r \in ui.rooms \/ m = RoomCmd("part", r)
    OBVIOUS
  <2> QED
    BY <1>2, <1>1, <2>1, CallbackSends
<1>3. ASSUME NEW n \in Nick \cup {NoNick}, UserConnect(n) PROVE PluginInv'
  <2>1. CASE /\ ui.open /\ said' = "already connected"
             /\ UNCHANGED <<ui, helper, toHelper, toUI, rooms>>
    BY <2>1 DEF PluginInv, TypeOK, UiInv, NoStrayHelper, RoomsShown
  <2>2. CASE /\ ui' = [NewConnection(ui, n) EXCEPT !.process = TRUE, !.hooked = TRUE]
             /\ helper' = "running" /\ toHelper' = <<Cmd("connect")>> /\ toUI' = <<>>
             /\ rooms' = NoRooms /\ said' = "sent"
    <3> DEFINE u == NewConnection(ui, n)
    <3>1. Healthy(u) /\ u.open
      BY <1>1, NewConnectionIs
    <3> HIDE DEF u
    <3>2. /\ Healthy([u EXCEPT !.process = TRUE, !.hooked = TRUE])
          /\ [u EXCEPT !.process = TRUE, !.hooked = TRUE].open
          /\ [u EXCEPT !.process = TRUE, !.hooked = TRUE].process
          /\ [u EXCEPT !.process = TRUE, !.hooked = TRUE].hooked
      BY <3>1 DEF Healthy, Sound, Owned, MentionKeys, UI
    <3>3. Healthy(ui') /\ ui'.open /\ ui'.process /\ ui'.hooked
      BY <2>2, <3>2 DEF u
    <3>4. <<Cmd("connect")>> \in Seq(Command) /\ <<>> \in Seq(Event) /\ NoRooms \in Session
      BY CommandsAre DEF NoRooms, Session
    <3> QED
      BY <2>2, <3>3, <3>4 DEF PluginInv, TypeOK, UiInv, NoStrayHelper, RoomsShown, Healthy, Sound, NoRooms
  <2>3. CASE /\ ~ui.open /\ ui' = Closed(Dropped(ui), Hub) /\ said' = "failed"
             /\ UNCHANGED <<helper, toHelper, toUI, rooms>>
    <3>1. Dropped(ui) \in UI /\ ~Dropped(ui).open /\ Hub \in Buffer
      BY <1>1, DroppedIs DEF Buffer
    <3>2. ui' \in UI /\ ~ui'.open
      BY <2>3, <3>1, ClosedIs
    <3> QED
      BY <2>3, <3>2 DEF PluginInv, TypeOK, UiInv, NoStrayHelper, RoomsShown
  <2> QED
    BY <1>3, <2>1, <2>2, <2>3 DEF UserConnect
<1>4. CASE UserDisconnect
  BY <1>1, <1>4, StopIs DEF UserDisconnect
<1>5. CASE CloseHub
  <2>1. Closed(ui, Hub) \in UI /\ Closed(ui, Hub).open = ui.open
    BY <1>1, ClosedIs DEF Buffer
  <2> QED
    BY <1>5, <2>1, StopIs, CallbackKeeps DEF CloseHub
<1>6. CASE UserAsks
  <2>1. PICK m \in {RoomCmd(op, r) : op \in {"join", "part"}, r \in Room} \cup {NickCmd(n) : n \in Nick} :
            Send(ui, m)
    BY <1>6 DEF UserAsks
  <2>2. m \in Command
    BY DEF Command
  <2>3. ui.open /\ UNCHANGED <<helper, toUI, rooms>>
    BY <1>6 DEF UserAsks
  <2> QED
    BY <1>2, <2>1, <2>2, <2>3
<1>7. ASSUME NEW r \in Room, CloseRoom(r) PROVE PluginInv'
  <2> DEFINE u == Closed([ui EXCEPT !.rooms = @ \ {r}, !.members[r] = {}], r)
  <2>1. CASE ui.open
    <3>1. /\ Healthy(u) /\ u.rooms = ui.rooms \ {r} /\ u.open = ui.open
          /\ u.process = ui.process /\ u.hooked = ui.hooked
      BY <1>1, <2>1, RoomTakenIs
    <3>2. Send(u, RoomCmd("part", r)) /\ UNCHANGED <<helper, toUI, rooms>>
      BY <1>7, <2>1 DEF CloseRoom
    <3>3. RoomCmd("part", r) \in Command
      BY CommandsAre
    <3> HIDE DEF u
    <3>4. \A s \in ui.rooms : s \in u.rooms \/ RoomCmd("part", r) = RoomCmd("part", s)
      BY <3>1
    <3> QED
      BY <2>1, <3>1, <3>2, <3>3, <3>4, CallbackSends
  <2>2. CASE ~ui.open
    <3>1. Closed(ui, r) \in UI /\ Closed(ui, r).open = ui.open
      BY <1>1, ClosedIs DEF Buffer
    <3> QED
      BY <1>7, <2>2, <3>1, CallbackKeeps DEF CloseRoom
  <2> QED
    BY <2>1, <2>2
<1>8. ASSUME NEW r \in Room, TypeInRoom(r) PROVE PluginInv'
  BY <1>2, <1>8, CommandsAre DEF TypeInRoom
<1>9. ASSUME NEW p \in Person, CloseDm(p) PROVE PluginInv'
  <2> DEFINE v == [ui EXCEPT !.dms = @ \ {p}]
  <2>1. v \in UI /\ v.open = ui.open /\ v.process = ui.process /\ v.hooked = ui.hooked /\ v.rooms = ui.rooms
    BY <1>1 DEF UI
  <2>2. p \in Buffer /\ ui' = Closed(v, p)
    BY <1>9 DEF CloseDm, Buffer
  <2>3. ui.open => Healthy(ui')
    BY <1>1, <2>2, DmTakenIs
  <2> HIDE DEF v
  <2>4. ui' \in UI /\ ui'.open = ui.open /\ Grown(ui, ui')
    BY <2>1, <2>2, ClosedIs DEF Grown
  <2> QED
    BY <1>9, <2>3, <2>4, CallbackKeeps DEF CloseDm
<1>10. ASSUME NEW p \in Person, TypeInDm(p) PROVE PluginInv'
  <2>1. ui.open /\ UNCHANGED <<helper, toUI, rooms>>
    BY <1>10 DEF TypeInDm
  <2>2. CASE Send(ui, Cmd("direct"))
    BY <1>2, <2>1, <2>2, CommandsAre
  <2>3. CASE said' = "raised" /\ toHelper' = Append(toHelper, Cmd("direct")) /\ UNCHANGED ui
    <3>1. /\ toHelper' \in Seq(Command)
          /\ \A n : Holds(toHelper, n) => Holds(toHelper', n)
      BY <2>3, CommandsAre, PipeHolds DEF PluginInv, TypeOK
    <3> QED
      BY <2>1, <2>3, <3>1 DEF PluginInv, TypeOK, UiInv, NoStrayHelper, RoomsShown
  <2>4. CASE /\ said' = "raised" /\ helper = "dead" /\ ui' = [ui EXCEPT !.process = FALSE]
             /\ UNCHANGED toHelper
    <3>1. Healthy(ui')
      BY <1>1, <2>1, <2>4 DEF Healthy, Sound, Owned, MentionKeys, UI
    <3> QED
      BY <2>1, <2>4, <3>1 DEF PluginInv, TypeOK, UiInv, NoStrayHelper, RoomsShown, Healthy, Sound
  <2>5. CASE said' = "raised" /\ UNCHANGED <<ui, toHelper>>
    BY <2>1, <2>5 DEF PluginInv, TypeOK, UiInv, NoStrayHelper, RoomsShown
  <2> QED
    BY <1>10, <2>2, <2>3, <2>4, <2>5 DEF TypeInDm
<1>11. ASSUME NEW p \in Person, UserQueries(p) PROVE PluginInv'
  <2>1. ui.open /\ UNCHANGED <<helper, toUI, rooms>>
    BY <1>11 DEF UserQueries
  <2>2. Healthy(DmBuffer(ui, p)) /\ Grown(ui, DmBuffer(ui, p))
    BY <1>1, <2>1, DmBufferIs
  <2>3. CASE ui' = DmBuffer(ui, p) /\ said' = "nothing" /\ UNCHANGED toHelper
    BY <2>1, <2>2, <2>3, CallbackKeeps DEF Grown, Healthy, Sound
  <2>4. CASE Send(DmBuffer(ui, p), Cmd("direct"))
    BY <2>1, <2>2, <2>4, CommandsAre, CallbackSends DEF Grown
  <2>5. CASE Send(ui, Cmd("direct"))
    BY <1>2, <2>1, <2>5, CommandsAre
  <2> QED
    BY <1>11, <2>3, <2>4, <2>5 DEF UserQueries
<1> QED
  BY <1>3, <1>4, <1>5, <1>6, <1>7, <1>8, <1>9, <1>10, <1>11 DEF User

\* So does handling one event of the helper's output.
LEMMA DrainKeeps ==
    ASSUME PluginInv, Drain
    PROVE  PluginInv'
<1> DEFINE e == Head(toUI)
           u == OnEvent(ui, e)
<1>1. ui.open /\ Healthy(ui) /\ toUI \in Seq(Event) /\ toUI # <<>>
  BY DEF Drain, PluginInv, TypeOK, UiInv
<1>2. /\ e \in Event /\ Tail(toUI) \in Seq(Event)
      /\ \A n : Holds(toUI, n) => n = e \/ Holds(Tail(toUI), n)
  BY <1>1, PipeHolds
<1> HIDE DEF e
<1>3. /\ Healthy(u) /\ Grown(ui, u)
      /\ e.op = "joined" => e.room \in u.rooms /\ e.room \in Room
  <2>1. e.op = "joined" => e.room \in Room
    BY <1>2 DEF Event, Identity, NickCmd, JoinedEv, RoomEv, MemberEv, DirectEv
  <2> QED
    BY <1>1, <1>2, <2>1, OnEventIs
<1> HIDE DEF u
<1>4. /\ toUI' = Tail(toUI) /\ helper' = helper /\ rooms' = rooms
      /\ \/ ui' = u /\ said' = "nothing" /\ toHelper' = toHelper
         \/ e.op = "joined" /\ Send(u, RoomCmd("say", e.room))
  BY DEF Drain, e, u
<1>5. /\ ui' \in UI /\ UiInv' /\ ui'.rooms = u.rooms /\ NoStrayHelper'
      /\ toHelper' \in Seq(Command)
      /\ said' \in {"nothing", "not connected", "sent", "gone"}
      /\ \A n : Holds(toHelper, n) => Holds(toHelper', n)
  <2>1. CASE ui' = u /\ said' = "nothing" /\ toHelper' = toHelper
    BY <1>3, <1>4, <2>1 DEF PluginInv, TypeOK, UiInv, NoStrayHelper, Grown, Healthy, Sound
  <2>2. CASE e.op = "joined" /\ Send(u, RoomCmd("say", e.room))
    <3>1. u.open /\ (helper = "running" => u.process /\ u.hooked) /\ TypeOK
      BY <1>1, <1>3 DEF PluginInv, NoStrayHelper, Grown
    <3>2. RoomCmd("say", e.room) \in Command
      BY <1>3, <2>2, CommandsAre
    <3> QED
      BY <1>3, <1>4, <2>2, <3>1, <3>2, SendIs
  <2> QED
    BY <1>4, <2>1, <2>2
<1>6. TypeOK'
  BY <1>2, <1>4, <1>5 DEF PluginInv, TypeOK
<1>7. RoomsShown'
  <2> SUFFICES ASSUME helper = "running", NEW r \in rooms.inside \ rooms.leaving
               PROVE  \/ r \in ui'.rooms
                      \/ Holds(toHelper', RoomCmd("part", r))
                      \/ \E S \in SUBSET Person : Holds(toUI', JoinedEv(r, S))
    BY <1>4 DEF RoomsShown
  <2>1. CASE \E S \in SUBSET Person : Holds(toUI, JoinedEv(r, S))
    <3>1. PICK S \in SUBSET Person : Holds(toUI, JoinedEv(r, S))
      BY <2>1
    <3>2. e = JoinedEv(r, S) \/ Holds(toUI', JoinedEv(r, S))
      BY <1>2, <1>4, <3>1
    <3>3. e = JoinedEv(r, S) => e.op = "joined" /\ e.room = r
      BY DEF JoinedEv
    <3> QED
      BY <1>3, <1>5, <3>2, <3>3
  <2>2. CASE Holds(toHelper, RoomCmd("part", r))
    BY <1>5, <2>2
  <2>3. CASE r \in ui.rooms
    BY <1>3, <1>5, <2>3 DEF Grown
  <2> QED
    BY <2>1, <2>2, <2>3 DEF PluginInv, RoomsShown
<1> QED
  BY <1>5, <1>6, <1>7 DEF PluginInv

\* A helper's step, which leaves the user's side alone.
LEMMA HelperSteps ==
    ASSUME PluginInv, ui' = ui, said' = said, helper = "running", helper' = helper,
           toHelper' \in Seq(Command), toUI' \in Seq(Event), rooms' \in Session,
           \A n : Holds(toUI, n) => Holds(toUI', n),
           \A r \in rooms'.inside \ rooms'.leaving :
               \/ /\ r \in rooms.inside \ rooms.leaving
                  /\ Holds(toHelper, RoomCmd("part", r)) => Holds(toHelper', RoomCmd("part", r))
               \/ \E S \in SUBSET Person : Holds(toUI', JoinedEv(r, S))
    PROVE  PluginInv'
<1>1. TypeOK' /\ UiInv' /\ NoStrayHelper'
  BY DEF PluginInv, TypeOK, UiInv, NoStrayHelper
<1>2. RoomsShown'
  <2> SUFFICES ASSUME NEW r \in rooms'.inside \ rooms'.leaving
               PROVE  \/ r \in ui.rooms
                      \/ Holds(toHelper', RoomCmd("part", r))
                      \/ \E S \in SUBSET Person : Holds(toUI', JoinedEv(r, S))
    BY DEF RoomsShown
  <2>1. CASE /\ r \in rooms.inside \ rooms.leaving
             /\ Holds(toHelper, RoomCmd("part", r)) => Holds(toHelper', RoomCmd("part", r))
    BY <2>1 DEF PluginInv, RoomsShown
  <2> QED
    BY <2>1
<1> QED
  BY <1>1, <1>2 DEF PluginInv

\* What the helper does with a command keeps the invariant ...
LEMMA HelperTakesKeeps ==
    ASSUME PluginInv, HelperTakes
    PROVE  PluginInv'
<1> DEFINE c == Head(toHelper)
<1>1. /\ helper = "running" /\ said' = said /\ ui' = ui /\ helper' = helper
      /\ toHelper # <<>> /\ toHelper' = Tail(toHelper)
      /\ toHelper \in Seq(Command) /\ toUI \in Seq(Event) /\ rooms \in Session
  BY DEF HelperTakes, Running, PluginInv, TypeOK
<1>2. /\ c \in Command /\ toHelper' \in Seq(Command)
      /\ \A n : Holds(toHelper, n) => n = c \/ Holds(toHelper', n)
  BY <1>1, PipeHolds
<1>3. CASE /\ c.op \notin {"join", "part"} /\ rooms' = rooms
           /\ toUI' = toUI \/ \E e \in Event : toUI' = Append(toUI, e)
  <2>1. toUI' \in Seq(Event) /\ \A n : Holds(toUI, n) => Holds(toUI', n)
    <3>1. \A e \in Event : /\ Append(toUI, e) \in Seq(Event)
                           /\ \A n : Holds(toUI, n) => Holds(Append(toUI, e), n)
      BY <1>1, PipeHolds
    <3> QED
      BY <1>1, <1>3, <3>1
  <2>2. \A r : RoomCmd("part", r) # c
    BY <1>3 DEF RoomCmd
  <2>3. \A r : Holds(toHelper, RoomCmd("part", r)) => Holds(toHelper', RoomCmd("part", r))
    BY <1>2, <2>2
  <2> QED
    BY <1>1, <1>2, <1>3, <2>1, <2>3, HelperSteps
<1>4. CASE c.op = "join"
  <2>1. /\ rooms' = [rooms EXCEPT !.wanted = @ \cup {c.room}, !.asked = @ \cup ({c.room} \ rooms.inside)]
        /\ toUI' = toUI
    BY <1>4 DEF HelperTakes
  <2>2. c.room \in Room
    BY <1>2, <1>4 DEF Command, Cmd, RoomCmd, NickCmd
  <2>3. rooms.wanted \cup {c.room} \in SUBSET Room /\ rooms.asked \cup ({c.room} \ rooms.inside) \in SUBSET Room
    BY <1>1, <2>2 DEF Session
  <2>4. rooms' \in Session /\ rooms'.inside = rooms.inside /\ rooms'.leaving = rooms.leaving
    BY <1>1, <2>1, <2>3 DEF Session
  <2>5. \A r \in Room : Holds(toHelper, RoomCmd("part", r)) => Holds(toHelper', RoomCmd("part", r))
    BY <1>2, <1>4 DEF RoomCmd
  <2>6. rooms.inside \subseteq Room
    BY <1>1 DEF Session
  <2> QED
    BY <1>1, <1>2, <2>1, <2>4, <2>5, <2>6, HelperSteps
<1>5. CASE c.op = "part"
  <2>1. /\ rooms' = [rooms EXCEPT !.wanted = @ \ {c.room}, !.leaving = @ \cup {c.room}]
        /\ toUI' = toUI
    BY <1>5 DEF HelperTakes
  <2>2. c.room \in Room
    BY <1>2, <1>5 DEF Command, Cmd, RoomCmd, NickCmd
  <2>3. rooms' \in Session /\ rooms'.inside = rooms.inside /\ rooms'.leaving = rooms.leaving \cup {c.room}
    BY <1>1, <2>1, <2>2 DEF Session
  <2>4. ASSUME NEW r \in rooms'.inside \ rooms'.leaving
        PROVE  /\ r \in rooms.inside \ rooms.leaving
               /\ Holds(toHelper, RoomCmd("part", r)) => Holds(toHelper', RoomCmd("part", r))
    <3>1. r # c.room /\ r \in rooms.inside \ rooms.leaving
      BY <2>3, <2>4
    <3>2. RoomCmd("part", r) # c
      BY <3>1 DEF RoomCmd
    <3> QED
      BY <1>2, <3>1, <3>2
  <2> QED
    BY <1>1, <1>2, <2>1, <2>3, <2>4, HelperSteps
<1> HIDE DEF c
<1>6. \/ c.op \in {"join", "part"}
      \/ /\ rooms' = rooms
         /\ toUI' = toUI \/ \E e \in Event : toUI' = Append(toUI, e)
  <2>1. CASE c.op = "connect"
    <3>1. Emit(Identity) /\ rooms' = rooms
      BY <2>1 DEF HelperTakes, c
    <3> QED
      BY <3>1 DEF Emit, Event
  <2>2. CASE c.op = "nick"
    <3>1. Emit(c) /\ rooms' = rooms
      BY <2>2 DEF HelperTakes, c
    <3>2. c \in Event
      BY <1>2, <2>2 DEF Command, Cmd, RoomCmd, Event
    <3> QED
      BY <3>1, <3>2 DEF Emit
  <2>3. CASE c.op \notin {"connect", "nick", "join", "part"}
    BY <2>3 DEF HelperTakes, c
  <2> QED
    BY <2>1, <2>2, <2>3
<1> QED
  BY <1>3, <1>4, <1>5, <1>6

\* ... and so does what it hears from the hub.
LEMMA HelperHearsKeeps ==
    ASSUME PluginInv, HelperHears
    PROVE  PluginInv'
<1>1. /\ helper = "running" /\ said' = said /\ ui' = ui /\ helper' = helper /\ toHelper' = toHelper
      /\ toHelper \in Seq(Command) /\ toUI \in Seq(Event) /\ rooms \in Session
  BY DEF HelperHears, Running, PluginInv, TypeOK
<1>2. /\ rooms.asked \subseteq Room /\ rooms.inside \subseteq Room
      /\ rooms.leaving \subseteq Room /\ rooms.wanted \subseteq Room
  BY <1>1 DEF Session
<1>3. ASSUME NEW e \in Event, Emit(e)
      PROVE  toUI' \in Seq(Event) /\ Holds(toUI', e) /\ \A n : Holds(toUI, n) => Holds(toUI', n)
  BY <1>1, <1>3, PipeHolds DEF Emit
<1>4. ASSUME NEW r \in rooms.asked, NEW S \in SUBSET Person, Emit(JoinedEv(r, S)),
             rooms' = [rooms EXCEPT !.asked = @ \ {r}, !.inside = @ \cup {r}]
      PROVE  PluginInv'
  <2>1. JoinedEv(r, S) \in Event
    BY <1>2 DEF Event
  <2>2. toUI' \in Seq(Event) /\ Holds(toUI', JoinedEv(r, S)) /\ \A n : Holds(toUI, n) => Holds(toUI', n)
    BY <1>3, <1>4, <2>1
  <2>3. rooms' \in Session /\ rooms'.inside = rooms.inside \cup {r} /\ rooms'.leaving = rooms.leaving
    BY <1>1, <1>2, <1>4 DEF Session
  <2> QED
    BY <1>1, <2>2, <2>3, HelperSteps
<1>5. ASSUME NEW r \in rooms.leaving, Emit(RoomEv("parted", r)),
             rooms' = [rooms EXCEPT !.leaving = @ \ {r}, !.inside = @ \ {r}]
      PROVE  PluginInv'
  <2>1. RoomEv("parted", r) \in Event
    BY <1>2 DEF Event
  <2>2. toUI' \in Seq(Event) /\ \A n : Holds(toUI, n) => Holds(toUI', n)
    BY <1>3, <1>5, <2>1
  <2>3. rooms' \in Session /\ rooms'.inside = rooms.inside \ {r} /\ rooms'.leaving = rooms.leaving \ {r}
    BY <1>1, <1>2, <1>5 DEF Session
  <2> QED
    BY <1>1, <2>2, <2>3, HelperSteps
<1>6. ASSUME NEW e \in Event, Emit(e), rooms' = rooms
      PROVE  PluginInv'
  BY <1>1, <1>3, <1>6, HelperSteps
<1>7. CASE \E r \in rooms.inside :
              \/ \E p \in Person, op \in {"join", "part"} : Emit(MemberEv(op, r, p)) /\ rooms' = rooms
              \/ \E p \in Person \cup {Hub} : Emit(MemberEv("chat", r, p)) /\ rooms' = rooms
  <2>1. PICK r \in rooms.inside :
              \/ \E p \in Person, op \in {"join", "part"} : Emit(MemberEv(op, r, p)) /\ rooms' = rooms
              \/ \E p \in Person \cup {Hub} : Emit(MemberEv("chat", r, p)) /\ rooms' = rooms
    BY <1>7
  <2>2. /\ \A p \in Person, op \in {"join", "part"} : MemberEv(op, r, p) \in Event
        /\ \A p \in Person \cup {Hub} : MemberEv("chat", r, p) \in Event
    BY <1>2 DEF Event
  <2> QED
    BY <1>6, <2>1, <2>2
<1>8. ASSUME NEW p \in Person, Emit(DirectEv(p)), rooms' = rooms
      PROVE  PluginInv'
  <2>1. DirectEv(p) \in Event
    BY DEF Event
  <2> QED
    BY <1>6, <1>8, <2>1
<1> QED
  BY <1>4, <1>5, <1>7, <1>8 DEF HelperHears

\* A connection starts closed, with nothing.
LEMMA PluginInit == Init => PluginInv
<1> SUFFICES ASSUME Init PROVE PluginInv
  OBVIOUS
<1>1. ui \in UI /\ ~ui.open
  BY DEF Init, UI
<1>2. NoRooms \in Session /\ <<>> \in Seq(Command) /\ <<>> \in Seq(Event)
  BY DEF NoRooms, Session
<1> QED
  BY <1>1, <1>2 DEF Init, PluginInv, TypeOK, UiInv, NoStrayHelper, RoomsShown

\* The invariant holds whatever user, helper and hub do.
THEOREM PluginInvariant == Spec => []PluginInv
<1>1. PluginInv /\ [Next]_vars => PluginInv'
  <2> SUFFICES ASSUME PluginInv, [Next]_vars PROVE PluginInv'
    OBVIOUS
  <2>1. CASE User
    BY <2>1, UserKeeps
  <2>2. CASE Drain
    BY <2>2, DrainKeeps
  <2>3. CASE HelperTakes
    BY <2>3, HelperTakesKeeps
  <2>4. CASE HelperHears
    BY <2>4, HelperHearsKeeps
  <2>5. CASE HelperReconnects
    <3>1. rooms \in Session /\ rooms.wanted \in SUBSET Room
      BY DEF PluginInv, TypeOK, Session
    <3>2. rooms' \in Session /\ rooms'.inside = {}
      BY <2>5, <3>1 DEF HelperReconnects, Session
    <3> QED
      BY <2>5, <3>2, HelperSteps DEF HelperReconnects, Running, PluginInv, TypeOK
  <2>6. CASE HelperDies
    <3>1. NoRooms \in Session /\ <<>> \in Seq(Command)
      BY DEF NoRooms, Session
    <3> QED
      BY <2>6, <3>1 DEF HelperDies, Running, PluginInv, TypeOK, UiInv, NoStrayHelper, RoomsShown
  <2>7. CASE UNCHANGED vars
    BY <2>7 DEF vars, PluginInv, TypeOK, UiInv, NoStrayHelper, RoomsShown
  <2> QED
    BY <2>1, <2>2, <2>3, <2>4, <2>5, <2>6, <2>7 DEF Next
<1> QED
  BY <1>1, PluginInit, PTL DEF Spec

-----------------------------------------------------------------------------
(* What it implies.                                                        *)

\* Tables of rooms hold rooms, tables of people hold people, and both pipes
\* carry only what their readers can handle (Connection, on_event, handle).
THEOREM PluginTypeCorrect == Spec => []TypeOK
BY PluginInvariant, PTL DEF PluginInv

\* No helper is left behind by a disconnect, a closed buffer or a failed
\* connect: one runs only for a connection whose output is read.
THEOREM NoStrayHelperHolds == Spec => []NoStrayHelper
BY PluginInvariant, PTL DEF PluginInv

\* Every buffer a connection holds a pointer to is open, whatever the user
\* closes and the helper makes anew (rrc_close_cb, room_buffer, dm_buffer).
THEOREM PointersAreOpenHolds == Spec => []PointersAreOpen
<1>1. PluginInv => PointersAreOpen
  BY DEF PluginInv, UiInv, Healthy, Sound, PointersAreOpen
<1> QED
  BY <1>1, PluginInvariant, PTL

\* Every buffer of a connection highlights for all of its mention keys,
\* whichever came first (publish_mentions, seed_mentions).
THEOREM MentionsReachAllHolds == Spec => []MentionsReachAll
<1>1. PluginInv => MentionsReachAll
  BY DEF PluginInv, UiInv, Healthy, Sound, MentionsReachAll
<1> QED
  BY <1>1, PluginInvariant, PTL

\* Nobody known to be in a room is missing from its nicklist (note_member,
\* refresh_nicklist, rrc_close_cb).
THEOREM NobodyMissingHolds == Spec => []NobodyMissing
<1>1. PluginInv => NobodyMissing
  BY DEF PluginInv, UiInv, Healthy, Sound, NobodyMissing, UI
<1> QED
  BY <1>1, PluginInvariant, PTL

\* When the pipes are empty, every room the helper is in, and is not leaving,
\* has a buffer: no membership is hidden from the user.
THEOREM NoHiddenRoomHolds == Spec => []NoHiddenRoom
<1>1. PluginInv => NoHiddenRoom
  <2>1. \A m : ~Holds(<<>>, m)
    BY DEF Holds
  <2> QED
    BY <2>1 DEF PluginInv, RoomsShown, NoHiddenRoom
<1> QED
  BY <1>1, PluginInvariant, PTL
=============================================================================
