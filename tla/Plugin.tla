------------------------------- MODULE Plugin -------------------------------
(***************************************************************************)
(* The WeeChat script: rrc.py, class Connection and the callbacks WeeChat  *)
(* invokes, for one hub name.                                              *)
(*                                                                         *)
(* WeeChat is single-threaded: a callback runs to its end before the next. *)
(* The helper is another process, seen through two pipes: commands one     *)
(* way, events the other.  Here it is reduced to what it says about rooms  *)
(* (module Helper is the whole of it); it may die at any moment.           *)
(*                                                                         *)
(* "ui" holds the fields of the one Connection and what WeeChat keeps for  *)
(* it: the buffers, their highlight words and nicklists.  Buffers survive  *)
(* the Connection that opened them.  Texts, colours, tags, nicknames of    *)
(* other members and the short names of buffers are left out.              *)
(***************************************************************************)
EXTENDS Naturals, Sequences

CONSTANTS
    Room,       \* room names
    Person,     \* identity hashes of other members
    Nick,       \* the user's own nicknames
    NoNick,     \* the user has given none
    Me,         \* the mention keys made from the user's identity hash
    Hub,        \* the hub's server buffer
    Deaths,     \* the helper may die of its own accord
    MaxPipe     \* bound: frames in one pipe

ASSUME NickKinds == NoNick \notin Nick /\ Me \notin Nick
ASSUME BufferKinds == Hub \notin Room \cup Person /\ Room \cap Person = {}
ASSUME DeathsIsBoolean == Deaths \in BOOLEAN
ASSUME PipeBound == MaxPipe \in Nat \ {0}

VARIABLES
    ui,         \* the Connection and its buffers
    helper,     \* the process: "none", "running" or "dead"
    toHelper,   \* its stdin
    toUI,       \* its stdout
    rooms,      \* what its session has: the rooms asked for, entered, left
    said        \* what the last callback did that the user can tell

vars == <<ui, helper, toHelper, toUI, rooms, said>>

Buffer == {Hub} \cup Room \cup Person
Key    == {Me} \cup Nick

UI == [open: BOOLEAN,               \* the name is in "connections"
       process: BOOLEAN,            \* Connection.process is not None
       hooked: BOOLEAN,             \* Connection.hooks
       rooms: SUBSET Room, dms: SUBSET Person,
       members: [Room -> SUBSET Person],
       nick: Nick \cup {NoNick},
       identified: BOOLEAN,         \* Connection.identity is known
       seeded: SUBSET Key,
       buffers: SUBSET Buffer,
       words: [Buffer -> SUBSET Key],
       nicklist: [Room -> SUBSET Person]]

Session == [asked: SUBSET Room, inside: SUBSET Room, leaving: SUBSET Room, wanted: SUBSET Room]
NoRooms == [asked |-> {}, inside |-> {}, leaving |-> {}, wanted |-> {}]

Cmd(op)        == [op |-> op]
RoomCmd(op, r) == [op |-> op, room |-> r]
NickCmd(n)     == [op |-> "nick", nick |-> n]
Command == {Cmd(op) : op \in {"connect", "direct"}}
           \cup {RoomCmd(op, r) : op \in {"join", "part", "say"}, r \in Room}
           \cup {NickCmd(n) : n \in Nick}

Identity        == [op |-> "identity"]
JoinedEv(r, S)  == [op |-> "joined", room |-> r, members |-> S]
RoomEv(op, r)   == [op |-> op, room |-> r]
MemberEv(op, r, p) == [op |-> op, room |-> r, src |-> p]
DirectEv(p)     == [op |-> "direct", src |-> p]
Event == {Identity} \cup {NickCmd(n) : n \in Nick}
         \cup {JoinedEv(r, S) : r \in Room, S \in SUBSET Person}
         \cup {RoomEv("parted", r) : r \in Room}
         \cup {MemberEv(op, r, p) : op \in {"join", "part"}, r \in Room, p \in Person}
         \cup {MemberEv("chat", r, p) : r \in Room, p \in Person \cup {Hub}}
         \cup {DirectEv(p) : p \in Person}

-----------------------------------------------------------------------------
(* Mentions: the words that highlight a buffer for this user.              *)

Owned(u) == {Hub} \cup u.rooms \cup u.dms

MentionKeys(u) == (IF u.identified THEN {Me} ELSE {})
                  \cup (IF u.nick = NoNick THEN {} ELSE {u.nick})

\* prepare and seed_mentions, for one buffer.
Prepare(u, b) == [u EXCEPT !.words[b] = @ \cup u.seeded]

\* Mutant: only the buffers of rooms are brought into line.
PublishToRooms(u) ==
    [u EXCEPT !.seeded = MentionKeys(u),
              !.words = [b \in Buffer |-> IF b \in u.rooms
                                          THEN (u.words[b] \ u.seeded) \cup MentionKeys(u)
                                          ELSE u.words[b]]]

\* publish_mentions.
Publish(u) ==
    IF MentionKeys(u) = u.seeded THEN u
    ELSE [u EXCEPT !.seeded = MentionKeys(u),
                   !.words = [b \in Buffer |-> IF b \in Owned(u)
                                               THEN (u.words[b] \ u.seeded) \cup MentionKeys(u)
                                               ELSE u.words[b]]]

-----------------------------------------------------------------------------
(* Buffers and nicklists.                                                  *)

\* room_buffer and dm_buffer: the buffer is found, or made.
RoomBuffer(u, r) ==
    IF r \in u.rooms THEN u
    ELSE Prepare([u EXCEPT !.rooms = @ \cup {r}, !.buffers = @ \cup {r}], r)

\* Mutant: the new buffer is entered in the table of rooms.
DmBufferAsRoom(u, p) ==
    IF p \in u.dms THEN u
    ELSE Prepare([u EXCEPT !.rooms = @ \cup {p}, !.buffers = @ \cup {p}], p)

DmBuffer(u, p) ==
    IF p \in u.dms THEN u
    ELSE Prepare([u EXCEPT !.dms = @ \cup {p}, !.buffers = @ \cup {p}], p)

RefreshNicklist(u, r) ==
    IF r \in u.rooms THEN [u EXCEPT !.nicklist[r] = u.members[r]] ELSE u

NoteMembers(u, r, S) == RefreshNicklist([u EXCEPT !.members[r] = @ \cup S], r)

DropMember(u, r, p) == RefreshNicklist([u EXCEPT !.members[r] = @ \ {p}], r)

-----------------------------------------------------------------------------
(* Events from the helper.                                                 *)

\* Every member the JOINED lists is noted in turn; with none listed nothing
\* is noted, and the nicklist is not touched.
OnJoined(u, r, S) ==
    LET v == [RoomBuffer(u, r) EXCEPT !.members[r] = {}]
    IN  IF S = {} THEN v ELSE NoteMembers(v, r, S)

OnParted(u, r) == [u EXCEPT !.members[r] = {}]

\* Mutant: the member is noted before the buffer is there.
OnJoinNotesFirst(u, r, p) == RoomBuffer(NoteMembers(u, r, {p}), r)

OnJoin(u, r, p) == NoteMembers(RoomBuffer(u, r), r, {p})

\* The hub relays a room without being a member of it.
OnChat(u, r, p) == IF p = Hub THEN RoomBuffer(u, r) ELSE OnJoin(u, r, p)

OnPart(u, r, p) ==
    IF r \in u.rooms /\ p \in u.members[r] THEN DropMember(u, r, p) ELSE u

OnEvent(u, e) ==
    CASE e.op = "identity" -> Publish([u EXCEPT !.identified = TRUE])
      [] e.op = "nick"     -> Publish([u EXCEPT !.nick = e.nick])
      [] e.op = "joined"   -> OnJoined(u, e.room, e.members)
      [] e.op = "parted"   -> OnParted(u, e.room)
      [] e.op = "join"     -> OnJoin(u, e.room, e.src)
      [] e.op = "chat"     -> OnChat(u, e.room, e.src)
      [] e.op = "part"     -> OnPart(u, e.room, e.src)
      [] e.op = "direct"   -> DmBuffer(u, e.src)

-----------------------------------------------------------------------------
(* Connection.send, start and stop.                                        *)

\* A write to a helper that has died drops the process.
Send(u, m) ==
    \/ /\ ~u.process
       /\ ui' = u /\ said' = "not connected"
       /\ UNCHANGED toHelper
    \/ /\ u.process /\ helper = "running"
       /\ Len(toHelper) < MaxPipe
       /\ ui' = u /\ said' = "sent"
       /\ toHelper' = Append(toHelper, m)
    \/ /\ u.process /\ helper = "dead"
       /\ ui' = [u EXCEPT !.process = FALSE] /\ said' = "gone"
       /\ UNCHANGED toHelper

\* What is left of a Connection that is dropped: its buffers.
Dropped(u) == [u EXCEPT !.open = FALSE, !.process = FALSE, !.hooked = FALSE,
                        !.rooms = {}, !.dms = {}, !.members = [r \in Room |-> {}],
                        !.nick = NoNick, !.identified = FALSE, !.seeded = {}]

Closed(u, b) == [u EXCEPT !.buffers = @ \ {b}, !.words[b] = {},
                          !.nicklist = [r \in Room |-> IF r = b THEN {} ELSE @[r]]]

\* stop, and the name's removal from "connections".  The helper has quit or
\* been killed when it returns.
Stop(u) == /\ ui' = Dropped(u)
           /\ helper' = "none" /\ toHelper' = <<>> /\ toUI' = <<>> /\ rooms' = NoRooms

\* Connection.__init__: the hub's buffer is found, or made.
NewConnection(u, n) ==
    Publish(Prepare([Dropped(u) EXCEPT !.open = TRUE, !.nick = n, !.buffers = @ \cup {Hub}], Hub))

-----------------------------------------------------------------------------
(* What the user does.                                                     *)

Init ==
    /\ ui = [open |-> FALSE, process |-> FALSE, hooked |-> FALSE, rooms |-> {}, dms |-> {},
             members |-> [r \in Room |-> {}], nick |-> NoNick, identified |-> FALSE,
             seeded |-> {}, buffers |-> {}, words |-> [b \in Buffer |-> {}],
             nicklist |-> [r \in Room |-> {}]]
    /\ helper = "none" /\ toHelper = <<>> /\ toUI = <<>> /\ rooms = NoRooms
    /\ said = "nothing"

\* /rrc connect.  start fails when there is no interpreter, no helper package
\* or no process to be had; then the buffer is closed again.
UserConnect(n) ==
    \/ /\ ui.open
       /\ said' = "already connected"
       /\ UNCHANGED <<ui, helper, toHelper, toUI, rooms>>
    \/ /\ ~ui.open
       /\ ui' = [NewConnection(ui, n) EXCEPT !.process = TRUE, !.hooked = TRUE]
       /\ helper' = "running" /\ toHelper' = <<Cmd("connect")>> /\ toUI' = <<>>
       /\ rooms' = NoRooms
       /\ said' = "sent"
    \/ /\ ~ui.open
       /\ ui' = Closed(Dropped(ui), Hub)
       /\ said' = "failed"
       /\ UNCHANGED <<helper, toHelper, toUI, rooms>>

\* /rrc disconnect, and the unloading of the script.
UserDisconnect ==
    /\ ui.open
    /\ Stop(ui)
    /\ said' = "nothing"

\* Mutant: a closed buffer keeps its place in Connection.rooms.
CloseRoomKeepsPointer(r) ==
    /\ r \in ui.buffers
    /\ IF ui.open
       THEN Send(Closed([ui EXCEPT !.members[r] = {}], r), RoomCmd("part", r))
       ELSE ui' = Closed(ui, r) /\ said' = "nothing" /\ UNCHANGED toHelper
    /\ UNCHANGED <<helper, toUI, rooms>>

\* Mutant: closing a room's buffer does not part the room.
CloseRoomQuietly(r) ==
    /\ r \in ui.buffers
    /\ ui' = Closed([ui EXCEPT !.rooms = @ \ {r}, !.members[r] = {}], r)
    /\ said' = "nothing"
    /\ UNCHANGED <<helper, toHelper, toUI, rooms>>

\* rrc_close_cb, for each kind of buffer.
CloseRoom(r) ==
    /\ r \in ui.buffers
    /\ IF ui.open
       THEN Send(Closed([ui EXCEPT !.rooms = @ \ {r}, !.members[r] = {}], r), RoomCmd("part", r))
       ELSE ui' = Closed(ui, r) /\ said' = "nothing" /\ UNCHANGED toHelper
    /\ UNCHANGED <<helper, toUI, rooms>>

CloseDm(p) ==
    /\ p \in ui.buffers
    /\ ui' = Closed([ui EXCEPT !.dms = @ \ {p}], p)
    /\ said' = "nothing"
    /\ UNCHANGED <<helper, toHelper, toUI, rooms>>

\* Mutant: the connection is forgotten, and its helper not stopped.
CloseHubOnly ==
    /\ Hub \in ui.buffers
    /\ ui' = Closed(Dropped(ui), Hub)
    /\ said' = "nothing"
    /\ UNCHANGED <<helper, toHelper, toUI, rooms>>

CloseHub ==
    /\ Hub \in ui.buffers
    /\ IF ui.open
       THEN Stop(Closed(ui, Hub))
       ELSE ui' = Closed(ui, Hub) /\ UNCHANGED <<helper, toHelper, toUI, rooms>>
    /\ said' = "nothing"

\* rrc_input_cb.  A private line is sent first and echoed after, in the
\* buffer that Connection.dms names.
TypeInRoom(r) ==
    /\ ui.open /\ r \in ui.buffers
    /\ Send(ui, RoomCmd("say", r))
    /\ UNCHANGED <<helper, toUI, rooms>>

TypeInDm(p) ==
    /\ ui.open /\ p \in ui.buffers
    /\ \/ p \in ui.dms /\ Send(ui, Cmd("direct"))
       \/ /\ p \notin ui.dms
          /\ said' = "raised"
          /\ \/ ui.process /\ helper = "running" /\ Len(toHelper) < MaxPipe
                /\ toHelper' = Append(toHelper, Cmd("direct")) /\ UNCHANGED ui
             \/ ui.process /\ helper = "dead"
                /\ ui' = [ui EXCEPT !.process = FALSE] /\ UNCHANGED toHelper
             \/ ~ui.process /\ UNCHANGED <<ui, toHelper>>
    /\ UNCHANGED <<helper, toUI, rooms>>

\* /join, /part and /nick, in a buffer of this hub or through /rrc.
UserAsks ==
    /\ ui.open
    /\ \E m \in {RoomCmd(op, r) : op \in {"join", "part"}, r \in Room} \cup {NickCmd(n) : n \in Nick} :
          Send(ui, m)
    /\ UNCHANGED <<helper, toUI, rooms>>

\* /query, with and without a text, and /msg, for someone it can resolve.
UserQueries(p) ==
    /\ ui.open
    /\ \/ ui' = DmBuffer(ui, p) /\ said' = "nothing" /\ UNCHANGED toHelper
       \/ Send(DmBuffer(ui, p), Cmd("direct"))
       \/ Send(ui, Cmd("direct"))
    /\ UNCHANGED <<helper, toUI, rooms>>

-----------------------------------------------------------------------------
(* rrc_stdout_cb.                                                          *)

\* One event of a chunk.  After our own join the hub is asked who is there,
\* unless the user turned that off.  At the end of a dead helper's output
\* the callback reads nothing and does nothing, however often it is called.
Drain ==
    /\ ui.open /\ ui.hooked /\ ui.process
    /\ toUI # <<>>
    /\ toUI' = Tail(toUI)
    /\ LET e == Head(toUI)
       IN  \/ /\ ui' = OnEvent(ui, e)
              /\ said' = "nothing"
              /\ UNCHANGED toHelper
           \/ /\ e.op = "joined"
              /\ Send(OnEvent(ui, e), RoomCmd("say", e.room))
    /\ UNCHANGED <<helper, rooms>>

-----------------------------------------------------------------------------
(* The helper, as its two pipes show it.                                   *)

Running == helper = "running" /\ said' = said

Emit(e) == Len(toUI) < MaxPipe /\ toUI' = Append(toUI, e)

\* One command: Helper.handle.
HelperTakes ==
    /\ Running
    /\ toHelper # <<>>
    /\ toHelper' = Tail(toHelper)
    /\ LET c == Head(toHelper)
       IN  CASE c.op = "connect" -> Emit(Identity) /\ UNCHANGED rooms
             [] c.op = "nick"    -> Emit(c) /\ UNCHANGED rooms
             [] c.op = "join"    ->
                   /\ rooms' = [rooms EXCEPT !.wanted = @ \cup {c.room},
                                             !.asked = @ \cup ({c.room} \ rooms.inside)]
                   /\ UNCHANGED toUI
             [] c.op = "part"    ->
                   /\ rooms' = [rooms EXCEPT !.wanted = @ \ {c.room}, !.leaving = @ \cup {c.room}]
                   /\ UNCHANGED toUI
             [] OTHER            -> UNCHANGED <<toUI, rooms>>
    /\ UNCHANGED <<ui, helper>>

\* What the hub's frames become: RRCSession's handlers.
HelperHears ==
    /\ Running
    /\ \/ \E r \in rooms.asked, S \in SUBSET Person :
             /\ Emit(JoinedEv(r, S))
             /\ rooms' = [rooms EXCEPT !.asked = @ \ {r}, !.inside = @ \cup {r}]
       \/ \E r \in rooms.leaving :
             /\ Emit(RoomEv("parted", r))
             /\ rooms' = [rooms EXCEPT !.leaving = @ \ {r}, !.inside = @ \ {r}]
       \/ /\ \E r \in rooms.inside :
                \/ \E p \in Person, op \in {"join", "part"} : Emit(MemberEv(op, r, p))
                \/ \E p \in Person \cup {Hub} : Emit(MemberEv("chat", r, p))
          /\ UNCHANGED rooms
       \/ /\ \E p \in Person : Emit(DirectEv(p))
          /\ UNCHANGED rooms
    /\ UNCHANGED <<ui, helper, toHelper>>

\* The link drops and comes back: on_link_down, then _rejoin.
HelperReconnects ==
    /\ Running
    /\ rooms' = [rooms EXCEPT !.asked = rooms.wanted, !.inside = {}, !.leaving = {}]
    /\ UNCHANGED <<ui, helper, toHelper, toUI>>

\* An exception the helper does not catch, or a signal.
HelperDies ==
    /\ Deaths /\ Running
    /\ helper' = "dead" /\ toHelper' = <<>> /\ rooms' = NoRooms
    /\ UNCHANGED <<ui, toUI>>

-----------------------------------------------------------------------------
User == \/ \E n \in Nick \cup {NoNick} : UserConnect(n)
        \/ UserDisconnect \/ CloseHub \/ UserAsks
        \/ \E r \in Room : CloseRoom(r) \/ TypeInRoom(r)
        \/ \E p \in Person : CloseDm(p) \/ TypeInDm(p) \/ UserQueries(p)

Next == User \/ Drain \/ HelperTakes \/ HelperHears \/ HelperReconnects \/ HelperDies

Spec == Init /\ [][Next]_vars

-----------------------------------------------------------------------------
\* Tables of rooms hold rooms, tables of people hold people, and the pipes
\* carry what their readers can handle (Connection, on_event, Helper.handle).
TypeOK ==
    /\ ui \in UI
    /\ helper \in {"none", "running", "dead"}
    /\ toHelper \in Seq(Command)
    /\ toUI \in Seq(Event)
    /\ rooms \in Session
    /\ said \in {"nothing", "sent", "not connected", "gone", "already connected", "failed", "raised"}

\* A helper runs only for a connection the user can see and stop, and whose
\* output is read: none is left behind by a disconnect, a closed buffer or a
\* failed connect (stop, rrc_close_cb, _cmd_connect).
NoStrayHelper == helper = "running" => ui.open /\ ui.process /\ ui.hooked

\* Every buffer a connection holds a pointer to is open: nothing is printed
\* to a closed one, whatever is closed, found again or made anew in between.
PointersAreOpen == ui.open => Owned(ui) \subseteq ui.buffers

\* Every buffer of the connection highlights for all of its mention keys,
\* whichever came first, the key or the buffer (SPEC.md D24 in
\* publish_mentions).
MentionsReachAll ==
    ui.open => /\ ui.seeded = MentionKeys(ui)
               /\ \A b \in Owned(ui) : ui.seeded \subseteq ui.words[b]

\* ... and for no key that is no longer the user's: a rename retires the old
\* key by name (publish_mentions; tests/test_script_hotlist.py:438).
OldKeysRetired == ui.open => \A b \in Owned(ui) : ui.words[b] \subseteq MentionKeys(ui)

\* No hidden membership: when the pipes are empty, every room the helper is
\* in has a buffer, so the user can see and leave it.
NoHiddenRoom ==
    helper = "running" /\ toHelper = <<>> /\ toUI = <<>> =>
        rooms.inside \ rooms.leaving \subseteq ui.rooms

\* Nobody the connection knows to be in a room is missing from its nicklist,
\* in whatever order buffer, members and departures came (note_member,
\* refresh_nicklist, rrc_close_cb).
NobodyMissing == ui.open => \A r \in ui.rooms : ui.members[r] \subseteq ui.nicklist[r]

\* The nicklist shows the members the connection knows of.
NicklistIsMembers == ui.open => \A r \in ui.rooms : ui.nicklist[r] = ui.members[r]

\* No callback raises.
CallbacksReturn == said # "raised"

\* A user who is told, when a write has found the helper gone, to restart it
\* with /rrc connect and does so next is not refused (send, _cmd_connect).
ConnectRestarts == [][said = "gone" => said' # "already connected"]_vars
=============================================================================
