# A formal model of weechat-rrc

weechat-rrc is a WeeChat client for RRC hubs over Reticulum. It is two
processes: the script `rrc.py`, inside WeeChat and WeeChat's only thread, and
the helper `rrc_helper`, which owns the Reticulum stack. They talk through two
pipes, one JSON object per line. This directory models both with TLA+, checks
the models with TLC and proves the central results with TLAPS.

## The system

| Component | State | Operations | Talks to |
| --- | --- | --- | --- |
| `session.py` RRCSession | ready, rooms, pending joins and parts, pings under way, nickname, limits, send times | start, join, part, say, direct, set_nick, ping; one handler per type of frame; on_link_down | calls `send` and `emit`; `on_ready` calls back into the helper |
| `__main__.py` Helper | session, hub, wanted rooms, reconnect, hello_attempts, the event queue | one method per command; up, frame, down, retry, hello, EOF | session, link, timers, the pipes |
| `link.py` HubLink | the RNS Link | open, send, close; callbacks established, packet, closed | Reticulum; puts entries on the helper's queue from Reticulum's threads |
| `link.py` Backoff | attempts | next_delay, reset | the helper |
| `link.py` resolve_hub | none | polls for a path for up to 30 s, in the main loop | Reticulum |
| `limits.py`, `envelope.py`, `constants.py` | none | checks, encoding | session |
| `ipc.py`, and the FrameReader of `rrc.py` | a buffer, resyncing | feed | the pipes |
| `identity.py` | a key file | load or create | the helper, on connect |
| `rrc.py` Connection | process, hooks, rooms, dms, members, nickname, identity, seeded mention keys | start, stop, send, buffers, mentions, nicklists, one handler per event | WeeChat, the pipes |
| `rrc.py` callbacks and commands | the table `connections` | input, close, output, run, `/rrc`, unload | Connection |
| `rrc.py` rendering, colours, tags, discovery of the interpreter | none | formatting, probing | WeeChat, the file system |
| the hub, Reticulum, WeeChat | external | | |

What is hard about it, and where:

- Everything that happens in the helper is an entry of one queue, put there by
  the thread that reads the pipe, by Reticulum's threads and by timer threads.
  No entry says which link or session it belongs to, and no timer is ever
  cancelled. Entries of an earlier link, and timers set for it, are handled in
  the time of a later one.
- A Link carries datagrams; a lost JOIN, PART or answer is never repeated.
  HELLO is repeated, and repeating it once too often resets the hub's idea of
  the session.
- JOINED and PARTED do not say whose they are. The session guesses from what
  it has asked for.
- The set of rooms exists four times: what the user wants (`Helper.wanted`),
  what the session believes, what the hub has, and the buffers that are open.
- Buffers outlive the Connection that opened them, a Connection outlives its
  helper, and the user can close, connect and type at any moment.
- WeeChat's only thread writes to a blocking pipe, and so does the helper's main
  loop. Each could wait for the other.
- A pipe is cut into chunks anywhere, frames may be oversized or malformed, and
  envelopes come from other implementations.
- All helpers share one identity file, and may end between any two steps of
  creating it.
- A nickname is anybody's and changes; who is meant by one decides where a
  private message goes.

Per component, what makes it correct: the helper always has exactly one thing
that keeps or will bring it a link, and forgets no live link; readiness and
membership never survive a link; wanted, believed and held membership agree
when all is quiet; leaving is honoured; outages, silence and endings are
answered; waits grow to a cap; every buffer highlights for its user, every
room has a buffer, every helper a connection, and every pointer a buffer; no
thread waits for ever; every intact frame and envelope arrives, and costs no
other; the rate limit is exact; the identity in use is the one kept; and no one
is shown, or sent a message, under a name that was never theirs.
`PROJECT.json` lists the hazards, each at its line, with the properties that
watch it.

## The modules

    RRCSession <- HubLink <- Hub <- Helper
                                       |
                                       +-- implements Reconnector
    Plugin
    Backoff, Framing, RateWindow, IdentityFile, Pipes, Wire, Roster
    Helper <- HelperProofs <- LifelineProofs <- SessionProofs <- MembershipProofs
    Plugin <- PluginProofs        RateWindow, Wire, Roster <- MessageProofs
    IdentityFile, Pipes <- ProcessProofs        Backoff, Framing <- CountingProofs
    MCHelper EXTENDS Helper, MCPlugin EXTENDS Plugin, MCParts EXTENDS the seven
    of the third line: instances for TLC

- **RRCSession** is `class RRCSession`. The class has no I/O of its own, so a
  method is an operator from a session (a record of the class's fields) to an
  outcome: the session afterwards, the envelopes transmitted, in order, and
  the events emitted. Rooms are names after `normalise_room`. Bodies,
  nicknames in envelopes and the rate window are reduced to one bit: does the
  message fit. `own` in JOINED and PARTED is a ghost that says whose they are;
  no handler reads it.
- **HubLink** is `class HubLink` with what Reticulum does to a Link: pending,
  active, closed, spent. The callbacks put one entry each on the queue
  `events`. With the fault "reorder" an entry may overtake earlier ones, as
  threads may. The link named in an entry is a ghost.
- **Hub** is the far end. It is not in the repository: it does what the
  session and the helper, their comments and their tests expect of a hub. It
  answers HELLO, JOIN, PART and PING, relays other members' comings and
  goings, and resets membership when HELLO is repeated.
- **Helper** composes them with `class Helper`: one action per command and per
  kind of entry, one for each thread that feeds the queue, and the end of
  `run`. An action is a whole handler; `_on_up` includes HELLO and its timer,
  a WELCOME includes `_rejoin`, `_open_link` either opens a link or schedules
  the next retry. `status`, `toHub` and `greeted` are per link; `retries` and
  `hellos` count running timers; `told` is what the last step emitted.
- **Reconnector** is the abstract specification: one connection that is idle,
  connecting, open, waiting, dropped or stopped. `Helper!Supervised` says that
  Helper implements it, with `Phase` as the refinement mapping.
- **Backoff** is `class Backoff` as the helper drives it; Helper leaves out
  durations. `Delay` follows the formula of `next_delay`, and the float range
  is a constant, because that is where the formula fails.
- **Plugin** is `class Connection` and the callbacks of `rrc.py` for one hub
  name. `ui` is the Connection with the buffers, highlight words and nicklists
  WeeChat keeps for it; buffers survive it. The helper is reduced to what its
  two pipes show of rooms, and may die. One action is one callback: WeeChat
  does not interleave them. `said` is what the last callback told the user.
- **Framing** is `class FrameReader`, of `ipc.py` and in `rrc.py`'s copy. The
  stream is a sequence of lines with sizes; a byte is its offset, and the
  buffer the offset at which it begins. `Feed(n)` is `feed` of a chunk of any
  length. The copy in `rrc.py` is the case without a limit.
- **RateWindow** is `_rate_complaint` with a clock, as `say` calls it, and the
  limits that WELCOMEs bring. `accepted` is a history of what was let through.
- **IdentityFile** is `load_or_create`, one action per step that touches the
  file, with several processes. A process may end at any step, `to_file` may
  fail before or after it has opened the file, and the user does what the
  messages ask for.
- **Pipes** is the two programs reduced to who writes and who reads: the
  callback WeeChat is in, the pipes with their sizes, the reader thread, the
  queue, the main loop, `stop` with its five seconds, either process dying.
  Helper assumes that `emit` returns and Plugin that `send` does; Pipes says
  why.
- **Wire** is `encode`, `decode` and `Limits.from_welcome_body`. Values are
  known by their kinds. An envelope may be altered on its way: fields replaced,
  added or removed, as another version or implementation would.
- **Roster** is the member tables of `rrc.py` with the nicknames: what is learnt
  from JOINs, lines and listings, what is shown, and whom `resolve` finds. A
  name is a sequence of words and of hex digits in parentheses, so a nickname
  may look like the end of an entry of a listing (`MEMBER_ENTRY`) or like the
  head of a hash; a hash is known by the words it begins with. `worn` is a
  history of the nicknames of each person. Hubs, which `note_member` leaves
  out, are no persons here.
- **MCParts** explores the last six and Backoff side by side. They share no
  variable, so a behaviour picks one of them and takes its steps only; the
  distinct states are the sum of theirs and not the product.

Operators marked as mutants state plausible bugs; each property has one that
breaks it, listed in `PROJECT.json`.

## What the runs check

Passing runs, all with deadlock checked:

| Run | Checks | Shows |
| --- | --- | --- |
| Lifecycle | TypeOK, OneLifeline, NoOrphan, SessionIsCurrent, Supervised | the life of the connection, with loss, a WeeChat that goes away, disconnect, quit and either setting of reconnect |
| Traffic | OneLifeline, NoOrphan, PongIsCurrent | traffic in both directions and callbacks out of order, over two links |
| Membership | WantedIsJoined, HubAgrees, HubIsKnown, RoomsAreWanted | the four ideas of membership agree, for a user who waits for answers |
| Leaving | NoLingering | with a hasty user and a hub that refuses, or acts early |
| Endings | HelperEnds, OutageEnds, UpIsAnswered | liveness, under loss and a WeeChat that goes away |
| Parts: Backoff | BackoffTypeOK, WaitGrows | waits double to the cap and start over, with the real base (10 s), cap (300 s) and float range (1024 bits) |
| Parts: Framing | FramingTypeOK, WithinLimitArrives, LossIsCounted | every frame within the limit comes out, once, in order and at once, however the stream is cut; every lost one is counted once |
| Parts: RateWindow | RateTypeOK, ExactlyTheLimit | no more messages pass than the hub allows in any window, and none is refused that it allows |
| Parts: IdentityFile | IdentityTypeOK, InUseIsKept, KeyIsForever | the identity presented is the one kept, and is kept for ever, wherever a helper ends |
| Parts: Pipes | PipesTypeOK, CallbackReturns, LoopMovesOn, HelperFollows | no helper is left by `stop`; neither thread that writes waits for ever; a helper does not outlive WeeChat |
| Parts: Wire | WireTypeOK, AdvisoryIsNeverFatal | `decode` and the limits give what handlers rely on; an unreadable advisory field costs itself only |
| Parts: Roster | NamesAreTheirs, ResolvedWasCalled | of nicknames without hashes in parentheses: no one is shown under a name never theirs, and nobody gets a message who was never called what was typed |
| Buffers | TypeOK, NoStrayHelper, PointersAreOpen, MentionsReachAll, NoHiddenRoom, NobodyMissing | buffers, connections, mentions and rooms in every order |

Runs that refute what the repository says of itself (the finding in
`PROJECT.json` quotes it):

| Run | Property | What happens |
| --- | --- | --- |
| JoinSwallowed | WantedIsJoined | a join given before the answer to a part is dropped |
| HelloRepeated | RepeatIsSafe | a WELCOME is lost, a join given before it is answered, and the repeated HELLO costs the room |
| BackoffOverflow | AlwaysWaits | the 1025th failed attempt in a row ends the helper |
| EchoLost | CallbacksReturn | a private buffer kept over a reconnect raises KeyError |
| RestartRefused | ConnectRestarts | a write to a dead helper fails and the user is told to use `/rrc connect`, which refuses |

Further disagreements have a configuration here and are not listed as runs. TLC
refutes the named property in seconds, for example
`tlc -config LimitPassed.cfg MCHelper`:

| Configuration | Module | Property | Statement refuted |
| --- | --- | --- | --- |
| DisconnectUndone | MCHelper | DisconnectStays | "An explicit disconnect must not be undone by the backoff timer" (test_helper_main.py:168): it is, when the retry was scheduled first |
| PartMistaken | MCHelper | PartedIsOurs | "Confirm our own part, or report someone else leaving" (session.py:334): another member's PARTED is taken for ours while ours is under way |
| JoinTooEarly | MCHelper | JoinWaits | "Room joins must wait for it" (session.py:127), said of WELCOME: a join command does not |
| LimitPassed | MCHelper | RoomLimitIsLocal | "Joining past the hub's room limit is refused locally" (test_helper_session.py:192): joins not yet answered are not counted |
| SilenceClaimed | MCHelper | SilenceIsTrue | "Total HELLO frames sent before giving up and telling the user" (`__main__`.py:63): timers of an earlier link count too |
| WelcomeOvertaken | MCHelper | SessionIsCurrent | "membership evaporates with the Link" (session.py:276): not when a WELCOME is queued behind its link's end, if Reticulum's threads do that |
| MentionKept | MCPlugin | OldKeysRetired | "A rename retires the old key by name" (test_script_hotlist.py:438): not the keys of an earlier connection in a reused buffer |
| NicklistStale | MCPlugin | NicklistIsMembers | "A fresh JOINED replaces the old list" (test_script_nicklist.py:174): not on screen, when it lists nobody |
| NameMisread | MCParts | NamesAreTheirs | "Requiring hex keeps a parenthesised part of somebody's name, such as "Flo (floscodes)", from being read as an id" (rrc.py:110), and "A parenthesised part of a name is not mistaken for an identity" (test_script_nicklist.py:360): it is, when it is six or more hex digits that begin a member's hash, as "(decade)" may, and the words before it become that member's name |
| HeadTaken | MCParts | NeverTheWrongPerson | "Ambiguous input returns ``None`` rather than guessing, because guessing would send a private message to the wrong person" (rrc.py:802): a nickname that is the head by which another member is shown takes what is typed to it |

And what the further modules brought up:

- *Two identities.* `IdentityTwice.cfg` (module IdentityFile) lets helpers start
  together: both find no file, both make an identity, and the first goes on
  with one the file no longer holds, against `default_path` (identity.py:63),
  "one identity, so the user is recognisably the same person on every hub they
  join". It takes two first connections within moments.
- `FrameReader.dropped` is there "so the helper can report a broken stream"
  (ipc.py:80); nothing reads it.
- `MAX_ENVELOPE_BYTES` (constants.py:42) is checked nowhere. An envelope too
  long for a packet makes Reticulum raise what `Helper.handle` does not catch,
  and the helper ends: HelperDies of Plugin and Pipes.

### Bounds

- `Link` has two members (one for liveness). Links are recycled once nothing
  refers to them, so runs are unbounded in the number of outages; two are
  needed because an entry of one may be handled when the next is open.
  They are symmetric, which is sound: they are only compared. The liveness run
  uses no symmetry.
- `MaxQueue` bounds what commands and the hub add to the queue, not what
  timers, links and teardowns add; `MaxFlight` bounds the envelopes on their
  way on one link, and holds back a handler that would exceed it;
  `MaxTimers` bounds how fast links come and go: one comes up only while fewer
  HELLO timers of earlier ones are running or due. No handler is held back by
  it, and the code has no such bound. It is 2, so timers of two links run into
  the next one's. In Endings the envelopes that
  can be queued before the hub answers fit `MaxFlight`, so the bound never
  stops the main loop there.
- One room suffices for what relates the copies of one room; Traffic has none
  to join but one to talk in. LimitPassed has two, as the limit needs.
- `Token` bounds the pings under way: a command is read only when one is free.
- In Plugin, each pipe holds one frame in the listed run. Bounding a pipe
  restrains its writer, and one frame on the way in each direction already
  separates the moment something is said from the moment it is heard. There
  are two nicknames, so that one replaces another, one room, one other member.

- Framing: streams of up to three lines of 0, 1, 2 or 4 bytes, with a limit of 2
  and with none to speak of, cut in every way. A frame within the limit, at it
  and beyond it, with a newline in the next chunk or the same, all occur, as
  does one behind an oversized one.
- RateWindow: a window of three ticks, six ticks, four messages, limits of one
  and two and none. The window rolls twice.
- IdentityFile: two processes, three identities: one to be lost, one to be kept
  and one that would replace it.
- Pipes: one frame fits into stdin and two into stdout, an entry makes up to two
  events. Smaller pipes make more waiting; real ones hold 64 KiB. `MaxQueue`
  bounds what user and hub add while others wait, not what is in the pipe.
- Wire: up to two fields altered; every message the session sends.
- Roster: two people, two nicknames, one of two words and one that is the head
  of a person's hash, two rooms: a name stale in one room and worn by somebody
  else in the other. The hashes have a beginning in common as well, which no
  listing uses. NameMisread has one nickname instead, a word and a head in
  parentheses.

### Fairness

`LiveSpec` assumes that the main loop's thread runs (weak fairness of the main
loop) and that a timer that is set fires (weak fairness of each kind of
timer): Python's threads and `threading.Timer` give that much. Nothing is
assumed of the hub, the network or the user, so a link may stay pending or
silent for ever; UpIsAnswered and OutageEnds hold nevertheless, because the
timers alone drive them. `_open_link` may block for up to 30 seconds, but
returns.

PipesFairness assumes that each thread runs, that the five seconds of
`process.wait` pass, and (strong fairness of ReadEvents) that WeeChat's loop,
between the callbacks it runs, comes back to a descriptor that stays readable.
Nothing is assumed of the user, the hub, or what kills a process.

## What is proved

`tlapm` checks every leaf of:

- **HelperProofs**: `TypeCorrect == Spec => []TypeOK`, type correctness of the
  whole composition. It rests on lemmas about each session method (its outcome
  has the type of outcomes) and on one per group of actions.
- **LifelineProofs**: `OneLifelineHolds == Spec => []OneLifeline` and
  `NoOrphanHolds == Spec => []NoOrphan`. Neither is inductive: that no second
  link is opened depends on there being no timer or queued entry that would,
  and that no live link is forgotten on there being no queued end of another.
  The inductive invariant `LifelineInv` is

      Exclusive   a live link, a waiting entry and a timer exclude each other,
                  and of each there is at most one
      Present     while the helper is to reconnect, there is one
      NoOrphan    a live link is the one in hand
      Fresh       the one connect command comes before any session

  and each action is shown to use one lifeline up and make the next. Lemmas
  about appending, inserting and removing queue entries carry the argument.
  Since insertion anywhere is covered, the result holds for every order in
  which Reticulum's threads may queue their callbacks.

  `SupervisedHolds == Spec => Supervised` is the refinement. Initial states map
  to "idle" once Helper's connect is known to come before any session (Fresh);
  every action leaves `Phase` alone or takes it along one step of Reconnector.
  That the phase is a function at all, and that the end of one link never
  jumps over "waiting", is Exclusive and Present. It covers safety only;
  Reconnector states no fairness.

- **SessionProofs** is about what one link leaves to the next.
  `SessionIsCurrentHolds` is proved when callbacks are not reordered: the
  invariant `CurrentInv` says that every frame in the queue came over a link that
  is live, and that the hub has welcomed if it is a WELCOME, or that an end is
  queued behind it, which will undo what it does. Without the order it is false (WelcomeOvertaken), and the theorem's
  assumption says so.
  `NoLingeringHolds` is proved when no envelope is lost: `LingerInv` adds to the
  property that a link that is not active carries nothing and holds nobody, and
  that the envelopes on a link are `Meant`: behind a JOIN of a room that is not
  wanted there is a PART. A lost PART falsifies it, and is
  repeated by nobody.
  `PongNeverStale` needs no assumption: `PingInv` says that a ping still
  remembered travels on no link but the one in hand, unless none is. After a
  disconnect a late answer may still be reported while no link is in hand;
  without that command `PongIsCurrentHolds` excludes this too (`HandInv`).
- **MembershipProofs** is about the four ideas of who is in a room.
  `HubIsKnownHolds` is proved for a user who waits for the answer to one request
  about a room before making the next, as long as no envelope is lost; either
  assumption dropped, TLC refutes it. What is inductive is not what the hub has
  but what it will have when it has read the envelopes on the link (`Ends`):
  `KnownInv` says that every such room is in the session's books and not being
  left. `OneRequest` and `Patience` say what waiting comes to: no two requests
  about a room are queued, and none is about a room that is being left.

  `RoomsAreWantedHolds` is proved for the same user and an `Orderly` hub: nothing
  lost or overtaken, and no limit but one length for the names of rooms, which
  every WELCOME states alike. The hub may refuse any JOIN, and may act on one
  before HELLO. `WantedIsJoinedHolds` is proved for such a hub for which no name
  is too long, as a room refused stays wanted.
  `HubAgreesHolds` is proved for an `Untroubled` hub, which besides refuses no
  JOIN and acts on none before HELLO. When HELLO is sent twice the second empties
  the hub's list of the client's rooms: a hub that lets the client in between
  them, or refuses the JOIN that `_rejoin` sends after it, or has a limit that
  keeps `_rejoin` from sending one, leaves the session in a room that it has
  dropped. The invariant has four parts, the last two for HubAgrees only:

      OrderInv    nothing of a link is read after its end, no "up" after its
                  WELCOME, and members are on links that are up and, unless
                  the hub is lenient, welcomed
      MemberInv   of each room: it is in the books and wanted, or being left,
                  or a request refused for good (GivenUp); wanted and in the
                  books, unless its name is too long (AskedFor); free of PARTs
                  and PARTEDs left over, when it is wanted but not asked for
                  (NoneLeft, again but for names too long); and if a PART
                  follows a JOIN that is not answered, its JOINED is read first
                  or never comes (Crossed)
      GreetInv    until the session is ready its WELCOME is still queued, in
                  front of every JOINED
      KeepInv     a wanted room of the books is kept by the hub, with no HELLO
                  behind its JOIN that would drop it again (HubKeeps)

  Crossed is the heart of it: `_rejoin` asks for a room again although a part
  command for it may be queued already, and only because queue, link and hub
  are all in order is the JOINED not taken for a later one's. A refused JOIN is
  what makes it hard: the session is never told which JOIN an ERROR answers, so
  the request stays pending, and may outlive the part of the same room. `Over`
  says why that does no harm: nothing queued, on a link or at the hub can still
  become a JOINED for it. That HELLO may be repeated is covered: on a link
  whose WELCOME was late, a second HELLO empties the hub's room list, and
  HubKeeps is what shows that no JOIN went out before it that is counted on.
  With one room TLC refutes HubAgrees if any one of loss, reordering, refusal,
  early admission, a name too long or a hasty user is allowed, WantedIsJoined for
  loss, reordering, a name too long and a hasty user, and RoomsAreWanted for loss,
  reordering, a hasty user and a hub that changes what it says of lengths between
  two WELCOMEs of one link: a room refused under the first is asked for under
  the second while an earlier PART of it is still on its way (`TooLong` and
  NoneLeft say how far that can go). Whether a limit on the number of rooms
  breaks RoomsAreWanted is open: with the two rooms it takes, the states are too
  many.
- **PluginProofs**: `PluginInv` is type correctness with `UiInv`, NoStrayHelper
  and `RoomsShown`. `UiInv` is what is sound about an open Connection: pointers
  open, words and mention keys in agreement, members in nicklists. `RoomsShown`
  says of every room the helper is in and not leaving that it has a buffer, or
  that the JOINED is still in a pipe or the PART is, which is what makes
  NoHiddenRoom inductive. All of `PointersAreOpen`, `MentionsReachAll`,
  `NobodyMissing`, `NoStrayHelper` and `NoHiddenRoom` follow, for every number
  of rooms, people and nicknames.
- **ProcessProofs**: of the identity file, `InUseIsKeptHolds` and
  `KeyIsForeverHolds`, with helpers that start one after another, and
  `IdentityTypeCorrect` without that. The steps of `load_or_create` look at the file once each; `Relies` says what each
  then takes for granted, and the invariant is that a process at work is alone,
  so that no step of another spoils it.
  Of the pipes, `PipesTypeCorrect`, for pipes of every size: when `stop` has
  returned no helper is left. The pipes' liveness stays with TLC.
- **MessageProofs**: `ExactlyTheLimitHolds`. The deque is the end of the
  history of accepted messages, and what is gone from it is too old to count
  (`RateTypeCorrect`, which is inductive). So what the popleft loop leaves is
  the set of messages that count, an interval of the history, and its length is
  their number. And `WireTypeCorrect` and `AdvisoryIsNeverFatalHolds`, for any
  number of altered fields: while the mandatory fields are untouched, so is
  every known field that is not altered (`WireInv`), and each of `Decode`'s
  checks looks at mandatory fields only. Of the roster, `NamesAreTheirsHolds` and
  `ResolvedWasCalledHolds`, both where `PlainNicks` and `HeadsTell` hold: no
  nickname has hex digits in parentheses, and hubs list people by heads that
  tell them apart. NameMisread shows what happens without the first. The
  invariant `NamesInv` has every name in every table among those its owner has
  worn. `PlainLine` says what MEMBER_ENTRY makes of the entry of a person with
  such a nickname, and `OnePlace` that a listing, which names each person once,
  names each at one place. Nothing is assumed of nicknames that are heads of
  hashes, and NeverTheWrongPerson, which would need it, is refuted by HeadTaken.
- **CountingProofs**: what is computed by repetition. Of the backoff,
  `BackoffTypeCorrect` and `WaitGrowsHolds`, for every base, cap and float range:
  the last wait is the one for the attempts counted so far (`BackoffInv`), and
  one more attempt doubles it or meets the cap, because the doublings grow
  (`DoubledGrows`) and pass every cap. Of the frame reader,
  `FramingTypeCorrect`, `WithinLimitArrivesHolds` and `LossIsCountedHolds`, for
  every stream, every limit and every cut. The invariant `FramingInv` says that
  the buffer begins with the first line that is not complete, or that what there
  is of that line is too long and has been dropped; and that everything before
  it is accounted for (`Told`): returned in order if it is an object within the
  limit, and otherwise blank or counted. A line given up before its end is in is
  counted ahead, which is why the count may be one more. `CutStep` shows it for
  a buffer cut from any line on, and `FeedStep` uses it for both ways a chunk may
  begin: as the next bytes of a line, or of one being skipped.

  Both modules define their functions by recursion, so CountingProofs begins
  with induction (`NatSetInduction`) and the existence of such functions
  (`RecursionExists`). They are stated of sets of natural numbers and follow
  from the library's theorem that the order of the naturals is well-founded; the
  library's own induction takes a predicate as a parameter, which no prover here
  can instantiate.

The theorems hold for every set of rooms, links, tokens, nicknames, faults and
limits and for every bound, except where a theorem names what it excludes. They
assume what the modules assume of their
constants: the sets of rooms and of people are finite, special values are
distinct from the rest, faults and commands are among those known, bounds are
positive; in Roster, that hashes begin with the words they are shown and listed
by. The
lifeline needs two facts of the environment that are part of `Init` and of
ReadCommand: `rrc.py` writes exactly one connect to a helper, first. A second
connect would open a link beside the first.

Only model-checked: liveness (HelperEnds, OutageEnds, UpIsAnswered of Endings;
CallbackReturns, LoopMovesOn, HelperFollows of Pipes), since fairness and
ENABLED are out of the prover's reach. Every other property of a passing run has
a theorem.

## Not modelled

- Texts: sanitising, rendering, colours, tags, the wording of messages. No state
  of the models depends on them. A listing is the hub's, and matches
  `MEMBER_LIST`; spaces, and the commas between its entries, are left out.
- The growth of `_ping_sent`.
- CBOR itself, and JSON itself: a frame that does not parse is one kind of frame.
  A key that Python's dict takes for the integer of a field, as true or 1.0 for
  1, replaces or hides that field; Wire counts it as an alteration of the field.
- The window in `HubLink.open` between the creation of the Link and the
  registration of its callbacks.
- More than one connection in one WeeChat: they share the table of names and the
  identity file, and only the latter is modelled (IdentityFile).
- `per_hub_path` of identity.py, which nothing calls, and the discovery of the
  interpreter, reduced to success or failure of a connect.
- `resolve_hub`'s polling: it keeps the main loop (Pipes) and then succeeds or
  fails (Helper).
- Private buffers that share a name because two hashes share a head, or a room
  is named like one: Plugin assumes the heads distinct.

## Plan

Done: session, link, hub and main loop; Reconnector and the refinement; type
correctness, the lifeline and the refinement proved, what a link may leave to
the next, and that the four ideas of membership agree; Backoff; Plugin, with its
safety proved; the pipes, framing, wire, rate window, identity file and roster;
every safety property of every run proved.

To come:

1. *Open*: the window in `HubLink.open`, with each callback registered in a
   step of its own: may a link's end be missed, and reconnecting end?
2. *Client*: Plugin and Helper themselves joined, in place of the helper Plugin
   now has.
3. Proofs: RoomsAreWanted for a hub that limits the number of rooms, if it
   holds.
