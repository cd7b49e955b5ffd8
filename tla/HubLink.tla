------------------------------ MODULE HubLink -------------------------------
(***************************************************************************)
(* The transport: rrc_helper/link.py, class HubLink, and what Reticulum    *)
(* does with the Link underneath it.                                       *)
(*                                                                         *)
(* A Link is pending from HubLink.open until Reticulum establishes it,     *)
(* active until somebody closes it, and then spent.  Link identifiers are  *)
(* recycled once nothing refers to them.  Reticulum invokes the three      *)
(* callbacks on threads of its own; each of them puts one entry on the     *)
(* helper's event queue.  The entry names its link here, but that is a     *)
(* ghost: the code's entries carry no link, and no handler reads it.       *)
(***************************************************************************)
EXTENDS RRCSession, SequencesExt

CONSTANTS
    Link,       \* Link identifiers
    NoLink,     \* HubLink.link, or Helper.hub, is None
    Faults,     \* what the environment may do wrong, see below
    MaxFlight   \* bound: envelopes on their way to the hub, per link

\* "loss"     an envelope or a hub's answer disappears
\* "reorder"  a callback's thread is overtaken by later ones
\* "refusal"  the hub refuses a JOIN, or answers nothing useful
\* "lenient"  the hub acts on a JOIN it gets before HELLO
\* "ui"       WeeChat goes away without saying quit
ASSUME FaultsKnown == Faults \subseteq {"loss", "reorder", "refusal", "lenient", "ui"}
ASSUME NoLinkIsNone == NoLink \notin Link
ASSUME FlightBound == MaxFlight \in Nat \ {0}

VARIABLES
    events,     \* Helper.events, the one queue of the main loop
    status,     \* RNS.Link.status of each link
    toHub,      \* envelopes handed to RNS.Packet.send, not yet at the hub
    greeted     \* ghost: HELLOs put on each link since it was opened

linkVars == <<events, status, toHub, greeted>>

Up(l)       == [kind |-> "up", link |-> l]
Down(l)     == [kind |-> "down", link |-> l]
Frame(l, f) == [kind |-> "frame", link |-> l, frame |-> f]
LinkEvent   == {Up(l) : l \in Link} \cup {Down(l) : l \in Link}
               \cup [kind: {"frame"}, link: Link, frame: FromHub]

HubLinkInit ==
    /\ status  = [l \in Link |-> "closed"]
    /\ toHub   = [l \in Link |-> <<>>]
    /\ greeted = [l \in Link |-> 0]

Live == {l \in Link : status[l] # "closed"}

-----------------------------------------------------------------------------
(* HubLink's methods, called from the main loop.                           *)

\* A new HubLink object gets a Link nothing else refers to.
Unused(l) == /\ status[l] = "closed"
             /\ \A i \in DOMAIN events : events[i].kind \in {"up", "down", "frame"}
                                            => events[i].link # l

\* The path was found: the Link request is out.  The other outcome of open,
\* a LinkError, leaves no link behind and is handled by the caller.
Open(l) == /\ status'  = [status EXCEPT ![l] = "pending"]
           /\ toHub'   = [toHub EXCEPT ![l] = <<>>]
           /\ greeted' = [greeted EXCEPT ![l] = 0]

Usable(l) == l # NoLink /\ status[l] = "active"

\* send, for each envelope of tx.  A link that is not ACTIVE makes it raise
\* LinkError, which Helper._send turns into an error event.
Send(l, tx) ==
    IF Usable(l)
    THEN /\ toHub'   = [toHub EXCEPT ![l] = @ \o tx]
         /\ greeted' = [greeted EXCEPT ![l] = @ + Cardinality({i \in DOMAIN tx : tx[i] = Hello})]
         /\ Len(toHub[l]) + Len(tx) <= MaxFlight
    ELSE UNCHANGED <<toHub, greeted>>

\* Teardown makes Reticulum call _closed before it returns, so the DOWN of a
\* live link is put on the queue, behind "rest".  A spent one stays spent.
Close(l, rest) ==
    IF l \in Live
    THEN /\ status' = [status EXCEPT ![l] = "closed"]
         /\ toHub'  = [toHub EXCEPT ![l] = <<>>]
         /\ events' = Append(rest, Down(l))
    ELSE /\ events' = rest
         /\ UNCHANGED <<status, toHub>>

-----------------------------------------------------------------------------
(* Callbacks, on Reticulum's threads.                                      *)

Callback(e) ==
    \/ events' = Append(events, e)
    \/ /\ "reorder" \in Faults
       /\ \E i \in 1..Len(events) : events' = InsertAt(events, i, e)

\* _established: identify to the hub, then report the link up.
Established(l) ==
    /\ status[l] = "pending"
    /\ status' = [status EXCEPT ![l] = "active"]
    /\ Callback(Up(l))
    /\ UNCHANGED <<toHub, greeted>>

\* _packet.
Packet(l, f) == Callback(Frame(l, f))

\* _closed: a pending link timed out, or the hub or the path gave an active
\* one up.  What was in flight is lost.
Closed(l) ==
    /\ l \in Live
    /\ status' = [status EXCEPT ![l] = "closed"]
    /\ toHub'  = [toHub EXCEPT ![l] = <<>>]
    /\ Callback(Down(l))
    /\ UNCHANGED greeted

\* Links carry datagrams; nothing repeats them.
Lose(l) ==
    /\ "loss" \in Faults
    /\ toHub[l] # <<>>
    /\ toHub' = [toHub EXCEPT ![l] = Tail(@)]
    /\ UNCHANGED <<events, status, greeted>>
=============================================================================
