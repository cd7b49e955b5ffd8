-------------------------------- MODULE Hub ---------------------------------
(***************************************************************************)
(* The RRC hub at the far end of the Link.  Not part of the repository:    *)
(* modelled from what rrc_helper sends to it, expects from it and says of  *)
(* it (session.py, __main__.py, envelope.py).  A session is one Link; the  *)
(* hub keeps, for each, whether it has answered HELLO and the rooms the    *)
(* client is a member of.  A HELLO on a welcomed link is a                 *)
(* re-authentication, which resets room membership (__main__.py, docstring *)
(* of _resend_hello).                                                      *)
(***************************************************************************)
EXTENDS HubLink

CONSTANTS
    HubTalk,    \* types of frame the hub sends of its own accord
    MaxQueue    \* bound: the queue length up to which it does so

ASSUME HubTalkKnown == HubTalk \subseteq {"JOINED", "PARTED", "CHAT", "DIRECT", "PING", "ERROR", "IGNORED"}
ASSUME QueueBound == MaxQueue \in Nat \ {0}

VARIABLES
    welcomed,   \* links whose HELLO the hub has accepted
    members     \* the rooms each link's client is in, as the hub knows it

hubVars == <<welcomed, members>>

HubInit == /\ welcomed = {}
           /\ members = [l \in Link |-> {}]

\* When a link closes, its session and its memberships end.
Forget(l) == /\ welcomed' = welcomed \ {l}
             /\ members' = [members EXCEPT ![l] = {}]

-----------------------------------------------------------------------------
Receive(l, type) ==
    /\ status[l] = "active"
    /\ toHub[l] # <<>>
    /\ Head(toHub[l]).type = type
    /\ toHub' = [toHub EXCEPT ![l] = Tail(@)]
    /\ UNCHANGED <<status, greeted>>

\* The answer reaches the client's _packet, or is lost on the way.
Reply(l, f) == \/ Packet(l, f)
               \/ "loss" \in Faults /\ UNCHANGED events

Bare(type)       == [type |-> type]
Welcome(limits)  == [type |-> "WELCOME", limits |-> limits]
Joined(r, own)   == [type |-> "JOINED", room |-> r, own |-> own]
Parted(r, own)   == [type |-> "PARTED", room |-> r, own |-> own]

HubHello(l) ==
    /\ Receive(l, "HELLO")
    /\ welcomed' = welcomed \cup {l}
    /\ members' = IF l \in welcomed THEN [members EXCEPT ![l] = {}] ELSE members
    /\ \E limits \in Advertised : Reply(l, Welcome(limits))

\* A hub may answer anything sent before WELCOME with an error instead of
\* acting on it (session.py, __init__), or, when lenient, act on it.
HubJoin(l) ==
    /\ Receive(l, "JOIN")
    /\ LET r == Head(toHub[l]).room
       IN  \/ /\ l \in welcomed \/ "lenient" \in Faults
              /\ members' = [members EXCEPT ![l] = @ \cup {r}]
              /\ Reply(l, Joined(r, TRUE))
           \/ /\ l \notin welcomed \/ "refusal" \in Faults
              /\ Reply(l, Bare("ERROR"))
              /\ UNCHANGED members
    /\ UNCHANGED welcomed

\* A PART of a room the client is not in is harmless (test_helper_main.py);
\* what the hub answers is its own business.
HubPart(l) ==
    /\ Receive(l, "PART")
    /\ LET r == Head(toHub[l]).room
       IN  /\ members' = [members EXCEPT ![l] = @ \ {r}]
           /\ \/ Reply(l, Parted(r, TRUE))
              \/ r \notin members[l] /\ Reply(l, Bare("ERROR"))
              \/ r \notin members[l] /\ UNCHANGED events
    /\ UNCHANGED welcomed

HubOther(l) ==
    /\ \/ /\ \E type \in {"CHAT", "DIRECT"} : Receive(l, type)
          /\ \/ UNCHANGED events
             \/ /\ l \notin welcomed \/ "refusal" \in Faults
                /\ Reply(l, Bare("ERROR"))
       \/ /\ Receive(l, "PING")
          /\ Reply(l, [type |-> "PONG", token |-> Head(toHub[l]).token])
       \/ /\ Receive(l, "PONG")
          /\ UNCHANGED events
    /\ UNCHANGED hubVars

\* Other members come and go and talk in the client's rooms; the hub pings.
HubTalks(l) ==
    /\ status[l] = "active"
    /\ Len(events) < MaxQueue
    /\ \/ \E r \in members[l] : \E f \in {Joined(r, FALSE), Parted(r, FALSE), [type |-> "CHAT", room |-> r]} :
             f.type \in HubTalk /\ Packet(l, f)
       \/ \E type \in HubTalk \cap {"DIRECT", "PING", "ERROR", "IGNORED"} : Packet(l, Bare(type))
    /\ UNCHANGED <<status, toHub, greeted, hubVars>>

HubClosed(l) == Closed(l) /\ Forget(l)

Network(l) ==
    \/ Established(l) /\ UNCHANGED hubVars
    \/ HubClosed(l)
    \/ Lose(l) /\ UNCHANGED hubVars
    \/ HubHello(l) \/ HubJoin(l) \/ HubPart(l) \/ HubOther(l) \/ HubTalks(l)
=============================================================================
