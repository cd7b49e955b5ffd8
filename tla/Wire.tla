-------------------------------- MODULE Wire ---------------------------------
(***************************************************************************)
(* What crosses the link: envelope.py, encode and decode; and what a hub   *)
(* advertises in its WELCOME: limits.py.  Capabilities are in RRCSession.  *)
(*                                                                         *)
(* An envelope is a map from keys to values of CBOR, here by their kinds.  *)
(* Between the two ends it may be altered: another implementation, another *)
(* version, an extension.  Messages are those RRCSession transmits, and a  *)
(* hub's WELCOME.                                                          *)
(***************************************************************************)
EXTENDS Integers, FiniteSets

CONSTANTS
    MaxAltered, \* bound: fields altered in one envelope
    LimitKey    \* the limits that exist (B_LIMIT_*)

ASSUME AlteredBound == MaxAltered \in Nat

VARIABLES
    message,    \* what the sender meant
    raw,        \* what is on the wire; a frame that is no map of CBOR is ignored
                \* as one that lacks every field is, and has none here.  Of keys
                \* that are equal in Python, as true and 1.0 are to 1, a dict has
                \* the first, with the last one's value: such a key replaces the
                \* field of the integer or has it dropped, and counts as an
                \* alteration of that field
    altered,    \* keys whose entries were changed, added or removed
    welcome     \* the limits in its body, when it is a hub's WELCOME

wireVars == <<message, raw, altered, welcome>>

-----------------------------------------------------------------------------
(* Values, by what the coercions tell apart.                               *)

KnownTypes == {"HELLO", "WELCOME", "JOIN", "JOINED", "PART", "PARTED",
               "MSG", "NOTICE", "ACTION", "PING", "PONG", "ERROR"}
Numbers == KnownTypes \cup {"version", "number"}
Texts == {"room", "nick", "text"}
Blobs == {"id", "hash", "token"}
Value == Numbers \cup Texts \cup Blobs \cup {"true", "map", "null"}

None == "absent"

\* Mutant: in Python True is an int.
UintOrTrue(v) == IF v \in Numbers \cup {"true"} THEN v ELSE None

Uint(v) == IF v \in Numbers THEN v ELSE None
Text(v) == IF v \in Texts THEN v ELSE None
Blob(v) == IF v \in Blobs THEN v ELSE None

Mandatory == {"v", "t", "id", "ts", "src"}
Advisory  == {"room", "body", "nick", "dst"}
AnyKey    == Mandatory \cup Advisory \cup {"unknown"}

Envelope == [t: KnownTypes, id: Blobs, ts: Numbers, src: Blobs, room: Texts \cup {None},
             body: Value \cup {None}, nick: Texts \cup {None}, dst: Blobs \cup {None}]

Ignored == [t |-> None]
Garbage == [k \in {} |-> None]

\* fields.get(k); a null is read as None, like a field that is not there.
Get(fields, k) == IF k \in DOMAIN fields /\ fields[k] # "null" THEN fields[k] ELSE None

-----------------------------------------------------------------------------
Encode(m) ==
    [k \in Mandatory \cup {k \in Advisory : m[k] # None} |-> IF k = "v" THEN "version" ELSE m[k]]

\* Mutant: a nickname of the wrong type makes the frame malformed.
ReadableNick(m) ==
    /\ Uint(Get(m, "v")) = "version" /\ Uint(Get(m, "t")) \in KnownTypes
    /\ None \notin {Blob(Get(m, "id")), Uint(Get(m, "ts")), Blob(Get(m, "src"))}
    /\ Get(m, "nick") = None \/ Text(Get(m, "nick")) # None

Readable(m) ==
    /\ Uint(Get(m, "v")) = "version" /\ Uint(Get(m, "t")) \in KnownTypes
    /\ None \notin {Blob(Get(m, "id")), Uint(Get(m, "ts")), Blob(Get(m, "src"))}

Decode(m) ==
    IF Readable(m)
    THEN [t |-> m.t, id |-> m.id, ts |-> m.ts, src |-> m.src, room |-> Text(Get(m, "room")),
          body |-> Get(m, "body"), nick |-> Text(Get(m, "nick")), dst |-> Blob(Get(m, "dst"))]
    ELSE Ignored

\* What an alteration puts in a field.
Sample == {"MSG", "version", "text", "hash", "true", "map", "null"}

\* _transmit, as its callers use it: start, join and part, say, direct, ping
\* and _on_ping.
Sent(t, room, body, dst, nick) ==
    [t |-> t, id |-> "id", ts |-> "number", src |-> "hash",
     room |-> room, body |-> body, nick |-> nick, dst |-> dst]

Messages ==
    {Sent("WELCOME", None, "map", None, None)} \cup
    UNION {{Sent("HELLO", None, "map", None, nick), Sent("JOIN", "room", None, None, nick),
            Sent("PART", "room", None, None, nick), Sent("NOTICE", None, "text", "hash", nick),
            Sent("PING", None, "token", None, nick), Sent("PONG", None, "token", None, nick),
            Sent("PONG", None, None, None, nick)}
           \cup {Sent(t, "room", "text", None, nick) : t \in {"MSG", "NOTICE", "ACTION"}}
             : nick \in {"nick", None}}

-----------------------------------------------------------------------------
(* The limits in a WELCOME's body.  What ought to be a map and is not reads *)
(* as an empty one.                                                        *)

\* -1 stands for all that is neither 0 nor a positive integer: true, a text.
LimitValue == -1 .. 2

Bodies == UNION {[K -> LimitValue] : K \in SUBSET LimitKey}

Unset == -1

PositiveInt(v) == IF v > 0 THEN v ELSE Unset

\* Limits.from_welcome_body.
LimitsOf(body) ==
    [k \in LimitKey |-> IF k \in DOMAIN body THEN PositiveInt(body[k]) ELSE Unset]

-----------------------------------------------------------------------------
WireInit ==
    /\ message \in Messages
    /\ raw = Encode(message)
    /\ altered = {}
    /\ welcome \in IF message.t = "WELCOME" THEN Bodies ELSE {[k \in {} |-> Unset]}

Alter(k) ==
    /\ raw # Garbage /\ k \notin altered
    /\ Cardinality(altered) < MaxAltered
    /\ \/ \E v \in Sample : raw' = [j \in DOMAIN raw \cup {k} |-> IF j = k THEN v ELSE raw[j]]
       \/ raw' = [j \in DOMAIN raw \ {k} |-> raw[j]]
    /\ altered' = altered \cup {k}
    /\ UNCHANGED <<message, welcome>>

Garble == raw' = Garbage /\ altered' = AnyKey /\ UNCHANGED <<message, welcome>>

WireNext == (\E k \in AnyKey : Alter(k)) \/ Garble

WireSpec == WireInit /\ [][WireNext]_wireVars

-----------------------------------------------------------------------------
\* Whatever arrives, decode gives an envelope whose fields have the types the
\* session's handlers rely on, or ignores it ("never raises", decode); and a
\* WELCOME gives limits that let something through, each positive one it
\* advertises and no other (Limits, "no client-side limit known").
WireTypeOK ==
    /\ Decode(raw) \in Envelope \cup {Ignored}
    /\ \A k \in LimitKey :
          LET limit == LimitsOf(welcome)[k]
          IN  /\ limit = Unset \/ limit > 0
              /\ k \in DOMAIN welcome /\ welcome[k] > 0 => limit = welcome[k]

\* What no one has touched is read as it was meant, fields that were not given
\* included; what is changed in an advisory field, or in one not known here
\* (whose key equals no known one), costs that field at most: the rest still
\* arrives, and never as another sender's, type or room's (Envelope, "an advisory field of the wrong type is
\* treated as absent rather than as a fatal error").
AdvisoryIsNeverFatal ==
    altered \cap Mandatory = {} =>
        /\ Decode(raw) # Ignored
        /\ \A k \in DOMAIN message \ altered : Decode(raw)[k] = message[k]
=============================================================================
