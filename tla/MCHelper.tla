------------------------------ MODULE MCHelper ------------------------------
(* Model-checking instances of Helper.                                     *)
EXTENDS Helper, TLC

CONSTANTS r1, r2, l1, l2, t1, t2, n1

LimitsOpen == [maxRooms |-> Unlimited, longNames |-> {}, direct |-> FALSE]
LimitsTight == [maxRooms |-> 1, longNames |-> {}, direct |-> TRUE]

\* What a hub may advertise.
OpenHub  == {LimitsOpen}
TightHub == {LimitsTight}

\* rrc.py's connect command, with the reconnect option on, and any other.
ConnectNone == {Connect({}, TRUE)}
ConnectAuto == {Connect({r1}, TRUE)}
ConnectAny  == {Connect({r1}, TRUE), Connect({}, FALSE)}

LinkSymmetry == Permutations(Link)
=============================================================================
