------------------------------ MODULE Backoff -------------------------------
(***************************************************************************)
(* How long the helper waits between attempts: link.py, class Backoff, as  *)
(* Helper drives it.  Module Helper leaves durations out; here they are    *)
(* all there is.  Durations are counted in units of Base's own unit.       *)
(*                                                                         *)
(* The delay is min(cap, base * 2**attempts), and base is a float: once    *)
(* 2**attempts is beyond every float the product raises OverflowError,     *)
(* whatever cap is.  Nothing between next_delay and the end of             *)
(* Helper.run catches it.                                                  *)
(***************************************************************************)
EXTENDS Integers

CONSTANTS
    Base,       \* DEFAULT_BACKOFF_BASE
    Cap,        \* DEFAULT_BACKOFF_CAP
    FloatBits   \* 2**FloatBits is the first power of two no float can hold

ASSUME BaseCapAssumption == Base \in Nat \ {0} /\ Cap \in Nat /\ Cap >= Base
ASSUME FloatBitsAssumption == FloatBits \in Nat \ {0}

VARIABLES
    phase,      \* where the connection stands, as in Reconnector
    attempts,   \* Backoff.attempts
    delay       \* the delay of the last reconnect event; 0 before the first

backoffVars == <<phase, attempts, delay>>

\* base * 2**n, as far as it may stay below the cap.
Doubled[n \in 0 .. Cap] == IF n = 0 THEN Base ELSE 2 * Doubled[n - 1]

\* min(cap, base * 2**n): the least power that reaches the cap decides.
Doublings == CHOOSE k \in 0 .. Cap : /\ Doubled[k] >= Cap
                                     /\ \A j \in 0 .. k - 1 : Doubled[j] < Cap

Delay(n) == IF n < Doublings THEN Doubled[n] ELSE Cap

BackoffInit == phase = "connecting" /\ attempts = 0 /\ delay = 0

\* Mutant: the cap is forgotten.
NextDelayUncapped ==
    IF attempts < FloatBits
    THEN phase' = "waiting" /\ delay' = Doubled[attempts] /\ attempts' = attempts + 1
    ELSE phase' = "raised" /\ UNCHANGED <<attempts, delay>>

\* next_delay, and the rest of _schedule_retry.
NextDelay ==
    IF attempts < FloatBits
    THEN phase' = "waiting" /\ delay' = Delay(attempts) /\ attempts' = attempts + 1
    ELSE phase' = "raised" /\ UNCHANGED <<attempts, delay>>

\* _open_link fails, or the attempt's Link closes before it is up.
Fail == phase = "connecting" /\ NextDelay

\* _on_down after _on_up.
Lose == phase = "open" /\ NextDelay

\* Mutant: the count of attempts outlives the outage.
ComeWithoutReset == phase = "connecting" /\ phase' = "open" /\ UNCHANGED <<attempts, delay>>

\* _on_up.
Come == phase = "connecting" /\ phase' = "open" /\ attempts' = 0 /\ delay' = delay

\* The timer fires.
Retry == phase = "waiting" /\ phase' = "connecting" /\ UNCHANGED <<attempts, delay>>

\* The exception ends the main loop.
Raised == phase = "raised" /\ UNCHANGED backoffVars

BackoffNext == Fail \/ Lose \/ Come \/ Retry \/ Raised

BackoffSpec == BackoffInit /\ [][BackoffNext]_backoffVars

-----------------------------------------------------------------------------
\* No wait is longer than the cap (next_delay).
BackoffTypeOK ==
    /\ phase \in {"connecting", "open", "waiting", "raised"}
    /\ attempts \in 0 .. FloatBits
    /\ delay \in 0 .. Cap

\* Between attempts the wait doubles until it reaches the cap, and stays
\* there; an outage that follows a session starts over from the base, however
\* long the one before it lasted (Backoff; _on_up).
WaitGrows ==
    [][phase' = "waiting" /\ phase # "waiting" =>
          delay' = IF phase = "open" \/ delay = 0 THEN Base
                   ELSE IF 2 * delay < Cap THEN 2 * delay ELSE Cap]_backoffVars

\* An attempt that fails is always followed by a wait (test_helper_reconnect,
\* "The delay never exceeds the configured ceiling").
AlwaysWaits == phase # "raised"
=============================================================================
