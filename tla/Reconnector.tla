---------------------------- MODULE Reconnector -----------------------------
(***************************************************************************)
(* What the helper promises of its connection, said without links, queues  *)
(* or timers: it is in one phase at a time, an outage is followed by a     *)
(* wait and then by another attempt, and it gives up only after it has     *)
(* been told not to reconnect.  Helper implements it (Helper!Supervised).  *)
(***************************************************************************)
VARIABLES
    phase,  \* where the one connection stands
    again   \* reconnecting is on

Phases == {"idle",          \* not told to connect yet
           "connecting",    \* an attempt is on its way
           "open",          \* there is a link
           "waiting",       \* there is none, and another attempt will be made
           "dropped",       \* there is none, and none will be made
           "stopped"}       \* the helper has ended

Init == phase = "idle" /\ again = TRUE

\* An attempt begins, or fails at once: then there is another wait, unless
\* reconnecting is off.
Attempt == /\ phase \in {"idle", "waiting"}
           /\ phase' \in {"connecting", "waiting"} \cup (IF again' THEN {} ELSE {"dropped"})
           /\ phase # "idle" => again' = again

Come == phase = "connecting" /\ phase' = "open" /\ again' = again

Lose == phase \in {"connecting", "open"} /\ phase' = "waiting" /\ again' = again

\* Told to stop reconnecting, with or without closing the connection.  An
\* attempt that was already due may still be made.
SwitchOff == /\ again' = FALSE
             /\ \/ phase' = phase
                \/ phase \in {"connecting", "open"} /\ phase' = "waiting"

\* A wait ends in nothing only when reconnecting is off.
Drop == phase = "waiting" /\ ~again /\ phase' = "dropped" /\ again' = again

Stop == phase' = "stopped" /\ again' = again

Next == Attempt \/ Come \/ Lose \/ SwitchOff \/ Drop \/ Stop

Spec == Init /\ [][Next]_<<phase, again>>
=============================================================================
