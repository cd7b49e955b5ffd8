----------------------------- MODULE RateWindow ------------------------------
(***************************************************************************)
(* The outbound rate limit: session.py, _rate_complaint, as say uses it.   *)
(* Module RRCSession leaves it out.  Time is counted in ticks, of which    *)
(* the window has Window (60.0 seconds).  A session, and with it the       *)
(* window, outlives its links: on_link_down leaves the times alone, and    *)
(* the next WELCOME may bring another limit.  direct is not limited.       *)
(***************************************************************************)
EXTENDS Integers, Sequences, FiniteSets

CONSTANTS
    Window,     \* ticks a send counts for
    RateLimits, \* limits a hub may advertise; _positive_int lets no other through
    NoLimit,    \* none advertised
    MaxTime,    \* bound: ticks
    MaxSends    \* bound: messages accepted

ASSUME WindowAssumption == Window \in Nat \ {0}
ASSUME RateLimitsAssumption == RateLimits \subseteq Nat \ {0} /\ NoLimit \notin Nat
ASSUME RateBounds == MaxTime \in Nat /\ MaxSends \in Nat

VARIABLES
    now,        \* the session's clock
    rateLimit,  \* limits.rate_limit_msgs_per_minute
    sentTimes,  \* _sent_times
    accepted,   \* history: the time of every message accepted
    verdict     \* what became of a message sent since the last other step

rateVars == <<now, rateLimit, sentTimes, accepted, verdict>>

RateInit == now = 0 /\ rateLimit = NoLimit /\ sentTimes = <<>> /\ accepted = <<>> /\ verdict = "none"

\* Mutant: a message still counts at the very end of its window.
PopsLate(k) ==
    /\ \A j \in 1 .. k - 1 : now - sentTimes[j] > Window
    /\ k <= Len(sentTimes) => now - sentTimes[k] <= Window

\* The popleft loop stops at the k-th time, or has removed them all.
Pops(k) ==
    /\ \A j \in 1 .. k - 1 : now - sentTimes[j] >= Window
    /\ k <= Len(sentTimes) => now - sentTimes[k] < Window

\* Mutant: the window is taken to be full one message late.
FullLate(times) == rateLimit # NoLimit /\ Len(times) > rateLimit

Full(times) == rateLimit # NoLimit /\ Len(times) >= rateLimit

\* Mutant: a refused message is counted as well.
SayCountsAll ==
    /\ Len(accepted) < MaxSends
    /\ \E k \in 1 .. Len(sentTimes) + 1 :
          /\ Pops(k)
          /\ LET kept == SubSeq(sentTimes, k, Len(sentTimes))
             IN  /\ sentTimes' = Append(kept, now)
                 /\ accepted' = IF Full(kept) THEN accepted ELSE Append(accepted, now)
                 /\ verdict' = IF Full(kept) THEN "refused" ELSE "sent"
    /\ UNCHANGED <<now, rateLimit>>

\* say, its other checks passed.
Say ==
    /\ Len(accepted) < MaxSends
    /\ \E k \in 1 .. Len(sentTimes) + 1 :
          /\ Pops(k)
          /\ LET kept == SubSeq(sentTimes, k, Len(sentTimes))
             IN  IF Full(kept)
                 THEN sentTimes' = kept /\ verdict' = "refused" /\ UNCHANGED accepted
                 ELSE /\ sentTimes' = Append(kept, now)
                      /\ accepted' = Append(accepted, now)
                      /\ verdict' = "sent"
    /\ UNCHANGED <<now, rateLimit>>

\* _on_welcome.
RateWelcome ==
    /\ rateLimit' \in RateLimits \cup {NoLimit}
    /\ verdict' = "none"
    /\ UNCHANGED <<now, sentTimes, accepted>>

Tick ==
    /\ now < MaxTime
    /\ now' = now + 1
    /\ verdict' = "none"
    /\ UNCHANGED <<rateLimit, sentTimes, accepted>>

RateNext == Say \/ RateWelcome \/ Tick

RateSpec == RateInit /\ [][RateNext]_rateVars

-----------------------------------------------------------------------------
Recent == {k \in 1 .. Len(accepted) : now - accepted[k] < Window}

\* Each time in the deque is that of an accepted message, the last ones in
\* order, and a time no longer in it is no longer recent: refusals leave no
\* trace, and a new limit or a lost link loses nothing (_sent_times).
RateTypeOK ==
    /\ now \in Nat
    /\ rateLimit \in RateLimits \cup {NoLimit}
    /\ sentTimes \in Seq(Nat)
    /\ accepted \in Seq(Nat)
    /\ verdict \in {"none", "sent", "refused"}
    /\ Len(sentTimes) <= Len(accepted)
    /\ LET gone == Len(accepted) - Len(sentTimes)
       IN  /\ \A k \in 1 .. Len(sentTimes) : sentTimes[k] = accepted[gone + k]
           /\ \A j \in 1 .. gone : now - accepted[j] >= Window
    /\ \A j, k \in 1 .. Len(accepted) : j <= k => accepted[j] <= accepted[k]
    /\ \A k \in 1 .. Len(accepted) : accepted[k] <= now

\* The hub's limit is kept in every window, wherever the window begins, and a
\* message is refused only when one more would break it, however limits,
\* links and idle times came and went since the ones that count: the user
\* waits no longer than that (test_rate_limit_refuses_and_recovers, "refused
\* until the window rolls").
ExactlyTheLimit ==
    /\ verdict = "sent" /\ rateLimit # NoLimit => Cardinality(Recent) <= rateLimit
    /\ verdict = "refused" => rateLimit # NoLimit /\ Cardinality(Recent) >= rateLimit
=============================================================================
