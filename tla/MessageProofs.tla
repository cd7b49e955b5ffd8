---------------------------- MODULE MessageProofs ----------------------------
(***************************************************************************)
(* What is sent: no more than the hub allows, exactly, for every window,   *)
(* every limit and every way the hub may change it (RateWindow); read as   *)
(* it was meant, or not at all, whatever is altered on the way (Wire); and *)
(* to and under names that are somebody's own (Roster).                    *)
(***************************************************************************)
EXTENDS RateWindow, Wire, Roster, SequenceTheorems, FiniteSetTheorems, TLAPS

\* The deque without the times the popleft loop removed.
Kept(k) == SubSeq(sentTimes, k, Len(sentTimes))

-----------------------------------------------------------------------------
\* The messages that still count at a time are those whose times the loop
\* leaves, and these are the last ones: a run of indices.
LEMMA PoppedAreOld ==
    ASSUME RateTypeOK, NEW k \in 1 .. Len(sentTimes) + 1, Pops(k)
    PROVE  /\ Kept(k) \in Seq(Nat)
           /\ Len(Kept(k)) \in 0 .. Len(accepted)
           /\ \A i \in 1 .. Len(Kept(k)) :
                 Kept(k)[i] = accepted[Len(accepted) - Len(Kept(k)) + i]
           /\ Recent = (Len(accepted) - Len(Kept(k)) + 1) .. Len(accepted)
<1> DEFINE s == Kept(k)  n == Len(accepted)  m == Len(sentTimes)
<1>0. /\ now \in Nat /\ Window \in Nat /\ n \in Nat /\ m \in Nat /\ m <= n /\ k \in 1 .. m + 1
      /\ sentTimes \in Seq(Nat) /\ accepted \in Seq(Nat)
      /\ \A i \in 1 .. n : accepted[i] \in Nat
      /\ \A i \in 1 .. m : sentTimes[i] \in Nat
  <2>1. now \in Nat /\ sentTimes \in Seq(Nat) /\ accepted \in Seq(Nat) /\ m <= n
    BY DEF RateTypeOK
  <2>2. n \in Nat /\ \A i \in 1 .. n : accepted[i] \in Nat
    BY <2>1
  <2>3. m \in Nat /\ \A i \in 1 .. m : sentTimes[i] \in Nat
    BY <2>1
  <2> QED
    BY <2>1, <2>2, <2>3, WindowAssumption
<1>1. s \in Seq(Nat) /\ Len(s) = m - k + 1 /\ \A i \in 1 .. Len(s) : s[i] = sentTimes[k + i - 1]
  <2>1. k \in Int /\ m \in Int /\ \A i \in k .. m : sentTimes[i] \in Nat
    BY <1>0
  <2>2. /\ SubSeq(sentTimes, k, m) \in Seq(Nat)
        /\ Len(SubSeq(sentTimes, k, m)) = IF k <= m THEN m - k + 1 ELSE 0
        /\ \A i \in 1 .. m - k + 1 : SubSeq(sentTimes, k, m)[i] = sentTimes[k + i - 1]
    BY <2>1, SubSeqProperties
  <2>3. (IF k <= m THEN m - k + 1 ELSE 0) = m - k + 1
    BY <1>0
  <2> QED
    BY <2>2, <2>3 DEF Kept
<1>2. \A i \in 1 .. m : sentTimes[i] = accepted[n - m + i]
  BY DEF RateTypeOK
<1> HIDE DEF s, n, m
<1>3. \A i \in 1 .. Len(s) : s[i] = accepted[n - Len(s) + i]
  <2> SUFFICES ASSUME NEW i \in 1 .. Len(s) PROVE s[i] = accepted[n - Len(s) + i]
    OBVIOUS
  <2>1. s[i] = sentTimes[k + i - 1] /\ k + i - 1 \in 1 .. m
    BY <1>0, <1>1
  <2>2. sentTimes[k + i - 1] = accepted[n - m + (k + i - 1)]
    BY <1>2, <2>1
  <2>3. n - m + (k + i - 1) = n - Len(s) + i
    BY <1>0, <1>1
  <2> QED
    BY <2>1, <2>2, <2>3
<1>4. ASSUME NEW j \in 1 .. n - Len(s) PROVE now - accepted[j] >= Window
  <2>1. CASE j <= n - m
    BY <1>0, <2>1 DEF RateTypeOK, n, m
  <2>2. CASE j > n - m
    <3>1. j - (n - m) \in 1 .. k - 1 /\ j - (n - m) \in 1 .. m
      BY <1>0, <1>1, <2>2
    <3>2. now - sentTimes[j - (n - m)] >= Window
      BY <3>1 DEF Pops
    <3>3. sentTimes[j - (n - m)] = accepted[n - m + (j - (n - m))]
      BY <1>2, <3>1
    <3>4. n - m + (j - (n - m)) = j
      BY <1>0, <1>1
    <3> QED
      BY <3>2, <3>3, <3>4
  <2> QED
    BY <1>0, <1>1, <2>1, <2>2
<1>5. ASSUME NEW j \in (n - Len(s) + 1) .. n PROVE now - accepted[j] < Window
  <2>1. k <= m /\ n - m + k = n - Len(s) + 1 /\ n - m + k \in 1 .. n /\ j \in 1 .. n
    BY <1>0, <1>1
  <2>2. now - sentTimes[k] < Window
    BY <2>1 DEF Pops, m
  <2>3. sentTimes[k] = accepted[n - m + k]
    BY <1>0, <1>2, <2>1
  <2>4. accepted[n - m + k] <= accepted[j]
    BY <2>1 DEF RateTypeOK, n
  <2>5. accepted[j] \in Nat /\ accepted[n - m + k] \in Nat
    BY <1>0, <2>1
  <2>6. now - accepted[n - m + k] < Window
    BY <2>2, <2>3
  <2>7. \A a, b \in Nat : now - a < Window /\ a <= b => now - b < Window
    BY <1>0
  <2> QED
    BY <2>4, <2>5, <2>6, <2>7
<1>6. Recent = (n - Len(s) + 1) .. n
  <2>1. Len(s) \in Nat /\ Len(s) <= n
    BY <1>0, <1>1
  <2>2. ASSUME NEW j \in 1 .. n PROVE now - accepted[j] < Window <=> j \in (n - Len(s) + 1) .. n
    <3>1. CASE j \in (n - Len(s) + 1) .. n
      BY <1>5, <3>1
    <3>2. CASE j \in 1 .. n - Len(s)
      BY <1>0, <1>4, <2>2, <3>2
    <3> QED
      BY <1>0, <2>1, <3>1, <3>2
  <2>3. (n - Len(s) + 1) .. n \subseteq 1 .. n
    BY <1>0, <2>1
  <2> QED
    BY <2>2, <2>3 DEF Recent, n
<1>7. Len(s) \in 0 .. n
  BY <1>0, <1>1
<1> QED
  BY <1>1, <1>3, <1>6, <1>7 DEF s, n, m

\* A run of indices has as many members as it has.
LEMMA SuffixSize ==
    ASSUME NEW n \in Nat, NEW m \in Nat, m <= n
    PROVE  Cardinality((n - m + 1) .. n) = m
<1>1. n - m + 1 \in Int /\ n \in Int
  OBVIOUS
<1>2. CASE m = 0
  <2>1. (n - m + 1) .. n = {}
    BY <1>2
  <2> QED
    BY <1>2, <2>1, FS_EmptySet
<1>3. CASE m > 0
  BY <1>1, <1>3, FS_Interval
<1> QED
  BY <1>2, <1>3

-----------------------------------------------------------------------------
\* Appending a time to the deque and to the history keeps the one the end of
\* the other.
LEMMA SaySent ==
    ASSUME RateTypeOK, NEW k \in 1 .. Len(sentTimes) + 1, Pops(k),
           sentTimes' = Append(Kept(k), now), accepted' = Append(accepted, now),
           UNCHANGED <<now, rateLimit>>, verdict' = "sent"
    PROVE  RateTypeOK' /\ Cardinality(Recent') = Len(Kept(k)) + 1
<1> DEFINE s == Kept(k)  n == Len(accepted)  t == Append(s, now)  a == Append(accepted, now)
<1>0. /\ now \in Nat /\ Window \in Nat /\ Window > 0 /\ n \in Nat /\ Len(s) \in Nat /\ Len(s) <= n
      /\ s \in Seq(Nat) /\ accepted \in Seq(Nat)
      /\ \A i \in 1 .. n : accepted[i] \in Nat
  <2>1. s \in Seq(Nat) /\ Len(s) \in 0 .. n
    BY PoppedAreOld
  <2>2. now \in Nat /\ accepted \in Seq(Nat) /\ n \in Nat /\ \A i \in 1 .. n : accepted[i] \in Nat
    BY DEF RateTypeOK
  <2> QED
    BY <2>1, <2>2, WindowAssumption
<1>1. /\ t \in Seq(Nat) /\ Len(t) = Len(s) + 1 /\ t[Len(s) + 1] = now
      /\ \A i \in 1 .. Len(s) : t[i] = s[i]
  BY <1>0, AppendProperties
<1>2. /\ a \in Seq(Nat) /\ Len(a) = n + 1 /\ a[n + 1] = now
      /\ \A i \in 1 .. n : a[i] = accepted[i]
  BY <1>0, AppendProperties
<1>3. /\ \A i \in 1 .. Len(s) : s[i] = accepted[n - Len(s) + i]
      /\ Recent = (n - Len(s) + 1) .. n
  BY PoppedAreOld
<1>4. \A j \in 1 .. n : now - accepted[j] < Window <=> j \in (n - Len(s) + 1) .. n
  BY <1>3 DEF Recent
<1> HIDE DEF s, n, t, a
<1>5. sentTimes' = t /\ accepted' = a /\ now' = now
  BY DEF t, a, s
<1>6. \A i \in 1 .. Len(t) : t[i] = a[Len(a) - Len(t) + i]
  <2> SUFFICES ASSUME NEW i \in 1 .. Len(t) PROVE t[i] = a[Len(a) - Len(t) + i]
    OBVIOUS
  <2>1. CASE i = Len(s) + 1
    BY <1>0, <1>1, <1>2, <2>1
  <2>2. CASE i \in 1 .. Len(s)
    <3>1. t[i] = accepted[n - Len(s) + i]
      BY <1>1, <1>3, <2>2
    <3>2. n - Len(s) + i \in 1 .. n /\ Len(a) - Len(t) + i = n - Len(s) + i
      BY <1>0, <1>1, <1>2, <2>2
    <3> QED
      BY <1>2, <3>1, <3>2
  <2> QED
    BY <1>0, <1>1, <2>1, <2>2
<1>7. \A j \in 1 .. Len(a) - Len(t) : now - a[j] >= Window
  <2> SUFFICES ASSUME NEW j \in 1 .. n - Len(s) PROVE now - a[j] >= Window
    BY <1>0, <1>1, <1>2
  <2>1. j \in 1 .. n /\ j \notin (n - Len(s) + 1) .. n
    BY <1>0
  <2>2. ~(now - accepted[j] < Window) /\ accepted[j] \in Nat /\ a[j] = accepted[j]
    BY <1>0, <1>2, <1>4, <2>1
  <2>3. \A x \in Nat : ~(now - x < Window) => now - x >= Window
    BY <1>0
  <2> QED
    BY <2>2, <2>3
<1>8. \A j \in 1 .. Len(a) : a[j] <= now
  <2>1. \A j \in 1 .. n : accepted[j] <= now
    BY DEF RateTypeOK, n
  <2>2. \A j \in 1 .. Len(a) : j \in 1 .. n \/ j = n + 1
    BY <1>0, <1>2
  <2>3. now <= now
    BY <1>0
  <2> QED
    BY <1>2, <2>1, <2>2, <2>3
<1>9. \A i, j \in 1 .. Len(a) : i <= j => a[i] <= a[j]
  <2> SUFFICES ASSUME NEW i \in 1 .. Len(a), NEW j \in 1 .. Len(a), i <= j PROVE a[i] <= a[j]
    OBVIOUS
  <2>1. CASE j = n + 1
    BY <1>2, <1>8, <2>1
  <2>2. CASE j \in 1 .. n
    <3>1. i \in 1 .. n
      BY <1>0, <1>2, <2>2
    <3>2. accepted[i] <= accepted[j]
      BY <2>2, <3>1 DEF RateTypeOK, n
    <3> QED
      BY <1>2, <2>2, <3>1, <3>2
  <2> QED
    BY <1>0, <1>2, <2>1, <2>2
<1>10. RateTypeOK'
  <2>1. Len(t) <= Len(a)
    BY <1>0, <1>1, <1>2
  <2> QED
    BY <1>1, <1>2, <1>5, <1>6, <1>7, <1>8, <1>9, <2>1 DEF RateTypeOK
<1>11. Recent' = (n - Len(s) + 1) .. (n + 1)
  <2>1. ASSUME NEW j \in 1 .. n + 1
        PROVE  now - a[j] < Window <=> j \in (n - Len(s) + 1) .. (n + 1)
    <3>1. CASE j = n + 1
      BY <1>0, <1>2, <3>1
    <3>2. CASE j \in 1 .. n
      <4>1. j \in (n - Len(s) + 1) .. n <=> j \in (n - Len(s) + 1) .. (n + 1)
        BY <1>0, <3>2
      <4> QED
        BY <1>2, <1>4, <3>2, <4>1
    <3> QED
      BY <1>0, <2>1, <3>1, <3>2
  <2>2. (n - Len(s) + 1) .. (n + 1) \subseteq 1 .. n + 1
    BY <1>0
  <2> QED
    BY <1>2, <1>5, <2>1, <2>2 DEF Recent
<1>12. Cardinality(Recent') = Len(s) + 1
  <2>1. n + 1 \in Nat /\ Len(s) + 1 \in Nat /\ Len(s) + 1 <= n + 1
        /\ (n + 1) - (Len(s) + 1) + 1 = n - Len(s) + 1
    BY <1>0
  <2>2. Cardinality(((n + 1) - (Len(s) + 1) + 1) .. (n + 1)) = Len(s) + 1
    BY <2>1, SuffixSize
  <2> QED
    BY <1>11, <2>1, <2>2
<1> QED
  BY <1>10, <1>12 DEF s

\* A refused message leaves the times that still count, and all of them.
LEMMA SayRefused ==
    ASSUME RateTypeOK, NEW k \in 1 .. Len(sentTimes) + 1, Pops(k),
           sentTimes' = Kept(k), UNCHANGED <<accepted, now, rateLimit>>, verdict' = "refused"
    PROVE  RateTypeOK' /\ Cardinality(Recent') = Len(Kept(k))
<1> DEFINE s == Kept(k)  n == Len(accepted)
<1>0. /\ now \in Nat /\ Window \in Nat /\ n \in Nat /\ Len(s) \in Nat /\ Len(s) <= n
      /\ s \in Seq(Nat)
      /\ \A i \in 1 .. n : accepted[i] \in Nat
      /\ \A i \in 1 .. Len(s) : s[i] = accepted[n - Len(s) + i]
      /\ Recent = (n - Len(s) + 1) .. n
  <2>1. /\ s \in Seq(Nat) /\ Len(s) \in 0 .. n
        /\ \A i \in 1 .. Len(s) : s[i] = accepted[n - Len(s) + i]
        /\ Recent = (n - Len(s) + 1) .. n
    BY PoppedAreOld
  <2>2. now \in Nat /\ n \in Nat /\ \A i \in 1 .. n : accepted[i] \in Nat
    BY DEF RateTypeOK
  <2> QED
    BY <2>1, <2>2, WindowAssumption
<1>1. sentTimes' = s /\ Recent' = Recent
  BY DEF s, Recent
<1> HIDE DEF s, n
<1>2. Cardinality(Recent') = Len(s)
  BY <1>0, <1>1, SuffixSize
<1>3. ASSUME NEW j \in 1 .. n - Len(s) PROVE now - accepted[j] >= Window
  <2>1. j \in 1 .. n /\ j \notin Recent
    BY <1>0
  <2>2. ~(now - accepted[j] < Window) /\ accepted[j] \in Nat
    BY <1>0, <2>1 DEF Recent, n
  <2> QED
    BY <1>0, <2>2
<1>4. RateTypeOK'
  BY <1>0, <1>1, <1>3 DEF RateTypeOK, n
<1> QED
  BY <1>2, <1>4 DEF s

-----------------------------------------------------------------------------
\* Every step keeps the deque the end of the history, and a verdict is right.
LEMMA RateStep ==
    ASSUME RateTypeOK, ExactlyTheLimit, [RateNext]_rateVars
    PROVE  RateTypeOK' /\ ExactlyTheLimit'
<1>1. CASE Say
  <2>1. PICK k \in 1 .. Len(sentTimes) + 1 :
           /\ Pops(k)
           /\ IF Full(Kept(k))
              THEN sentTimes' = Kept(k) /\ verdict' = "refused" /\ UNCHANGED accepted
              ELSE /\ sentTimes' = Append(Kept(k), now)
                   /\ accepted' = Append(accepted, now)
                   /\ verdict' = "sent"
    BY <1>1 DEF Say, Kept
  <2>2. UNCHANGED <<now, rateLimit>>
    BY <1>1 DEF Say
  <2>3. Len(Kept(k)) \in Nat
    BY <2>1, PoppedAreOld, LenProperties
  <2>4. rateLimit # NoLimit => rateLimit \in Nat
    BY RateLimitsAssumption DEF RateTypeOK
  <2>5. CASE Full(Kept(k))
    <3>1. RateTypeOK' /\ Cardinality(Recent') = Len(Kept(k)) /\ verdict' = "refused"
      BY <2>1, <2>2, <2>5, SayRefused
    <3>2. rateLimit # NoLimit /\ Len(Kept(k)) >= rateLimit
      BY <2>5 DEF Full
    <3> QED
      BY <2>2, <3>1, <3>2 DEF ExactlyTheLimit
  <2>6. CASE ~Full(Kept(k))
    <3>1. RateTypeOK' /\ Cardinality(Recent') = Len(Kept(k)) + 1 /\ verdict' = "sent"
      BY <2>1, <2>2, <2>6, SaySent
    <3>2. rateLimit # NoLimit => Len(Kept(k)) + 1 <= rateLimit
      BY <2>3, <2>4, <2>6 DEF Full
    <3> QED
      BY <2>2, <3>1, <3>2 DEF ExactlyTheLimit
  <2> QED
    BY <2>5, <2>6
<1>2. CASE RateWelcome
  BY <1>2 DEF RateWelcome, RateTypeOK, ExactlyTheLimit
<1>3. CASE Tick
  <2>1. /\ now \in Nat /\ now' = now + 1 /\ UNCHANGED <<rateLimit, sentTimes, accepted>>
        /\ verdict' = "none"
    BY <1>3 DEF Tick, RateTypeOK
  <2>2. \A j \in 1 .. Len(accepted) : accepted[j] \in Nat
    BY DEF RateTypeOK
  <2>3. \A j \in 1 .. Len(accepted) : accepted[j] <= now'
    BY <2>1, <2>2 DEF RateTypeOK
  <2>4. \A j \in 1 .. Len(accepted) - Len(sentTimes) : now' - accepted[j] >= Window
    <3>1. Len(accepted) \in Nat /\ Len(sentTimes) \in Nat
      BY LenProperties DEF RateTypeOK
    <3>2. \A j \in 1 .. Len(accepted) - Len(sentTimes) :
             now - accepted[j] >= Window /\ accepted[j] \in Nat
      BY <2>2, <3>1 DEF RateTypeOK
    <3> QED
      BY <2>1, <3>2, WindowAssumption
  <2> QED
    BY <2>1, <2>3, <2>4 DEF RateTypeOK, ExactlyTheLimit
<1>4. CASE UNCHANGED rateVars
  BY <1>4 DEF rateVars, RateTypeOK, ExactlyTheLimit, Recent
<1> QED
  BY <1>1, <1>2, <1>3, <1>4 DEF RateNext

\* Before the first message nothing has been sent.
LEMMA RateStart == RateInit => RateTypeOK /\ ExactlyTheLimit
<1> SUFFICES ASSUME RateInit PROVE RateTypeOK /\ ExactlyTheLimit
  OBVIOUS
<1>1. Len(sentTimes) = 0 /\ Len(accepted) = 0 /\ sentTimes \in Seq(Nat) /\ accepted \in Seq(Nat)
  BY DEF RateInit
<1> QED
  BY <1>1 DEF RateInit, RateTypeOK, ExactlyTheLimit

\* The deque is always the end of the history, and what is gone from it is
\* too old to count (_rate_complaint).
THEOREM RateTypeCorrect == RateSpec => []RateTypeOK
BY RateStart, RateStep, PTL DEF RateSpec

\* In no window more messages pass than the hub's limit in force allows, and
\* none is refused that it allows (say, _rate_complaint).
THEOREM ExactlyTheLimitHolds == RateSpec => []ExactlyTheLimit
BY RateStart, RateStep, PTL DEF RateSpec

-----------------------------------------------------------------------------
(* Envelopes.                                                              *)

\* What is on the wire has values of CBOR, and as long as its mandatory fields
\* are untouched, every field that is untouched is as it was sent.
WireInv ==
    /\ message \in Messages
    /\ welcome \in Bodies
    /\ \A k \in DOMAIN raw : raw[k] \in Value
    /\ altered \cap Mandatory = {} =>
           \A k \in (Mandatory \cup Advisory) \ altered :
               /\ k \in DOMAIN raw <=> k \in DOMAIN Encode(message)
               /\ k \in DOMAIN raw => raw[k] = Encode(message)[k]

\* The fields of a message the program sends: a type and what identifies it
\* and its sender are always given; a field that is not given is None.
LEMMA SentFields ==
    ASSUME NEW m \in Messages
    PROVE  /\ DOMAIN m = {"t", "id", "ts", "src", "room", "body", "nick", "dst"}
           /\ m.t \in KnownTypes /\ m.id = "id" /\ m.ts = "number" /\ m.src = "hash"
           /\ m.room \in {"room", None} /\ m.body \in {"map", "text", "token", None}
           /\ m.nick \in {"nick", None} /\ m.dst \in {"hash", None}
<1> DEFINE Ok(e) == /\ DOMAIN e = {"t", "id", "ts", "src", "room", "body", "nick", "dst"}
                    /\ e.t \in KnownTypes /\ e.id = "id" /\ e.ts = "number" /\ e.src = "hash"
                    /\ e.room \in {"room", None} /\ e.body \in {"map", "text", "token", None}
                    /\ e.nick \in {"nick", None} /\ e.dst \in {"hash", None}
<1>1. \A t \in KnownTypes, room \in {"room", None}, body \in {"map", "text", "token", None},
         dst \in {"hash", None}, nick \in {"nick", None} : Ok(Sent(t, room, body, dst, nick))
  BY DEF Sent
<1> HIDE DEF Ok
<1>2. {"HELLO", "WELCOME", "JOIN", "PART", "MSG", "NOTICE", "ACTION", "PING", "PONG"} \subseteq KnownTypes
  BY DEF KnownTypes
<1>3. ASSUME NEW nick \in {"nick", None}
      PROVE  /\ Ok(Sent("HELLO", None, "map", None, nick)) /\ Ok(Sent("JOIN", "room", None, None, nick))
             /\ Ok(Sent("PART", "room", None, None, nick)) /\ Ok(Sent("NOTICE", None, "text", "hash", nick))
             /\ Ok(Sent("PING", None, "token", None, nick)) /\ Ok(Sent("PONG", None, "token", None, nick))
             /\ Ok(Sent("PONG", None, None, None, nick))
             /\ \A t \in {"MSG", "NOTICE", "ACTION"} : Ok(Sent(t, "room", "text", None, nick))
  BY <1>1, <1>2
<1>4. Ok(Sent("WELCOME", None, "map", None, None))
  BY <1>1, <1>2
<1>5. Ok(m)
  BY <1>3, <1>4 DEF Messages
<1> QED
  BY <1>5 DEF Ok

\* What encode puts on the wire: a version, and the fields that are given.
LEMMA EncodeIs ==
    ASSUME NEW m \in Messages
    PROVE  /\ DOMAIN Encode(m) = Mandatory \cup {k \in Advisory : m[k] # None}
           /\ Encode(m)["v"] = "version"
           /\ \A k \in DOMAIN Encode(m) : k # "v" => Encode(m)[k] = m[k]
           /\ \A k \in DOMAIN Encode(m) : Encode(m)[k] \in Value \ {"null"}
<1>1. /\ DOMAIN Encode(m) = Mandatory \cup {k \in Advisory : m[k] # None}
      /\ \A k \in DOMAIN Encode(m) : Encode(m)[k] = IF k = "v" THEN "version" ELSE m[k]
  BY DEF Encode
<1>2. "v" \in Mandatory
  BY DEF Mandatory
<1>3. ASSUME NEW k \in DOMAIN Encode(m), k # "v" PROVE m[k] \in Value \ {"null"}
  <2>1. KnownTypes \subseteq Value \ {"null"}
    BY DEF KnownTypes, Value, Numbers
  <2>2. {"id", "number", "hash", "room", "map", "text", "token", "nick"} \subseteq Value \ {"null"}
    BY DEF Value, Numbers, Texts, Blobs
  <2>3. k \in {"t", "id", "ts", "src", "room", "body", "nick", "dst"} /\ (k \in Advisory => m[k] # None)
    BY <1>1, <1>3 DEF Mandatory, Advisory
  <2>4. k \in Advisory <=> k \in {"room", "body", "nick", "dst"}
    BY DEF Advisory
  <2> QED
    BY <2>1, <2>2, <2>3, <2>4, SentFields
<1>4. "version" \in Value \ {"null"}
  BY DEF Value, Numbers
<1> QED
  BY <1>1, <1>2, <1>3, <1>4

\* What arrives when no mandatory field was touched can be read.
LEMMA UntouchedIsReadable ==
    ASSUME WireInv, altered \cap Mandatory = {}
    PROVE  /\ Readable(raw)
           /\ \A k \in {"t", "id", "ts", "src"} : raw[k] = message[k]
<1>1. \A k \in Mandatory : k \in DOMAIN raw /\ raw[k] = Encode(message)[k]
  <2>1. Mandatory \subseteq DOMAIN Encode(message)
    BY EncodeIs DEF WireInv
  <2> QED
    BY <2>1 DEF WireInv
<1>2. raw["v"] = "version" /\ \A k \in {"t", "id", "ts", "src"} : k \in DOMAIN raw /\ raw[k] = message[k]
  <2>1. Encode(message)["v"] = "version" /\ \A k \in Mandatory : k # "v" => Encode(message)[k] = message[k]
    BY EncodeIs DEF WireInv
  <2> QED
    BY <1>1, <2>1 DEF Mandatory
<1>3. message.t \in KnownTypes /\ message.id = "id" /\ message.ts = "number" /\ message.src = "hash"
  BY SentFields DEF WireInv
<1>4. Get(raw, "v") = "version" /\ Get(raw, "t") = message.t /\ Get(raw, "id") = "id"
      /\ Get(raw, "ts") = "number" /\ Get(raw, "src") = "hash"
  <2>1. message.t # "null"
    BY <1>3 DEF KnownTypes
  <2>2. {"v", "t", "id", "ts", "src"} \subseteq DOMAIN raw
    BY <1>1 DEF Mandatory
  <2> QED
    BY <1>2, <1>3, <2>1, <2>2 DEF Get
<1>5. /\ Uint("version") = "version" /\ Uint(message.t) = message.t
      /\ Blob("id") # None /\ Uint("number") # None /\ Blob("hash") # None
  BY <1>3 DEF Uint, Blob, Numbers, Blobs, None
<1> QED
  BY <1>2, <1>3, <1>4, <1>5 DEF Readable

\* Each coercion gives a value of its kind, or None.
LEMMA Coercions ==
    \A v : /\ Uint(v) \in Numbers \cup {None}
           /\ Text(v) \in Texts \cup {None}
           /\ Blob(v) \in Blobs \cup {None}
           /\ Uint(v) # None => Uint(v) = v
           /\ Text(v) # None => Text(v) = v
           /\ Blob(v) # None => Blob(v) = v
BY DEF Uint, Text, Blob

\* The wire starts with what was sent.
LEMMA WireStart == WireInit => WireInv
<1> SUFFICES ASSUME WireInit PROVE WireInv
  OBVIOUS
<1>1. message \in Messages /\ raw = Encode(message)
  BY DEF WireInit
<1>2. welcome \in Bodies
  <2>1. [k \in {} |-> Unset] \in [{} -> LimitValue] /\ {} \in SUBSET LimitKey
    OBVIOUS
  <2> QED
    BY <2>1 DEF WireInit, Bodies
<1> QED
  BY <1>1, <1>2, EncodeIs DEF WireInv

\* Alterations leave what they do not touch.
LEMMA WireStep == WireInv /\ [WireNext]_wireVars => WireInv'
<1> SUFFICES ASSUME WireInv, [WireNext]_wireVars PROVE WireInv'
  OBVIOUS
<1>1. ASSUME NEW k \in AnyKey, Alter(k) PROVE WireInv'
  <2>1. message' = message /\ welcome' = welcome /\ altered' = altered \cup {k}
    BY <1>1 DEF Alter
  <2>2. CASE \E v \in Sample : raw' = [j \in DOMAIN raw \cup {k} |-> IF j = k THEN v ELSE raw[j]]
    <3>1. PICK v \in Sample : raw' = [j \in DOMAIN raw \cup {k} |-> IF j = k THEN v ELSE raw[j]]
      BY <2>2
    <3>2. v \in Value
      BY DEF Sample, Value, Numbers, KnownTypes, Texts, Blobs
    <3>3. DOMAIN raw' = DOMAIN raw \cup {k} /\ \A j \in DOMAIN raw' : raw'[j] = IF j = k THEN v ELSE raw[j]
      BY <3>1
    <3> QED
      BY <2>1, <3>2, <3>3 DEF WireInv
  <2>3. CASE raw' = [j \in DOMAIN raw \ {k} |-> raw[j]]
    <3>1. DOMAIN raw' = DOMAIN raw \ {k} /\ \A j \in DOMAIN raw' : raw'[j] = raw[j]
      BY <2>3
    <3> QED
      BY <2>1, <3>1 DEF WireInv
  <2> QED
    BY <1>1, <2>2, <2>3 DEF Alter
<1>2. CASE Garble
  <2>1. message' = message /\ welcome' = welcome /\ altered' = AnyKey /\ DOMAIN raw' = {}
    BY <1>2 DEF Garble, Garbage
  <2>2. AnyKey \cap Mandatory # {}
    BY DEF AnyKey, Mandatory
  <2> QED
    BY <2>1, <2>2 DEF WireInv
<1>3. CASE UNCHANGED wireVars
  BY <1>3 DEF wireVars, WireInv
<1> QED
  BY <1>1, <1>2, <1>3 DEF WireNext

\* Whatever arrives, decode gives an envelope of the right kinds or ignores
\* it, and a WELCOME gives only limits that let something through (decode,
\* Limits.from_welcome_body).
THEOREM WireTypeCorrect == WireSpec => []WireTypeOK
<1>1. WireInv => Decode(raw) \in Envelope \cup {Ignored}
  <2> SUFFICES ASSUME WireInv, Readable(raw) PROVE Decode(raw) \in Envelope
    BY DEF Decode
  <2>1. raw.t \in KnownTypes /\ raw.id \in Blobs /\ raw.ts \in Numbers /\ raw.src \in Blobs
    <3>1. \A k : Get(raw, k) # None => Get(raw, k) = raw[k]
      BY DEF Get
    <3>2. None \notin Numbers /\ None \notin Blobs /\ None \notin KnownTypes
          /\ Uint(None) = None /\ Blob(None) = None
      BY DEF Numbers, KnownTypes, Blobs, None, Uint, Blob
    <3>3. /\ Uint(Get(raw, "t")) \in KnownTypes /\ Blob(Get(raw, "id")) # None
          /\ Uint(Get(raw, "ts")) # None /\ Blob(Get(raw, "src")) # None
      BY DEF Readable
    <3>4. Uint(raw["t"]) \in KnownTypes /\ Uint(raw["t"]) = raw["t"]
      BY <3>1, <3>2, <3>3, Coercions
    <3>5. /\ Blob(raw["id"]) \in Blobs /\ Blob(raw["id"]) = raw["id"]
          /\ Uint(raw["ts"]) \in Numbers /\ Uint(raw["ts"]) = raw["ts"]
          /\ Blob(raw["src"]) \in Blobs /\ Blob(raw["src"]) = raw["src"]
      BY <3>1, <3>2, <3>3, Coercions
    <3> QED
      BY <3>4, <3>5
  <2>2. Get(raw, "body") \in Value \cup {None}
    BY DEF Get, WireInv
  <2> QED
    BY <2>1, <2>2, Coercions DEF Decode, Envelope
<1>2. WireInv => \A k \in LimitKey :
          LET limit == LimitsOf(welcome)[k]
          IN  /\ limit = Unset \/ limit > 0
              /\ k \in DOMAIN welcome /\ welcome[k] > 0 => limit = welcome[k]
  BY DEF WireInv, Bodies, LimitsOf, PositiveInt, LimitValue, Unset
<1> QED
  BY <1>1, <1>2, WireStart, WireStep, PTL DEF WireSpec, WireTypeOK

\* What is changed in an advisory field costs that field at most: the rest
\* arrives as it was meant, never as another sender's, type or room's (decode,
\* "treated as absent rather than as a fatal error").
THEOREM AdvisoryIsNeverFatalHolds == WireSpec => []AdvisoryIsNeverFatal
<1>1. WireInv => AdvisoryIsNeverFatal
  <2> SUFFICES ASSUME WireInv, altered \cap Mandatory = {}
               PROVE  /\ Decode(raw) # Ignored
                      /\ \A k \in DOMAIN message \ altered : Decode(raw)[k] = message[k]
    BY DEF AdvisoryIsNeverFatal
  <2>1. Readable(raw) /\ \A k \in {"t", "id", "ts", "src"} : raw[k] = message[k]
    BY UntouchedIsReadable
  <2> DEFINE d == [t |-> raw.t, id |-> raw.id, ts |-> raw.ts, src |-> raw.src,
                   room |-> Text(Get(raw, "room")), body |-> Get(raw, "body"),
                   nick |-> Text(Get(raw, "nick")), dst |-> Blob(Get(raw, "dst"))]
  <2>2. Decode(raw) = d
    BY <2>1 DEF Decode
  <2>3. message \in Messages
    BY DEF WireInv
  <2>4. d # Ignored
    <3>1. d.t = message.t /\ message.t # None
      BY <2>1, <2>3, SentFields DEF KnownTypes, None
    <3> QED
      BY <3>1 DEF Ignored
  <2>5. \A k \in Advisory \ altered : Get(raw, k) = message[k]
    <3> SUFFICES ASSUME NEW k \in Advisory \ altered PROVE Get(raw, k) = message[k]
      OBVIOUS
    <3>1. DOMAIN Encode(message) = Mandatory \cup {j \in Advisory : message[j] # None}
      BY <2>3, EncodeIs
    <3>2. k \notin Mandatory /\ k # "v"
      BY DEF Advisory, Mandatory
    <3>3. k \in DOMAIN raw <=> message[k] # None
      BY <3>1, <3>2 DEF WireInv
    <3>4. CASE message[k] # None
      <4>1. k \in DOMAIN raw /\ k \in DOMAIN Encode(message) /\ raw[k] = Encode(message)[k]
        BY <3>1, <3>3, <3>4 DEF WireInv
      <4>2. Encode(message)[k] = message[k] /\ Encode(message)[k] # "null"
        BY <2>3, <3>2, <4>1, EncodeIs
      <4> QED
        BY <4>1, <4>2 DEF Get
    <3>5. CASE message[k] = None
      BY <3>3, <3>5 DEF Get
    <3> QED
      BY <3>4, <3>5
  <2>6. /\ message.room \in {"room", None} /\ message.nick \in {"nick", None} /\ message.dst \in {"hash", None}
        /\ DOMAIN message = {"t", "id", "ts", "src", "room", "body", "nick", "dst"}
    BY <2>3, SentFields
  <2>7. Text("room") = "room" /\ Text("nick") = "nick" /\ Blob("hash") = "hash" /\ Text(None) = None /\ Blob(None) = None
    BY DEF Text, Blob, Texts, Blobs
  <2>8. ASSUME NEW k \in DOMAIN message \ altered PROVE d[k] = message[k]
    <3>1. CASE k \in {"t", "id", "ts", "src"}
      BY <2>1, <3>1
    <3>2. CASE k \in {"room", "body", "nick", "dst"}
      <4>1. Get(raw, k) = message[k]
        BY <2>5, <2>8, <3>2 DEF Advisory
      <4>2. d["room"] = Text(Get(raw, "room")) /\ d["body"] = Get(raw, "body")
            /\ d["nick"] = Text(Get(raw, "nick")) /\ d["dst"] = Blob(Get(raw, "dst"))
        OBVIOUS
      <4> HIDE DEF d
      <4>3. CASE k = "body"
        BY <4>1, <4>2, <4>3
      <4>4. CASE k = "room"
        BY <2>6, <2>7, <4>1, <4>2, <4>4
      <4>5. CASE k = "nick"
        BY <2>6, <2>7, <4>1, <4>2, <4>5
      <4>6. CASE k = "dst"
        BY <2>6, <2>7, <4>1, <4>2, <4>6
      <4> QED
        BY <3>2, <4>3, <4>4, <4>5, <4>6
    <3> QED
      BY <2>6, <3>1, <3>2
  <2> QED
    BY <2>2, <2>4, <2>8
<1> QED
  BY <1>1, WireStart, WireStep, PTL DEF WireSpec

-----------------------------------------------------------------------------
(* Names.                                                                  *)

\* The tables hold names, and each member of a room is under none or under
\* one it has had.
NamesInv ==
    /\ members \in [Room -> [Person -> Name \cup {NotIn}]]
    /\ dms \subseteq Person
    /\ nickNow \in [Person -> Name]
    /\ worn \in [Person -> SUBSET Nick]
    /\ \A p \in Person : nickNow[p] \in worn[p] \cup {NoName}
    /\ \A p \in Person, r \in Room : members[r][p] \in worn[p] \cup {NoName, NotIn}

\* The line of a person whose nickname has no hash in it has one entry, its
\* last, and the name before that is the nickname.
LEMMA PlainLine ==
    ASSUME NamesInv, PlainNicks, NEW e \in Entry,
           NEW j \in DOMAIN LineOf(e), LineOf(e)[j] \in Parens
    PROVE  /\ LineOf(e)[j].id = e.head
           /\ SubSeq(LineOf(e), NameStart(LineOf(e), j), j - 1) = nickNow[e.who]
<1> DEFINE n == nickNow[e.who]  line == LineOf(e)  m == Len(n)
<1>1. e.who \in Person /\ e.head \in Hex
  BY Beginnings DEF Entry
<1>2. n \in Name /\ n \in Nick \cup {NoName}
  BY <1>1 DEF NamesInv
<1>3. n \in Seq(Word \cup Parens) /\ m \in Nat /\ DOMAIN n = 1 .. m
  BY <1>2 DEF Name
<1>4. \A i \in 1 .. m : n[i] \notin Parens
  BY <1>2, <1>3 DEF PlainNicks, NoName
<1>5. Paren(e.head) \in Word \cup Parens
  BY <1>1 DEF Parens
<1>6. line = Append(n, Paren(e.head))
  BY DEF LineOf
<1>7. /\ line \in Seq(Word \cup Parens) /\ Len(line) = m + 1 /\ line[m + 1] = Paren(e.head)
      /\ \A i \in 1 .. m : line[i] = n[i]
  BY <1>3, <1>5, <1>6, AppendProperties
<1> HIDE DEF n, line, m
<1>8. j \in 1 .. m + 1 /\ line[j] \in Parens
  BY <1>7 DEF line
<1>9. j = m + 1
  BY <1>3, <1>4, <1>7, <1>8
<1>10. \A k \in 1 .. j - 1 : line[k] \notin Parens
  BY <1>3, <1>4, <1>7, <1>9
<1>11. NameStart(line, j) = 1
  <2>1. {0} \cup {k \in 1 .. j - 1 : line[k] \in Parens} = {0}
    BY <1>10
  <2>2. (CHOOSE k \in {0} : \A l \in {0} : l <= k) = 0
    OBVIOUS
  <2> QED
    BY <2>1, <2>2 DEF NameStart
<1>12. SubSeq(line, 1, m) = n
  <2>1. \A i \in 1 .. m : line[i] \in Word \cup Parens
    BY <1>3, <1>7
  <2>2. /\ SubSeq(line, 1, m) \in Seq(Word \cup Parens)
        /\ Len(SubSeq(line, 1, m)) = IF 1 <= m THEN m - 1 + 1 ELSE 0
        /\ \A i \in 1 .. m - 1 + 1 : SubSeq(line, 1, m)[i] = line[1 + i - 1]
    BY <1>3, <2>1, SubSeqProperties
  <2>3. Len(SubSeq(line, 1, m)) = m /\ \A i \in 1 .. m : SubSeq(line, 1, m)[i] = n[i]
    BY <1>3, <1>7, <2>2
  <2> QED
    BY <1>3, <2>2, <2>3, SeqEqual DEF m
<1>13. j - 1 = m
  BY <1>3, <1>9
<1>14. line[j].id = e.head
  BY <1>7, <1>9 DEF Paren
<1> QED
  BY <1>11, <1>12, <1>13, <1>14 DEF line, n

\* Where a listing names p, it lists p, by p's own nickname.
LEMMA PlacesAreTheirs ==
    ASSUME NamesInv, PlainNicks, HeadsTell, NEW r \in Room, NEW listing \in Listings,
           NEW p \in Person, NEW x \in Places(r, listing, p)
    PROVE  /\ x[1] \in 1 .. Len(listing) /\ listing[x[1]] \in Entry /\ listing[x[1]].who = p
           /\ x[2] \in DOMAIN LineOf(listing[x[1]]) /\ LineOf(listing[x[1]])[x[2]] \in Parens
           /\ NameAt(listing, x[1], x[2]) = nickNow[p]
<1>1. PICK n \in 1 .. Cardinality(Person) : listing \in [1 .. n -> Entry]
  BY DEF Listings
<1>2. Len(listing) = n
  BY <1>1
<1> DEFINE i == x[1]  j == x[2]
<1>3. /\ i \in 1 .. Len(listing) /\ j \in DOMAIN LineOf(listing[i]) /\ LineOf(listing[i])[j] \in Parens
      /\ {q \in Known(r) : LineOf(listing[i])[j].id \in Begins[q]} = {p}
  BY DEF Places
<1> DEFINE e == listing[i]
<1>5. e \in Entry
  BY <1>1, <1>2, <1>3
<1>6. /\ LineOf(e)[j].id = e.head
      /\ SubSeq(LineOf(e), NameStart(LineOf(e), j), j - 1) = nickNow[e.who]
  BY <1>3, <1>5, PlainLine
<1>7. e.head \in Begins[p] /\ e.who \in Person /\ e.head \in Listed[e.who]
  BY <1>3, <1>5, <1>6 DEF Entry
<1>8. e.who = p
  BY <1>7 DEF HeadsTell
<1>9. NameAt(listing, i, j) = nickNow[p]
  BY <1>6, <1>8 DEF NameAt
<1> QED
  BY <1>3, <1>5, <1>8, <1>9

\* There is at most one such place.
LEMMA OnePlace ==
    ASSUME NamesInv, PlainNicks, HeadsTell, NEW r \in Room, NEW listing \in Listings,
           NEW p \in Person, NEW x \in Places(r, listing, p), NEW y \in Places(r, listing, p)
    PROVE  x[1] = y[1] /\ x[2] \in Nat /\ y[2] = x[2]
<1>1. /\ x[1] \in 1 .. Len(listing) /\ listing[x[1]] \in Entry /\ listing[x[1]].who = p
      /\ x[2] \in DOMAIN LineOf(listing[x[1]]) /\ LineOf(listing[x[1]])[x[2]] \in Parens
  BY PlacesAreTheirs
<1>2. /\ y[1] \in 1 .. Len(listing) /\ listing[y[1]].who = p
      /\ y[2] \in DOMAIN LineOf(listing[y[1]]) /\ LineOf(listing[y[1]])[y[2]] \in Parens
  BY PlacesAreTheirs
<1>3. x[1] = y[1]
  <2>1. PICK n \in 1 .. Cardinality(Person) : listing \in [1 .. n -> Entry]
    BY DEF Listings
  <2>2. DOMAIN listing = 1 .. Len(listing)
    BY <2>1
  <2> QED
    BY <1>1, <1>2, <2>2 DEF Listings
<1> DEFINE e == listing[x[1]]  n == nickNow[e.who]
<1>4. n \in Seq(Word \cup Parens) /\ (n \in Nick \cup {NoName}) /\ Paren(e.head) \in Word \cup Parens
  BY <1>1, Beginnings DEF NamesInv, Name, Entry, Parens
<1>5. /\ Len(n) \in Nat /\ DOMAIN LineOf(e) = 1 .. Len(n) + 1
      /\ \A i \in 1 .. Len(n) : LineOf(e)[i] = n[i] /\ n[i] \notin Parens
  <2>1. Len(n) \in Nat /\ DOMAIN n = 1 .. Len(n)
    BY <1>4
  <2>2. /\ LineOf(e) \in Seq(Word \cup Parens) /\ Len(LineOf(e)) = Len(n) + 1
        /\ \A i \in 1 .. Len(n) : LineOf(e)[i] = n[i]
    BY <1>4, AppendProperties DEF LineOf
  <2>3. \A i \in 1 .. Len(n) : n[i] \notin Parens
    BY <1>4, <2>1 DEF PlainNicks, NoName
  <2> QED
    BY <2>1, <2>2, <2>3
<1> HIDE DEF e, n
<1>6. \A k \in 1 .. Len(n) + 1 : LineOf(e)[k] \in Parens => k = Len(n) + 1
  BY <1>5
<1> QED
  BY <1>1, <1>2, <1>3, <1>5, <1>6 DEF e

\* The name a listing leaves a member with is the one it had or its own.
LEMMA LearnIsRight ==
    ASSUME NamesInv, PlainNicks, HeadsTell, NEW r \in Room, NEW listing \in Listings,
           Learn(r, listing)
    PROVE  \E names \in [Person -> Name \cup {NotIn}] :
              /\ members' = [members EXCEPT ![r] = names]
              /\ \A p \in Person : names[p] \in {members[r][p], nickNow[p]}
<1> DEFINE P(p) == Places(r, listing, p)
           Last(p) == CHOOSE x \in P(p) : \A y \in P(p) :
                          y[1] < x[1] \/ (y[1] = x[1] /\ y[2] <= x[2])
           Learnt(p) == IF P(p) = {} THEN members[r][p] ELSE NameAt(listing, Last(p)[1], Last(p)[2])
           names == [p \in Person |-> Learnt(p)]
<1>1. members' = [members EXCEPT ![r] = names]
  BY DEF Learn, NamesInv
<1>2. ASSUME NEW p \in Person PROVE Learnt(p) \in {members[r][p], nickNow[p]}
  <2>1. CASE P(p) = {}
    BY <2>1
  <2>2. CASE P(p) # {}
    <3>1. PICK x \in P(p) : TRUE
      BY <2>2
    <3>2. \A y \in P(p) : y[1] < x[1] \/ (y[1] = x[1] /\ y[2] <= x[2])
      <4> SUFFICES ASSUME NEW y \in P(p) PROVE y[1] = x[1] /\ y[2] <= x[2]
        OBVIOUS
      <4>1. x[1] = y[1] /\ x[2] \in Nat /\ y[2] = x[2]
        BY <3>1, OnePlace
      <4> QED
        BY <4>1
    <3> HIDE DEF P
    <3>3. Last(p) \in P(p)
      BY <3>1, <3>2, Zenon
    <3> HIDE DEF Last
    <3>4. NameAt(listing, Last(p)[1], Last(p)[2]) = nickNow[p]
      BY <3>3, PlacesAreTheirs DEF P
    <3> QED
      BY <2>2, <3>4
  <2> QED
    BY <2>1, <2>2
<1> HIDE DEF Learnt
<1>3. \A p \in Person : names[p] \in {members[r][p], nickNow[p]}
  BY <1>2
<1>4. names \in [Person -> Name \cup {NotIn}]
  <2>1. \A p \in Person : members[r][p] \in Name \cup {NotIn} /\ nickNow[p] \in Name \cup {NotIn}
    BY DEF NamesInv
  <2> QED
    BY <1>2, <2>1
<1> QED
  BY <1>1, <1>3, <1>4

-----------------------------------------------------------------------------
\* Every step gives a member a name it had in that room, or its own.
LEMMA NamesStep ==
    ASSUME PlainNicks, HeadsTell, NamesInv, [RosterNext]_rosterVars
    PROVE  NamesInv'
<1>0. Nick \subseteq Name /\ NoName \in Name
  BY NicksAreNames DEF Name, NoName
<1>1. ASSUME NEW p \in Person, NEW n \in Nick, Rename(p, n) PROVE NamesInv'
  <2>1. \A q \in Person : worn[q] \subseteq worn'[q] /\ worn'[q] \subseteq Nick
    BY <1>1 DEF Rename, NamesInv
  <2>2. \A q \in Person : nickNow'[q] \in worn'[q] \cup {NoName}
    BY <1>1 DEF Rename, NamesInv
  <2>3. nickNow' \in [Person -> Name] /\ worn' \in [Person -> SUBSET Nick]
    BY <1>0, <1>1 DEF Rename, NamesInv
  <2> QED
    BY <1>1, <2>1, <2>2, <2>3 DEF Rename, NamesInv
<1>2. ASSUME NEW r \in Room, NEW S \in SUBSET Person, Joined(r, S) PROVE NamesInv'
  BY <1>0, <1>2 DEF Joined, NamesInv
<1>3. ASSUME NEW r \in Room, NEW p \in Person, Note(r, p) PROVE NamesInv'
  <2>1. PICK nick \in {nickNow[p], NoName} :
           members' = [members EXCEPT ![r][p] = IF nick # NoName THEN nick
                                                ELSE IF @ = NotIn THEN NoName ELSE @]
    BY <1>3 DEF Note
  <2>2. nick \in worn[p] \cup {NoName} /\ nick \in Name
    BY <1>0 DEF NamesInv
  <2>3. UNCHANGED <<dms, nickNow, worn>>
    BY <1>3 DEF Note
  <2> DEFINE new == IF nick # NoName THEN nick ELSE IF members[r][p] = NotIn THEN NoName ELSE members[r][p]
  <2>4. new \in worn[p] \cup {NoName, NotIn} /\ new \in Name \cup {NotIn}
    BY <1>0, <2>2 DEF NamesInv
  <2>5. members' = [members EXCEPT ![r][p] = new]
    BY <2>1 DEF NamesInv
  <2> HIDE DEF new
  <2> QED
    BY <2>3, <2>4, <2>5 DEF NamesInv
<1>4. ASSUME NEW r \in Room, NEW p \in Person, Drop(r, p) PROVE NamesInv'
  BY <1>4 DEF Drop, NamesInv
<1>5. ASSUME NEW r \in Room, Forgotten(r) PROVE NamesInv'
  BY <1>5 DEF Forgotten, NamesInv
<1>6. ASSUME NEW r \in Room, NEW listing \in Listings, Learn(r, listing) PROVE NamesInv'
  <2>1. PICK names \in [Person -> Name \cup {NotIn}] :
           /\ members' = [members EXCEPT ![r] = names]
           /\ \A p \in Person : names[p] \in {members[r][p], nickNow[p]}
    BY <1>6, LearnIsRight
  <2>2. UNCHANGED <<dms, nickNow, worn>>
    BY <1>6 DEF Learn
  <2>3. \A p \in Person : names[p] \in worn[p] \cup {NoName, NotIn}
    BY <2>1 DEF NamesInv
  <2> QED
    BY <2>1, <2>2, <2>3 DEF NamesInv
<1>7. ASSUME NEW p \in Person, OpenDm(p) \/ CloseDm(p) PROVE NamesInv'
  BY <1>7 DEF OpenDm, CloseDm, NamesInv
<1>8. CASE UNCHANGED rosterVars
  BY <1>8 DEF rosterVars, NamesInv
<1> QED
  BY <1>1, <1>2, <1>3, <1>4, <1>5, <1>6, <1>7, <1>8 DEF RosterNext

\* The invariant holds from the start.
LEMMA NamesInvariant == PlainNicks /\ HeadsTell /\ RosterSpec => []NamesInv
<1>1. RosterInit => NamesInv
  <2>1. NoName \in Name
    BY DEF Name, NoName
  <2> QED
    BY <2>1 DEF RosterInit, NamesInv
<1>2. CASE PlainNicks /\ HeadsTell
  BY <1>1, <1>2, NamesStep, PTL DEF RosterSpec
<1>3. CASE ~(PlainNicks /\ HeadsTell)
  BY <1>3
<1> QED
  BY <1>2, <1>3

-----------------------------------------------------------------------------
\* Where no nickname has hex digits in parentheses, and hubs list people by
\* heads that tell them apart, no name is shown for a person who never had it
\* (note_member, learn_members, refresh_nicklist, label).
THEOREM NamesAreTheirsHolds == PlainNicks /\ HeadsTell /\ RosterSpec => []NamesAreTheirs
<1>1. NamesInv => NamesAreTheirs
  BY DEF NamesInv, NamesAreTheirs, Known, Shown, Labels
<1> QED
  BY <1>1, NamesInvariant, PTL

\* One match among people is one of them.
LEMMA OneMatch ==
    ASSUME NEW M \in SUBSET Person, Cardinality(M) = 1
    PROVE  (CHOOSE q \in M : TRUE) \in M
<1>1. IsFiniteSet(M)
  BY PeopleAreFinite, FS_Subset
<1>2. PICK x : M = {x}
  BY <1>1, FS_Singleton
<1> QED
  BY <1>2

\* There, too, a private message goes to nobody who was never called what was
\* typed, though nicknames may be the heads of hashes (resolve).
THEOREM ResolvedWasCalledHolds == PlainNicks /\ HeadsTell /\ RosterSpec => []ResolvedWasCalled
<1>1. NamesInv => ResolvedWasCalled
  <2> SUFFICES ASSUME NamesInv, NEW token \in Word, token \notin FullHash, Resolve(token) # Nobody
               PROVE  Resolve(token) \in {p \in Person : token \in Begins[p] \/ <<token>> \in worn[p]}
    BY DEF ResolvedWasCalled, Resolve
  <2> DEFINE M == IF ByNick(token) # {} THEN ByNick(token) ELSE ByPrefix(token)
  <2>1. M \in SUBSET Person
    BY DEF ByNick, ByPrefix
  <2>2. \A p \in M : token \in Begins[p] \/ <<token>> \in worn[p]
    <3>1. <<token>> # NoName /\ <<token>> # NotIn
      <4>1. <<token>> \in Name /\ Len(<<token>>) = 1 /\ Len(NoName) = 0
        BY DEF Name, NoName
      <4> QED
        BY <4>1, NotInIsNoName
    <3>2. \A p \in ByNick(token) : <<token>> \in worn[p]
      BY <3>1 DEF ByNick, NamesInv
    <3>3. \A p \in ByPrefix(token) : token \in Begins[p]
      BY DEF ByPrefix
    <3> QED
      BY <3>2, <3>3
  <2> HIDE DEF M
  <2>3. Resolve(token) = IF Cardinality(M) = 1 THEN CHOOSE p \in M : TRUE ELSE Nobody
    BY DEF Resolve, M
  <2>4. Resolve(token) \in M
    BY <2>1, <2>3, OneMatch
  <2> QED
    BY <2>1, <2>2, <2>4
<1> QED
  BY <1>1, NamesInvariant, PTL
=============================================================================
