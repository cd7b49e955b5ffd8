-------------------------- MODULE MembershipProofs --------------------------
(***************************************************************************)
(* What the user wants, what the session believes and what the hub holds   *)
(* of each room (HubIsKnown, RoomsAreWanted, WantedIsJoined and HubAgrees  *)
(* of Helper), for every number of rooms and links and every bound, with a *)
(* user who waits for the answer to one request about a room before making *)
(* the next.  What each needs of the hub is said with it.                  *)
(***************************************************************************)
EXTENDS SessionProofs

-----------------------------------------------------------------------------
(* The order of entries in a queue.                                        *)

\* Behind an X there is no Y; and before each Y there is an X.
Apart(q, X, Y) == \A i, j \in DOMAIN q : i < j /\ q[i] \in X => q[j] \notin Y
Led(q, X, Y) == \A j \in DOMAIN q : q[j] \in Y => \E i \in DOMAIN q : i < j /\ q[i] \in X

\* Taking the first entry.
LEMMA TailOrder ==
    ASSUME NEW T, NEW q \in Seq(T), q # <<>>, NEW X, NEW Y
    PROVE  /\ Apart(q, X, Y) => /\ Apart(Tail(q), X, Y)
                                /\ Head(q) \in X => Range(Tail(q)) \cap Y = {}
           /\ Led(q, X, Y) => /\ Head(q) \notin Y
                              /\ Head(q) \notin X => Led(Tail(q), X, Y)
<1> DEFINE p == Tail(q)
<1>1. DOMAIN q = 1..Len(q) /\ Len(q) \in Nat
  BY LenProperties
<1>2. /\ Len(q) # 0 /\ Head(q) = q[1] /\ DOMAIN p = 1..(Len(q) - 1)
      /\ \A i \in 1..(Len(q) - 1) : p[i] = q[i + 1]
  <2>1. Len(q) # 0
    BY EmptySeq
  <2>2. p \in Seq(T) /\ Len(p) = Len(q) - 1 /\ \A i \in 1..Len(p) : p[i] = q[i + 1]
    BY HeadTailProperties
  <2> QED
    BY <2>1, <2>2, LenProperties
<1> HIDE DEF p
<1>3. \A i \in DOMAIN p : i + 1 \in DOMAIN q /\ p[i] = q[i + 1] /\ i \in Int /\ 1 < i + 1
  BY <1>1, <1>2
<1>4. 1 \in DOMAIN q
  BY <1>1, <1>2
<1>5. ASSUME Apart(q, X, Y) PROVE Apart(p, X, Y) /\ (Head(q) \in X => Range(p) \cap Y = {})
  <2>1. Apart(p, X, Y)
    <3> SUFFICES ASSUME NEW i \in DOMAIN p, NEW j \in DOMAIN p, i < j, p[i] \in X
                 PROVE  p[j] \notin Y
      BY DEF Apart
    <3>1. i + 1 < j + 1
      BY <1>3
    <3> QED
      BY <1>3, <1>5, <3>1 DEF Apart
  <2>2. ASSUME Head(q) \in X PROVE Range(p) \cap Y = {}
    <3> SUFFICES ASSUME NEW j \in DOMAIN p PROVE p[j] \notin Y
      BY DEF Range
    <3> QED
      BY <1>2, <1>3, <1>4, <1>5, <2>2 DEF Apart
  <2> QED
    BY <2>1, <2>2
<1>6. ASSUME Led(q, X, Y) PROVE Head(q) \notin Y /\ (Head(q) \notin X => Led(p, X, Y))
  <2>1. Head(q) \notin Y
    <3>1. \A i \in DOMAIN q : ~(i < 1)
      BY <1>1
    <3> QED
      BY <1>2, <1>4, <1>6, <3>1 DEF Led
  <2>2. ASSUME Head(q) \notin X PROVE Led(p, X, Y)
    <3> SUFFICES ASSUME NEW j \in DOMAIN p, p[j] \in Y
                 PROVE  \E i \in DOMAIN p : i < j /\ p[i] \in X
      BY DEF Led
    <3>1. PICK i \in DOMAIN q : i < j + 1 /\ q[i] \in X
      BY <1>3, <1>6 DEF Led
    <3>2. i - 1 \in DOMAIN p /\ p[i - 1] = q[i] /\ i - 1 < j
      <4>1. i # 1
        BY <1>2, <2>2, <3>1
      <4>2. i - 1 \in 1..(Len(q) - 1)
        BY <1>1, <4>1
      <4> QED
        BY <1>1, <1>2, <1>3, <3>1, <4>2
    <3> QED
      BY <3>1, <3>2
  <2> QED
    BY <2>1, <2>2
<1> QED
  BY <1>5, <1>6 DEF p

\* Adding one at the end.
LEMMA AppendOrder ==
    ASSUME NEW T, NEW q \in Seq(T), NEW e \in T, NEW X, NEW Y
    PROVE  /\ Apart(q, X, Y) /\ (e \notin Y \/ Range(q) \cap X = {}) => Apart(Append(q, e), X, Y)
           /\ Led(q, X, Y) /\ (e \notin Y \/ Range(q) \cap X # {}) => Led(Append(q, e), X, Y)
<1> DEFINE p == Append(q, e)
<1>1. DOMAIN q = 1..Len(q) /\ Len(q) \in Nat
  BY LenProperties
<1>2. /\ DOMAIN p = 1..(Len(q) + 1)
      /\ \A i \in 1..Len(q) : p[i] = q[i]
      /\ p[Len(q) + 1] = e
  BY AppendProperties, LenProperties
<1> HIDE DEF p
<1>3. \A i \in DOMAIN q : i \in DOMAIN p /\ p[i] = q[i] /\ i < Len(q) + 1
  BY <1>1, <1>2
<1>4. \A i \in DOMAIN p : i \in DOMAIN q \/ (i = Len(q) + 1 /\ p[i] = e)
  BY <1>1, <1>2
<1>5. ASSUME Apart(q, X, Y), e \notin Y \/ Range(q) \cap X = {} PROVE Apart(p, X, Y)
  <2> SUFFICES ASSUME NEW i \in DOMAIN p, NEW j \in DOMAIN p, i < j, p[i] \in X
               PROVE  p[j] \notin Y
    BY DEF Apart
  <2>1. i \in DOMAIN q
    BY <1>1, <1>2
  <2>2. q[i] \in Range(q)
    BY <2>1 DEF Range
  <2> QED
    BY <1>3, <1>4, <1>5, <2>1, <2>2 DEF Apart
<1>6. ASSUME Led(q, X, Y), e \notin Y \/ Range(q) \cap X # {} PROVE Led(p, X, Y)
  <2> SUFFICES ASSUME NEW j \in DOMAIN p, p[j] \in Y
               PROVE  \E i \in DOMAIN p : i < j /\ p[i] \in X
    BY DEF Led
  <2>1. CASE j \in DOMAIN q
    BY <1>3, <1>6, <2>1 DEF Led
  <2>2. CASE j \notin DOMAIN q
    <3>1. j = Len(q) + 1 /\ Range(q) \cap X # {}
      BY <1>4, <1>6, <2>2
    <3>2. PICK i \in DOMAIN q : q[i] \in X
      BY <3>1 DEF Range
    <3> QED
      BY <1>3, <3>1, <3>2
  <2> QED
    BY <2>1, <2>2
<1> QED
  BY <1>5, <1>6 DEF p

\* An entry put anywhere disturbs no order it has no part in.
LEMMA InsertOrder ==
    ASSUME NEW T, NEW q \in Seq(T), NEW e \in T, NEW X, NEW n \in 1..Len(q),
           Apart(q, X, X), e \notin X
    PROVE  Apart(InsertAt(q, n, e), X, X)
<1> DEFINE p == InsertAt(q, n, e)
<1>1. DOMAIN q = 1..Len(q) /\ Len(q) \in Nat
  BY LenProperties
<1>2. /\ DOMAIN p = 1..(Len(q) + 1)
      /\ \A i \in 1..(Len(q) + 1) : p[i] = IF i < n THEN q[i] ELSE IF i = n THEN e ELSE q[i - 1]
  BY InsertAtIs
<1> HIDE DEF p
<1> SUFFICES ASSUME NEW i \in DOMAIN p, NEW j \in DOMAIN p, i < j, p[i] \in X, p[j] \in X
             PROVE  FALSE
  BY DEF Apart, p
<1>3. i # n /\ j # n
  BY <1>2
<1>4. /\ i < n => i \in DOMAIN q /\ p[i] = q[i]
      /\ i > n => i - 1 \in DOMAIN q /\ p[i] = q[i - 1]
      /\ j < n => j \in DOMAIN q /\ p[j] = q[j]
      /\ j > n => j - 1 \in DOMAIN q /\ p[j] = q[j - 1]
  BY <1>1, <1>2
<1>5. CASE j < n
  BY <1>1, <1>2, <1>4, <1>5 DEF Apart
<1>6. CASE i < n /\ j > n
  <2>1. i < j - 1 \/ i = n - 1
    BY <1>1, <1>2, <1>6
  <2>2. i < j - 1
    BY <1>1, <1>2, <1>6
  <2> QED
    BY <1>4, <1>6, <2>2 DEF Apart
<1>7. CASE i > n
  <2>1. i - 1 < j - 1 /\ j > n
    BY <1>1, <1>2, <1>7
  <2> QED
    BY <1>4, <1>7, <2>1 DEF Apart
<1> QED
  BY <1>1, <1>2, <1>3, <1>5, <1>6, <1>7

-----------------------------------------------------------------------------
(* Where the envelopes on a link lead to.                                  *)

\* Whether a hub that holds the client in the rooms of M will hold it in r
\* when it has read q, if the envelopes of S take the client out of r.
Ends(q, M, r, S) ==
    \/ \E i \in DOMAIN q : q[i] = JoinMsg(r) /\ \A j \in DOMAIN q : i < j => q[j] \notin S
    \/ r \in M /\ Range(q) \cap S = {}

\* The hub reads an envelope.
LEMMA EndsTail ==
    ASSUME NEW q \in Seq(ToHub), q # <<>>, NEW M, NEW N, NEW r, NEW S
    PROVE  /\ (r \in N => Head(q) = JoinMsg(r) \/ (r \in M /\ Head(q) \notin S))
                  => (Ends(Tail(q), N, r, S) => Ends(q, M, r, S))
           /\ (Head(q) = JoinMsg(r) \/ (r \in M /\ Head(q) \notin S) => r \in N)
                  => (Ends(q, M, r, S) => Ends(Tail(q), N, r, S))
<1> DEFINE p == Tail(q)
<1>1. DOMAIN q = 1..Len(q) /\ Len(q) \in Nat
  BY LenProperties
<1>2. /\ Len(q) # 0 /\ Head(q) = q[1] /\ DOMAIN p = 1..(Len(q) - 1)
      /\ \A i \in 1..(Len(q) - 1) : p[i] = q[i + 1]
  <2>1. Len(q) # 0
    BY EmptySeq
  <2>2. p \in Seq(ToHub) /\ Len(p) = Len(q) - 1 /\ \A i \in 1..Len(p) : p[i] = q[i + 1]
    BY HeadTailProperties
  <2> QED
    BY <2>1, <2>2, LenProperties
<1> HIDE DEF p
<1>3. \A i \in DOMAIN p : i + 1 \in DOMAIN q /\ p[i] = q[i + 1]
  BY <1>1, <1>2
<1>4. \A i \in DOMAIN q : i # 1 => i - 1 \in DOMAIN p /\ q[i] = p[i - 1] /\ 1 < i
  <2> SUFFICES ASSUME NEW i \in DOMAIN q, i # 1
               PROVE  i - 1 \in DOMAIN p /\ q[i] = p[i - 1] /\ 1 < i
    OBVIOUS
  <2>1. i - 1 \in 1..(Len(q) - 1) /\ (i - 1) + 1 = i
    BY <1>1
  <2> QED
    BY <1>1, <1>2, <2>1
<1>5. 1 \in DOMAIN q /\ \A i \in DOMAIN p : 1 < i + 1 /\ i \in Int
  BY <1>1, <1>2
<1>6. ASSUME r \in N => Head(q) = JoinMsg(r) \/ (r \in M /\ Head(q) \notin S), Ends(p, N, r, S)
      PROVE  Ends(q, M, r, S)
  <2>1. CASE \E i \in DOMAIN p : p[i] = JoinMsg(r) /\ \A j \in DOMAIN p : i < j => p[j] \notin S
    <3>1. PICK i \in DOMAIN p : p[i] = JoinMsg(r) /\ \A j \in DOMAIN p : i < j => p[j] \notin S
      BY <2>1
    <3>2. ASSUME NEW j \in DOMAIN q, i + 1 < j PROVE q[j] \notin S
      <4>1. j - 1 \in DOMAIN p /\ q[j] = p[j - 1] /\ i < j - 1
        BY <1>1, <1>2, <1>4, <1>5, <3>2
      <4> QED
        BY <3>1, <4>1
    <3> QED
      BY <1>3, <3>1, <3>2 DEF Ends
  <2>2. CASE r \in N /\ Range(p) \cap S = {}
    <3>1. \A j \in DOMAIN q : 1 < j => q[j] \notin S
      <4> SUFFICES ASSUME NEW j \in DOMAIN q, 1 < j PROVE q[j] \notin S
        OBVIOUS
      <4>1. j - 1 \in DOMAIN p /\ q[j] = p[j - 1]
        BY <1>4
      <4> QED
        BY <2>2, <4>1 DEF Range
    <3>2. CASE q[1] = JoinMsg(r)
      BY <1>5, <3>1, <3>2 DEF Ends
    <3>3. CASE r \in M /\ q[1] \notin S
      <4>1. \A j \in DOMAIN q : q[j] \notin S
        BY <1>4, <3>1, <3>3
      <4> QED
        BY <3>3, <4>1 DEF Ends, Range
    <3> QED
      BY <1>2, <1>6, <2>2, <3>2, <3>3
  <2> QED
    BY <1>6, <2>1, <2>2 DEF Ends
<1>7. ASSUME Head(q) = JoinMsg(r) \/ (r \in M /\ Head(q) \notin S) => r \in N, Ends(q, M, r, S)
      PROVE  Ends(p, N, r, S)
  <2>1. ASSUME NEW i \in DOMAIN q, q[i] = JoinMsg(r), \A j \in DOMAIN q : i < j => q[j] \notin S
        PROVE  Ends(p, N, r, S)
    <3>1. ASSUME NEW j \in DOMAIN p, i < j + 1 PROVE p[j] \notin S
      BY <1>3, <2>1, <3>1
    <3>2. CASE i = 1
      <4>1. Range(p) \cap S = {}
        BY <1>5, <3>1, <3>2 DEF Range
      <4> QED
        BY <1>2, <1>7, <2>1, <3>2, <4>1 DEF Ends
    <3>3. CASE i # 1
      <4>1. i - 1 \in DOMAIN p /\ p[i - 1] = JoinMsg(r)
        BY <1>4, <2>1, <3>3
      <4>2. \A j \in DOMAIN p : i - 1 < j => i < j + 1
        BY <1>1, <1>2
      <4> QED
        BY <3>1, <4>1, <4>2 DEF Ends
    <3> QED
      BY <3>2, <3>3
  <2>2. ASSUME r \in M, Range(q) \cap S = {} PROVE Ends(p, N, r, S)
    <3>1. Head(q) \notin S /\ Range(p) \cap S = {}
      BY <1>2, <1>3, <1>5, <2>2 DEF Range
    <3> QED
      BY <1>7, <2>2, <3>1 DEF Ends
  <2> QED
    BY <1>7, <2>1, <2>2 DEF Ends
<1> QED
  BY <1>6, <1>7 DEF p

\* The client sends more.
LEMMA EndsConcat ==
    ASSUME NEW q \in Seq(ToHub), NEW t \in Seq(ToHub), NEW M, NEW r, NEW S
    PROVE  /\ JoinMsg(r) \notin Range(t) /\ Ends(q \o t, M, r, S) =>
                  Ends(q, M, r, S) /\ Range(t) \cap S = {}
           /\ Range(t) \cap S = {} /\ (Ends(q, M, r, S) \/ JoinMsg(r) \in Range(t)) =>
                  Ends(q \o t, M, r, S)
<1> DEFINE p == q \o t
           n == Len(q)
<1>1. DOMAIN q = 1..n /\ n \in Nat /\ DOMAIN t = 1..Len(t) /\ Len(t) \in Nat
  BY LenProperties
<1>2. /\ DOMAIN p = 1..(n + Len(t))
      /\ \A i \in 1..(n + Len(t)) : p[i] = IF i <= n THEN q[i] ELSE t[i - n]
  BY ConcatProperties, LenProperties
<1> HIDE DEF p, n
<1>3. \A i \in DOMAIN q : i \in DOMAIN p /\ p[i] = q[i] /\ i \in Int /\ i <= n
  BY <1>1, <1>2
<1>4. \A i \in DOMAIN t : n + i \in DOMAIN p /\ p[n + i] = t[i] /\ i \in Int /\ 0 < i
  BY <1>1, <1>2
<1>5. ASSUME NEW i \in DOMAIN p, i \notin DOMAIN q PROVE i - n \in DOMAIN t /\ p[i] = t[i - n] /\ n < i
  <2>1. i \in 1..(n + Len(t)) /\ ~(i <= n)
    BY <1>1, <1>2, <1>5
  <2> QED
    BY <1>1, <1>2, <2>1
<1>6. ASSUME JoinMsg(r) \notin Range(t), Ends(p, M, r, S)
      PROVE  Ends(q, M, r, S) /\ Range(t) \cap S = {}
  <2>1. ASSUME NEW i \in DOMAIN p, p[i] = JoinMsg(r), \A j \in DOMAIN p : i < j => p[j] \notin S
        PROVE  Ends(q, M, r, S) /\ Range(t) \cap S = {}
    <3>1. i \in DOMAIN q
      BY <1>5, <1>6, <2>1 DEF Range
    <3>2. \A j \in DOMAIN q : i < j => q[j] \notin S
      BY <1>3, <2>1
    <3>3. \A j \in DOMAIN t : t[j] \notin S
      <4> SUFFICES ASSUME NEW j \in DOMAIN t PROVE t[j] \notin S
        OBVIOUS
      <4>1. i < n + j
        BY <1>1, <1>3, <1>4, <3>1
      <4> QED
        BY <1>4, <2>1, <4>1
    <3> QED
      BY <1>3, <2>1, <3>1, <3>2, <3>3 DEF Ends, Range
  <2>2. ASSUME r \in M, Range(p) \cap S = {}
        PROVE  Ends(q, M, r, S) /\ Range(t) \cap S = {}
    <3>1. Range(q) \subseteq Range(p) /\ Range(t) \subseteq Range(p)
      BY <1>3, <1>4 DEF Range
    <3> QED
      BY <2>2, <3>1 DEF Ends
  <2> QED
    BY <1>6, <2>1, <2>2 DEF Ends
<1>7. ASSUME Range(t) \cap S = {}, Ends(q, M, r, S) \/ JoinMsg(r) \in Range(t)
      PROVE  Ends(p, M, r, S)
  <2>0. \A j \in DOMAIN p : j \notin DOMAIN q => p[j] \notin S
    BY <1>5, <1>7 DEF Range
  <2>1. CASE JoinMsg(r) \in Range(t)
    <3>1. PICK i \in DOMAIN t : t[i] = JoinMsg(r)
      BY <2>1 DEF Range
    <3>2. ASSUME NEW j \in DOMAIN p, n + i < j PROVE p[j] \notin S
      <4>1. j \notin DOMAIN q
        BY <1>1, <1>4, <3>2
      <4> QED
        BY <2>0, <4>1
    <3> QED
      BY <1>4, <3>1, <3>2 DEF Ends
  <2>2. CASE \E i \in DOMAIN q : q[i] = JoinMsg(r) /\ \A j \in DOMAIN q : i < j => q[j] \notin S
    BY <1>3, <2>0, <2>2 DEF Ends
  <2>3. CASE r \in M /\ Range(q) \cap S = {}
    <3>1. \A j \in DOMAIN p : p[j] \notin S
      BY <1>3, <2>0, <2>3 DEF Range
    <3> QED
      BY <2>3, <3>1 DEF Ends, Range
  <2> QED
    BY <1>7, <2>1, <2>2, <2>3 DEF Ends
<1> QED
  BY <1>6, <1>7 DEF p

\* An order in which what is sent has no part is kept.
LEMMA ConcatOrder ==
    ASSUME NEW q \in Seq(ToHub), NEW t \in Seq(ToHub), NEW X, NEW Y,
           Apart(q, X, Y), Range(t) \cap Y = {}
    PROVE  Apart(q \o t, X, Y)
<1> DEFINE p == q \o t
           n == Len(q)
<1>1. DOMAIN q = 1..n /\ n \in Nat /\ DOMAIN t = 1..Len(t) /\ Len(t) \in Nat
  BY LenProperties
<1>2. /\ DOMAIN p = 1..(n + Len(t))
      /\ \A i \in 1..(n + Len(t)) : p[i] = IF i <= n THEN q[i] ELSE t[i - n]
  BY ConcatProperties, LenProperties
<1> HIDE DEF p, n
<1> SUFFICES ASSUME NEW i \in DOMAIN p, NEW j \in DOMAIN p, i < j, p[i] \in X
             PROVE  p[j] \notin Y
  BY DEF p, Apart
<1>3. CASE j <= n
  BY <1>1, <1>2, <1>3 DEF Apart
<1>4. CASE ~(j <= n)
  <2>1. j - n \in DOMAIN t /\ p[j] = t[j - n]
    BY <1>1, <1>2, <1>4
  <2> QED
    BY <2>1 DEF Range
<1> QED
  BY <1>3, <1>4

-----------------------------------------------------------------------------
(* What one handler of the main loop does about one room.                  *)

Asks(r) == {RoomCmd("join", r), RoomCmd("part", r)}
Kind(k) == {e \in Event : e.kind = k}
Frames(type) == {e \in Event : e.kind = "frame" /\ e.frame.type = type}
Says(type, r) == {e \in Event : e.kind = "frame" /\ e.frame.type = type /\ e.frame.room = r}

Same(s, t, r) == /\ r \in t.rooms <=> r \in s.rooms
                 /\ r \in t.pendingJoins <=> r \in s.pendingJoins
                 /\ r \in t.pendingParts <=> r \in s.pendingParts

\* Nothing about r, whatever the entry in hand.
Passes(tx, r) ==
    /\ Same(session, session', r) /\ (r \in wanted' <=> r \in wanted)
    /\ JoinMsg(r) \notin Range(tx) /\ PartMsg(r) \notin Range(tx)
    /\ Head(events) \notin Asks(r)
    /\ Head(events) \in Says("JOINED", r) => r \notin session.pendingJoins
    /\ Head(events) \in Says("PARTED", r) => r \notin session.pendingParts
    /\ Head(events) \in Frames("WELCOME") /\ r \in wanted =>
           r \in session.rooms \/ Refuses(Welcomed(session, Head(events).frame.limits), r)

\* join wants it and asks for nothing, being in it or refused.
Declines(tx, r) ==
    /\ Head(events) = RoomCmd("join", r)
    /\ Same(session, session', r) /\ r \in wanted'
    /\ JoinMsg(r) \notin Range(tx) /\ PartMsg(r) \notin Range(tx)
    /\ r \in session.rooms \/ Refuses(session, r)

\* join or _rejoin asks for it.
AsksFor(tx, r) ==
    /\ \/ Head(events) = RoomCmd("join", r)
       \/ /\ Head(events) \in Frames("WELCOME") /\ r \in wanted
          /\ ~Refuses(Welcomed(session, Head(events).frame.limits), r)
    /\ r \notin session.rooms /\ r \notin session'.rooms
    /\ r \in session'.pendingJoins /\ r \in wanted'
    /\ r \in session'.pendingParts <=> r \in session.pendingParts
    /\ JoinMsg(r) \in Range(tx) /\ PartMsg(r) \notin Range(tx)

\* part.
GivesUp(tx, r) ==
    /\ Head(events) = RoomCmd("part", r)
    /\ r \in session'.rooms <=> r \in session.rooms
    /\ r \in session'.pendingJoins <=> r \in session.pendingJoins
    /\ r \in session'.pendingParts /\ r \notin wanted'
    /\ Range(tx) = {PartMsg(r)}

\* _on_joined and _on_parted take the frame for the answer.
Enters(tx, r) ==
    /\ Head(events) \in Says("JOINED", r) /\ r \in session.pendingJoins
    /\ r \in session'.rooms /\ r \notin session'.pendingJoins
    /\ r \in session'.pendingParts <=> r \in session.pendingParts
    /\ r \in wanted' <=> r \in wanted
    /\ JoinMsg(r) \notin Range(tx) /\ PartMsg(r) \notin Range(tx)

Leaves(tx, r) ==
    /\ Head(events) \in Says("PARTED", r) /\ r \in session.pendingParts
    /\ r \notin session'.rooms /\ r \notin session'.pendingParts
    /\ r \in session'.pendingJoins <=> r \in session.pendingJoins
    /\ r \in wanted' <=> r \in wanted
    /\ JoinMsg(r) \notin Range(tx) /\ PartMsg(r) \notin Range(tx)

RoomStep(tx, r) == \/ Passes(tx, r) \/ Declines(tx, r) \/ AsksFor(tx, r)
                   \/ GivesUp(tx, r) \/ Enters(tx, r) \/ Leaves(tx, r)

\* The entry in hand is one for which HELLO is sent.
Greets == Head(events).kind = "up" \/ (Head(events).kind = "hello" /\ ~session.ready)

\* What it does whatever the room: readiness, HELLO and the limits.
SessionStep(tx) ==
    /\ session'.ready <=> session.ready \/ Head(events) \in Frames("WELCOME")
    /\ Hello \in Range(tx) => Greets
    /\ session'.limits = session.limits \/ session'.limits \in Advertised

\* The envelopes tx are put on the link in hand, if that is up.
Carried(tx) ==
    \A l \in Link :
        toHub'[l] = IF l = hub /\ status[l] = "active" THEN toHub[l] \o tx ELSE toHub[l]

\* Calls that leave rooms, requests, readiness and limits alone.
Calm(s, o) ==
    /\ o.session.rooms = s.rooms /\ o.session.pendingJoins = s.pendingJoins
    /\ o.session.pendingParts = s.pendingParts
    /\ o.session.ready = s.ready /\ o.session.limits = s.limits
    /\ Range(o.tx) \subseteq Chatter \cup {PingMsg(t) : t \in Token}

\* Talk, a nickname, HELLO and a ping are such calls
LEMMA CalmCalls ==
    ASSUME NEW s \in Session, NEW fits \in BOOLEAN
    PROVE  /\ Calm(s, Start(s)) /\ Calm(s, SayDirect(s, fits))
           /\ \A r \in Room : Calm(s, Say(s, r, fits))
           /\ \A n \in Nick : Calm(s, SetNick(s, n, fits))
           /\ \A t \in Token : Calm(s, Ping(s, t))
<1>1. \A m \in Chatter : Calm(s, Transmit(s, m))
  BY RangesOfCalls DEF Calm, Transmit, Outcome
<1>2. ASSUME NEW t, NEW e, t.rooms = s.rooms, t.pendingJoins = s.pendingJoins,
             t.pendingParts = s.pendingParts, t.ready = s.ready, t.limits = s.limits
      PROVE  Calm(s, Emit(t, e))
  BY <1>2, RangesOfCalls DEF Calm, Emit, Outcome
<1>3. \A c : Calm(s, Fail(s, c))
  BY <1>2 DEF Fail
<1>4. Calm(s, Start(s)) /\ Calm(s, SayDirect(s, fits))
  BY <1>1, <1>3 DEF Start, SayDirect, Chatter
<1>5. \A r \in Room : Calm(s, Say(s, r, fits))
  BY <1>1, <1>3 DEF Say, Chatter
<1>6. ASSUME NEW n \in Nick PROVE Calm(s, SetNick(s, n, fits))
  <2> DEFINE t == [s EXCEPT !.nick = n]
  <2>1. /\ t.rooms = s.rooms /\ t.pendingJoins = s.pendingJoins /\ t.pendingParts = s.pendingParts
        /\ t.ready = s.ready /\ t.limits = s.limits
    BY DEF Session
  <2> HIDE DEF t
  <2>2. Calm(s, Emit(t, Plain("nick")))
    BY <1>2, <2>1
  <2> QED
    BY <1>3, <2>2 DEF SetNick, t
<1>7. ASSUME NEW t \in Token PROVE Calm(s, Ping(s, t))
  <2>1. Ping(s, t).session = [s EXCEPT !.pings = @ \cup {t}] /\ Ping(s, t).tx = <<PingMsg(t)>>
    BY DEF Ping, Transmit, Outcome
  <2> QED
    BY <2>1, RangesOfCalls DEF Calm, Session
<1> QED
  BY <1>4, <1>5, <1>6, <1>7

\* ... and so is what the session does on most frames.
LEMMA CalmFrames ==
    ASSUME NEW s \in Session, NEW f \in FromHub, f.type # "WELCOME",
           f.type = "JOINED" => f.room \notin s.pendingJoins,
           f.type = "PARTED" => f.room \notin s.pendingParts
    PROVE  Calm(s, OnFrame(s, f)) /\ Hello \notin Range(OnFrame(s, f).tx)
<1> DEFINE Fit(o) == Calm(s, o) /\ Hello \notin Range(o.tx)
<1>1. ASSUME NEW t, NEW e, t.rooms = s.rooms, t.pendingJoins = s.pendingJoins,
             t.pendingParts = s.pendingParts, t.ready = s.ready, t.limits = s.limits
      PROVE  Fit(Emit(t, e))
  BY <1>1, RangesOfCalls DEF Calm, Emit, Outcome
<1>2. Fit(Silently(s))
  BY RangesOfCalls DEF Calm, Silently, Outcome
<1>3. Fit(Transmit(s, PongMsg))
  <2>1. PongMsg # Hello /\ PongMsg \in Chatter
    BY DEF PongMsg, Hello, Chatter
  <2> QED
    BY <2>1, RangesOfCalls DEF Calm, Transmit, Outcome
<1> HIDE DEF Fit
<1>4. \A e : Fit(Emit(s, e))
  BY <1>1
<1>5. CASE f.type = "JOINED"
  BY <1>4, <1>5 DEF OnFrame, OnJoined, Fit
<1>6. CASE f.type = "PARTED"
  BY <1>4, <1>6 DEF OnFrame, OnParted, Fit
<1>7. CASE f.type = "PONG"
  <2> DEFINE t == [s EXCEPT !.pings = @ \ {f.token}]
  <2>1. /\ t.rooms = s.rooms /\ t.pendingJoins = s.pendingJoins /\ t.pendingParts = s.pendingParts
        /\ t.ready = s.ready /\ t.limits = s.limits
    BY DEF Session
  <2> HIDE DEF t
  <2>2. Fit(Emit(t, Plain("pong")))
    BY <1>1, <2>1
  <2> QED
    BY <1>2, <1>7, <2>2 DEF OnFrame, OnPong, Fit, t
<1>8. CASE f.type \notin {"JOINED", "PARTED", "PONG"}
  BY <1>2, <1>3, <1>4, <1>8 DEF OnFrame, Fail, Fit
<1> QED
  BY <1>5, <1>6, <1>7, <1>8 DEF Fit

\* Which envelopes are on the link for the rooms asked for.
LEMMA OrdersAll ==
    ASSUME NEW S \in SUBSET Room, NEW q \in Orders(S)
    PROVE  q \in Seq(S) /\ Range(q) = S
<1>1. IsFiniteSet(S) /\ Cardinality(S) \in Nat
  BY RoomsFinite, FS_Subset, FS_CardinalityType
<1> DEFINE n == Cardinality(S)
<1>2. q \in [1..n -> S] /\ DOMAIN q = 1..n /\ \A i, j \in DOMAIN q : q[i] = q[j] => i = j
  BY DEF Orders
<1>3. IsFiniteSet(1..n) /\ Cardinality(1..n) = n
  BY <1>1, FS_Interval
<1>4. q \in Injection(1..n, S)
  BY <1>2 DEF Injection, IsInjective
<1>5. q \in Surjection(1..n, S)
  BY <1>1, <1>3, <1>4, FS_Injection
<1>6. Range(q) = S
  BY <1>2, <1>5 DEF Surjection, Range
<1> QED
  BY <1>1, <1>2, <1>6, IsASeq

\* join for a set of rooms remembers the ones it asks for, and asks for all.
LEMMA JoinAllRooms ==
    ASSUME NEW s \in Session, NEW names \in SUBSET Room, NEW q \in Orders(Asked(s, names))
    PROVE  LET o == JoinAll(s, names, q)
           IN  /\ o.session.rooms = s.rooms /\ o.session.pendingParts = s.pendingParts
               /\ o.session.pendingJoins = s.pendingJoins \cup Asked(s, names)
               /\ o.session.ready = s.ready /\ o.session.limits = s.limits
               /\ Range(o.tx) = {JoinMsg(r) : r \in Asked(s, names)}
<1> DEFINE o == JoinAll(s, names, q)
           S == Asked(s, names)
<1>1. S \in SUBSET Room
  BY DEF Asked
<1>2. /\ o.session = [s EXCEPT !.pendingJoins = @ \cup S]
      /\ o.tx = [i \in DOMAIN q |-> JoinMsg(q[i])]
  BY DEF JoinAll, Outcome
<1> HIDE DEF S
<1>3. Range(q) = S
  BY <1>1, OrdersAll DEF S
<1>4. Range(o.tx) = {JoinMsg(r) : r \in S}
  BY <1>2, <1>3 DEF Range
<1>5. /\ o.session.rooms = s.rooms /\ o.session.pendingParts = s.pendingParts
      /\ o.session.pendingJoins = s.pendingJoins \cup S
      /\ o.session.ready = s.ready /\ o.session.limits = s.limits
  BY <1>2 DEF Session
<1> QED
  BY <1>4, <1>5 DEF S

\* One room is a case of it.
LEMMA JoinRoomRooms ==
    ASSUME NEW s \in Session, NEW r \in Room
    PROVE  LET o == JoinRoom(s, r)
           IN  /\ o.session.rooms = s.rooms /\ o.session.pendingParts = s.pendingParts
               /\ o.session.pendingJoins = s.pendingJoins \cup Asked(s, {r})
               /\ o.session.ready = s.ready /\ o.session.limits = s.limits
               /\ Range(o.tx) = {JoinMsg(x) : x \in Asked(s, {r})}
<1> DEFINE S == Asked(s, {r})
           q == IF S = {} THEN <<>> ELSE <<r>>
           o == JoinAll(s, {r}, q)
<1>1. S = {} \/ S = {r}
  BY DEF Asked
<1>2. Range(q) = S
  BY <1>1, RangesOfCalls
<1>3. /\ o.session = [s EXCEPT !.pendingJoins = @ \cup S]
      /\ o.tx = [i \in DOMAIN q |-> JoinMsg(q[i])]
  BY DEF JoinAll, Outcome
<1>4. JoinRoom(s, r) = o
  BY DEF JoinRoom
<1> HIDE DEF q, S, o
<1>5. Range(o.tx) = {JoinMsg(x) : x \in S}
  BY <1>2, <1>3 DEF Range
<1>6. /\ o.session.rooms = s.rooms /\ o.session.pendingParts = s.pendingParts
      /\ o.session.pendingJoins = s.pendingJoins \cup S
      /\ o.session.ready = s.ready /\ o.session.limits = s.limits
  BY <1>3 DEF Session
<1> QED
  BY <1>4, <1>5, <1>6 DEF S

\* Entries and envelopes for two rooms, or of two kinds, are not the same.
LEMMA EntriesDiffer ==
    /\ \A r, x : JoinMsg(r) = JoinMsg(x) => r = x
    /\ \A r, x : PartMsg(r) = PartMsg(x) => r = x
    /\ \A r, x : JoinMsg(r) # PartMsg(x)
    /\ \A r, m : m \in Chatter \cup {PingMsg(t) : t \in Token} => m # JoinMsg(r) /\ m # PartMsg(r)
    /\ \A r : Hello # JoinMsg(r) /\ Hello # PartMsg(r)
    /\ \A t : Hello # PingMsg(t)
    /\ \A r, x : RoomCmd("join", r) # RoomCmd("part", x)
    /\ \A op, r, x : RoomCmd(op, r) = RoomCmd(op, x) => r = x
    /\ \A e, r : e \in Asks(r) => e.kind = "cmd" /\ e.op \in {"join", "part"}
    /\ \A e, r, type : e \in Says(type, r) => e.kind = "frame" /\ e.frame.type = type
    /\ \A e, type : e \in Frames(type) => e.kind = "frame" /\ e.frame.type = type
<1>1. /\ \A r, x : JoinMsg(r) = JoinMsg(x) => r = x
      /\ \A r, x : PartMsg(r) = PartMsg(x) => r = x
      /\ \A r, x : JoinMsg(r) # PartMsg(x)
      /\ \A r : Hello # JoinMsg(r) /\ Hello # PartMsg(r)
      /\ \A t : Hello # PingMsg(t)
  BY DEF JoinMsg, PartMsg, Hello, PingMsg
<1>2. \A r, m : m \in Chatter \cup {PingMsg(t) : t \in Token} => m # JoinMsg(r) /\ m # PartMsg(r)
  BY DEF JoinMsg, PartMsg, Chatter, Hello, Direct, PongMsg, Chat, PingMsg
<1>3. /\ \A r, x : RoomCmd("join", r) # RoomCmd("part", x)
      /\ \A op, r, x : RoomCmd(op, r) = RoomCmd(op, x) => r = x
      /\ \A e, r : e \in Asks(r) => e.kind = "cmd" /\ e.op \in {"join", "part"}
  BY DEF RoomCmd, Asks
<1> QED
  BY <1>1, <1>2, <1>3 DEF Says, Frames

\* A room command is the one the user gave.
LEMMA HeadRequest ==
    ASSUME TypeOK, NEW op \in {"join", "part"}, Command(op)
    PROVE  /\ Head(events) = RoomCmd(op, Head(events).room) /\ Head(events).room \in Room
           /\ Head(events).kind = "cmd"
<1>1. Head(events) \in Event /\ Head(events).kind = "cmd" /\ Head(events).op = op
  BY EntryType DEF Command, Next1
<1>2. Head(events) \in Requests
  BY <1>1, ConnectsKnown DEF Event, LinkEvent, Connect, Eof, Retry, HelloDue, Up, Down
<1> QED
  BY <1>1, <1>2 DEF Requests, RoomCmd, Cmd

\* A calm call passes every room by.
LEMMA CalmSteps ==
    ASSUME NEW o, session' = o.session, wanted' = wanted, Calm(session, o),
           Hello \in Range(o.tx) => Greets,
           \A r : Head(events) \notin Asks(r), Head(events) \notin Frames("WELCOME"),
           \A r : /\ Head(events) \in Says("JOINED", r) => r \notin session.pendingJoins
                  /\ Head(events) \in Says("PARTED", r) => r \notin session.pendingParts
    PROVE  SessionStep(o.tx) /\ \A r \in Room : RoomStep(o.tx, r)
<1>1. SessionStep(o.tx)
  BY DEF Calm, SessionStep
<1>2. \A r : JoinMsg(r) \notin Range(o.tx) /\ PartMsg(r) \notin Range(o.tx)
  BY EntriesDiffer DEF Calm
<1>3. \A r : Same(session, session', r)
  BY DEF Calm, Same
<1> QED
  BY <1>1, <1>2, <1>3 DEF Passes, RoomStep

\* What the hub is sent, the session's step and each room's.
Does == \E tx \in Seq(ToHub) :
            Carried(tx) /\ SessionStep(tx) /\ \A r \in Room : RoomStep(tx, r)

\* join, of one room.
LEMMA CmdJoinSteps ==
    ASSUME TypeOK, session # NoSession, CmdJoin
    PROVE  Does
<1> DEFINE x == Head(events).room
           o == JoinRoom(session, x)
<1>1. /\ Head(events) = RoomCmd("join", x) /\ x \in Room /\ Head(events).kind = "cmd"
      /\ session \in Session
  BY HeadRequest DEF CmdJoin, TypeOK
<1>2. session' = o.session /\ Send(hub, o.tx) /\ wanted' = wanted \cup {x}
  BY DEF CmdJoin, WithSession, Perform
<1>3. /\ o.session.rooms = session.rooms /\ o.session.pendingParts = session.pendingParts
      /\ o.session.pendingJoins = session.pendingJoins \cup Asked(session, {x})
      /\ o.session.ready = session.ready /\ o.session.limits = session.limits
      /\ Range(o.tx) = {JoinMsg(y) : y \in Asked(session, {x})}
  BY <1>1, JoinRoomRooms
<1>4. o.tx \in Seq(ToHub)
  BY <1>1, JoinRoomType DEF Outcomes
<1> HIDE DEF x, o
<1>5. Carried(o.tx)
  BY <1>2, <1>4, SendIs DEF Carried
<1>6. Head(events) \notin Frames("WELCOME") /\ \A r, type : Head(events) \notin Says(type, r)
  BY <1>1, EntriesDiffer
<1>7. SessionStep(o.tx)
  <2>1. Hello \notin Range(o.tx)
    BY <1>3, EntriesDiffer
  <2> QED
    BY <1>2, <1>3, <1>6, <2>1 DEF SessionStep
<1>8. ASSUME NEW r \in Room PROVE RoomStep(o.tx, r)
  <2>1. PartMsg(r) \notin Range(o.tx)
    BY <1>3, EntriesDiffer
  <2>2. JoinMsg(r) \in Range(o.tx) <=> r \in Asked(session, {x})
    BY <1>3, EntriesDiffer
  <2>3. CASE r # x
    <3>1. r \notin Asked(session, {x})
      BY <2>3 DEF Asked
    <3>2. Same(session, session', r) /\ (r \in wanted' <=> r \in wanted)
      BY <1>2, <1>3, <2>3, <3>1 DEF Same
    <3>3. Head(events) \notin Asks(r)
      BY <1>1, <2>3, EntriesDiffer DEF Asks
    <3> QED
      BY <1>6, <2>1, <2>2, <3>1, <3>2, <3>3 DEF Passes, RoomStep
  <2>4. CASE r = x /\ r \in Asked(session, {x})
    <3>1. r \notin session.rooms
      BY <2>4 DEF Asked
    <3> QED
      BY <1>1, <1>2, <1>3, <2>1, <2>2, <2>4, <3>1 DEF AsksFor, RoomStep
  <2>5. CASE r = x /\ r \notin Asked(session, {x})
    <3>1. r \in session.rooms \/ Refuses(session, r)
      BY <2>5 DEF Asked
    <3>2. Same(session, session', r)
      BY <1>2, <1>3, <2>5 DEF Same
    <3> QED
      BY <1>1, <1>2, <2>1, <2>2, <2>5, <3>1, <3>2 DEF Declines, RoomStep
  <2> QED
    BY <2>3, <2>4, <2>5
<1> QED
  BY <1>4, <1>5, <1>7, <1>8 DEF Does

\* part, of one room.
LEMMA CmdPartSteps ==
    ASSUME TypeOK, session # NoSession, CmdPart
    PROVE  Does
<1> DEFINE x == Head(events).room
           o == PartRoom(session, x)
<1>1. /\ Head(events) = RoomCmd("part", x) /\ x \in Room /\ Head(events).kind = "cmd"
      /\ session \in Session
  BY HeadRequest DEF CmdPart, TypeOK
<1>2. session' = o.session /\ Send(hub, o.tx) /\ wanted' = wanted \ {x}
  BY DEF CmdPart, WithSession, Perform
<1>3. /\ o.session.rooms = session.rooms /\ o.session.pendingJoins = session.pendingJoins
      /\ o.session.pendingParts = session.pendingParts \cup {x}
      /\ o.session.ready = session.ready /\ o.session.limits = session.limits
      /\ Range(o.tx) = {PartMsg(x)}
  <2>1. /\ o.session = [session EXCEPT !.pendingParts = @ \cup {x}]
        /\ o.tx = <<PartMsg(x)>>
    BY DEF PartRoom, Transmit, Outcome
  <2> QED
    BY <1>1, <2>1, RangesOfCalls DEF Session
<1>4. o.tx \in Seq(ToHub)
  BY <1>1, PartRoomType DEF Outcomes
<1> HIDE DEF x, o
<1>5. Carried(o.tx)
  BY <1>2, <1>4, SendIs DEF Carried
<1>6. Head(events) \notin Frames("WELCOME") /\ \A r, type : Head(events) \notin Says(type, r)
  BY <1>1, EntriesDiffer
<1>7. SessionStep(o.tx)
  <2>1. Hello \notin Range(o.tx)
    BY <1>3, EntriesDiffer
  <2> QED
    BY <1>2, <1>3, <1>6, <2>1 DEF SessionStep
<1>8. ASSUME NEW r \in Room PROVE RoomStep(o.tx, r)
  <2>1. CASE r = x
    BY <1>1, <1>2, <1>3, <2>1 DEF GivesUp, RoomStep
  <2>2. CASE r # x
    <3>1. JoinMsg(r) \notin Range(o.tx) /\ PartMsg(r) \notin Range(o.tx)
      BY <1>3, <2>2, EntriesDiffer
    <3>2. Same(session, session', r) /\ (r \in wanted' <=> r \in wanted)
      BY <1>2, <1>3, <2>2 DEF Same
    <3>3. Head(events) \notin Asks(r)
      BY <1>1, <2>2, EntriesDiffer DEF Asks
    <3> QED
      BY <1>6, <3>1, <3>2, <3>3 DEF Passes, RoomStep
  <2> QED
    BY <2>1, <2>2
<1> QED
  BY <1>4, <1>5, <1>7, <1>8 DEF Does

\* WELCOME: _rejoin.
LEMMA WelcomeSteps ==
    ASSUME TypeOK, session # NoSession, wanted' = wanted,
           Head(events) \in Event, Head(events).kind = "frame",
           NEW f \in FromHub, f = Head(events).frame, f.type = "WELCOME",
           NEW q \in Orders(Asked(Welcomed(session, f.limits), wanted)),
           Perform(OnWelcome(session, f.limits, wanted, q), {})
    PROVE  Does
<1> DEFINE w == Welcomed(session, f.limits)
           S == Asked(w, wanted)
           o == OnWelcome(session, f.limits, wanted, q)
           p == JoinAll(w, wanted, q)
<1>1. session \in Session /\ wanted \in SUBSET Room /\ f.limits \in Advertised
  BY FrameFields DEF TypeOK
<1>2. /\ w \in Session /\ w.rooms = session.rooms /\ w.pendingJoins = session.pendingJoins
      /\ w.pendingParts = session.pendingParts /\ w.ready = TRUE /\ w.limits = f.limits
  BY <1>1, WelcomedType DEF Welcomed, Session
<1>3. session' = o.session /\ Send(hub, o.tx) /\ o.session = p.session /\ o.tx = p.tx
  BY DEF Perform, OnWelcome, Outcome
<1>4. o.tx \in Seq(ToHub)
  BY <1>1, OnWelcomeType DEF Outcomes
<1> HIDE DEF w
<1>5. /\ p.session.rooms = w.rooms /\ p.session.pendingParts = w.pendingParts
      /\ p.session.pendingJoins = w.pendingJoins \cup S
      /\ p.session.ready = w.ready /\ p.session.limits = w.limits
      /\ Range(p.tx) = {JoinMsg(r) : r \in S}
  BY <1>1, <1>2, JoinAllRooms DEF w
<1>6. S \subseteq wanted /\ \A r \in wanted : r \in S <=> r \notin session.rooms /\ ~Refuses(w, r)
  BY <1>2 DEF Asked
<1> HIDE DEF S, o, p
<1>7. Carried(o.tx)
  BY <1>3, <1>4, SendIs DEF Carried
<1>8. /\ Head(events) \in Frames("WELCOME") /\ \A r : Head(events) \notin Asks(r)
      /\ \A r : Head(events) \notin Says("JOINED", r) /\ Head(events) \notin Says("PARTED", r)
  <2>1. Head(events) \in Frames("WELCOME")
    BY DEF Frames
  <2> QED
    BY <2>1, EntriesDiffer
<1>9. SessionStep(o.tx)
  <2>1. Hello \notin Range(o.tx)
    BY <1>3, <1>5, EntriesDiffer
  <2> QED
    BY <1>1, <1>2, <1>3, <1>5, <1>8, <2>1 DEF SessionStep
<1>10. ASSUME NEW r \in Room PROVE RoomStep(o.tx, r)
  <2>1. PartMsg(r) \notin Range(o.tx) /\ (JoinMsg(r) \in Range(o.tx) <=> r \in S)
    BY <1>3, <1>5, EntriesDiffer
  <2>2. CASE r \in S
    <3>1. r \in wanted /\ ~Refuses(Welcomed(session, Head(events).frame.limits), r)
      BY <1>6, <2>2 DEF w
    <3> QED
      BY <1>2, <1>3, <1>5, <1>6, <1>8, <2>1, <2>2, <3>1 DEF AsksFor, RoomStep
  <2>3. CASE r \notin S
    <3>1. Same(session, session', r)
      BY <1>2, <1>3, <1>5, <2>3 DEF Same
    <3>2. r \in wanted => r \in session.rooms \/ Refuses(Welcomed(session, Head(events).frame.limits), r)
      BY <1>6, <2>3 DEF w
    <3> QED
      BY <1>8, <2>1, <2>3, <3>1, <3>2 DEF Passes, RoomStep
  <2> QED
    BY <2>2, <2>3
<1> QED
  BY <1>4, <1>7, <1>9, <1>10 DEF Does

\* The answers to JOIN and PART.
LEMMA AnswerSteps ==
    ASSUME TypeOK, session # NoSession, wanted' = wanted,
           Head(events) \in Event, Head(events).kind = "frame",
           NEW f \in FromHub, f = Head(events).frame,
           \/ f.type = "JOINED" /\ f.room \in session.pendingJoins
           \/ f.type = "PARTED" /\ f.room \in session.pendingParts,
           Perform(OnFrame(session, f), {})
    PROVE  Does
<1> DEFINE x == f.room
           o == OnFrame(session, f)
           J == f.type = "JOINED"
<1>1. session \in Session /\ x \in Room
  BY FrameFields DEF TypeOK
<1>2. session' = o.session /\ Send(hub, o.tx) /\ o.tx = <<>>
  BY DEF Perform, OnFrame, OnJoined, OnParted, Emit, Outcome
<1>3. /\ o.session.ready = session.ready /\ o.session.limits = session.limits
      /\ J => /\ o.session.rooms = session.rooms \cup {x}
              /\ o.session.pendingJoins = session.pendingJoins \ {x}
              /\ o.session.pendingParts = session.pendingParts
      /\ ~J => /\ o.session.rooms = session.rooms \ {x}
               /\ o.session.pendingParts = session.pendingParts \ {x}
               /\ o.session.pendingJoins = session.pendingJoins
  <2>1. CASE J
    <3>1. o.session = [session EXCEPT !.pendingJoins = @ \ {x}, !.rooms = @ \cup {x}]
      BY <2>1 DEF OnFrame, OnJoined, Emit, Outcome
    <3> QED
      BY <1>1, <2>1, <3>1 DEF Session
  <2>2. CASE ~J
    <3>1. o.session = [session EXCEPT !.pendingParts = @ \ {x}, !.rooms = @ \ {x}]
      BY <2>2 DEF OnFrame, OnParted, Emit, Outcome
    <3> QED
      BY <1>1, <2>2, <3>1 DEF Session
  <2> QED
    BY <2>1, <2>2
<1>4. <<>> \in Seq(ToHub) /\ Range(<<>>) = {}
  BY RangesOfCalls
<1>5. /\ Head(events) \notin Frames("WELCOME") /\ \A r : Head(events) \notin Asks(r)
      /\ \A r : Head(events) \in Says("JOINED", r) <=> J /\ r = x
      /\ \A r : Head(events) \in Says("PARTED", r) <=> ~J /\ r = x
  BY EntriesDiffer DEF Says, Frames
<1> HIDE DEF x, o, J
<1>6. Carried(<<>>)
  BY <1>2, <1>4, SendIs DEF Carried
<1>7. SessionStep(<<>>)
  BY <1>2, <1>3, <1>4, <1>5 DEF SessionStep
<1>8. ASSUME NEW r \in Room PROVE RoomStep(<<>>, r)
  <2>1. CASE r # x
    <3>1. Same(session, session', r)
      BY <1>2, <1>3, <2>1 DEF Same
    <3> QED
      BY <1>4, <1>5, <2>1, <3>1 DEF Passes, RoomStep
  <2>2. CASE r = x /\ J
    <3>1. x \in session.pendingJoins
      BY <2>2 DEF x, J
    <3> QED
      BY <1>2, <1>3, <1>4, <1>5, <2>2, <3>1 DEF Enters, RoomStep
  <2>3. CASE r = x /\ ~J
    <3>1. x \in session.pendingParts
      BY <2>3 DEF x, J
    <3> QED
      BY <1>2, <1>3, <1>4, <1>5, <2>3, <3>1 DEF Leaves, RoomStep
  <2> QED
    BY <2>1, <2>2, <2>3
<1> QED
  BY <1>4, <1>6, <1>7, <1>8 DEF Does

\* Every handler that keeps the link.
LEMMA PlainSteps ==
    ASSUME TypeOK, session # NoSession, PlainHandler
    PROVE  Does
<1>1. session \in Session /\ events # <<>> /\ Head(events) \in Event
  BY PlainFacts, EntryType DEF TypeOK
<1>2. ASSUME NEW o \in Outcomes, Perform(o, {}) \/ \E more : Perform(o, more), wanted' = wanted,
             Calm(session, o), Hello \in Range(o.tx) => Greets,
             \A r : Head(events) \notin Asks(r), Head(events) \notin Frames("WELCOME"),
             \A r : /\ Head(events) \in Says("JOINED", r) => r \notin session.pendingJoins
                    /\ Head(events) \in Says("PARTED", r) => r \notin session.pendingParts
      PROVE  Does
  <2>1. session' = o.session /\ Send(hub, o.tx) /\ o.tx \in Seq(ToHub)
    BY <1>2 DEF Perform, Outcomes
  <2>2. Carried(o.tx)
    BY <2>1, SendIs DEF Carried
  <2>3. SessionStep(o.tx) /\ \A r \in Room : RoomStep(o.tx, r)
    BY <1>2, <2>1, CalmSteps
  <2> QED
    BY <2>1, <2>2, <2>3 DEF Does
<1>3. ASSUME session' = session, toHub' = toHub, wanted' = wanted,
             Head(events).kind # "frame", \A r : Head(events) \notin Asks(r)
      PROVE  Does
  <2> DEFINE o == Silently(session)
  <2>1. o.session = session /\ o.tx = <<>> /\ <<>> \in Seq(ToHub) /\ Range(<<>>) = {}
    BY RangesOfCalls DEF Silently, Outcome
  <2>2. Carried(<<>>)
    <3>1. \A l \in Link : toHub[l] \o <<>> = toHub[l]
      BY ConcatEmptySeq DEF TypeOK
    <3> QED
      BY <1>3, <3>1 DEF Carried
  <2>3. Calm(session, o)
    BY <2>1 DEF Calm
  <2>4. Head(events) \notin Frames("WELCOME") /\ \A r, type : Head(events) \notin Says(type, r)
    BY <1>3, EntriesDiffer
  <2> HIDE DEF o
  <2>5. SessionStep(o.tx) /\ \A r \in Room : RoomStep(o.tx, r)
    BY <1>3, <2>1, <2>3, <2>4, CalmSteps
  <2> QED
    BY <2>1, <2>2, <2>5 DEF Does
<1>4. ASSUME Head(events).kind # "frame", Head(events).kind = "cmd" => Head(events).op \notin {"join", "part"}
      PROVE  /\ \A r : Head(events) \notin Asks(r)
             /\ Head(events) \notin Frames("WELCOME")
             /\ \A r, type : Head(events) \notin Says(type, r)
  BY <1>4, EntriesDiffer
<1>5. ASSUME NEW o \in Outcomes, Calm(session, o), WithSession(o, wanted), Hello \notin Range(o.tx),
             Head(events).kind = "cmd", Head(events).op \notin {"join", "part"}
      PROVE  Does
  <2>1. Perform(o, {}) /\ wanted' = wanted
    BY <1>5 DEF WithSession
  <2> QED
    BY <1>2, <1>4, <1>5, <2>1
<1>6. CASE CmdJoin \/ CmdPart
  BY <1>6, CmdJoinSteps, CmdPartSteps
<1>7. CASE CmdSay
  <2>1. PICK fits \in BOOLEAN : WithSession(Say(session, Head(events).room, fits), wanted)
    BY <1>7 DEF CmdSay
  <2>2. Head(events).room \in Room /\ Head(events).kind = "cmd" /\ Head(events).op = "say"
    BY <1>7, CommandTypes DEF CmdSay, Command, Next1
  <2> DEFINE o == Say(session, Head(events).room, fits)
  <2>3. o \in Outcomes /\ Calm(session, o)
    BY <1>1, <2>2, TalkTypes, CalmCalls
  <2>4. Hello \notin Range(o.tx)
    <3>1. \A r : Hello # Chat(r)
      BY DEF Hello, Chat
    <3> QED
      BY <3>1, RangesOfCalls DEF Say, Transmit, Fail, Emit, Outcome
  <2> HIDE DEF o
  <2> QED
    BY <1>5, <2>1, <2>2, <2>3, <2>4 DEF o
<1>8. CASE CmdDirect
  <2>1. PICK fits \in BOOLEAN : WithSession(SayDirect(session, fits), wanted)
    BY <1>8 DEF CmdDirect
  <2>2. Head(events).kind = "cmd" /\ Head(events).op = "direct"
    BY <1>8 DEF CmdDirect, Command, Next1
  <2> DEFINE o == SayDirect(session, fits)
  <2>3. o \in Outcomes /\ Calm(session, o)
    BY <1>1, TalkTypes, CalmCalls
  <2>4. Hello \notin Range(o.tx)
    <3>1. Hello # Direct
      BY DEF Hello, Direct
    <3> QED
      BY <3>1, RangesOfCalls DEF SayDirect, Transmit, Fail, Emit, Outcome
  <2> HIDE DEF o
  <2> QED
    BY <1>5, <2>1, <2>2, <2>3, <2>4 DEF o
<1>9. CASE CmdNick
  <2>1. PICK n \in Nick, fits \in BOOLEAN : WithSession(SetNick(session, n, fits), wanted)
    BY <1>9 DEF CmdNick
  <2>2. Head(events).kind = "cmd" /\ Head(events).op = "nick"
    BY <1>9 DEF CmdNick, Command, Next1
  <2> DEFINE o == SetNick(session, n, fits)
  <2>3. o \in Outcomes /\ Calm(session, o)
    BY <1>1, TalkTypes, CalmCalls
  <2>4. Hello \notin Range(o.tx)
    BY RangesOfCalls DEF SetNick, Fail, Emit, Outcome
  <2> HIDE DEF o
  <2> QED
    BY <1>5, <2>1, <2>2, <2>3, <2>4 DEF o
<1>10. CASE CmdPing
  <2>1. PICK t \in Token : FreshToken(t) /\ WithSession(Ping(session, t), wanted)
    BY <1>10 DEF CmdPing
  <2>2. Head(events).kind = "cmd" /\ Head(events).op = "ping"
    BY <1>10 DEF CmdPing, Command, Next1
  <2> DEFINE o == Ping(session, t)
  <2>3. o \in Outcomes /\ Calm(session, o)
    BY <1>1, TalkTypes, CalmCalls
  <2>4. Hello \notin Range(o.tx)
    BY RangesOfCalls, EntriesDiffer DEF Ping, Transmit, Outcome
  <2> HIDE DEF o
  <2> QED
    BY <1>5, <2>1, <2>2, <2>3, <2>4 DEF o
<1>11. CASE CmdQuit \/ OnEof
  <2>1. Head(events).kind # "frame" /\ (Head(events).kind = "cmd" => Head(events).op \notin {"join", "part"})
    BY <1>11 DEF CmdQuit, OnEof, Command, Next1
  <2>2. session' = session /\ toHub' = toHub /\ wanted' = wanted
    BY <1>11 DEF CmdQuit, OnEof
  <2> QED
    BY <1>3, <1>4, <2>1, <2>2
<1>12. CASE OnUp
  <2>1. Head(events).kind = "up" /\ wanted' = wanted /\ Perform(Start(session), {State("up")})
    BY <1>12 DEF OnUp, Next1
  <2>2. Start(session) \in Outcomes /\ Calm(session, Start(session))
    BY <1>1, TalkTypes, CalmCalls
  <2> QED
    BY <1>2, <1>4, <2>1, <2>2 DEF Greets
<1>13. CASE OnHelloDue
  <2>1. Head(events).kind = "hello" /\ wanted' = wanted
    BY <1>13 DEF OnHelloDue, Next1
  <2>2. CASE UNCHANGED <<session, toHub>>
    BY <1>3, <1>4, <2>1, <2>2
  <2>3. CASE ~session.ready /\ Perform(Start(session), {})
    <3>1. Start(session) \in Outcomes /\ Calm(session, Start(session))
      BY <1>1, TalkTypes, CalmCalls
    <3> QED
      BY <1>2, <1>4, <2>1, <2>3, <3>1 DEF Greets
  <2>4. UNCHANGED <<session, toHub>> \/ (~session.ready /\ Perform(Start(session), {}))
    BY <1>13 DEF OnHelloDue
  <2> QED
    BY <2>2, <2>3, <2>4
<1>14. CASE OnFrameEvent
  <2> DEFINE f == Head(events).frame
  <2>1. f \in FromHub /\ Head(events).kind = "frame" /\ wanted' = wanted
    BY <1>1, <1>14, EventFields DEF OnFrameEvent, Next1
  <2>2. CASE f.type = "WELCOME"
    <3>1. PICK q \in Orders(Asked(Welcomed(session, f.limits), wanted)) :
              Perform(OnWelcome(session, f.limits, wanted, q), {})
      BY <1>14, <2>2 DEF OnFrameEvent
    <3> QED
      BY <1>1, <2>1, <2>2, <3>1, WelcomeSteps
  <2>3. f.type # "WELCOME" => Perform(OnFrame(session, f), {})
    BY <1>14 DEF OnFrameEvent
  <2>4. CASE \/ f.type = "JOINED" /\ f.room \in session.pendingJoins
             \/ f.type = "PARTED" /\ f.room \in session.pendingParts
    <3>1. Perform(OnFrame(session, f), {})
      BY <2>3, <2>4
    <3> QED
      BY <1>1, <2>1, <2>4, <3>1, AnswerSteps
  <2>5. CASE /\ f.type # "WELCOME"
             /\ f.type = "JOINED" => f.room \notin session.pendingJoins
             /\ f.type = "PARTED" => f.room \notin session.pendingParts
    <3> DEFINE o == OnFrame(session, f)
    <3>1. o \in Outcomes
      BY <1>1, <2>1, <2>5, OnFrameType
    <3>2. Calm(session, o) /\ Hello \notin Range(o.tx)
      BY <1>1, <2>1, <2>5, CalmFrames
    <3>3. \A r : Head(events) \notin Asks(r)
      BY <2>1, EntriesDiffer
    <3>4. Head(events) \notin Frames("WELCOME")
      BY <2>5 DEF Frames
    <3>5. \A r : /\ Head(events) \in Says("JOINED", r) => r \notin session.pendingJoins
                 /\ Head(events) \in Says("PARTED", r) => r \notin session.pendingParts
      BY <2>5 DEF Says
    <3>6. Perform(o, {})
      BY <2>3, <2>5
    <3> HIDE DEF o
    <3> QED
      BY <1>2, <2>1, <3>1, <3>2, <3>3, <3>4, <3>5, <3>6
  <2> QED
    BY <2>2, <2>4, <2>5
<1> QED
  BY <1>6, <1>7, <1>8, <1>9, <1>10, <1>11, <1>12, <1>13, <1>14 DEF PlainHandler

\* Without a session they do nothing of this.
LEMMA NoSessionNothing ==
    ASSUME TypeOK, session = NoSession, PlainHandler
    PROVE  session' = session /\ toHub' = toHub /\ wanted' = wanted
BY HandlerEffect DEF Idle

-----------------------------------------------------------------------------
(* What one step of the hub does, when nothing is lost.                    *)

\* A frame that is about no membership.
Small(f) == f \in FromHub /\ f.type \notin {"WELCOME", "JOINED", "PARTED"}

\* The hub takes the first envelope of link l, leaving its client in M.
Reads(l, M) ==
    /\ status[l] = "active" /\ status' = status
    /\ toHub[l] # <<>> /\ toHub' = [toHub EXCEPT ![l] = Tail(@)]
    /\ members' = [members EXCEPT ![l] = M]

Welcomes(l) ==
    /\ Head(toHub[l]) = Hello
    /\ Reads(l, IF l \in welcomed THEN {} ELSE members[l])
    /\ welcomed' = welcomed \cup {l}
    /\ \E limits \in Advertised : Callback(Frame(l, Welcome(limits)))

Admits(l, r) ==
    /\ Head(toHub[l]) = JoinMsg(r)
    /\ Reads(l, members[l] \cup {r})
    /\ l \in welcomed \/ "lenient" \in Faults
    /\ welcomed' = welcomed
    /\ Callback(Frame(l, Joined(r, TRUE)))

TurnsAway(l, r) ==
    /\ Head(toHub[l]) = JoinMsg(r)
    /\ Reads(l, members[l])
    /\ l \notin welcomed \/ "refusal" \in Faults
    /\ welcomed' = welcomed
    /\ \E f \in FromHub : Small(f) /\ Callback(Frame(l, f))

Releases(l, r) ==
    /\ Head(toHub[l]) = PartMsg(r)
    /\ Reads(l, members[l] \ {r})
    /\ welcomed' = welcomed
    /\ \/ events' = events
       \/ Callback(Frame(l, Parted(r, TRUE)))
       \/ \E f \in FromHub : Small(f) /\ Callback(Frame(l, f))

Skips(l) ==
    /\ \A r : Head(toHub[l]) # JoinMsg(r) /\ Head(toHub[l]) # PartMsg(r)
    /\ Head(toHub[l]) # Hello
    /\ Reads(l, members[l])
    /\ welcomed' = welcomed
    /\ events' = events \/ \E f \in FromHub : Small(f) /\ Callback(Frame(l, f))

\* The hub, or another member of a room, has something to say.
Speaks(l) ==
    /\ status[l] = "active" /\ status' = status
    /\ toHub' = toHub /\ members' = members /\ welcomed' = welcomed
    /\ \E f \in FromHub : /\ Callback(Frame(l, f))
                          /\ f.type # "WELCOME"
                          /\ f.type \in {"JOINED", "PARTED"} => f.room \in members[l]

Opens(l) ==
    /\ status[l] = "pending" /\ status' = [status EXCEPT ![l] = "active"]
    /\ toHub' = toHub /\ members' = members /\ welcomed' = welcomed
    /\ Callback(Up(l))

\* The types of envelope tell them apart.
LEMMA EnvelopeTypes ==
    ASSUME NEW m \in ToHub
    PROVE  /\ m.type = "HELLO" => m = Hello
           /\ m.type = "JOIN" => m.room \in Room /\ m = JoinMsg(m.room)
           /\ m.type = "PART" => m.room \in Room /\ m = PartMsg(m.room)
           /\ m = Hello => m.type = "HELLO"
           /\ \A r : m = JoinMsg(r) => m.type = "JOIN"
           /\ \A r : m = PartMsg(r) => m.type = "PART"
BY DEF ToHub, Hello, Direct, PongMsg, JoinMsg, PartMsg, Chat, PingMsg

\* A step of the hub is one of these.
LEMMA HubSteps ==
    ASSUME TypeOK, "loss" \notin Faults, NEW l \in Link, Network(l), ~HubClosed(l)
    PROVE  \/ Opens(l) \/ Speaks(l) \/ Skips(l) \/ Welcomes(l)
           \/ \E r \in Room : Admits(l, r) \/ TurnsAway(l, r) \/ Releases(l, r)
<1>1. \A f : Reply(l, f) => Callback(Frame(l, f))
  BY DEF Reply, Packet
<1>2. Bare("ERROR") \in FromHub /\ Small(Bare("ERROR"))
  BY BareFrames DEF Bare, Small
<1>3. ASSUME NEW type, Receive(l, type), UNCHANGED members
      PROVE  Reads(l, members[l])
  BY <1>3 DEF Receive, Reads, TypeOK
<1>4. CASE Established(l) /\ UNCHANGED hubVars
  BY <1>4 DEF Established, hubVars, Opens
<1>5. CASE HubHello(l)
  <2>1. Receive(l, "HELLO") /\ Head(toHub[l]) = Hello
    BY <1>5, ReceiveType, EnvelopeTypes DEF HubHello
  <2>2. Reads(l, IF l \in welcomed THEN {} ELSE members[l])
    <3>1. CASE l \in welcomed
      BY <1>5, <2>1, <3>1 DEF HubHello, Receive, Reads
    <3>2. CASE l \notin welcomed
      BY <1>3, <1>5, <2>1, <3>2 DEF HubHello
    <3> QED
      BY <3>1, <3>2
  <2> QED
    BY <1>1, <1>5, <2>1, <2>2 DEF HubHello, Welcomes
<1>6. CASE HubJoin(l)
  <2> DEFINE x == Head(toHub[l]).room
  <2>1. Receive(l, "JOIN") /\ x \in Room /\ Head(toHub[l]) = JoinMsg(x) /\ welcomed' = welcomed
    BY <1>6, ReceiveType, EnvelopeTypes DEF HubJoin
  <2>2. CASE /\ l \in welcomed \/ "lenient" \in Faults
             /\ members' = [members EXCEPT ![l] = @ \cup {x}]
             /\ Reply(l, Joined(x, TRUE))
    <3>1. Reads(l, members[l] \cup {x})
      BY <2>1, <2>2 DEF Receive, Reads
    <3> QED
      BY <1>1, <2>1, <2>2, <3>1 DEF Admits
  <2>3. CASE /\ l \notin welcomed \/ "refusal" \in Faults
             /\ Reply(l, Bare("ERROR"))
             /\ UNCHANGED members
    BY <1>1, <1>2, <1>3, <2>1, <2>3 DEF TurnsAway
  <2> QED
    BY <1>6, <2>2, <2>3 DEF HubJoin
<1>7. CASE HubPart(l)
  <2> DEFINE x == Head(toHub[l]).room
  <2>1. Receive(l, "PART") /\ x \in Room /\ Head(toHub[l]) = PartMsg(x) /\ welcomed' = welcomed
    BY <1>7, ReceiveType, EnvelopeTypes DEF HubPart
  <2>2. members' = [members EXCEPT ![l] = @ \ {x}]
    BY <1>7 DEF HubPart
  <2>3. Reads(l, members[l] \ {x})
    BY <2>1, <2>2 DEF Receive, Reads
  <2>4. events' = events \/ Reply(l, Parted(x, TRUE)) \/ Reply(l, Bare("ERROR"))
    BY <1>7 DEF HubPart
  <2> QED
    BY <1>1, <1>2, <2>1, <2>3, <2>4 DEF Releases
<1>8. CASE HubOther(l)
  <2>1. PICK type \in {"CHAT", "DIRECT", "PING", "PONG"} : Receive(l, type)
    BY <1>8 DEF HubOther
  <2>2. Head(toHub[l]) \in ToHub /\ Head(toHub[l]).type = type
    BY <2>1, ReceiveType
  <2>3. Head(toHub[l]) # Hello /\ \A r : Head(toHub[l]) # JoinMsg(r) /\ Head(toHub[l]) # PartMsg(r)
    BY <2>1, <2>2, EnvelopeTypes
  <2>4. Reads(l, members[l]) /\ welcomed' = welcomed
    BY <1>3, <1>8, <2>1 DEF HubOther, hubVars
  <2>5. events' = events \/ \E f \in FromHub : Small(f) /\ Callback(Frame(l, f))
    <3>1. CASE Receive(l, "PING") /\ Reply(l, [type |-> "PONG", token |-> Head(toHub[l]).token])
      <4> DEFINE f == [type |-> "PONG", token |-> Head(toHub[l]).token]
      <4>1. f \in FromHub /\ f.type = "PONG"
        BY <3>1, ReceiveType, MessageFields DEF FromHub
      <4> QED
        BY <1>1, <3>1, <4>1 DEF Small
    <3>2. CASE events' = events \/ Reply(l, Bare("ERROR"))
      BY <1>1, <1>2, <3>2
    <3> QED
      BY <1>8, <3>1, <3>2 DEF HubOther
  <2> QED
    BY <2>3, <2>4, <2>5 DEF Skips
<1>9. CASE HubTalks(l)
  <2>1. ASSUME NEW r \in members[l], NEW f \in {Joined(r, FALSE), Parted(r, FALSE), [type |-> "CHAT", room |-> r]},
               Packet(l, f)
        PROVE  Speaks(l)
    <3>1. r \in Room
      BY DEF TypeOK
    <3>2. f \in FromHub /\ f.type # "WELCOME" /\ f.room = r
      <4>1. CASE f = [type |-> "CHAT", room |-> r]
        BY <3>1, <4>1 DEF FromHub
      <4>2. CASE f = Joined(r, FALSE) \/ f = Parted(r, FALSE)
        <5>1. f \in FromHub
          BY <3>1, <4>2, RoomFrames
        <5> QED
          BY <4>2, <5>1 DEF Joined, Parted
      <4> QED
        BY <2>1, <4>1, <4>2
    <3> QED
      BY <1>9, <2>1, <3>2 DEF HubTalks, hubVars, Packet, Speaks
  <2>2. ASSUME NEW type \in {"DIRECT", "PING", "ERROR", "IGNORED"}, Packet(l, Bare(type))
        PROVE  Speaks(l)
    <3>1. Bare(type) \in FromHub /\ Bare(type).type = type
      BY BareFrames DEF Bare
    <3> QED
      BY <1>9, <2>2, <3>1 DEF HubTalks, hubVars, Packet, Speaks
  <2> QED
    BY <1>9, <2>1, <2>2 DEF HubTalks
<1> QED
  BY <1>4, <1>5, <1>6, <1>7, <1>8, <1>9 DEF Network, Lose

-----------------------------------------------------------------------------
(* The hub is known: what it has the client in, or will have when it has   *)
(* read what is on the link, the session has in its books.                 *)

\* A patient user has one request about a room under way, and makes none about
\* a room that is being left.
OneRequest == \A r \in Room : Apart(events, Asks(r), Asks(r))
Patience ==
    session # NoSession => \A r \in Room :
        /\ Range(events) \cap Asks(r) # {} => r \notin session.pendingParts
        /\ r \in session.pendingParts => r \notin wanted

KnownInv ==
    \A l \in Link, r \in Room : Ends(toHub[l], members[l], r, {PartMsg(r)}) =>
        /\ session # NoSession /\ r \in session.rooms \cup session.pendingJoins
        /\ r \notin session.pendingParts

AskInv == OneRequest /\ Patience /\ KnownInv

\* How a step changes the queue.
LEMMA QueueSteps ==
    ASSUME TypeOK, [Next]_vars
    PROVE  \/ events' = events
           \/ events # <<>> /\ events' = Rest
           \/ CmdDisconnect /\ events # <<>> /\ \E l \in Link : events' = Append(Rest, Down(l))
           \/ ReadCommand
           \/ \E e \in Event : e.kind # "cmd" /\ Callback(e)
<1>1. CASE PlainHandler \/ CmdConnect \/ OnRetry \/ OnDown
  BY <1>1, PlainFacts DEF CmdConnect, OnRetry, OnDown, Command, Next1
<1>2. CASE CmdDisconnect
  <2>1. events # <<>> /\ Close(hub, Rest)
    BY <1>2 DEF CmdDisconnect, Command, Next1
  <2> QED
    BY <1>2, <2>1 DEF Close, Live
<1>3. CASE Exit
  <2>1. Close(hub, events)
    BY <1>3 DEF Exit
  <2>2. CASE hub \in Live
    <3>1. hub \in Link /\ events' = Append(events, Down(hub))
      BY <2>1, <2>2 DEF Close, Live
    <3>2. Down(hub) \in Event /\ Down(hub).kind # "cmd"
      BY <3>1 DEF Event, LinkEvent, Down
    <3> QED
      BY <3>1, <3>2 DEF Callback
  <2> QED
    BY <2>1, <2>2 DEF Close
<1>4. CASE ReadEof \/ RetryTimer \/ HelloTimer
  <2>1. PICK e \in {Eof, Retry, HelloDue} : events' = Append(events, e)
    BY <1>4 DEF ReadEof, RetryTimer, HelloTimer
  <2>2. e \in Event /\ e.kind # "cmd"
    BY DEF Event, Eof, Retry, HelloDue
  <2> QED
    BY <2>1, <2>2 DEF Callback
<1>5. CASE PipeBreaks \/ Finished \/ UNCHANGED vars
  BY <1>5 DEF PipeBreaks, Finished, vars, linkVars
<1>6. CASE Net
  <2>1. PICK l \in Link : Network(l)
    BY <1>6 DEF Net
  <2>2. CASE HubClosed(l)
    <3>1. Callback(Down(l)) /\ Down(l) \in Event /\ Down(l).kind # "cmd"
      BY <2>2 DEF HubClosed, Closed, Event, LinkEvent, Down
    <3> QED
      BY <3>1
  <2> QED
    BY <2>1, <2>2, NetworkEntries
<1> QED
  BY <1>1, <1>2, <1>3, <1>4, <1>5, <1>6 DEF Next, MainLoop, PlainHandler

\* What the user is known to have waited for.
LEMMA AnsweredIs ==
    ASSUME TypeOK, Patient, ReadCommand
    PROVE  \E c \in Requests :
               /\ events' = Append(events, c)
               /\ \A r \in Room : c \in Asks(r) =>
                     /\ Range(events) \cap Asks(r) = {}
                     /\ session # NoSession => r \notin session.pendingJoins \cup session.pendingParts
<1>1. PICK c \in Requests : Answered(c) /\ events' = Append(events, c)
  BY DEF ReadCommand
<1>2. DOMAIN events = 1..Len(events)
  BY LenProperties DEF TypeOK
<1>3. ASSUME NEW r \in Room, c \in Asks(r)
      PROVE  /\ Range(events) \cap Asks(r) = {}
             /\ session # NoSession => r \notin session.pendingJoins \cup session.pendingParts
  <2>1. c.op \in {"join", "part"} /\ c.room = r
    BY <1>3 DEF Asks, RoomCmd
  <2>2. ~Contains(events, RoomCmd("join", r)) /\ ~Contains(events, RoomCmd("part", r))
    BY <1>1, <2>1 DEF Answered
  <2>3. Range(events) \cap Asks(r) = {}
    BY <1>2, <2>2 DEF Contains, Range, Asks
  <2> QED
    BY <1>1, <2>1, <2>3 DEF Answered
<1> QED
  BY <1>1, <1>3

\* One request about a room at a time, however the network orders its entries.
LEMMA OneRequestStep ==
    ASSUME TypeOK, Patient, OneRequest, [Next]_vars
    PROVE  OneRequest'
<1> SUFFICES ASSUME NEW r \in Room PROVE Apart(events', Asks(r), Asks(r))
  BY DEF OneRequest, Asks, RoomCmd
<1>1. events \in Seq(Event) /\ Apart(events, Asks(r), Asks(r))
  BY DEF TypeOK, OneRequest
<1>2. events # <<>> => Rest \in Seq(Event) /\ Apart(Rest, Asks(r), Asks(r))
  BY <1>1, EntryType, TailOrder DEF Rest
<1>3. CASE CmdDisconnect /\ events # <<>> /\ \E l \in Link : events' = Append(Rest, Down(l))
  <2>1. PICK l \in Link : events' = Append(Rest, Down(l))
    BY <1>3
  <2>2. Down(l) \in Event /\ Down(l) \notin Asks(r)
    BY EntriesDiffer DEF Event, LinkEvent, Down
  <2> QED
    BY <1>2, <1>3, <2>1, <2>2, AppendOrder
<1>4. CASE ReadCommand
  <2>1. PICK c \in Requests : /\ events' = Append(events, c)
                              /\ c \in Asks(r) => Range(events) \cap Asks(r) = {}
    BY <1>4, AnsweredIs
  <2>2. c \in Event
    BY DEF Event
  <2> QED
    BY <1>1, <2>1, <2>2, AppendOrder
<1>5. CASE \E e \in Event : e.kind # "cmd" /\ Callback(e)
  <2>1. PICK e \in Event : e.kind # "cmd" /\ Callback(e)
    BY <1>5
  <2>2. e \notin Asks(r)
    BY <2>1, EntriesDiffer
  <2> QED
    BY <1>1, <2>1, <2>2, AppendOrder, InsertOrder DEF Callback
<1> QED
  BY <1>1, <1>2, <1>3, <1>4, <1>5, QueueSteps

\* What a request in hand says of the rest of the queue.
LEMMA HeadAsks ==
    ASSUME TypeOK, OneRequest, events # <<>>, NEW r \in Room
    PROVE  /\ Head(events) \in Range(events) /\ Range(Rest) \subseteq Range(events)
           /\ Head(events) \in Asks(r) => Range(Rest) \cap Asks(r) = {}
<1>1. events \in Seq(Event) /\ Head(events) \in Event /\ Apart(events, Asks(r), Asks(r))
  BY EntryType DEF TypeOK, OneRequest
<1>2. Range(events) = Range(Rest) \cup {Head(events)}
  BY <1>1, QueueRanges DEF Rest
<1>3. Head(events) \in Asks(r) => Range(Rest) \cap Asks(r) = {}
  BY <1>1, TailOrder DEF Rest
<1> QED
  BY <1>2, <1>3

\* A session that has nothing to do with any room.
Blank(s) == s.ready = FALSE /\ s.rooms = {} /\ s.pendingJoins = {} /\ s.pendingParts = {}

LinkHandler == CmdConnect \/ CmdDisconnect \/ OnRetry \/ OnDown \/ Exit

\* The other handlers leave no link up, and the session as it is or blank.
LEMMA LinkHandlers ==
    ASSUME TypeOK, LifelineInv, LinkHandler
    PROVE  /\ \A l \in Link : status'[l] # "active"
           /\ \/ session' = session /\ wanted' = wanted
              \/ /\ session' # NoSession /\ Blank(session')
                 /\ \/ session'.limits = NothingKnown
                    \/ session # NoSession /\ session'.limits = session.limits
<1>1. ASSUME Live = {}, status' = status \/ \E l \in Link : status' = [status EXCEPT ![l] = "pending"]
      PROVE  \A l \in Link : status'[l] # "active"
  BY <1>1 DEF Live, TypeOK
<1>2. ASSUME NEW rest, Close(hub, rest)
      PROVE  \A l \in Link : status'[l] # "active"
  BY <1>2 DEF Close, LifelineInv, NoOrphan, Live, TypeOK
<1>3. CASE CmdConnect
  <2>1. events # <<>> /\ events' = Rest /\ Head(events).kind = "cmd" /\ Head(events).op = "connect"
    BY <1>3 DEF CmdConnect, Command, Next1
  <2>2. Live = {}
    BY <2>1, WaitingEntry
  <2>3. \A l \in Link : status'[l] # "active"
    BY <1>1, <1>3, <2>2 DEF CmdConnect, OpenLink, Open
  <2>4. \/ session' = session /\ wanted' = wanted
        \/ \E nick \in Nick \cup {NoNick} : session' = NewSession(nick)
    BY <1>3 DEF CmdConnect, OpenLink
  <2>5. \A nick \in Nick \cup {NoNick} :
            NewSession(nick) # NoSession /\ Blank(NewSession(nick)) /\ NewSession(nick).limits = NothingKnown
    <3> SUFFICES ASSUME NEW nick \in Nick \cup {NoNick}
                 PROVE  NewSession(nick) # NoSession /\ Blank(NewSession(nick)) /\ NewSession(nick).limits = NothingKnown
      OBVIOUS
    <3>1. NewSession(nick) \in Session
      BY DEF NewSession, Session, Limits, NothingKnown
    <3> QED
      BY <3>1, NoSessionIsNone DEF NewSession, Blank
  <2> QED
    BY <2>3, <2>4, <2>5
<1>4. CASE OnRetry
  <2>1. events # <<>> /\ events' = Rest /\ Head(events).kind = "retry"
    BY <1>4 DEF OnRetry, Next1
  <2>2. Live = {}
    BY <2>1, WaitingEntry
  <2> QED
    BY <1>1, <1>4, <2>2 DEF OnRetry, OpenLink, Open
<1>5. CASE OnDown
  <2>1. events # <<>> /\ events' = Rest /\ Head(events).kind = "down" /\ status' = status /\ wanted' = wanted
    BY <1>5 DEF OnDown, Next1
  <2>2. Live = {}
    BY <2>1, WaitingEntry
  <2>3. ASSUME session # NoSession
        PROVE  session' # NoSession /\ Blank(session') /\ session'.limits = session.limits
    <3>1. session \in Session
      BY <2>3 DEF TypeOK
    <3>2. session' = OnLinkDown(session).session
      BY <1>5, <2>3 DEF OnDown
    <3>3. session' \in Session /\ Blank(session') /\ session'.limits = session.limits
      BY <3>1, <3>2 DEF OnLinkDown, Emit, Outcome, Blank, Session
    <3> QED
      BY <3>3, NoSessionIsNone
  <2>4. session = NoSession => session' = session
    BY <1>5 DEF OnDown
  <2> QED
    BY <1>1, <2>1, <2>2, <2>3, <2>4
<1>6. CASE CmdDisconnect
  BY <1>2, <1>6 DEF CmdDisconnect
<1>7. CASE Exit
  BY <1>2, <1>7 DEF Exit
<1> QED
  BY <1>3, <1>4, <1>5, <1>6, <1>7 DEF LinkHandler

\* They take no frame from the queue, and put at most the end of a link on it.
LEMMA LinkQueue ==
    ASSUME TypeOK, LinkHandler
    PROVE  \E q \in Seq(Event) :
               /\ q = events \/ (events # <<>> /\ q = Rest /\ Head(events).kind # "frame")
               /\ events' = q \/ \E l \in Link : events' = Append(q, Down(l))
<1>1. events \in Seq(Event) /\ (events # <<>> => Rest \in Seq(Event))
  BY EntryType DEF TypeOK
<1>2. CASE CmdConnect \/ OnRetry \/ OnDown
  BY <1>1, <1>2 DEF CmdConnect, OnRetry, OnDown, Command, Next1
<1>3. CASE CmdDisconnect
  <2>1. events # <<>> /\ Close(hub, Rest) /\ Head(events).kind = "cmd"
    BY <1>3 DEF CmdDisconnect, Command, Next1
  <2> QED
    BY <1>1, <2>1 DEF Close, Live
<1>4. CASE Exit
  <2>1. Close(hub, events)
    BY <1>4 DEF Exit
  <2> QED
    BY <1>1, <2>1 DEF Close, Live
<1> QED
  BY <1>2, <1>3, <1>4 DEF LinkHandler

\* The rest of the steps: none is a handler.
OtherThread == Net \/ ReadCommand \/ ReadEof \/ PipeBreaks \/ RetryTimer \/ HelloTimer
               \/ UNCHANGED vars

\* Every step is one of these.
LEMMA StepKinds == [Next]_vars <=> PlainHandler \/ LinkHandler \/ OtherThread
BY DEF Next, MainLoop, PlainHandler, LinkHandler, OtherThread, Finished

\* Only the network touches a link or the hub.
LEMMA OtherThreads ==
    ASSUME OtherThread
    PROVE  /\ session' = session /\ wanted' = wanted /\ hub' = hub
           /\ ~Net => status' = status /\ toHub' = toHub /\ members' = members /\ welcomed' = welcomed
BY DEF OtherThread, Net, ReadCommand, ReadEof, PipeBreaks, RetryTimer, HelloTimer, vars, linkVars, hubVars, loopVars

\* A room that is being left is not asked for.
LEMMA PatienceStep ==
    ASSUME TypeOK, LifelineInv, Patient, OneRequest, Patience, [Next]_vars
    PROVE  Patience'
<1> SUFFICES ASSUME session' # NoSession, NEW r \in Room
             PROVE  /\ Range(events') \cap Asks(r) # {} => r \notin session'.pendingParts
                    /\ r \in session'.pendingParts => r \notin wanted'
  BY DEF Patience, Asks, RoomCmd
<1>1. session # NoSession =>
          /\ Range(events) \cap Asks(r) # {} => r \notin session.pendingParts
          /\ r \in session.pendingParts => r \notin wanted
  BY DEF Patience
<1>2. RoomCmd("join", r) \in Asks(r) /\ RoomCmd("part", r) \in Asks(r)
      /\ \A e : e \in Asks(r) => e.kind = "cmd"
  BY EntriesDiffer DEF Asks
<1>3. CASE PlainHandler
  <2>1. session # NoSession /\ events # <<>> /\ events' = Rest
    BY <1>3, PlainFacts
  <2>2. PICK tx : RoomStep(tx, r)
    BY <1>3, <2>1, PlainSteps DEF Does
  <2>3. /\ Head(events) \in Range(events) /\ Range(Rest) \subseteq Range(events)
        /\ Head(events) \in Asks(r) => Range(Rest) \cap Asks(r) = {}
    BY <2>1, HeadAsks
  <2>4. CASE Passes(tx, r)
    BY <1>1, <2>1, <2>3, <2>4 DEF Passes, Same
  <2>5. CASE Declines(tx, r)
    <3>1. Range(events) \cap Asks(r) # {}
      BY <1>2, <2>3, <2>5 DEF Declines
    <3> QED
      BY <1>1, <2>1, <3>1, <2>5 DEF Declines, Same
  <2>6. CASE AsksFor(tx, r)
    <3>1. r \notin session.pendingParts
      BY <1>1, <1>2, <2>1, <2>3, <2>6 DEF AsksFor
    <3> QED
      BY <2>6, <3>1 DEF AsksFor
  <2>7. CASE GivesUp(tx, r)
    BY <1>2, <2>1, <2>3, <2>7 DEF GivesUp
  <2>8. CASE Enters(tx, r)
    BY <1>1, <2>1, <2>3, <2>8 DEF Enters
  <2>9. CASE Leaves(tx, r)
    BY <2>9 DEF Leaves
  <2> QED
    BY <2>2, <2>4, <2>5, <2>6, <2>7, <2>8, <2>9 DEF RoomStep
<1>4. CASE LinkHandler
  <2>1. CASE session' = session /\ wanted' = wanted
    <3>1. Range(events') \cap Asks(r) \subseteq Range(events)
      <4>1. ASSUME NEW q \in Seq(Event), NEW l \in Link
            PROVE  Range(Append(q, Down(l))) \cap Asks(r) \subseteq Range(q)
        <5>1. Down(l) \in Event /\ Down(l).kind # "cmd"
          BY DEF Event, LinkEvent, Down
        <5>2. Range(Append(q, Down(l))) = Range(q) \cup {Down(l)}
          BY <5>1, QueueRanges
        <5> QED
          BY <1>2, <5>1, <5>2
      <4>2. \A q : q = events \/ (events # <<>> /\ q = Rest) => Range(q) \subseteq Range(events)
        BY HeadAsks
      <4> QED
        BY <1>4, <4>1, <4>2, LinkQueue
    <3> QED
      BY <1>1, <2>1, <3>1
  <2>2. CASE Blank(session')
    BY <2>2 DEF Blank
  <2> QED
    BY <1>4, <2>1, <2>2, LinkHandlers
<1>5. CASE OtherThread
  <2>1. session' = session /\ wanted' = wanted
    BY <1>5, OtherThreads
  <2>2. events \in Seq(Event)
    BY DEF TypeOK
  <2>3. CASE ReadCommand
    <3>1. PICK c \in Requests :
              /\ events' = Append(events, c)
              /\ c \in Asks(r) /\ session # NoSession =>
                     r \notin session.pendingJoins \cup session.pendingParts
      BY <2>3, AnsweredIs
    <3>2. Range(events') = Range(events) \cup {c}
      <4>1. c \in Event
        BY DEF Event
      <4> QED
        BY <2>2, <3>1, <4>1, QueueRanges
    <3> QED
      BY <1>1, <1>2, <2>1, <3>1, <3>2
  <2>4. CASE \E e \in Event : e.kind # "cmd" /\ Callback(e)
    BY <1>1, <1>2, <2>1, <2>4, CallbackRange
  <2>5. CASE events' = events \/ (events # <<>> /\ events' = Rest)
    BY <1>1, <2>1, <2>5, HeadAsks
  <2>6. ~CmdDisconnect \/ LinkHandler
    BY DEF LinkHandler
  <2> QED
    BY <1>4, <2>3, <2>4, <2>5, <2>6, QueueSteps
<1> QED
  BY <1>3, <1>4, <1>5, StepKinds

\* When no link is up, nothing is known of any room.
LEMMA NoneKnown ==
    LingerInv /\ (\A l \in Link : status[l] # "active") => KnownInv
<1> SUFFICES ASSUME LingerInv, \A l \in Link : status[l] # "active",
                    NEW l \in Link, NEW r \in Room, Ends(toHub[l], members[l], r, {PartMsg(r)})
             PROVE  FALSE
  BY DEF KnownInv
<1>1. toHub[l] = <<>> /\ members[l] = {}
  BY DEF LingerInv
<1> QED
  BY <1>1 DEF Ends

\* What the hub reads, when it is one room's membership that matters.
LEMMA ReadsKnown ==
    ASSUME TypeOK, NEW l \in Link, NEW N, Reads(l, N), NEW r, NEW S,
           r \in N => Head(toHub[l]) = JoinMsg(r) \/ (r \in members[l] /\ Head(toHub[l]) \notin S)
    PROVE  \A k \in Link : Ends(toHub'[k], members'[k], r, S) => Ends(toHub[k], members[k], r, S)
<1>1. toHub[l] \in Seq(ToHub) /\ toHub[l] # <<>>
  BY DEF TypeOK, Reads
<1>2. /\ toHub'[l] = Tail(toHub[l]) /\ members'[l] = N
      /\ \A k \in Link \ {l} : toHub'[k] = toHub[k] /\ members'[k] = members[k]
  BY DEF Reads, TypeOK
<1>3. Ends(Tail(toHub[l]), N, r, S) => Ends(toHub[l], members[l], r, S)
  BY <1>1, EndsTail
<1> QED
  BY <1>2, <1>3

\* A step of the hub takes the client into no room that it was not asked for.
LEMMA NetKnown ==
    ASSUME TypeOK, "loss" \notin Faults, KnownInv, Net
    PROVE  KnownInv'
<1>1. PICK l \in Link : Network(l)
  BY DEF Net
<1>2. session' = session
  BY DEF Net, loopVars
<1> SUFFICES ASSUME NEW k \in Link, NEW r \in Room,
                    Ends(toHub'[k], members'[k], r, {PartMsg(r)})
             PROVE  Ends(toHub[k], members[k], r, {PartMsg(r)})
  BY <1>2 DEF KnownInv, PartMsg
<1>3. CASE HubClosed(l)
  <2>1. /\ toHub' = [toHub EXCEPT ![l] = <<>>] /\ members' = [members EXCEPT ![l] = {}]
    BY <1>3 DEF HubClosed, Closed, Forget
  <2>2. k # l
    BY <2>1 DEF Ends, TypeOK
  <2> QED
    BY <2>1, <2>2 DEF TypeOK
<1>4. CASE Opens(l) \/ Speaks(l)
  BY <1>4 DEF Opens, Speaks
<1>5. CASE Skips(l) \/ Welcomes(l)
  <2>1. PICK N \in {{}, members[l]} : Reads(l, N)
    BY <1>5 DEF Skips, Welcomes
  <2>2. Head(toHub[l]) # PartMsg(r)
    BY <1>5, EntriesDiffer DEF Skips, Welcomes
  <2> QED
    BY <2>1, <2>2, ReadsKnown
<1>6. ASSUME NEW x \in Room, Admits(l, x) \/ TurnsAway(l, x)
      PROVE  Ends(toHub[k], members[k], r, {PartMsg(r)})
  <2>1. PICK N \in {members[l], members[l] \cup {x}} : Reads(l, N)
    BY <1>6 DEF Admits, TurnsAway
  <2>2. Head(toHub[l]) = JoinMsg(x) /\ Head(toHub[l]) # PartMsg(r)
    BY <1>6, EntriesDiffer DEF Admits, TurnsAway
  <2> QED
    BY <2>1, <2>2, ReadsKnown
<1>7. ASSUME NEW x \in Room, Releases(l, x)
      PROVE  Ends(toHub[k], members[k], r, {PartMsg(r)})
  <2>1. Reads(l, members[l] \ {x}) /\ Head(toHub[l]) = PartMsg(x)
    BY <1>7 DEF Releases
  <2>2. r \in members[l] \ {x} => r \in members[l] /\ Head(toHub[l]) # PartMsg(r)
    BY <2>1, EntriesDiffer
  <2> QED
    BY <2>1, <2>2, ReadsKnown
<1> QED
  BY <1>1, <1>3, <1>4, <1>5, <1>6, <1>7, HubSteps

\* Only the link in hand can be up.
LEMMA UpInHand ==
    ASSUME LifelineInv, NEW l \in Link, status[l] = "active"
    PROVE  hub = l /\ mode # "exited"
BY DEF LifelineInv, NoOrphan, Live

\* What one handler does leaves the hub known.
LEMMA PlainKnown ==
    ASSUME TypeOK, LifelineInv, LingerInv, Patience, KnownInv, PlainHandler
    PROVE  KnownInv'
<1>1. UNCHANGED hubVars
  BY HandlerEffect
<1>2. CASE session = NoSession
  BY <1>1, <1>2, NoSessionNothing DEF KnownInv, hubVars
<1>3. CASE session # NoSession
  <2>1. PICK tx \in Seq(ToHub) : Carried(tx) /\ \A r \in Room : RoomStep(tx, r)
    BY <1>3, PlainSteps DEF Does
  <2>2. session' # NoSession
    BY <1>3, PlainFacts
  <2> SUFFICES ASSUME NEW l \in Link, NEW r \in Room,
                      Ends(toHub'[l], members'[l], r, {PartMsg(r)})
               PROVE  /\ r \in session'.rooms \cup session'.pendingJoins
                      /\ r \notin session'.pendingParts
    BY <2>2 DEF KnownInv, PartMsg
  <2>3. status[l] = "active"
    <3>1. ASSUME status[l] # "active" PROVE FALSE
      <4>1. toHub'[l] = <<>> /\ members'[l] = {}
        BY <1>1, <2>1, <3>1 DEF Carried, LingerInv, hubVars
      <4> QED
        BY <4>1 DEF Ends
    <3> QED
      BY <3>1
  <2>4. toHub'[l] = toHub[l] \o tx /\ members'[l] = members[l] /\ toHub[l] \in Seq(ToHub)
    BY <1>1, <2>1, <2>3, UpInHand DEF Carried, hubVars, TypeOK
  <2>5. JoinMsg(r) \notin Range(tx) =>
            /\ PartMsg(r) \notin Range(tx)
            /\ r \in session.rooms \cup session.pendingJoins /\ r \notin session.pendingParts
    <3>1. JoinMsg(r) \notin Range(tx) =>
              Ends(toHub[l], members[l], r, {PartMsg(r)}) /\ Range(tx) \cap {PartMsg(r)} = {}
      BY <2>4, EndsConcat
    <3> QED
      BY <3>1 DEF KnownInv
  <2>6. CASE Passes(tx, r)
    BY <2>5, <2>6 DEF Passes, Same
  <2>7. CASE Declines(tx, r)
    BY <2>5, <2>7 DEF Declines, Same
  <2>8. CASE AsksFor(tx, r)
    <3>1. Head(events) = RoomCmd("join", r) => RoomCmd("join", r) \in Range(events)
      <4>1. events \in Seq(Event) /\ events # <<>> /\ Head(events) \in Event
        BY PlainFacts, EntryType DEF TypeOK
      <4> QED
        BY <4>1, QueueRanges
    <3>2. r \notin session.pendingParts
      BY <1>3, <2>8, <3>1 DEF AsksFor, Patience, Asks
    <3> QED
      BY <2>8, <3>2 DEF AsksFor
  <2>9. CASE GivesUp(tx, r)
    BY <2>5, <2>9, EntriesDiffer DEF GivesUp
  <2>10. CASE Enters(tx, r)
    BY <2>5, <2>10 DEF Enters
  <2>11. CASE Leaves(tx, r)
    BY <2>5, <2>11 DEF Leaves
  <2> QED
    BY <2>1, <2>6, <2>7, <2>8, <2>9, <2>10, <2>11 DEF RoomStep
<1> QED
  BY <1>2, <1>3

\* So the hub is known in every state.
LEMMA AskInvariant ==
    ASSUME Patient, "loss" \notin Faults
    PROVE  Spec => []AskInv
<1>1. Init => AskInv
  <2> SUFFICES ASSUME Init PROVE AskInv
    OBVIOUS
  <2>1. OneRequest
    <3>1. PICK c \in Connects : events = <<c>>
      BY DEF Init
    <3>2. \A i, j \in DOMAIN events : ~(i < j)
      BY <3>1
    <3> QED
      BY <3>2 DEF OneRequest, Apart
  <2>2. Patience
    BY DEF Patience, Init
  <2>3. \A l \in Link : toHub[l] = <<>> /\ members[l] = {}
    BY DEF Init, HubLinkInit, HubInit
  <2>4. KnownInv
    BY <2>3 DEF KnownInv, Ends
  <2> QED
    BY <2>1, <2>2, <2>4 DEF AskInv
<1>2. TypeOK /\ LifelineInv /\ LingerInv /\ LingerInv' /\ AskInv /\ [Next]_vars => AskInv'
  <2> SUFFICES ASSUME TypeOK, LifelineInv, LingerInv, LingerInv', AskInv, [Next]_vars
               PROVE  AskInv'
    OBVIOUS
  <2>1. OneRequest' /\ Patience'
    BY OneRequestStep, PatienceStep DEF AskInv
  <2>2. ASSUME PlainHandler PROVE KnownInv'
    BY <2>2, PlainKnown DEF AskInv
  <2>3. ASSUME LinkHandler PROVE KnownInv'
    <3>1. (\A l \in Link : status[l] # "active")'
      BY <2>3, LinkHandlers
    <3>2. (LingerInv /\ (\A l \in Link : status[l] # "active") => KnownInv)'
      BY NoneKnown, PTL
    <3> QED
      BY <3>1, <3>2
  <2>4. ASSUME OtherThread PROVE KnownInv'
    <3>1. CASE Net
      BY <3>1, NetKnown DEF AskInv
    <3>2. CASE ~Net
      BY <2>4, <3>2, OtherThreads DEF AskInv, KnownInv
    <3> QED
      BY <3>1, <3>2
  <2>5. KnownInv'
    BY <2>2, <2>3, <2>4, StepKinds
  <2> QED
    BY <2>1, <2>5 DEF AskInv
<1> QED
  BY <1>1, <1>2, TypeCorrect, LifelineInvariant, LingerInvariant, PTL DEF Spec

\* The hub never relays a room that the client takes itself not to be in but
\* while the PART is on its way (pendingJoins, on_link_down, _rejoin), for a
\* patient user, as long as no envelope is lost: also when Reticulum's threads
\* overtake each other, when the hub refuses to let the client in, and when it
\* lets it in before HELLO.
THEOREM HubIsKnownHolds ==
    ASSUME Patient, "loss" \notin Faults
    PROVE  Spec => []HubIsKnown
<1>1. TypeOK /\ KnownInv => HubIsKnown
  <2> SUFFICES ASSUME TypeOK, KnownInv, NEW l \in Live, NEW r \in members[l]
               PROVE  \/ r \in session.rooms \cup session.pendingJoins
                      \/ Contains(toHub[l], PartMsg(r))
    BY DEF HubIsKnown
  <2>1. l \in Link /\ r \in Room
    BY DEF Live, TypeOK
  <2>2. PartMsg(r) \in Range(toHub[l]) => Contains(toHub[l], PartMsg(r))
    BY <2>1, LenProperties DEF TypeOK, Range, Contains
  <2>3. PartMsg(r) \notin Range(toHub[l]) => Ends(toHub[l], members[l], r, {PartMsg(r)})
    BY DEF Ends
  <2> QED
    BY <2>1, <2>2, <2>3 DEF KnownInv
<1> QED
  BY <1>1, AskInvariant, TypeCorrect, PTL DEF AskInv

-----------------------------------------------------------------------------
(* An orderly hub: envelopes and entries neither lost nor overtaken, and no *)
(* limit in a WELCOME but a length for the names of rooms, the same in     *)
(* each.  It may refuse a JOIN, or act on one before HELLO.  HubAgrees     *)
(* needs an untroubled hub, which does neither and has room for all names. *)

\* The rooms with names too long for the hub.
TooLong == UNION {limits.longNames : limits \in Advertised}
Orderly ==
    /\ Patient
    /\ Faults \cap {"loss", "reorder"} = {}
    /\ \A limits \in Advertised : limits.maxRooms = Unlimited /\ limits.longNames = TooLong
Untroubled == Orderly /\ TooLong = {} /\ Faults \cap {"refusal", "lenient"} = {}

Ready == session # NoSession /\ session.ready

\* No frame of a link is read after its end, nor an "up" after a WELCOME; and
\* the hub has its members on links that are up and, if it acts on no JOIN
\* before HELLO, welcomed.
OrderInv ==
    /\ Apart(events, Kind("down"), Kind("frame"))
    /\ session = NoSession => Range(events) \cap Kind("frame") = {}
    /\ Apart(events, Frames("WELCOME"), Kind("up"))
    /\ Ready => Range(events) \cap Kind("up") = {}
    /\ "lenient" \in Faults \/ \A l \in Link : members[l] # {} => l \in welcomed
    /\ \A l \in welcomed : status[l] = "active"

\* The session knows of no limit that the hub does not always have.
LimitInv ==
    session # NoSession =>
        session.limits.maxRooms = Unlimited /\ session.limits.longNames \subseteq TooLong

\* Until the session is ready, the WELCOME of the hub is on the queue, before
\* any JOINED.
GreetInv ==
    ~Ready => /\ welcomed = {} \/ Range(events) \cap Frames("WELCOME") # {}
              /\ Led(events, Frames("WELCOME"), Frames("JOINED"))
              /\ session # NoSession => session.rooms = {}

\* While a link is live nothing on the queue is about another.
LEMMA WhileLive ==
    ASSUME TypeOK, LifelineInv, BeforeSession, CurrentInv, Live # {}
    PROVE  /\ ~Downs(events) /\ session # NoSession
           /\ Ready => hub \in welcomed
           /\ \A e \in Range(events) : e \in Frames("WELCOME") => e.link \in welcomed
<1>1. ~Downs(events)
  BY DownsOf, EntryType DEF TypeOK, LifelineInv, Exclusive, Downs, Waits, Range, Reopens
<1>2. session # NoSession
  BY DEF BeforeSession
<1>3. Ready => hub \in welcomed
  BY <1>1 DEF Ready, CurrentInv, Belongs
<1>4. ASSUME NEW e \in Range(events), e \in Frames("WELCOME") PROVE e.link \in welcomed
  <2>1. e \in CurrentEntries
    BY <1>1, <1>4 DEF CurrentInv, Fine, Downs, Range
  <2> QED
    BY <1>4, <2>1 DEF CurrentEntries, Frames
<1> QED
  BY <1>1, <1>2, <1>3, <1>4

\* What may be put on the queue behind what.
Fits(e) ==
    /\ e.kind \in {"up", "frame"} => session' = session /\ session # NoSession /\ ~Downs(events)
    /\ e.kind = "up" => ~Ready /\ Range(events) \cap Frames("WELCOME") = {}
    /\ e \in Frames("JOINED") => "lenient" \in Faults \/ welcomed # {}

\* Nothing that does not fit is put on the queue.
LEMMA OrderlyQueue ==
    ASSUME Orderly, TypeOK, LifelineInv, BeforeSession, CurrentInv, OrderInv, [Next]_vars
    PROVE  \E q \in Seq(Event) :
               /\ \/ q = events
                  \/ events # <<>> /\ q = Rest /\ (PlainHandler \/ Head(events).kind # "frame")
               /\ events' = q \/ \E e \in Event : Fits(e) /\ events' = Append(q, e)
<1>1. events \in Seq(Event) /\ (events # <<>> => Rest \in Seq(Event))
  BY EntryType DEF TypeOK
<1>2. \A e \in Event : e.kind \notin {"up", "frame"} => Fits(e)
  BY EntriesDiffer DEF Fits
<1>3. CASE PlainHandler
  BY <1>1, <1>3, PlainFacts
<1>4. CASE LinkHandler
  <2>1. \A l \in Link : Down(l) \in Event /\ Down(l).kind = "down"
    BY DEF Event, LinkEvent, Down
  <2> QED
    BY <1>2, <1>4, <2>1, LinkQueue
<1>5. CASE ReadCommand \/ ReadEof \/ RetryTimer \/ HelloTimer
  <2>1. PICK e \in Requests \cup {Eof, Retry, HelloDue} : events' = Append(events, e)
    BY <1>5 DEF ReadCommand, ReadEof, RetryTimer, HelloTimer
  <2>2. e \in Event /\ e.kind \notin {"up", "frame"}
    BY DEF Event, Requests, RoomCmd, Cmd, Eof, Retry, HelloDue
  <2> QED
    BY <1>1, <1>2, <2>1, <2>2
<1>6. CASE PipeBreaks \/ UNCHANGED vars
  BY <1>1, <1>6 DEF PipeBreaks, vars, linkVars
<1>7. CASE Net
  <2>1. PICK l \in Link : Network(l)
    BY <1>7 DEF Net
  <2>2. session' = session
    BY <1>7 DEF Net, loopVars
  <2>3. \A e : Callback(e) => events' = Append(events, e)
    BY DEF Callback, Orderly
  <2>4. CASE HubClosed(l)
    <3>1. Down(l) \in Event /\ Down(l).kind = "down" /\ events' = Append(events, Down(l))
      BY <2>3, <2>4 DEF HubClosed, Closed, Event, LinkEvent, Down
    <3> QED
      BY <1>1, <1>2, <3>1
  <2>5. status[l] = "active" \/ status[l] = "pending" =>
            Live = {l} /\ hub = l /\ session # NoSession /\ ~Downs(events)
    <3>1. ASSUME l \in Live PROVE Live = {l} /\ hub = l
      BY <3>1 DEF LifelineInv, Exclusive, NoOrphan
    <3> QED
      BY <3>1, WhileLive DEF Live
  <2>6. ASSUME NEW f \in FromHub, status[l] = "active", events' = Append(events, Frame(l, f)),
               f.type = "JOINED" => "lenient" \in Faults \/ l \in welcomed
        PROVE  \E e \in Event : Fits(e) /\ events' = Append(events, e)
    <3>1. Frame(l, f) \in Event /\ Frame(l, f).kind = "frame" /\ Frame(l, f).frame = f
      BY DEF Frame, Event, LinkEvent
    <3>2. Fits(Frame(l, f))
      BY <2>2, <2>5, <2>6, <3>1 DEF Fits, Frames
    <3> QED
      BY <2>6, <3>1, <3>2
  <2>7. CASE Opens(l)
    <3>1. status[l] = "pending" /\ events' = Append(events, Up(l))
      BY <2>3, <2>7 DEF Opens
    <3>2. welcomed = {}
      BY <2>5, <3>1 DEF CurrentInv, OrderInv
    <3>3. ~Ready /\ Range(events) \cap Frames("WELCOME") = {}
      BY <2>5, <3>1, <3>2, WhileLive
    <3>4. Up(l) \in Event /\ Up(l).kind = "up"
      BY DEF Up, Event, LinkEvent
    <3>5. Fits(Up(l))
      BY <2>2, <2>5, <3>1, <3>3, <3>4, EntriesDiffer DEF Fits
    <3> QED
      BY <1>1, <3>1, <3>4, <3>5
  <2>8. CASE Speaks(l)
    <3>1. PICK f \in FromHub : /\ status[l] = "active" /\ events' = Append(events, Frame(l, f))
                               /\ f.type \in {"JOINED", "PARTED"} => f.room \in members[l]
      BY <2>3, <2>8 DEF Speaks
    <3>2. f.type = "JOINED" => "lenient" \in Faults \/ l \in welcomed
      BY <3>1 DEF OrderInv
    <3> QED
      BY <1>1, <2>6, <3>1, <3>2
  <2>9. CASE Skips(l)
    <3>1. status[l] = "active" /\ (events' = events
              \/ \E f \in FromHub : f.type # "JOINED" /\ events' = Append(events, Frame(l, f)))
      BY <2>3, <2>9 DEF Skips, Reads, Small
    <3> QED
      BY <1>1, <2>6, <3>1
  <2>10. CASE Welcomes(l)
    <3>1. PICK limits \in Advertised : events' = Append(events, Frame(l, Welcome(limits)))
      BY <2>3, <2>10 DEF Welcomes
    <3>2. Welcome(limits) \in FromHub /\ Welcome(limits).type = "WELCOME" /\ status[l] = "active"
      BY <2>10 DEF Welcome, FromHub, Welcomes, Reads
    <3> QED
      BY <1>1, <2>6, <3>1, <3>2
  <2>11. ASSUME NEW r \in Room, Admits(l, r) \/ TurnsAway(l, r) \/ Releases(l, r)
         PROVE  \/ events' = events
                \/ \E e \in Event : Fits(e) /\ events' = Append(events, e)
    <3>1. status[l] = "active"
      BY <2>11 DEF Admits, TurnsAway, Releases, Reads
    <3>2. CASE Admits(l, r)
      <4>1. /\ "lenient" \in Faults \/ l \in welcomed
            /\ events' = Append(events, Frame(l, Joined(r, TRUE)))
        BY <2>3, <3>2 DEF Admits, Orderly
      <4> QED
        BY <2>6, <3>1, <4>1, RoomFrames
    <3>3. CASE TurnsAway(l, r)
      <4>1. \E f \in FromHub : f.type # "JOINED" /\ events' = Append(events, Frame(l, f))
        BY <2>3, <3>3 DEF TurnsAway, Small
      <4> QED
        BY <2>6, <3>1, <4>1
    <3>4. CASE Releases(l, r)
      <4>1. Parted(r, TRUE) \in FromHub /\ Parted(r, TRUE).type # "JOINED"
        BY RoomFrames DEF Parted
      <4>2. events' = events
            \/ \E f \in FromHub : f.type # "JOINED" /\ events' = Append(events, Frame(l, f))
        <5>1. events' = events \/ Callback(Frame(l, Parted(r, TRUE)))
              \/ \E f \in FromHub : f.type # "JOINED" /\ Callback(Frame(l, f))
          BY <3>4 DEF Releases, Small
        <5>2. ASSUME NEW f, f = Parted(r, TRUE), Callback(Frame(l, f))
              PROVE  f \in FromHub /\ f.type # "JOINED" /\ events' = Append(events, Frame(l, f))
          BY <2>3, <4>1, <5>2
        <5>3. CASE \E f \in FromHub : f.type # "JOINED" /\ Callback(Frame(l, f))
          BY <2>3, <5>3
        <5> QED
          BY <5>1, <5>2, <5>3
      <4> QED
        BY <2>6, <3>1, <4>2
    <3> QED
      BY <2>11, <3>2, <3>3, <3>4
  <2> QED
    BY <1>1, <2>1, <2>4, <2>7, <2>8, <2>9, <2>10, <2>11, HubSteps DEF Orderly
<1> QED
  BY <1>3, <1>4, <1>5, <1>6, <1>7, StepKinds DEF OtherThread

\* No step makes a session none, and only WELCOME makes it ready.
LEMMA ReadySteps ==
    ASSUME TypeOK, LifelineInv, [Next]_vars
    PROVE  /\ session' = NoSession => session = NoSession
           /\ Ready' => \/ Ready
                        \/ /\ PlainHandler /\ session # NoSession
                           /\ Head(events) \in Frames("WELCOME")
           /\ Ready /\ ~Ready' => LinkHandler
<1>1. CASE PlainHandler
  <2>1. session # NoSession =>
            session'.ready <=> session.ready \/ Head(events) \in Frames("WELCOME")
    BY <1>1, PlainSteps DEF Does, SessionStep
  <2> QED
    BY <1>1, <2>1, PlainFacts DEF Ready
<1>2. CASE LinkHandler
  BY <1>2, LinkHandlers DEF Ready, Blank
<1>3. CASE OtherThread
  BY <1>3, OtherThreads DEF Ready
<1> QED
  BY <1>1, <1>2, <1>3, StepKinds

\* The hub's members are on welcomed links, and these are up.
LEMMA MembersStep ==
    ASSUME Orderly, TypeOK, LifelineInv, LingerInv', OrderInv, [Next]_vars
    PROVE  /\ "lenient" \in Faults \/ \A l \in Link : members'[l] # {} => l \in welcomed'
           /\ \A l \in welcomed' : status'[l] = "active"
           /\ LinkHandler => welcomed' = {}
<1>1. /\ "lenient" \in Faults \/ \A l \in Link : members[l] # {} => l \in welcomed
      /\ \A l \in welcomed : status[l] = "active"
  BY DEF OrderInv
<1>2. CASE PlainHandler /\ ~LinkHandler
  BY <1>1, <1>2, PlainFacts, HandlerEffect DEF hubVars
<1>3. CASE LinkHandler
  <2>1. CASE CmdConnect \/ OnRetry \/ OnDown
    <3>1. /\ events # <<>> /\ events' = Rest /\ UNCHANGED hubVars
          /\ \/ Head(events).kind \in {"down", "retry"}
             \/ Head(events).kind = "cmd" /\ Head(events).op = "connect"
      BY <2>1 DEF CmdConnect, OnRetry, OnDown, Command, Next1
    <3> QED
      BY <1>1, <3>1, WaitingEntry DEF hubVars, Live, TypeOK
  <2>2. CASE CmdDisconnect \/ Exit
    <3>1. IF hub \in Live THEN Forget(hub) ELSE UNCHANGED hubVars
      BY <2>2 DEF CmdDisconnect, Exit
    <3> QED
      BY <1>1, <3>1 DEF Forget, hubVars, Live, TypeOK, LifelineInv, NoOrphan
  <2>3. welcomed' = {}
    BY <1>3, <2>1, <2>2 DEF LinkHandler
  <2>4. \A l \in Link : members'[l] = {}
    BY <1>3, LinkHandlers DEF LingerInv
  <2> QED
    BY <2>3, <2>4
<1>4. CASE OtherThread /\ ~Net /\ ~LinkHandler
  BY <1>1, <1>4, OtherThreads
<1>5. CASE Net /\ ~LinkHandler
  <2>1. PICK l \in Link : Network(l)
    BY <1>5 DEF Net
  <2>2. CASE HubClosed(l)
    <3>1. /\ status' = [status EXCEPT ![l] = "closed"] /\ welcomed' = welcomed \ {l}
          /\ members' = [members EXCEPT ![l] = {}]
      BY <2>2 DEF HubClosed, Closed, Forget
    <3> QED
      BY <1>1, <1>5, <3>1 DEF TypeOK
  <2>3. CASE Opens(l)
    BY <1>1, <1>5, <2>3 DEF Opens, TypeOK
  <2>4. CASE Speaks(l)
    BY <1>1, <1>5, <2>4 DEF Speaks
  <2>5. ASSUME NEW N, Reads(l, N), welcomed' = welcomed,
               "lenient" \in Faults \/ (N # {} => l \in welcomed)
        PROVE  /\ "lenient" \in Faults \/ \A k \in Link : members'[k] # {} => k \in welcomed'
               /\ \A k \in welcomed' : status'[k] = "active"
    BY <1>1, <2>5 DEF Reads, TypeOK
  <2>6. CASE Skips(l)
    BY <1>1, <1>5, <2>5, <2>6 DEF Skips
  <2>7. CASE Welcomes(l)
    <3>1. welcomed' = welcomed \cup {l} /\ status[l] = "active" /\ status' = status
      BY <2>7 DEF Welcomes, Reads
    <3>2. \A k \in Link \ {l} : members'[k] = members[k]
      BY <2>7 DEF Welcomes, Reads, TypeOK
    <3> QED
      BY <1>1, <1>5, <3>1, <3>2
  <2>8. ASSUME NEW r \in Room, Admits(l, r) \/ TurnsAway(l, r) \/ Releases(l, r)
        PROVE  /\ "lenient" \in Faults \/ \A k \in Link : members'[k] # {} => k \in welcomed'
               /\ \A k \in welcomed' : status'[k] = "active"
    <3>1. CASE Admits(l, r)
      BY <2>5, <3>1 DEF Admits, Orderly
    <3>2. CASE TurnsAway(l, r)
      BY <1>1, <2>5, <3>2 DEF TurnsAway
    <3>3. CASE Releases(l, r)
      BY <1>1, <2>5, <3>3 DEF Releases
    <3> QED
      BY <2>8, <3>1, <3>2, <3>3
  <2> QED
    BY <1>5, <2>1, <2>2, <2>3, <2>4, <2>6, <2>7, <2>8, HubSteps DEF Orderly
<1> QED
  BY <1>2, <1>3, <1>4, <1>5, StepKinds

\* A prefix of the queue, or all of it: what is in order stays so.
LEMMA RestOrder ==
    ASSUME TypeOK, NEW q, q = events \/ (events # <<>> /\ q = Rest)
    PROVE  /\ Range(q) \subseteq Range(events)
           /\ \A X, Y : Apart(events, X, Y) => Apart(q, X, Y)
           /\ \A X, Y : Led(events, X, Y) /\ (q = events \/ Head(events) \notin X) => Led(q, X, Y)
           /\ Range(events) \subseteq Range(q) \cup {Head(events)}
<1>1. events \in Seq(Event)
  BY DEF TypeOK
<1>2. CASE events # <<>> /\ q = Rest
  <2>1. Range(events) = Range(Rest) \cup {Head(events)}
    BY <1>1, <1>2, QueueRanges, EntryType DEF Rest
  <2> QED
    BY <1>1, <1>2, <2>1, TailOrder DEF Rest
<1> QED
  BY <1>2

\* The order of entries.
LEMMA OrderStep ==
    ASSUME Orderly, TypeOK, LifelineInv, BeforeSession, CurrentInv, LingerInv', OrderInv,
           [Next]_vars
    PROVE  OrderInv'
<1>1. PICK q \in Seq(Event) :
          /\ \/ q = events
             \/ events # <<>> /\ q = Rest /\ (PlainHandler \/ Head(events).kind # "frame")
          /\ events' = q \/ \E e \in Event : Fits(e) /\ events' = Append(q, e)
  BY OrderlyQueue
<1>2. /\ Range(q) \subseteq Range(events)
      /\ Apart(q, Kind("down"), Kind("frame")) /\ Apart(q, Frames("WELCOME"), Kind("up"))
  BY <1>1, RestOrder DEF OrderInv
<1>3. ASSUME NEW e \in Event, Fits(e), events' = Append(q, e)
      PROVE  /\ Apart(events', Kind("down"), Kind("frame"))
             /\ Apart(events', Frames("WELCOME"), Kind("up"))
             /\ Range(events') = Range(q) \cup {e}
  <2>1. e \notin Kind("frame") \/ Range(q) \cap Kind("down") = {}
    BY <1>2, <1>3 DEF Fits, Kind, Downs
  <2>2. e \notin Kind("up") \/ Range(q) \cap Frames("WELCOME") = {}
    BY <1>2, <1>3 DEF Fits, Kind
  <2> QED
    BY <1>2, <1>3, <2>1, <2>2, AppendOrder, QueueRanges
<1>4. /\ Apart(events', Kind("down"), Kind("frame")) /\ Apart(events', Frames("WELCOME"), Kind("up"))
      /\ \A e \in Range(events') : e \in Range(events) \/ Fits(e)
  <2>1. CASE events' = q
    BY <1>2, <2>1
  <2>2. CASE \E e \in Event : Fits(e) /\ events' = Append(q, e)
    BY <1>2, <1>3, <2>2
  <2> QED
    BY <1>1, <2>1, <2>2
<1>5. session' = NoSession => Range(events') \cap Kind("frame") = {}
  BY <1>4, ReadySteps DEF OrderInv, Fits, Kind
<1>6. Ready' => Range(events') \cap Kind("up") = {}
  <2>1. CASE Ready
    BY <1>4, <2>1 DEF OrderInv, Fits, Kind
  <2>2. CASE PlainHandler /\ Head(events) \in Frames("WELCOME")
    <3>1. events # <<>> /\ events' = Rest /\ events \in Seq(Event)
      BY <2>2, PlainFacts DEF TypeOK
    <3> QED
      BY <2>2, <3>1, TailOrder DEF OrderInv, Rest
  <2> QED
    BY <2>1, <2>2, ReadySteps
<1>7. /\ "lenient" \in Faults \/ \A l \in Link : members'[l] # {} => l \in welcomed'
      /\ \A l \in welcomed' : status'[l] = "active"
  BY MembersStep
<1> QED
  BY <1>4, <1>5, <1>6, <1>7 DEF OrderInv, Kind, Frames

\* When a handler other than the plain ones ends a session or begins one, no
\* frame is left on the queue.
LEMMA LinkFrames ==
    ASSUME TypeOK, LifelineInv, OrderInv, LinkHandler, ~(session' = session /\ wanted' = wanted)
    PROVE  events # <<>> /\ events' = Rest /\ Range(events') \cap Kind("frame") = {}
<1>1. events \in Seq(Event)
  BY DEF TypeOK
<1>2. CASE OnDown
  <2>1. events # <<>> /\ events' = Rest /\ Head(events) \in Kind("down")
    BY <1>2, EntryType DEF OnDown, Next1, Kind
  <2> QED
    BY <1>1, <2>1, TailOrder DEF OrderInv, Rest
<1>3. CASE CmdConnect
  <2>1. events # <<>> /\ events' = Rest /\ Head(events).kind = "cmd" /\ Head(events).op = "connect"
    BY <1>3 DEF CmdConnect, Command, Next1
  <2>2. Head(events) \in Range(events) /\ Range(Rest) \subseteq Range(events)
    BY <1>1, <2>1, QueueRanges, EntryType DEF Rest
  <2>3. Head(events) \in Connects
    BY <2>1, EntryType, WaitingKinds DEF Reopens
  <2>4. session = NoSession
    BY <2>2, <2>3 DEF LifelineInv, Fresh, Unstarted, Range
  <2> QED
    BY <2>1, <2>2, <2>4 DEF OrderInv
<1>4. CASE CmdDisconnect \/ OnRetry \/ Exit
  BY <1>4 DEF CmdDisconnect, OnRetry, OpenLink, Exit
<1> QED
  BY <1>2, <1>3, <1>4 DEF LinkHandler

\* The limits are those of a WELCOME, or none.
LEMMA TooLongStays == TooLong' = TooLong
BY DEF TooLong

LEMMA LimitStep ==
    ASSUME Orderly, TypeOK, LifelineInv, LimitInv, [Next]_vars
    PROVE  LimitInv'
<1> SUFFICES ASSUME session' # NoSession
             PROVE  session'.limits.maxRooms = Unlimited /\ session'.limits.longNames \subseteq TooLong
  BY TooLongStays DEF LimitInv
<1>1. NothingKnown.maxRooms = Unlimited /\ NothingKnown.longNames = {}
  BY DEF NothingKnown
<1>2. CASE PlainHandler
  <2>1. session # NoSession
    BY <1>2, PlainFacts
  <2>2. session'.limits = session.limits \/ session'.limits \in Advertised
    BY <1>2, <2>1, PlainSteps DEF Does, SessionStep
  <2> QED
    BY <2>1, <2>2 DEF Orderly, LimitInv
<1>3. CASE LinkHandler
  BY <1>1, <1>3, LinkHandlers DEF LimitInv
<1>4. CASE OtherThread
  BY <1>4, OtherThreads DEF LimitInv
<1> QED
  BY <1>2, <1>3, <1>4, StepKinds

\* WELCOME comes first.
LEMMA GreetStep ==
    ASSUME Untroubled, TypeOK, TypeOK', LifelineInv, BeforeSession, CurrentInv, LingerInv', OrderInv,
           GreetInv, [Next]_vars
    PROVE  GreetInv'
<1>1. PICK q \in Seq(Event) :
          /\ \/ q = events
             \/ events # <<>> /\ q = Rest /\ (PlainHandler \/ Head(events).kind # "frame")
          /\ events' = q \/ \E e \in Event : Fits(e) /\ events' = Append(q, e)
  BY OrderlyQueue DEF Untroubled
<1> SUFFICES ASSUME ~Ready'
             PROVE  /\ welcomed' = {} \/ Range(events') \cap Frames("WELCOME") # {}
                    /\ Led(events', Frames("WELCOME"), Frames("JOINED"))
                    /\ session' # NoSession => session'.rooms = {}
  BY DEF GreetInv, Frames
<1>4. ASSUME PlainHandler, session # NoSession
      PROVE  Head(events) \notin Frames("WELCOME")
  BY <1>4, PlainSteps, PlainFacts DEF Does, SessionStep, Ready
<1>5. CASE LinkHandler /\ ~(session' = session /\ wanted' = wanted)
  <2>1. welcomed' = {} /\ Range(events') \cap Kind("frame") = {}
    BY <1>5, LinkFrames, MembersStep DEF Untroubled
  <2>2. Led(events', Frames("WELCOME"), Frames("JOINED"))
    BY <2>1 DEF Led, Frames, Kind, Range
  <2> QED
    BY <1>5, <2>1, <2>2, LinkHandlers DEF Blank
<1>6. CASE ~(LinkHandler /\ ~(session' = session /\ wanted' = wanted))
  <2>1. ~Ready
    BY <1>6, ReadySteps DEF Ready
  <2>2. /\ welcomed = {} \/ Range(events) \cap Frames("WELCOME") # {}
        /\ Led(events, Frames("WELCOME"), Frames("JOINED"))
        /\ session # NoSession => session.rooms = {}
    BY <2>1 DEF GreetInv
  <2>3. q = events \/ Head(events) \notin Frames("WELCOME")
    <3>1. ASSUME PlainHandler, session = NoSession PROVE Head(events) \notin Frames("WELCOME")
      <4>1. events # <<>> /\ events \in Seq(Event) /\ Head(events) \in Event
        BY <3>1, PlainFacts, EntryType DEF TypeOK
      <4>2. Head(events) \in Range(events)
        BY <4>1, QueueRanges
      <4> QED
        BY <3>1, <4>2 DEF OrderInv, Frames, Kind
    <3> QED
      BY <1>1, <1>4, <3>1, EntriesDiffer
  <2>4. /\ Led(q, Frames("WELCOME"), Frames("JOINED"))
        /\ welcomed = {} \/ Range(q) \cap Frames("WELCOME") # {}
    BY <1>1, <2>2, <2>3, RestOrder
  <2>5. /\ Led(events', Frames("WELCOME"), Frames("JOINED"))
        /\ welcomed = {} \/ Range(events') \cap Frames("WELCOME") # {}
    <3>1. ASSUME NEW e \in Event, Fits(e), events' = Append(q, e)
          PROVE  /\ Led(events', Frames("WELCOME"), Frames("JOINED"))
                 /\ welcomed = {} \/ Range(events') \cap Frames("WELCOME") # {}
      BY <2>4, <3>1, AppendOrder, QueueRanges DEF Fits, Untroubled
    <3> QED
      BY <1>1, <2>4, <3>1
  <2>6. session' # NoSession => session'.rooms = {}
    <3> SUFFICES ASSUME session' # NoSession PROVE session'.rooms = {}
      OBVIOUS
    <3>1. CASE PlainHandler
      <4>1. session # NoSession /\ session' \in Session /\ events # <<>> /\ Head(events) \in Event
        BY <3>1, PlainFacts, EntryType DEF TypeOK
      <4>2. Head(events) \notin Frames("JOINED")
        BY <2>2, <4>1, TailOrder DEF TypeOK
      <4>3. \A r : Head(events) \notin Says("JOINED", r)
        BY <4>2 DEF Says, Frames
      <4>4. PICK tx : \A r \in Room : RoomStep(tx, r)
        BY <3>1, <4>1, PlainSteps DEF Does
      <4>5. ASSUME NEW r \in Room PROVE r \notin session'.rooms
        <5>1. r \notin session.rooms /\ RoomStep(tx, r) /\ Head(events) \notin Says("JOINED", r)
          BY <2>2, <4>1, <4>3, <4>4
        <5>2. CASE Passes(tx, r) \/ Declines(tx, r)
          BY <5>1, <5>2 DEF Passes, Declines, Same
        <5>3. CASE AsksFor(tx, r) \/ GivesUp(tx, r)
          BY <5>1, <5>3 DEF AsksFor, GivesUp
        <5>4. CASE Enters(tx, r) \/ Leaves(tx, r)
          BY <5>1, <5>4 DEF Enters, Leaves
        <5> QED
          BY <5>1, <5>2, <5>3, <5>4 DEF RoomStep
      <4> QED
        BY <4>1, <4>5 DEF Session
    <3>2. CASE session' = session
      BY <2>2, <3>2
    <3> QED
      BY <1>6, <3>1, <3>2, OtherThreads, StepKinds
  <2>7. welcomed' = {} \/ Range(events') \cap Frames("WELCOME") # {}
    <3>1. CASE welcomed' \subseteq welcomed
      BY <2>5, <3>1
    <3>2. CASE Net
      <4>1. PICK l \in Link : Network(l)
        BY <3>2 DEF Net
      <4>2. CASE Welcomes(l)
        <5>1. PICK limits \in Advertised : Callback(Frame(l, Welcome(limits)))
          BY <4>2 DEF Welcomes
        <5>2. /\ Frame(l, Welcome(limits)) \in Event
              /\ Frame(l, Welcome(limits)) \in Frames("WELCOME")
          BY DEF Frame, Welcome, Event, LinkEvent, FromHub, Frames
        <5> QED
          BY <5>1, <5>2, CallbackRange
      <4>3. CASE ~Welcomes(l)
        <5>1. welcomed' \subseteq welcomed
          BY <4>1, <4>3, HubSteps DEF HubClosed, Forget, Opens, Speaks, Skips, Admits, TurnsAway, Releases, Untroubled, Orderly
        <5> QED
          BY <3>1, <5>1
      <4> QED
        BY <4>2, <4>3
    <3>3. CASE PlainHandler
      BY <3>1, <3>3, HandlerEffect DEF hubVars
    <3>4. CASE LinkHandler
      BY <3>4, MembersStep DEF Untroubled
    <3>5. CASE OtherThread /\ ~Net
      BY <3>1, <3>5, OtherThreads
    <3> QED
      BY <3>2, <3>3, <3>4, <3>5, StepKinds
  <2> QED
    BY <2>5, <2>6, <2>7
<1> QED
  BY <1>5, <1>6

-----------------------------------------------------------------------------
(* The books of the session agree with the user and with the hub.          *)

\* A room that is wanted and not asked for is not being left anywhere, unless
\* the hub would never be asked for it.
NoneLeft(r) ==
    r \in wanted \ (session.rooms \cup session.pendingJoins \cup TooLong) =>
        /\ Range(events) \cap Says("PARTED", r) = {}
        /\ \A l \in Link : PartMsg(r) \notin Range(toHub[l])

\* No JOINED for r is to come: the hub has turned the client away, or has let
\* it in and out again.
Over(r) ==
    /\ Range(events) \cap Says("JOINED", r) = {}
    /\ \A l \in Link : r \notin members[l] /\ JoinMsg(r) \notin Range(toHub[l])

\* A room left before its JOIN was answered: JOINED comes before PARTED, as
\* the hub reads JOIN before PART, or it does not come at all.
Swapped(r) ==
    /\ \/ Range(events) \cap Says("JOINED", r) # {}
       \/ hub \notin Live
       \/ r \notin members[hub] /\ Apart(toHub[hub], {PartMsg(r)}, {JoinMsg(r)})
    /\ r \notin session.pendingParts => \A l \in Link : PartMsg(r) \notin Range(toHub[l])
    /\ \/ Led(events, Says("JOINED", r), Says("PARTED", r))
       \/ r \in session.pendingParts /\ Over(r)
Crossed(r) ==
    /\ r \in session.pendingJoins
    /\ r \in session.pendingParts \/ RoomCmd("part", r) \in Range(events)
    => Swapped(r)

\* A room in the books is wanted or being left, or was refused for good; a
\* wanted one is in the books.
GivenUp(r) ==
    /\ r \in session.rooms \ wanted => r \in session.pendingParts
    /\ r \in session.pendingJoins \ wanted => r \in session.pendingParts \/ Over(r)
AskedFor(r) ==
    session.ready /\ r \in wanted \ TooLong => r \in session.rooms \cup session.pendingJoins

About(r) == NoneLeft(r) /\ Crossed(r) /\ GivenUp(r) /\ AskedFor(r)
MemberInv == session # NoSession => \A r \in Room : About(r)

\* The hub has the client in a wanted room of the books, or will, and no HELLO
\* on the link is to take it out again.
HubKeeps(r) ==
    session.ready /\ hub \in Live /\ r \in wanted
        /\ r \in (session.rooms \cup session.pendingJoins) \ session.pendingParts
    => Ends(toHub[hub], members[hub], r, {PartMsg(r), Hello})
KeepInv == session # NoSession => \A r \in Room : HubKeeps(r)

\* The session refuses what is too long for the hub, and nothing else.
LEMMA RefusesLong ==
    ASSUME Orderly, TypeOK, LimitInv, session # NoSession, NEW r \in Room
    PROVE  /\ Refuses(session, r) => r \in TooLong
           /\ events # <<>> /\ Head(events) \in Frames("WELCOME") =>
                  (Refuses(Welcomed(session, Head(events).frame.limits), r) <=> r \in TooLong)
<1>1. Refuses(session, r) => r \in TooLong
  BY DEF LimitInv, Refuses
<1>2. ASSUME events # <<>>, Head(events) \in Frames("WELCOME")
      PROVE  Refuses(Welcomed(session, Head(events).frame.limits), r) <=> r \in TooLong
  <2>1. Head(events).frame.limits \in Advertised
    BY <1>2, EntryType, EventFields, FrameFields DEF Frames
  <2>2. session \in Session
    BY DEF TypeOK
  <2>3. Welcomed(session, Head(events).frame.limits).limits = Head(events).frame.limits
    BY <2>2 DEF Welcomed, Session
  <2> QED
    BY <2>1, <2>3 DEF Refuses, Orderly
<1> QED
  BY <1>1, <1>2

\* Every handler that keeps the link leaves each room's books in order.
LEMMA PlainMember ==
    ASSUME Orderly, TypeOK, AskInv, LimitInv, MemberInv, PlainHandler, session # NoSession,
           NEW r \in Room
    PROVE  About(r)'
<1>1. PICK tx \in Seq(ToHub) : Carried(tx) /\ SessionStep(tx) /\ RoomStep(tx, r)
  BY PlainSteps DEF Does
<1>2. NoneLeft(r) /\ Crossed(r) /\ GivenUp(r) /\ AskedFor(r)
  BY DEF MemberInv, About
<1>3. /\ events # <<>> /\ events' = Rest /\ events \in Seq(Event) /\ Head(events) \in Event
      /\ hub' = hub /\ Live' = Live /\ members' = members
  BY PlainFacts, EntryType, HandlerEffect DEF TypeOK, hubVars
<1>4. /\ Head(events) \in Range(events) /\ Range(Rest) \subseteq Range(events)
      /\ Range(events) = Range(Rest) \cup {Head(events)}
      /\ Head(events) \in Asks(r) => Range(Rest) \cap Asks(r) = {}
  BY <1>3, HeadAsks, QueueRanges DEF AskInv, Rest
<1>5. /\ Range(events) \cap Asks(r) # {} => r \notin session.pendingParts
      /\ r \in session.pendingParts => r \notin wanted
      /\ RoomCmd("part", r) \in Asks(r) /\ RoomCmd("join", r) \in Asks(r)
  BY DEF AskInv, Patience, Asks
\* What is sent adds to the envelopes of one link.
<1>6. ASSUME NEW l \in Link
      PROVE  /\ toHub[l] \in Seq(ToHub)
             /\ toHub'[l] = toHub[l] \/ toHub'[l] = toHub[l] \o tx
             /\ Range(toHub'[l]) \subseteq Range(toHub[l]) \cup Range(tx)
  <2>1. toHub[l] \in Seq(ToHub)
    BY DEF TypeOK
  <2>2. Range(toHub[l] \o tx) = Range(toHub[l]) \cup Range(tx)
    BY <2>1, ConcatRange
  <2> QED
    BY <1>1, <2>1, <2>2 DEF Carried
<1>7. ASSUME Over(r), JoinMsg(r) \notin Range(tx) PROVE Over(r)'
  BY <1>3, <1>4, <1>6, <1>7 DEF Over, Says, JoinMsg
<1>8. ASSUME Swapped(r), Head(events) \notin Says("JOINED", r), JoinMsg(r) \notin Range(tx),
             r \in session.pendingParts => r \in session'.pendingParts,
             r \notin session'.pendingParts => PartMsg(r) \notin Range(tx)
      PROVE  Swapped(r)'
  <2>1. \/ Range(Rest) \cap Says("JOINED", r) # {}
        \/ hub \notin Live
        \/ r \notin members[hub] /\ Apart(toHub'[hub], {PartMsg(r)}, {JoinMsg(r)})
    <3>1. CASE Range(events) \cap Says("JOINED", r) # {}
      BY <1>4, <1>8, <3>1
    <3>2. CASE hub \in Live /\ r \notin members[hub] /\ Apart(toHub[hub], {PartMsg(r)}, {JoinMsg(r)})
      <4>1. hub \in Link
        BY <3>2 DEF Live
      <4>2. Apart(toHub[hub] \o tx, {PartMsg(r)}, {JoinMsg(r)})
        <5>1. Range(tx) \cap {JoinMsg(r)} = {}
          BY <1>8
        <5> QED
          BY <1>6, <3>2, <4>1, <5>1, ConcatOrder
      <4>3. Apart(toHub'[hub], {PartMsg(r)}, {JoinMsg(r)})
        <5>1. CASE toHub'[hub] = toHub[hub]
          BY <3>2, <5>1
        <5>2. CASE toHub'[hub] = toHub[hub] \o tx
          BY <4>2, <5>2
        <5> QED
          BY <1>6, <4>1, <5>1, <5>2
      <4> QED
        BY <3>2, <4>3
    <3> QED
      BY <1>8, <3>1, <3>2 DEF Swapped
  <2>2. ASSUME r \notin session'.pendingParts, NEW l \in Link PROVE PartMsg(r) \notin Range(toHub'[l])
    BY <1>6, <1>8, <2>2 DEF Swapped
  <2>3. \/ Led(Rest, Says("JOINED", r), Says("PARTED", r))
        \/ r \in session'.pendingParts /\ Over(r)'
    BY <1>3, <1>7, <1>8, TailOrder DEF Swapped, Rest
  <2> QED
    BY <1>3, <2>1, <2>2, <2>3 DEF Swapped, Says, JoinMsg, PartMsg
<1>9. CASE Passes(tx, r) \/ Declines(tx, r)
  <2>1. /\ Same(session, session', r) /\ JoinMsg(r) \notin Range(tx) /\ PartMsg(r) \notin Range(tx)
        /\ r \in wanted' <=> r \in wanted \/ Declines(tx, r)
    BY <1>9 DEF Passes, Declines
  <2>2. Declines(tx, r) => r \in session.rooms \cup TooLong
    BY RefusesLong DEF Declines
  <2>3. Head(events) \in Says("JOINED", r) => r \notin session.pendingJoins
    BY <1>9, EntriesDiffer DEF Passes, Declines, Asks
  <2>4. NoneLeft(r)'
    BY <1>2, <1>3, <1>4, <1>6, <2>1, <2>2, TooLongStays DEF NoneLeft, Same, Says, PartMsg
  <2>5. Crossed(r)'
    <3>1. r \in session'.pendingJoins /\ (r \in session'.pendingParts \/ RoomCmd("part", r) \in Range(events'))
          => Swapped(r) /\ Head(events) \notin Says("JOINED", r)
      BY <1>2, <1>3, <1>4, <2>1, <2>3 DEF Crossed, Same
    <3> QED
      BY <1>8, <2>1, <3>1 DEF Crossed, RoomCmd, Same
  <2>6. GivenUp(r)'
    BY <1>2, <1>7, <2>1 DEF GivenUp, Same
  <2>7. ~session.ready /\ session'.ready /\ r \in wanted => r \in session.rooms \cup TooLong
    BY <1>1, <1>3, <1>9, <2>2, RefusesLong DEF SessionStep, Passes
  <2>8. AskedFor(r)'
    BY <1>2, <2>1, <2>2, <2>7, TooLongStays DEF AskedFor, Same
  <2> QED
    BY <2>4, <2>5, <2>6, <2>8 DEF About
<1>10. CASE AsksFor(tx, r)
  <2>1. /\ r \notin session.rooms /\ r \notin session'.rooms
        /\ r \in session'.pendingJoins /\ r \in wanted'
        /\ r \in session'.pendingParts <=> r \in session.pendingParts
        /\ PartMsg(r) \notin Range(tx)
        /\ \/ Head(events) = RoomCmd("join", r)
           \/ Head(events) \in Frames("WELCOME") /\ r \in wanted \ TooLong
    BY <1>3, <1>10, RefusesLong DEF AsksFor
  <2>2. r \notin session.pendingParts
    BY <1>4, <1>5, <2>1
  <2>3. NoneLeft(r)' /\ GivenUp(r)' /\ AskedFor(r)'
    BY <2>1 DEF NoneLeft, GivenUp, AskedFor
  <2>4. Crossed(r)'
    <3> SUFFICES ASSUME RoomCmd("part", r) \in Range(Rest) PROVE Swapped(r)'
      BY <1>3, <2>1, <2>2 DEF Crossed, RoomCmd
    <3>1. /\ Head(events) \in Frames("WELCOME") /\ r \in wanted \ TooLong
          /\ Head(events) \notin Says("JOINED", r)
      BY <1>4, <1>5, <2>1, EntriesDiffer
    <3>2. /\ \A l \in Link : PartMsg(r) \notin Range(toHub[l])
          /\ Led(events, Says("JOINED", r), Says("PARTED", r))
          /\ \/ Range(events) \cap Says("JOINED", r) # {}
             \/ hub \notin Live
             \/ r \notin members[hub]
      <4>1. CASE r \in session.pendingJoins
        <5>1. Swapped(r)
          BY <1>2, <1>4, <4>1 DEF Crossed
        <5> QED
          BY <2>2, <5>1 DEF Swapped
      <4>2. CASE r \notin session.pendingJoins
        <5>1. /\ Range(events) \cap Says("PARTED", r) = {}
              /\ \A l \in Link : PartMsg(r) \notin Range(toHub[l])
          BY <1>2, <2>1, <3>1, <4>2 DEF NoneLeft
        <5>2. Led(events, Says("JOINED", r), Says("PARTED", r))
          BY <5>1 DEF Led, Range
        <5>3. ASSUME hub \in Live PROVE r \notin members[hub]
          <6>1. hub \in Link
            BY <5>3 DEF Live
          <6>2. r \in members[hub] => Ends(toHub[hub], members[hub], r, {PartMsg(r)})
            BY <5>1, <6>1 DEF Ends
          <6> QED
            BY <2>1, <4>2, <6>1, <6>2 DEF AskInv, KnownInv
        <5> QED
          BY <5>1, <5>2, <5>3
      <4> QED
        BY <4>1, <4>2
    <3>3. \A l \in Link : PartMsg(r) \notin Range(toHub'[l])
      BY <1>6, <2>1, <3>2
    <3>4. hub \in Live => Apart(toHub'[hub], {PartMsg(r)}, {JoinMsg(r)})
      BY <3>3 DEF Apart, Range, Live
    <3>5. Led(Rest, Says("JOINED", r), Says("PARTED", r))
      BY <1>3, <3>1, <3>2, TailOrder DEF Rest
    <3>6. Range(events) \cap Says("JOINED", r) # {} => Range(Rest) \cap Says("JOINED", r) # {}
      BY <1>4, <3>1
    <3> QED
      BY <1>3, <3>2, <3>3, <3>4, <3>5, <3>6 DEF Swapped, Says, JoinMsg, PartMsg
  <2> QED
    BY <2>3, <2>4 DEF About
<1>11. CASE GivesUp(tx, r)
  <2>1. /\ Head(events) = RoomCmd("part", r)
        /\ r \in session'.pendingJoins <=> r \in session.pendingJoins
        /\ r \in session'.pendingParts /\ r \notin wanted'
        /\ Range(tx) = {PartMsg(r)}
    BY <1>11 DEF GivesUp
  <2>2. NoneLeft(r)' /\ GivenUp(r)' /\ AskedFor(r)'
    BY <2>1 DEF NoneLeft, GivenUp, AskedFor
  <2>3. Crossed(r)'
    <3>1. r \in session'.pendingJoins => Swapped(r)
      BY <1>2, <1>4, <2>1 DEF Crossed
    <3>2. Head(events) \notin Says("JOINED", r) /\ JoinMsg(r) \notin Range(tx)
      BY <1>5, <2>1, EntriesDiffer
    <3> QED
      BY <1>8, <2>1, <3>1, <3>2 DEF Crossed
  <2> QED
    BY <2>2, <2>3 DEF About
<1>12. CASE Enters(tx, r)
  <2>1. /\ Head(events) \in Says("JOINED", r) /\ r \in session.pendingJoins
        /\ r \in session'.rooms /\ r \notin session'.pendingJoins
        /\ r \in session'.pendingParts <=> r \in session.pendingParts
        /\ r \in wanted' <=> r \in wanted
    BY <1>12 DEF Enters
  <2>2. ~Over(r)
    BY <1>4, <2>1 DEF Over
  <2> QED
    BY <1>2, <2>1, <2>2 DEF About, NoneLeft, Crossed, GivenUp, AskedFor
<1>13. CASE Leaves(tx, r)
  <2>1. /\ Head(events) \in Says("PARTED", r) /\ r \in session.pendingParts
        /\ r \notin session'.rooms /\ r \notin session'.pendingParts
        /\ r \in session'.pendingJoins <=> r \in session.pendingJoins
        /\ r \in wanted' <=> r \in wanted
        /\ JoinMsg(r) \notin Range(tx)
    BY <1>13 DEF Leaves
  <2>2. r \notin wanted /\ RoomCmd("part", r) \notin Range(events')
    BY <1>3, <1>4, <1>5, <2>1
  <2>3. r \in session.pendingJoins => Over(r)'
    <3>1. Led(events, Says("JOINED", r), Says("PARTED", r)) => Head(events) \notin Says("PARTED", r)
      BY <1>3, TailOrder
    <3> QED
      BY <1>2, <1>7, <2>1, <3>1 DEF Crossed, Swapped
  <2>4. NoneLeft(r)' /\ Crossed(r)'
    BY <2>1, <2>2 DEF NoneLeft, Crossed, RoomCmd
  <2>5. GivenUp(r)' /\ AskedFor(r)'
    BY <2>1, <2>2, <2>3 DEF GivenUp, AskedFor
  <2> QED
    BY <2>4, <2>5 DEF About
<1> QED
  BY <1>1, <1>9, <1>10, <1>11, <1>12, <1>13 DEF RoomStep

\* ... and leaves the client in it at the hub.
LEMMA PlainKeeps ==
    ASSUME Untroubled, TypeOK, LifelineInv, BeforeSession, CurrentInv, AskInv, OrderInv, LimitInv,
           GreetInv, MemberInv, KeepInv, PlainHandler, session # NoSession, NEW r \in Room
    PROVE  HubKeeps(r)'
<1>1. PICK tx \in Seq(ToHub) : Carried(tx) /\ SessionStep(tx) /\ RoomStep(tx, r)
  BY PlainSteps DEF Does
<1>2. GivenUp(r) /\ HubKeeps(r)
  BY DEF MemberInv, KeepInv, About
<1>3. /\ events # <<>> /\ events \in Seq(Event) /\ Head(events) \in Event
      /\ Head(events) \in Range(events)
      /\ hub' = hub /\ Live' = Live /\ members' = members
  BY PlainFacts, EntryType, HandlerEffect, HeadAsks DEF TypeOK, AskInv, hubVars
<1>4. /\ Range(events) \cap Asks(r) # {} => r \notin session.pendingParts
      /\ r \in session.pendingParts => r \notin wanted
  BY DEF AskInv, Patience
<1> SUFFICES ASSUME session'.ready, hub \in Live, r \in wanted',
                    r \in (session'.rooms \cup session'.pendingJoins) \ session'.pendingParts
             PROVE  Ends(toHub'[hub], members'[hub], r, {PartMsg(r), Hello})
  BY <1>3 DEF HubKeeps, PartMsg, Hello
<1>5. hub \in Link /\ toHub'[hub] = toHub[hub] \o tx /\ toHub[hub] \in Seq(ToHub)
  <2>1. hub \in Link
    BY DEF Live
  <2>2. hub \in welcomed
    <3>1. CASE session.ready
      BY <3>1, WhileLive DEF Ready
    <3>2. CASE Head(events) \in Frames("WELCOME")
      <4>1. Head(events).link \in welcomed
        BY <1>3, <3>2, WhileLive
      <4>2. welcomed \subseteq Live /\ \A l \in Live : hub = l
        BY DEF CurrentInv, LifelineInv, NoOrphan
      <4> QED
        BY <4>1, <4>2
    <3> QED
      BY <1>1, <3>1, <3>2 DEF SessionStep
  <2> QED
    BY <1>1, <2>1, <2>2 DEF Carried, OrderInv, TypeOK
<1>6. Hello \notin Range(tx)
  <2>1. Greets => ~session.ready /\ Head(events) \notin Frames("WELCOME")
    BY <1>3, EntriesDiffer DEF Greets, OrderInv, Ready, Kind
  <2> QED
    BY <1>1, <2>1 DEF SessionStep
<1>7. ASSUME PartMsg(r) \notin Range(tx),
             \/ JoinMsg(r) \in Range(tx)
             \/ Ends(toHub[hub], members[hub], r, {PartMsg(r), Hello})
      PROVE  Ends(toHub'[hub], members'[hub], r, {PartMsg(r), Hello})
  <2>1. Range(tx) \cap {PartMsg(r), Hello} = {}
    BY <1>6, <1>7
  <2>2. Ends(toHub[hub] \o tx, members[hub], r, {PartMsg(r), Hello})
    BY <1>5, <1>7, <2>1, EndsConcat
  <2> QED
    BY <1>3, <1>5, <2>2
<1>8. ASSUME ~session.ready
      PROVE  Head(events) \in Frames("WELCOME") /\ r \notin session.rooms
  BY <1>1, <1>8 DEF SessionStep, GreetInv, Ready
<1>9. CASE Passes(tx, r)
  <2>1. r \in wanted /\ Same(session, session', r) /\ PartMsg(r) \notin Range(tx)
    BY <1>9 DEF Passes
  <2>2. session.ready
    BY <1>3, <1>8, <1>9, <2>1, RefusesLong DEF Passes, Untroubled
  <2> QED
    BY <1>2, <1>7, <2>1, <2>2 DEF HubKeeps, Same
<1>10. CASE Declines(tx, r)
  <2>1. /\ Same(session, session', r) /\ PartMsg(r) \notin Range(tx)
        /\ r \in session.rooms /\ Head(events) = RoomCmd("join", r)
    BY <1>10, RefusesLong DEF Declines, Untroubled
  <2>2. r \in wanted
    BY <1>2, <1>3, <1>4, <2>1 DEF GivenUp, Asks
  <2>3. session.ready
    BY <1>8, <2>1
  <2> QED
    BY <1>2, <1>7, <2>1, <2>2, <2>3 DEF HubKeeps, Same
<1>11. CASE AsksFor(tx, r)
  BY <1>7, <1>11 DEF AsksFor
<1>12. CASE GivesUp(tx, r)
  BY <1>12 DEF GivesUp
<1>13. CASE Enters(tx, r)
  <2>1. /\ Head(events) \in Says("JOINED", r) /\ r \in session.pendingJoins /\ r \in wanted
        /\ r \notin session.pendingParts /\ PartMsg(r) \notin Range(tx)
    BY <1>13 DEF Enters
  <2>2. session.ready
    BY <1>8, <2>1, EntriesDiffer
  <2> QED
    BY <1>2, <1>7, <2>1, <2>2 DEF HubKeeps
<1>14. CASE Leaves(tx, r)
  BY <1>4, <1>14 DEF Leaves
<1> QED
  BY <1>1, <1>9, <1>10, <1>11, <1>12, <1>13, <1>14 DEF RoomStep

\* A ready session is left as it is only by handlers that close the link.
LEMMA ReadyCloses ==
    ASSUME TypeOK, LifelineInv, CurrentInv, LinkHandler, Ready, session' = session
    PROVE  Live' = {}
<1>1. ASSUME CmdConnect \/ OnRetry PROVE FALSE
  <2>1. /\ events # <<>> /\ events' = Rest /\ Head(events).kind # "down"
        /\ \/ Head(events).kind = "retry"
           \/ Head(events).kind = "cmd" /\ Head(events).op = "connect"
    BY <1>1 DEF CmdConnect, OnRetry, Command, Next1
  <2>2. Waits(Rest) = {} /\ Live = {}
    BY <2>1, WaitingEntry
  <2>3. ~Downs(events)
    BY <2>1, <2>2, NothingEnds
  <2> QED
    BY <2>2, <2>3 DEF CurrentInv, Belongs, Ready
<1>2. ~OnDown
  <2>1. session \in Session
    BY DEF Ready, TypeOK
  <2>2. OnLinkDown(session).session.ready = FALSE
    BY <2>1 DEF OnLinkDown, Emit, Outcome, Session
  <2> QED
    BY <2>2 DEF OnDown, Ready
<1>3. CASE CmdDisconnect \/ Exit
  <2>1. PICK rest : Close(hub, rest)
    BY <1>3 DEF CmdDisconnect, Exit
  <2> QED
    BY <2>1 DEF Close, Live, LifelineInv, NoOrphan, TypeOK
<1> QED
  BY <1>1, <1>2, <1>3 DEF LinkHandler

\* A link ends, or one is begun.
LEMMA LinkMember ==
    ASSUME TypeOK, LifelineInv, CurrentInv, LingerInv', OrderInv,
           MemberInv, LinkHandler, session' # NoSession, NEW r \in Room
    PROVE  About(r)' /\ HubKeeps(r)'
<1>1. \A l \in Link : toHub'[l] = <<>> /\ members'[l] = {}
  BY LinkHandlers DEF LingerInv
<1>2. \A l \in Link : \A m : m \notin Range(toHub'[l])
  BY <1>1, RangesOfCalls
<1>3. CASE session' = session /\ wanted' = wanted
  <2>1. NoneLeft(r) /\ Crossed(r) /\ GivenUp(r) /\ AskedFor(r)
    BY <1>3 DEF MemberInv, About
  <2>2. PICK q \in Seq(Event) :
            /\ q = events \/ (events # <<>> /\ q = Rest /\ Head(events).kind # "frame")
            /\ events' = q \/ \E l \in Link : events' = Append(q, Down(l))
    BY LinkQueue
  <2>3. \A l \in Link : /\ Down(l) \in Event /\ Down(l) # RoomCmd("part", r)
                        /\ \A type : Down(l) \notin Says(type, r)
    BY EntriesDiffer DEF Event, LinkEvent, Down, RoomCmd
  <2>4. /\ Range(q) \subseteq Range(events)
        /\ Led(events, Says("JOINED", r), Says("PARTED", r)) =>
               Led(q, Says("JOINED", r), Says("PARTED", r))
    <3>1. q = events \/ Head(events) \notin Says("JOINED", r)
      BY <2>2, EntriesDiffer
    <3> QED
      BY <2>2, <3>1, RestOrder
  <2>5. /\ \A type : Range(events') \cap Says(type, r) \subseteq Range(events)
        /\ RoomCmd("part", r) \in Range(events') => RoomCmd("part", r) \in Range(events)
        /\ Led(events, Says("JOINED", r), Says("PARTED", r)) =>
               Led(events', Says("JOINED", r), Says("PARTED", r))
    <3>1. CASE events' = q
      BY <2>4, <3>1
    <3>2. ASSUME NEW l \in Link, events' = Append(q, Down(l))
          PROVE  /\ Range(events') = Range(q) \cup {Down(l)}
                 /\ Led(q, Says("JOINED", r), Says("PARTED", r)) =>
                        Led(events', Says("JOINED", r), Says("PARTED", r))
      BY <2>3, <3>2, QueueRanges, AppendOrder
    <3> QED
      BY <2>2, <2>3, <2>4, <3>1, <3>2
  <2>6. Over(r) => Over(r)'
    BY <1>1, <1>2, <2>5 DEF Over, Says, JoinMsg
  <2>7. NoneLeft(r)'
    BY <1>2, <1>3, <2>1, <2>5 DEF NoneLeft, Says, PartMsg
  <2>8. Crossed(r)'
    <3>1. hub' \in Live' => r \notin members'[hub'] /\ Apart(toHub'[hub'], {PartMsg(r)}, {JoinMsg(r)})
      BY <1>1 DEF Live, Apart
    <3>2. Swapped(r) => Swapped(r)'
      BY <1>2, <1>3, <2>5, <2>6, <3>1 DEF Swapped, Says, JoinMsg, PartMsg
    <3> QED
      BY <1>3, <2>1, <2>5, <3>2 DEF Crossed, RoomCmd
  <2>9. GivenUp(r)' /\ AskedFor(r)'
    BY <1>3, <2>1, <2>6 DEF GivenUp, AskedFor
  <2>10. HubKeeps(r)'
    BY <1>3, ReadyCloses DEF Ready, HubKeeps
  <2> QED
    BY <2>7, <2>8, <2>9, <2>10 DEF About
<1>4. CASE ~(session' = session /\ wanted' = wanted)
  <2>1. Blank(session') /\ Range(events') \cap Kind("frame") = {}
    BY <1>4, LinkHandlers, LinkFrames
  <2>2. NoneLeft(r)'
    BY <1>2, <2>1 DEF NoneLeft, Says, Kind, PartMsg
  <2>3. Crossed(r)' /\ GivenUp(r)' /\ AskedFor(r)' /\ HubKeeps(r)'
    BY <2>1 DEF Blank, Crossed, GivenUp, AskedFor, HubKeeps
  <2> QED
    BY <2>2, <2>3 DEF About
<1> QED
  BY <1>3, <1>4

\* An entry is put on the queue, and nothing else happens.
LEMMA EntryMember ==
    ASSUME TypeOK, NEW r \in Room, About(r), NEW e \in Event,
           events' = events \/ events' = Append(events, e),
           session' = session, wanted' = wanted, hub' = hub, Live' = Live,
           toHub' = toHub, members' = members,
           e = RoomCmd("part", r) => r \notin session.pendingJoins,
           e \in Says("JOINED", r) \cup Says("PARTED", r) => hub \in Live /\ r \in members[hub],
           e \in Says("PARTED", r) =>
               r \notin wanted \ (session.rooms \cup session.pendingJoins \cup TooLong)
    PROVE  About(r)' /\ (HubKeeps(r) => HubKeeps(r)')
<1>1. NoneLeft(r) /\ Crossed(r) /\ GivenUp(r) /\ AskedFor(r)
  BY DEF About
<1>2. /\ Range(events') \subseteq Range(events) \cup {e}
      /\ Range(events) \subseteq Range(events')
      /\ \A X, Y : Led(events, X, Y) /\ (e \notin Y \/ Range(events) \cap X # {}) => Led(events', X, Y)
  <2>1. events \in Seq(Event)
    BY DEF TypeOK
  <2>2. Range(Append(events, e)) = Range(events) \cup {e}
    BY <2>1, QueueRanges
  <2>3. \A X, Y : Led(events, X, Y) /\ (e \notin Y \/ Range(events) \cap X # {})
                      => Led(Append(events, e), X, Y)
    BY <2>1, AppendOrder
  <2> QED
    BY <2>2, <2>3
<1>3. NoneLeft(r)'
  BY <1>1, <1>2 DEF NoneLeft, Says, PartMsg
<1>4. Over(r) => Over(r)'
  <2>1. Over(r) => e \notin Says("JOINED", r)
    BY DEF Over, Live
  <2> QED
    BY <1>2, <2>1 DEF Over, Says, JoinMsg
<1>5. Crossed(r)'
  <2>1. ASSUME Swapped(r)
        PROVE  \/ Led(events', Says("JOINED", r), Says("PARTED", r))
               \/ r \in session.pendingParts /\ Over(r)'
    <3>1. e \in Says("PARTED", r) => Range(events) \cap Says("JOINED", r) # {}
      BY <2>1 DEF Swapped
    <3> QED
      BY <1>2, <1>4, <2>1, <3>1 DEF Swapped
  <2>2. Swapped(r) => Swapped(r)'
    BY <1>2, <2>1 DEF Swapped, Says, JoinMsg, PartMsg
  <2> QED
    BY <1>1, <1>2, <2>2 DEF Crossed, RoomCmd
<1>6. GivenUp(r)' /\ AskedFor(r)' /\ (HubKeeps(r) => HubKeeps(r)')
  BY <1>1, <1>4 DEF GivenUp, AskedFor, HubKeeps, PartMsg, Hello
<1> QED
  BY <1>3, <1>5, <1>6 DEF About

\* The hub reads an envelope of the link in hand, and may put its answer on
\* the queue.
LEMMA ReadsMember ==
    ASSUME TypeOK, LifelineInv, LingerInv, NEW r \in Room, About(r),
           hub \in Link, NEW N, Reads(hub, N), NEW e \in Event,
           events' = events \/ events' = Append(events, e),
           session' = session, wanted' = wanted, hub' = hub,
           e # RoomCmd("part", r),
           e \in Says("JOINED", r) => Head(toHub[hub]) = JoinMsg(r),
           e \in Says("PARTED", r) => Head(toHub[hub]) = PartMsg(r),
           r \in N =>
               \/ r \in members[hub]
               \/ /\ Head(toHub[hub]) = JoinMsg(r)
                  /\ e \in Says("JOINED", r) /\ events' = Append(events, e)
    PROVE  /\ About(r)'
           /\ HubKeeps(r)
              /\ (\/ session.ready /\ Head(toHub[hub]) = JoinMsg(r)
                  \/ r \in members[hub] /\ Head(toHub[hub]) \notin {PartMsg(r), Hello}
                  => r \in N)
              => HubKeeps(r)'
<1>1. NoneLeft(r) /\ Crossed(r) /\ GivenUp(r) /\ AskedFor(r)
  BY DEF About
<1> DEFINE q == toHub[hub]
<1>2. /\ q \in Seq(ToHub) /\ q # <<>> /\ toHub'[hub] = Tail(q) /\ members'[hub] = N
      /\ \A l \in Link \ {hub} : toHub'[l] = toHub[l] /\ members'[l] = members[l]
      /\ Live' = Live /\ hub \in Live
  BY DEF Reads, TypeOK, Live
<1>3. Head(q) \in Range(q) /\ Range(q) = Range(Tail(q)) \cup {Head(q)}
  <2>1. /\ Len(q) # 0 /\ Head(q) = q[1] /\ DOMAIN q = 1..Len(q) /\ Len(q) \in Nat
    BY <1>2, EmptySeq, LenProperties
  <2>2. Head(q) \in ToHub
    BY <1>2, <2>1, HeadTailProperties
  <2> QED
    BY <1>2, <2>2, QueueRanges
<1>4. /\ Range(events') \subseteq Range(events) \cup {e}
      /\ Range(events) \subseteq Range(events')
      /\ events' = Append(events, e) => e \in Range(events')
      /\ \A X, Y : Led(events, X, Y) /\ (e \notin Y \/ Range(events) \cap X # {}) => Led(events', X, Y)
  <2>1. events \in Seq(Event)
    BY DEF TypeOK
  <2>2. Range(Append(events, e)) = Range(events) \cup {e}
    BY <2>1, QueueRanges
  <2>3. \A X, Y : Led(events, X, Y) /\ (e \notin Y \/ Range(events) \cap X # {})
                      => Led(Append(events, e), X, Y)
    BY <2>1, AppendOrder
  <2> QED
    BY <2>2, <2>3
<1>5. \A l \in Link : Range(toHub'[l]) \subseteq Range(toHub[l])
  BY <1>2, <1>3
<1>6. NoneLeft(r)'
  <2> SUFFICES ASSUME r \in wanted \ (session.rooms \cup session.pendingJoins \cup TooLong)
               PROVE  /\ Range(events') \cap Says("PARTED", r) = {}
                      /\ \A l \in Link : PartMsg(r) \notin Range(toHub'[l])
    BY TooLongStays DEF NoneLeft, Says, PartMsg
  <2>1. /\ Range(events) \cap Says("PARTED", r) = {}
        /\ \A l \in Link : PartMsg(r) \notin Range(toHub[l])
    BY <1>1 DEF NoneLeft
  <2>2. PartMsg(r) \notin Range(q) /\ e \notin Says("PARTED", r)
    BY <1>3, <2>1
  <2> QED
    BY <1>4, <1>5, <2>1, <2>2
<1>7. ASSUME Range(events) \cap Says("JOINED", r) = {}, e \notin Says("JOINED", r),
             r \notin N, JoinMsg(r) \notin Range(Tail(q))
      PROVE  Over(r)'
  <2>1. ASSUME NEW l \in Link, l # hub PROVE r \notin members[l] /\ JoinMsg(r) \notin Range(toHub[l])
    <3>1. status[l] # "active"
      BY <2>1, UpInHand
    <3> QED
      BY <3>1, RangesOfCalls DEF LingerInv
  <2> QED
    BY <1>2, <1>4, <1>7, <2>1 DEF Over, Says, JoinMsg
<1>8. ASSUME Over(r) PROVE Over(r)'
  <2>1. Head(q) # JoinMsg(r) /\ JoinMsg(r) \notin Range(Tail(q)) /\ r \notin members[hub]
    BY <1>3, <1>8 DEF Over
  <2> QED
    BY <1>7, <1>8, <2>1 DEF Over
<1>9. ASSUME Swapped(r) PROVE Swapped(r)'
  <2>1. ASSUME Range(events) \cap Says("JOINED", r) = {}
        PROVE  /\ r \notin members[hub] /\ Apart(Tail(q), {PartMsg(r)}, {JoinMsg(r)})
               /\ Head(q) = PartMsg(r) => JoinMsg(r) \notin Range(Tail(q))
    BY <1>2, <1>9, <2>1, TailOrder DEF Swapped
  <2>2. \/ Range(events') \cap Says("JOINED", r) # {}
        \/ r \notin N /\ Apart(Tail(q), {PartMsg(r)}, {JoinMsg(r)})
    BY <1>4, <2>1
  <2>3. r \notin session.pendingParts => \A l \in Link : PartMsg(r) \notin Range(toHub'[l])
    BY <1>5, <1>9 DEF Swapped
  <2>4. \/ Led(events', Says("JOINED", r), Says("PARTED", r))
        \/ r \in session.pendingParts /\ Over(r)'
    <3>1. CASE e \notin Says("PARTED", r) \/ Range(events) \cap Says("JOINED", r) # {}
      BY <1>4, <1>8, <1>9, <3>1 DEF Swapped
    <3>2. CASE e \in Says("PARTED", r) /\ Range(events) \cap Says("JOINED", r) = {}
      <4>1. r \in session.pendingParts
        BY <1>3, <1>9, <3>2 DEF Swapped
      <4>2. e \notin Says("JOINED", r)
        BY <3>2 DEF Says
      <4>3. r \notin N /\ JoinMsg(r) \notin Range(Tail(q))
        BY <2>1, <3>2, <4>2
      <4> QED
        BY <1>7, <3>2, <4>1, <4>2, <4>3
    <3> QED
      BY <3>1, <3>2
  <2> QED
    BY <1>2, <2>2, <2>3, <2>4 DEF Swapped, Says, JoinMsg, PartMsg
<1>10. Crossed(r)'
  BY <1>1, <1>4, <1>9 DEF Crossed, RoomCmd
<1>11. GivenUp(r)' /\ AskedFor(r)'
  BY <1>1, <1>8 DEF GivenUp, AskedFor
<1>12. ASSUME HubKeeps(r),
              \/ session.ready /\ Head(q) = JoinMsg(r)
              \/ r \in members[hub] /\ Head(q) \notin {PartMsg(r), Hello}
              => r \in N
       PROVE  HubKeeps(r)'
  <2> SUFFICES ASSUME session.ready, r \in wanted,
                      r \in (session.rooms \cup session.pendingJoins) \ session.pendingParts
               PROVE  Ends(Tail(q), N, r, {PartMsg(r), Hello})
    BY <1>2 DEF HubKeeps, PartMsg, Hello
  <2>1. Ends(q, members[hub], r, {PartMsg(r), Hello})
    BY <1>2, <1>12 DEF HubKeeps
  <2> QED
    BY <1>2, <1>12, <2>1, EndsTail
<1> QED
  BY <1>6, <1>10, <1>11, <1>12 DEF About

\* A link ends of itself: nothing is left to keep.
LEMMA ClosedMember ==
    ASSUME TypeOK, NEW r \in Room, About(r), LifelineInv, NEW l \in Link, HubClosed(l),
           session' = session, wanted' = wanted, hub' = hub, events' = Append(events, Down(l))
    PROVE  About(r)' /\ HubKeeps(r)'
<1>1. NoneLeft(r) /\ Crossed(r) /\ GivenUp(r) /\ AskedFor(r)
  BY DEF About
<1>2. hub' \notin Live'
  BY DEF HubClosed, Closed, LifelineInv, NoOrphan, Live, TypeOK
<1>3. \A k \in Link : /\ Range(toHub'[k]) \subseteq Range(toHub[k])
                       /\ members'[k] \subseteq members[k]
  <2>1. \A k \in Link : toHub'[k] = <<>> \/ toHub'[k] = toHub[k]
    BY DEF HubClosed, Closed, TypeOK
  <2>2. \A k \in Link : members'[k] \subseteq members[k]
    BY DEF HubClosed, Forget, TypeOK
  <2> QED
    BY <2>1, <2>2, RangesOfCalls
<1>4. /\ Range(events') = Range(events) \cup {Down(l)}
      /\ Down(l) # RoomCmd("part", r) /\ \A type : Down(l) \notin Says(type, r)
      /\ Led(events, Says("JOINED", r), Says("PARTED", r)) =>
             Led(events', Says("JOINED", r), Says("PARTED", r))
  <2>1. events \in Seq(Event) /\ Down(l) \in Event
    BY DEF TypeOK, Event, LinkEvent
  <2>2. Down(l) # RoomCmd("part", r) /\ \A type : Down(l) \notin Says(type, r)
    BY DEF Down, RoomCmd, Says
  <2> QED
    BY <2>1, <2>2, QueueRanges, AppendOrder
<1>5. Over(r) => Over(r)'
  BY <1>3, <1>4 DEF Over, Says, JoinMsg
<1>6. NoneLeft(r)'
  BY <1>1, <1>3, <1>4 DEF NoneLeft, Says, PartMsg
<1>7. Crossed(r)'
  <2>1. Swapped(r) => Swapped(r)'
    BY <1>2, <1>3, <1>4, <1>5 DEF Swapped, Says, PartMsg
  <2> QED
    BY <1>1, <1>4, <2>1 DEF Crossed, RoomCmd
<1>8. GivenUp(r)' /\ AskedFor(r)' /\ HubKeeps(r)'
  BY <1>1, <1>2, <1>5 DEF GivenUp, AskedFor, HubKeeps
<1> QED
  BY <1>6, <1>7, <1>8 DEF About

\* The hub does something.
LEMMA NetMember ==
    ASSUME Orderly, TypeOK, LifelineInv, BeforeSession, CurrentInv, LingerInv, AskInv, MemberInv,
           Net, session # NoSession, NEW r \in Room
    PROVE  About(r)' /\ (Untroubled /\ KeepInv => HubKeeps(r)')
<1>1. PICK l \in Link : Network(l)
  BY DEF Net
<1>2. session' = session /\ wanted' = wanted /\ hub' = hub /\ About(r) /\ (KeepInv => HubKeeps(r))
  BY DEF Net, loopVars, MemberInv, KeepInv
<1>3. \A e : Callback(e) => events' = Append(events, e)
  BY DEF Callback, Orderly
<1>4. CASE HubClosed(l)
  <2>1. events' = Append(events, Down(l))
    BY <1>3, <1>4 DEF HubClosed, Closed
  <2> QED
    BY <1>2, <1>4, <2>1, ClosedMember
<1>5. ASSUME NEW f \in FromHub
      PROVE  /\ Frame(l, f) \in Event /\ Frame(l, f) # RoomCmd("part", r)
             /\ \A type : Frame(l, f) \in Says(type, r) <=> f.type = type /\ f.room = r
  BY DEF Frame, Event, LinkEvent, RoomCmd, Says
<1>6. CASE Opens(l)
  <2>1. /\ toHub' = toHub /\ members' = members /\ Live' = Live /\ events' = Append(events, Up(l))
    BY <1>3, <1>6 DEF Opens, Live, TypeOK
  <2>2. Up(l) \in Event /\ Up(l) # RoomCmd("part", r) /\ \A type : Up(l) \notin Says(type, r)
    BY DEF Up, Event, LinkEvent, RoomCmd, Says
  <2> QED
    BY <1>2, <2>1, <2>2, EntryMember
<1>7. ASSUME status[l] = "active" PROVE hub = l /\ l \in Live
  BY <1>7, UpInHand DEF Live
<1>8. CASE Speaks(l)
  <2>1. PICK f \in FromHub : /\ Callback(Frame(l, f))
                             /\ f.type \in {"JOINED", "PARTED"} => f.room \in members[l]
    BY <1>8 DEF Speaks
  <2>2. /\ toHub' = toHub /\ members' = members /\ Live' = Live /\ hub = l /\ l \in Live
        /\ events' = Append(events, Frame(l, f))
    BY <1>3, <1>7, <1>8, <2>1 DEF Speaks, Live
  <2>3. Frame(l, f) \in Says("JOINED", r) \cup Says("PARTED", r) => r \in members[l]
    BY <1>5, <2>1
  <2>4. ASSUME Frame(l, f) \in Says("PARTED", r)
        PROVE  r \notin wanted \ (session.rooms \cup session.pendingJoins \cup TooLong)
    <3>1. r \in members[l]
      BY <2>3, <2>4
    <3>2. PartMsg(r) \notin Range(toHub[l]) => r \in session.rooms \cup session.pendingJoins
      BY <3>1 DEF Ends, AskInv, KnownInv
    <3> QED
      BY <1>2, <3>2 DEF About, NoneLeft
  <2> QED
    BY <1>2, <1>5, <2>2, <2>3, <2>4, EntryMember
\* What it reads is on the link in hand.
<1>9. CASE Skips(l)
  <2>1. /\ \A x : Head(toHub[l]) # JoinMsg(x) /\ Head(toHub[l]) # PartMsg(x)
        /\ Reads(l, members[l])
    BY <1>9 DEF Skips
  <2>2. PICK f \in FromHub : Small(f) /\ (events' = events \/ events' = Append(events, Frame(l, f)))
    <3>1. Bare("ERROR") \in FromHub /\ Small(Bare("ERROR"))
      BY BareFrames DEF Bare, Small
    <3> QED
      BY <1>3, <1>9, <3>1 DEF Skips
  <2>3. hub = l /\ \A type : type \in {"JOINED", "PARTED"} => Frame(l, f) \notin Says(type, r)
    BY <1>5, <1>7, <2>1, <2>2 DEF Reads, Small
  <2> QED
    BY <1>2, <1>5, <2>1, <2>2, <2>3, ReadsMember
<1>10. CASE Welcomes(l)
  <2>1. PICK limits \in Advertised : events' = Append(events, Frame(l, Welcome(limits)))
    BY <1>3, <1>10 DEF Welcomes
  <2>2. PICK N \in {{}, members[l]} : Reads(l, N)
    BY <1>10 DEF Welcomes
  <2>3. Welcome(limits) \in FromHub /\ Welcome(limits).type = "WELCOME"
    BY DEF Welcome, FromHub
  <2>4. hub = l /\ \A type : type \in {"JOINED", "PARTED"} => Frame(l, Welcome(limits)) \notin Says(type, r)
    BY <1>5, <1>7, <2>2, <2>3 DEF Reads
  <2>5. Head(toHub[l]) = Hello /\ Hello # JoinMsg(r) /\ Hello # PartMsg(r)
    BY <1>10, EntriesDiffer DEF Welcomes
  <2> QED
    BY <1>2, <1>5, <2>1, <2>2, <2>3, <2>4, <2>5, ReadsMember
<1>11. ASSUME NEW x \in Room, Admits(l, x)
       PROVE  About(r)' /\ (Untroubled /\ KeepInv => HubKeeps(r)')
  <2>1. Head(toHub[l]) = JoinMsg(x) /\ Reads(l, members[l] \cup {x})
    BY <1>11 DEF Admits
  <2>2. PICK f \in FromHub : /\ f.type = "JOINED" /\ f.room = x
                             /\ events' = Append(events, Frame(l, f))
    <3>1. ASSUME NEW f, f = Joined(x, TRUE), Callback(Frame(l, f))
          PROVE  /\ f \in FromHub /\ f.type = "JOINED" /\ f.room = x
                 /\ events' = Append(events, Frame(l, f))
      BY <1>3, <3>1, RoomFrames DEF Joined
    <3>2. Callback(Frame(l, Joined(x, TRUE)))
      BY <1>11 DEF Admits
    <3> QED
      BY <3>1, <3>2
  <2>3. hub = l
    BY <1>7, <2>1 DEF Reads
  <2>4. /\ JoinMsg(x) # PartMsg(r) /\ JoinMsg(x) # Hello /\ (JoinMsg(x) = JoinMsg(r) <=> x = r)
    BY DEF JoinMsg, PartMsg, Hello
  <2>5. /\ Frame(l, f) \notin Says("PARTED", r)
        /\ x = r <=> Frame(l, f) \in Says("JOINED", r)
    BY <1>5, <2>2
  <2> QED
    BY <1>2, <1>5, <2>1, <2>2, <2>3, <2>4, <2>5, ReadsMember
<1>12. ASSUME NEW x \in Room, TurnsAway(l, x)
       PROVE  About(r)' /\ (Untroubled /\ KeepInv => HubKeeps(r)')
  <2>1. /\ Head(toHub[l]) = JoinMsg(x) /\ Reads(l, members[l])
        /\ l \notin welcomed \/ "refusal" \in Faults
    BY <1>12 DEF TurnsAway
  <2>2. PICK f \in FromHub : Small(f) /\ events' = Append(events, Frame(l, f))
    BY <1>3, <1>12 DEF TurnsAway
  <2>3. hub = l /\ l \in Live
    BY <1>7, <2>1 DEF Reads
  <2>4. Untroubled => ~session.ready
    BY <2>1, <2>3, WhileLive DEF Ready, Untroubled
  <2>5. /\ \A type : type \in {"JOINED", "PARTED"} => Frame(l, f) \notin Says(type, r)
        /\ JoinMsg(x) # PartMsg(r)
    BY <1>5, <2>2 DEF Small, JoinMsg, PartMsg
  <2> QED
    BY <1>2, <1>5, <2>1, <2>2, <2>3, <2>4, <2>5, ReadsMember
<1>13. ASSUME NEW x \in Room, Releases(l, x)
       PROVE  About(r)' /\ (Untroubled /\ KeepInv => HubKeeps(r)')
  <2>1. Head(toHub[l]) = PartMsg(x) /\ Reads(l, members[l] \ {x})
    BY <1>13 DEF Releases
  <2>2. PICK f \in FromHub : /\ f.type # "JOINED" /\ (f.type = "PARTED" => f.room = x)
                             /\ events' = events \/ events' = Append(events, Frame(l, f))
    <3>1. /\ Parted(x, TRUE) \in FromHub /\ Parted(x, TRUE).room = x
          /\ Parted(x, TRUE).type # "JOINED"
      BY RoomFrames DEF Parted
    <3>2. CASE \E f \in FromHub : Small(f) /\ Callback(Frame(l, f))
      BY <1>3, <3>2 DEF Small
    <3>3. ASSUME NEW f, f = Parted(x, TRUE), events' = events \/ Callback(Frame(l, f))
          PROVE  /\ f \in FromHub /\ f.type # "JOINED" /\ f.room = x
                 /\ events' = events \/ events' = Append(events, Frame(l, f))
      BY <1>3, <3>1, <3>3
    <3>4. events' = events \/ Callback(Frame(l, Parted(x, TRUE)))
          \/ \E f \in FromHub : Small(f) /\ Callback(Frame(l, f))
      BY <1>13 DEF Releases
    <3> QED
      BY <3>2, <3>3, <3>4
  <2>3. hub = l
    BY <1>7, <2>1 DEF Reads
  <2>4. /\ PartMsg(x) # JoinMsg(r) /\ (PartMsg(x) = PartMsg(r) <=> x = r)
    BY DEF JoinMsg, PartMsg
  <2>5. Frame(l, f) \notin Says("JOINED", r) /\ (Frame(l, f) \in Says("PARTED", r) => x = r)
    BY <1>5, <2>2
  <2> QED
    BY <1>2, <1>5, <2>1, <2>2, <2>3, <2>4, <2>5, ReadsMember
<1> QED
  BY <1>1, <1>4, <1>6, <1>8, <1>9, <1>10, <1>11, <1>12, <1>13, HubSteps DEF Orderly

\* No step of another thread disturbs a room's books.
LEMMA OthersMember ==
    ASSUME Orderly, TypeOK, LifelineInv, BeforeSession, CurrentInv, LingerInv, AskInv, MemberInv,
           OtherThread, session # NoSession, NEW r \in Room
    PROVE  About(r)' /\ (Untroubled /\ KeepInv => HubKeeps(r)')
<1>1. CASE Net
  BY <1>1, NetMember
<1>2. CASE ~Net
  <2>1. /\ session' = session /\ wanted' = wanted /\ hub' = hub /\ Live' = Live
        /\ toHub' = toHub /\ members' = members /\ About(r) /\ (KeepInv => HubKeeps(r))
    BY <1>2, OtherThreads DEF Live, MemberInv, KeepInv
  <2>2. Requests \cup {Eof, Retry, HelloDue} \subseteq Event
        /\ \A e \in Requests \cup {Eof, Retry, HelloDue} : \A type : e \notin Says(type, r)
    BY DEF Event, Requests, RoomCmd, Cmd, Eof, Retry, HelloDue, Says
  <2>3. CASE ReadCommand
    <3>1. PICK c \in Requests : /\ events' = Append(events, c)
                                /\ c \in Asks(r) => r \notin session.pendingJoins
      BY <2>3, AnsweredIs DEF Orderly
    <3> QED
      BY <2>1, <2>2, <3>1, EntryMember DEF Asks
  <2>4. CASE ReadEof \/ RetryTimer \/ HelloTimer \/ PipeBreaks \/ UNCHANGED vars
    <3>1. PICK e \in {Eof, Retry, HelloDue} : events' = events \/ events' = Append(events, e)
      BY <2>4 DEF ReadEof, RetryTimer, HelloTimer, PipeBreaks, vars, linkVars
    <3>2. e # RoomCmd("part", r)
      BY DEF Eof, Retry, HelloDue, RoomCmd
    <3> QED
      BY <2>1, <2>2, <3>1, <3>2, EntryMember
  <2> QED
    BY <1>2, <2>3, <2>4 DEF OtherThread
<1> QED
  BY <1>1, <1>2

\* So the books are in order in every state.
LEMMA MemberInvariant ==
    ASSUME Orderly
    PROVE  Spec => [](OrderInv /\ LimitInv /\ MemberInv)
<1>1. Init => OrderInv /\ LimitInv /\ MemberInv
  <2> SUFFICES ASSUME Init PROVE OrderInv /\ LimitInv /\ MemberInv
    OBVIOUS
  <2>1. session = NoSession /\ welcomed = {} /\ \A l \in Link : members[l] = {}
    BY DEF Init, HubInit
  <2>2. PICK c \in Connects : events = <<c>>
    BY DEF Init
  <2>3. c.kind = "cmd"
    BY ConnectsKnown DEF Connect
  <2>4. Range(events) = {c} /\ \A i, j \in DOMAIN events : ~(i < j)
    BY <2>2, RangesOfCalls
  <2>5. OrderInv
    BY <2>1, <2>3, <2>4 DEF OrderInv, Apart, Ready, Kind
  <2> QED
    BY <2>1, <2>5 DEF LimitInv, MemberInv
<1>2. /\ TypeOK /\ LifelineInv /\ BeforeSession /\ CurrentInv /\ LingerInv /\ LingerInv'
      /\ AskInv /\ OrderInv /\ LimitInv /\ MemberInv /\ [Next]_vars
      => (OrderInv /\ LimitInv /\ MemberInv)'
  <2> SUFFICES ASSUME TypeOK, LifelineInv, BeforeSession, CurrentInv, LingerInv, LingerInv',
                      AskInv, OrderInv, LimitInv, MemberInv, [Next]_vars
               PROVE  (OrderInv /\ LimitInv /\ MemberInv)'
    OBVIOUS
  <2>1. OrderInv' /\ LimitInv'
    BY OrderStep, LimitStep
  <2>2. ASSUME session' # NoSession, NEW r \in Room PROVE About(r)'
    <3>1. CASE LinkHandler
      BY <2>2, <3>1, LinkMember
    <3>2. CASE PlainHandler
      <4>1. session # NoSession
        BY <2>2, <3>2, PlainFacts
      <4> QED
        BY <3>2, <4>1, PlainMember
    <3>3. CASE OtherThread
      BY <2>2, <3>3, OtherThreads, OthersMember
    <3> QED
      BY <3>1, <3>2, <3>3, StepKinds
  <2>3. MemberInv'
    BY <2>2 DEF MemberInv
  <2> QED
    BY <2>1, <2>3
<1>3. Patient /\ "loss" \notin Faults /\ "reorder" \notin Faults
  BY DEF Orderly
<1> QED
  BY <1>1, <1>2, <1>3, TypeCorrect, LifelineInvariant, BeforeSessionInvariant, CurrentInvariant,
     LingerInvariant, AskInvariant, PTL DEF Spec

\* ... and an untroubled hub keeps its own.
LEMMA KeepInvariant ==
    ASSUME Untroubled
    PROVE  Spec => [](GreetInv /\ KeepInv)
<1>1. Init => GreetInv /\ KeepInv
  <2> SUFFICES ASSUME Init PROVE GreetInv /\ KeepInv
    OBVIOUS
  <2>1. session = NoSession /\ welcomed = {}
    BY DEF Init, HubInit
  <2>2. PICK c \in Connects : events = <<c>>
    BY DEF Init
  <2>3. Range(events) = {c} /\ c \notin Frames("JOINED")
    BY <2>2, RangesOfCalls, ConnectsKnown DEF Connect, Frames
  <2>4. Led(events, Frames("WELCOME"), Frames("JOINED"))
    BY <2>3 DEF Led, Range
  <2> QED
    BY <2>1, <2>4 DEF GreetInv, KeepInv
<1>2. /\ TypeOK /\ TypeOK' /\ LifelineInv /\ BeforeSession /\ CurrentInv /\ LingerInv /\ LingerInv'
      /\ AskInv /\ OrderInv /\ LimitInv /\ MemberInv /\ GreetInv /\ KeepInv /\ [Next]_vars
      => (GreetInv /\ KeepInv)'
  <2> SUFFICES ASSUME TypeOK, TypeOK', LifelineInv, BeforeSession, CurrentInv, LingerInv, LingerInv',
                      AskInv, OrderInv, LimitInv, MemberInv, GreetInv, KeepInv, [Next]_vars
               PROVE  (GreetInv /\ KeepInv)'
    OBVIOUS
  <2>1. GreetInv'
    BY GreetStep
  <2>2. ASSUME session' # NoSession, NEW r \in Room PROVE HubKeeps(r)'
    <3>1. CASE LinkHandler
      BY <2>2, <3>1, LinkMember
    <3>2. CASE PlainHandler
      <4>1. session # NoSession
        BY <2>2, <3>2, PlainFacts
      <4> QED
        BY <3>2, <4>1, PlainKeeps
    <3>3. CASE OtherThread
      BY <2>2, <3>3, OtherThreads, OthersMember DEF Untroubled
    <3> QED
      BY <3>1, <3>2, <3>3, StepKinds
  <2>3. KeepInv'
    BY <2>2 DEF KeepInv
  <2> QED
    BY <2>1, <2>3
<1>3. Orderly /\ Patient /\ "loss" \notin Faults /\ "reorder" \notin Faults
  BY DEF Untroubled, Orderly
<1> QED
  BY <1>1, <1>2, <1>3, TypeCorrect, LifelineInvariant, BeforeSessionInvariant, CurrentInvariant,
     LingerInvariant, AskInvariant, MemberInvariant, PTL DEF Spec

\* A room the client is in is one it will rejoin after an outage, or one it is
\* leaving: no outage, no HELLO sent again and no crossing of JOIN and PART
\* forgets a room or undoes a part (_want, _unwant, _on_joined, _on_parted),
\* for a patient user and an orderly hub, also one that refuses the client,
\* lets it in before HELLO or has names too long for it.
THEOREM RoomsAreWantedHolds ==
    ASSUME Orderly
    PROVE  Spec => []RoomsAreWanted
<1>1. TypeOK /\ MemberInv => RoomsAreWanted
  <2> SUFFICES ASSUME TypeOK, MemberInv, session # NoSession, NEW r \in session.rooms \ wanted
               PROVE  r \in session.pendingParts
    BY DEF RoomsAreWanted
  <2>1. r \in Room
    BY DEF TypeOK, Session
  <2> QED
    BY <2>1 DEF MemberInv, About, GivenUp
<1> QED
  BY <1>1, MemberInvariant, TypeCorrect, PTL

\* When all is settled the client is in the rooms the user asked to be in, and
\* in no other: nothing said by the hub or done by the reconnect logic adds or
\* drops one (join, part, _on_joined, _on_parted, _rejoin), for a patient user
\* and an orderly hub with which no name is too long.
THEOREM WantedIsJoinedHolds ==
    ASSUME Orderly, TooLong = {}
    PROVE  Spec => []WantedIsJoined
<1>1. MemberInv => WantedIsJoined
  BY DEF MemberInv, About, GivenUp, AskedFor, WantedIsJoined, Settled
<1> QED
  BY <1>1, MemberInvariant, PTL

\* ... and the hub has the client in the same rooms, for all that a HELLO sent
\* again resets what it has (on_link_up, _resend_hello, _rejoin), for a patient
\* user and an untroubled hub.
THEOREM HubAgreesHolds ==
    ASSUME Untroubled
    PROVE  Spec => []HubAgrees
<1>1. KnownInv /\ MemberInv /\ KeepInv => HubAgrees
  <2> SUFFICES ASSUME KnownInv, MemberInv, KeepInv, NEW r \in Room, Settled(r)
               PROVE  r \in session.rooms <=> r \in members[hub]
    BY DEF HubAgrees
  <2>1. /\ session # NoSession /\ session.ready /\ hub \in Live /\ hub \in Link
        /\ r \notin session.pendingJoins \cup session.pendingParts /\ toHub[hub] = <<>>
    BY DEF Settled, Live
  <2>2. \A S : Ends(<<>>, members[hub], r, S) <=> r \in members[hub]
    BY RangesOfCalls DEF Ends
  <2>3. ASSUME r \in session.rooms PROVE r \in members[hub]
    <3>1. r \in wanted
      BY <2>1, <2>3 DEF MemberInv, About, GivenUp
    <3>2. Ends(toHub[hub], members[hub], r, {PartMsg(r), Hello})
      BY <2>1, <2>3, <3>1 DEF KeepInv, HubKeeps
    <3> QED
      BY <2>1, <2>2, <3>2
  <2>4. ASSUME r \in members[hub] PROVE r \in session.rooms
    BY <2>1, <2>2, <2>4 DEF KnownInv
  <2> QED
    BY <2>3, <2>4
<1>2. Orderly /\ Patient /\ "loss" \notin Faults
  BY DEF Untroubled, Orderly
<1> QED
  BY <1>1, <1>2, MemberInvariant, KeepInvariant, AskInvariant, PTL DEF AskInv
=============================================================================
