------------------------------- MODULE Roster --------------------------------
(***************************************************************************)
(* Who is called what: the nicknames rrc.py learns (note_member, drop_     *)
(* member, learn_members), shows (refresh_nicklist, label) and takes from  *)
(* the user (resolve).  Plugin has the members without their names.        *)
(*                                                                         *)
(* The authoritative name of a person is a hash, shown, listed and typed   *)
(* by its beginning.  A nickname is anybody's, may change, and may look    *)
(* like anything: it is a sequence of words, and of hex digits in paren-   *)
(* theses, which is how a listing marks a hash.  Spaces, and the commas    *)
(* between the people listed, are left out; what is compared in lower case *)
(* is in lower case.  Listings are the hub's.                              *)
(***************************************************************************)
EXTENDS Integers, Sequences, FiniteSets

CONSTANTS
    Person,     \* identity hashes, 32 characters
    Room,       \* rooms
    Word,       \* what a user can type for a person, hashes included
    FullHash,   \* the words of 32 characters
    Hex,        \* the words of 6 to 32 hex digits
    Begins,     \* the words each hash begins with
    Short,      \* the one it is shown by
    Listed,     \* those by which a hub may list it
    Nick,       \* nicknames
    NotIn,      \* not known to be in the room
    Nobody      \* what resolve answers when it has to ask back

\* A word of hex digits in parentheses: MEMBER_ENTRY.
Paren(h) == [id |-> h]
Parens == {Paren(h) : h \in Hex}
Name == Seq(Word \cup Parens)
NoName == <<>>

ASSUME PeopleAreFinite == IsFiniteSet(Person)
ASSUME HashesAreWords == Person \subseteq FullHash /\ FullHash \cup Hex \subseteq Word
ASSUME Beginnings == \A p \in Person : /\ Begins[p] \subseteq Word
                                       /\ Listed[p] \subseteq Begins[p] \cap Hex
                                       /\ Short[p] \in Begins[p]
ASSUME NicksAreNames == Nick \subseteq Name \ {NoName}
ASSUME WordsAreNotParens == Word \cap Parens = {}
ASSUME NotInIsNoName == NotIn \notin Name

VARIABLES
    members,    \* Connection.members
    dms,        \* Connection.dms
    nickNow,    \* what each person calls itself at the hub
    worn        \* history: every nickname a person has had

rosterVars == <<members, dms, nickNow, worn>>

RosterInit ==
    /\ members = [r \in Room |-> [p \in Person |-> NotIn]]
    /\ dms = {}
    /\ nickNow = [p \in Person |-> NoName]
    /\ worn = [p \in Person |-> {}]

Known(r) == {p \in Person : members[r][p] # NotIn}

-----------------------------------------------------------------------------
\* The hub's side: a nickname rides on the envelopes of its owner.
Rename(p, n) ==
    /\ nickNow' = [nickNow EXCEPT ![p] = n]
    /\ worn' = [worn EXCEPT ![p] = @ \cup {n}]
    /\ UNCHANGED <<members, dms>>

\* ... and it lists people by nickname, if they have one, and hash.
Entry == UNION {[who: {p}, head: Listed[p]] : p \in Person}
LineOf(e) == Append(nickNow[e.who], Paren(e.head))
Listings == {s \in UNION {[1 .. n -> Entry] : n \in 1 .. Cardinality(Person)} :
                \A i, j \in DOMAIN s : s[i].who = s[j].who => i = j}

\* _ev_joined: hashes, and no names.
Joined(r, S) ==
    /\ members' = [members EXCEPT ![r] = [p \in Person |-> IF p \in S THEN NoName ELSE NotIn]]
    /\ UNCHANGED <<dms, nickNow, worn>>

\* note_member, of a JOIN or a line that carries a nickname or does not; what
\* was known is kept.
Note(r, p) ==
    /\ \E nick \in {nickNow[p], NoName} :
          members' = [members EXCEPT ![r][p] = IF nick # NoName THEN nick
                                               ELSE IF @ = NotIn THEN NoName ELSE @]
    /\ UNCHANGED <<dms, nickNow, worn>>

\* drop_member.
Drop(r, p) ==
    /\ members' = [members EXCEPT ![r][p] = NotIn]
    /\ UNCHANGED <<dms, nickNow, worn>>

\* _ev_parted, and the closing of the room's buffer.
Forgotten(r) ==
    /\ members' = [members EXCEPT ![r] = [p \in Person |-> NotIn]]
    /\ UNCHANGED <<dms, nickNow, worn>>

-----------------------------------------------------------------------------
(* A listing is read with MEMBER_ENTRY: at each hash in parentheses, what  *)
(* is between it and the one before is a name.                             *)

\* Where the name before entry j begins: after the entry before it.  The line of
\* one person ends in an entry, so the first begins with the line.
NameStart(line, j) ==
    LET ends == {0} \cup {k \in 1 .. j - 1 : line[k] \in Parens}
    IN  1 + CHOOSE k \in ends : \A l \in ends : l <= k

\* Mutant: a name is taken to follow its hash.
NameAfter(listing, i, j) ==
    IF i = Len(listing) THEN NoName ELSE nickNow[listing[i + 1].who]

NameAt(listing, i, j) == LET line == LineOf(listing[i]) IN SubSeq(line, NameStart(line, j), j - 1)

\* Where p is named: a hash that fits one known member, with a name before it.
Places(r, listing, p) ==
    {x \in (1 .. Len(listing)) \X UNION {DOMAIN LineOf(listing[i]) : i \in 1 .. Len(listing)} :
        LET line == LineOf(listing[x[1]])  j == x[2] IN
        /\ j \in DOMAIN line /\ line[j] \in Parens
        /\ {q \in Known(r) : line[j].id \in Begins[q]} = {p}
        /\ NameAt(listing, x[1], j) # NoName}

\* learn_members.  Of several names for one member the last one stays.
Learn(r, listing) ==
    /\ members' = [members EXCEPT ![r] =
          [p \in Person |->
              LET places == Places(r, listing, p)
                  last   == CHOOSE x \in places : \A y \in places :
                                y[1] < x[1] \/ (y[1] = x[1] /\ y[2] <= x[2])
              IN  IF places = {} THEN @[p] ELSE NameAt(listing, last[1], last[2])]]
    /\ UNCHANGED <<dms, nickNow, worn>>

\* dm_buffer, for a /query or a line received; and its closing.
OpenDm(p)  == dms' = dms \cup {p} /\ UNCHANGED <<members, nickNow, worn>>
CloseDm(p) == dms' = dms \ {p} /\ UNCHANGED <<members, nickNow, worn>>

RosterNext ==
    \/ \E p \in Person, n \in Nick : Rename(p, n)
    \/ \E r \in Room, S \in SUBSET Person : Joined(r, S)
    \/ \E r \in Room, p \in Person : Note(r, p) \/ Drop(r, p)
    \/ \E r \in Room : Forgotten(r)
    \/ \E r \in Room, listing \in Listings : Learn(r, listing)
    \/ \E p \in Person : OpenDm(p) \/ CloseDm(p)

RosterSpec == RosterInit /\ [][RosterNext]_rosterVars

-----------------------------------------------------------------------------
(* What the user reads and types.                                          *)

\* refresh_nicklist, for one member.
Shown(r, p) == IF members[r][p] = NoName THEN <<Short[p]>> ELSE members[r][p]

\* label: the names the rooms have for p; any of them may come first.
Labels(p) ==
    LET names == {members[r][p] : r \in Room} \ {NoName, NotIn}
    IN  IF names = {} THEN {<<Short[p]>>} ELSE names

\* Mutant: the beginning of a nickname will do, as that of a hash does.
ByNickBegun(token) == {p \in Person : \E r \in Room : /\ members[r][p] \notin {NoName, NotIn}
                                                      /\ members[r][p][1] = token}

ByNick(token)   == {p \in Person : \E r \in Room : members[r][p] = <<token>>}
ByPrefix(token) == {p \in Person : /\ p \in dms \/ \E r \in Room : p \in Known(r)
                                   /\ token \in Begins[p]}

\* resolve: what has the length of a hash is one.
Resolve(token) ==
    IF token \in FullHash THEN token
    ELSE LET matches == IF ByNick(token) # {} THEN ByNick(token) ELSE ByPrefix(token)
         IN  IF Cardinality(matches) = 1 THEN CHOOSE p \in matches : TRUE ELSE Nobody

-----------------------------------------------------------------------------
(* What holds as long as no nickname has hex digits in parentheses, and    *)
(* hubs list people by heads that tell them apart.                         *)

PlainNicks == \A n \in Nick : \A i \in DOMAIN n : n[i] \notin Parens
HeadsTell  == \A p, q \in Person : p # q => Listed[p] \cap Begins[q] = {}

\* No one is shown, in a room or on a private buffer, under a name that was
\* never theirs, whatever the order of arrivals, renames and listings
\* (learn_members; MEMBER_ENTRY, "requiring hex keeps a parenthesised part of
\* somebody's name from being read as an id").
NamesAreTheirs ==
    \A p \in Person :
        /\ \A r \in Room : p \in Known(r) => Shown(r, p) \in worn[p] \cup {<<Short[p]>>}
        /\ Labels(p) \subseteq worn[p] \cup {<<Short[p]>>}

\* A private message goes to nobody who was never called what was typed,
\* however stale the names in the tables are (resolve, _run_msg): it was the
\* nickname of the one it goes to, or it begins their hash, or is one.
ResolvedWasCalled ==
    \A token \in Word :
        \/ Resolve(token) = Nobody
        \/ token \in FullHash /\ Resolve(token) = token
        \/ Resolve(token) \in {p \in Person : token \in Begins[p] \/ <<token>> \in worn[p]}

-----------------------------------------------------------------------------
\* Typing a name as some room shows it reaches the person it is shown for, or
\* a question (resolve, "ambiguous input returns None rather than guessing,
\* because guessing would send a private message to the wrong person").
NeverTheWrongPerson ==
    \A r \in Room : \A p \in Known(r) : \A token \in Word :
        Shown(r, p) = <<token>> => Resolve(token) \in {p, Nobody}

=============================================================================
