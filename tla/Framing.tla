------------------------------- MODULE Framing -------------------------------
(***************************************************************************)
(* How frames are cut out of a pipe: ipc.py, class FrameReader, fed by     *)
(* read_commands; and rrc.py's copy of it, fed by drain, which is the same *)
(* reader without a limit and without a count of what it drops.            *)
(*                                                                         *)
(* The stream is a sequence of lines.  What the reader sees is bytes, cut  *)
(* anywhere into chunks; a byte is known here by its offset, and the       *)
(* buffer by the offset of its first byte.  What remains of a frame when   *)
(* its head is missing is never an object of JSON.                         *)
(***************************************************************************)
EXTENDS Integers, Sequences, FiniteSets

CONSTANTS
    MaxLines,   \* bound: lines in the stream
    Sizes,      \* bound: bytes in a line, its newline aside
    Limits      \* values of max_frame_bytes; one beyond every line stands for none

ASSUME LinesBound == MaxLines \in Nat
ASSUME SizesAssumption == Sizes \subseteq Nat
ASSUME LimitsAssumption == Limits \subseteq Nat

VARIABLES
    stream,     \* what the writer wrote and will write
    limit,      \* FrameReader._max
    fed,        \* bytes fed so far
    begin,      \* where FrameReader._buffer begins; it ends at fed
    resyncing,  \* FrameReader._resyncing
    dropped,    \* FrameReader.dropped
    got         \* the lines whose frames were returned, in order

framingVars == <<stream, limit, fed, begin, resyncing, dropped, got>>

\* A line of no bytes stands for one of blanks only, a keepalive; any other
\* either is an object or not.
Line == {ln \in [size: Sizes, object: BOOLEAN] : ln.size = 0 => ~ln.object}

\* The offset after the newline of line i.
Ends[i \in 0 .. Len(stream)] == IF i = 0 THEN 0 ELSE Ends[i - 1] + stream[i].size + 1

LinesBefore(offset) == Cardinality({i \in 1 .. Len(stream) : Ends[i] <= offset})

FramingInit ==
    /\ stream \in UNION {[1 .. n -> Line] : n \in 0 .. MaxLines}
    /\ limit \in Limits
    /\ fed = 0 /\ begin = 0 /\ resyncing = FALSE /\ dropped = 0 /\ got = <<>>

-----------------------------------------------------------------------------
\* The lines first to last leave a buffer that begins at offset b, one by one,
\* and _decode sees each of them; only the first may have lost its head.
Objects(first, last, b) ==
    LET Decoded[k \in 0 .. last - first + 1] ==
            IF k = 0 THEN <<>>
            ELSE IF b <= Ends[first + k - 2] /\ stream[first + k - 1].object
                 THEN Append(Decoded[k - 1], first + k - 1)
                 ELSE Decoded[k - 1]
    IN  Decoded[last - first + 1]

Blanks(first, last, b) ==
    {i \in first .. last : Ends[i] - 1 = IF b <= Ends[i - 1] THEN Ends[i - 1] ELSE b}

\* Mutant: an oversized frame is counted, and stays in the buffer.
CutKept(first, last, b, to) ==
    LET frames == Objects(first, last, b)
        rest   == IF first <= last THEN Ends[last] ELSE b
        over   == to - rest > limit
    IN  /\ got' = got \o frames
        /\ begin' = rest
        /\ resyncing' = over
        /\ dropped' = dropped + (last - first + 1) - Len(frames) - Cardinality(Blanks(first, last, b))
                      + (IF over THEN 1 ELSE 0)

\* Mutant: the size is checked when the chunk is added, before it is cut.
CutTooLate(first, last, b, to) ==
    LET frames == Objects(first, last, b)
        rest   == IF first <= last THEN Ends[last] ELSE b
        over   == to - b > limit
    IN  /\ got' = IF over THEN got ELSE got \o frames
        /\ begin' = IF over THEN to ELSE rest
        /\ resyncing' = over
        /\ dropped' = dropped + 1

\* The buffer, which begins at offset b, is cut into lines and checked.
Cut(first, last, b, to) ==
    LET frames == Objects(first, last, b)
        rest   == IF first <= last THEN Ends[last] ELSE b
        over   == to - rest > limit
    IN  /\ got' = got \o frames
        /\ begin' = IF over THEN to ELSE rest
        /\ resyncing' = over
        /\ dropped' = dropped + (last - first + 1) - Len(frames) - Cardinality(Blanks(first, last, b))
                      + (IF over THEN 1 ELSE 0)

\* Mutant: what follows the end of an oversized frame is decoded with it.
FeedUnsynced(n) ==
    LET before == LinesBefore(fed)
        after  == LinesBefore(fed + n)
    IN  /\ n \in 1 .. Ends[Len(stream)] - fed
        /\ fed' = fed + n
        /\ IF resyncing /\ before = after
           THEN begin' = fed' /\ UNCHANGED <<resyncing, dropped, got>>
           ELSE Cut(before + 1, after, begin, fed')
        /\ UNCHANGED <<stream, limit>>

\* feed, with the next n bytes as its chunk.
Feed(n) ==
    LET before == LinesBefore(fed)
        after  == LinesBefore(fed + n)
    IN  /\ n \in 1 .. Ends[Len(stream)] - fed
        /\ fed' = fed + n
        /\ IF resyncing
           THEN IF before = after
                THEN begin' = fed' /\ UNCHANGED <<resyncing, dropped, got>>
                ELSE Cut(before + 2, after, Ends[before + 1], fed')
           ELSE Cut(before + 1, after, begin, fed')
        /\ UNCHANGED <<stream, limit>>

\* End of file: what is in the buffer is forgotten.
EndOfStream == fed = Ends[Len(stream)] /\ UNCHANGED framingVars

FramingNext == (\E n \in 1 .. Ends[Len(stream)] - fed : Feed(n)) \/ EndOfStream

FramingSpec == FramingInit /\ [][FramingNext]_framingVars

-----------------------------------------------------------------------------
\* Between two chunks the buffer holds at most the limit, and nothing while
\* an oversized frame is being skipped ("growing without bound", feed).
FramingTypeOK ==
    /\ fed \in 0 .. Ends[Len(stream)]
    /\ begin \in 0 .. fed
    /\ fed - begin <= limit
    /\ resyncing \in BOOLEAN
    /\ resyncing => begin = fed
    /\ dropped \in Nat
    /\ \A k \in 1 .. Len(got) : got[k] \in 1 .. Len(stream)

\* However the stream is cut into chunks, every frame within the limit is
\* returned, once and in order, as soon as its newline is in, whatever was
\* dropped around it; and nothing is returned that was not written (feed: the
\* chunk "may contain no frame, part of one, several, or the tail of one plus
\* the head of another").
WithinLimitArrives ==
    /\ \A k \in 2 .. Len(got) : got[k - 1] < got[k]
    /\ \A i \in 1 .. LinesBefore(fed) :
          stream[i].object /\ stream[i].size <= limit => \E k \in 1 .. Len(got) : got[k] = i
    /\ \A k \in 1 .. Len(got) : stream[got[k]].object /\ Ends[got[k]] <= fed

\* "dropped" counts every lost frame once: a malformed one, and an oversized
\* one however many chunks it spans (FrameReader, "Count of frames discarded
\* as malformed or oversized").
LossIsCounted ==
    LET complete == 1 .. LinesBefore(fed)
    IN  dropped + Len(got) + Cardinality({i \in complete : stream[i].size = 0})
        = Cardinality(complete) + (IF resyncing THEN 1 ELSE 0)
=============================================================================
