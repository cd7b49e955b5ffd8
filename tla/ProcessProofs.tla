---------------------------- MODULE ProcessProofs ----------------------------
(***************************************************************************)
(* What helper processes leave behind.  As long as they start one after    *)
(* another, the identity in use is the one in the file, and a file keeps   *)
(* its key: for any number of helpers and of identities, wherever they     *)
(* end.  And when stop has returned no helper runs, whatever the sizes of  *)
(* the pipes.                                                              *)
(***************************************************************************)
EXTENDS IdentityFile, Pipes, SequenceTheorems, TLAPS

-----------------------------------------------------------------------------
(* The identity file.                                                      *)

\* What each step of load_or_create may rely on.  None of it is looked at
\* again by the code: it holds because no other process is at work.
Relies(p) ==
    /\ step[p] = "create" => ~file.exists
    /\ step[p] = "write"  => file.holds = 0
    /\ step[p] = "chmod"  => file.holds = identity[p]
    /\ step[p] = "read"   => file.private
    /\ step[p] = "ready"  => file.holds = identity[p] /\ file.private

\* InUseIsKept is not inductive: another process may be about to write.
IdentityInv ==
    /\ \A p, q \in Process : ~Settled(p) /\ ~Settled(q) => p = q
    /\ \A p \in Process : Relies(p)

-----------------------------------------------------------------------------
\* Every state has the type, whatever the constants (IdentityTypeOK).
LEMMA IdentityTypeInit == IdentityInit => IdentityTypeOK
<1> SUFFICES ASSUME IdentityInit PROVE IdentityTypeOK
  OBVIOUS
<1>1. MaxKeys \in Nat
  BY KeysBound
<1>2. file \in File /\ ~file.private /\ file.holds = 0
  BY <1>1 DEF IdentityInit, File, Absent
<1> QED
  BY <1>1, <1>2 DEF IdentityInit, IdentityTypeOK, Steps

\* Every step preserves the type.
LEMMA IdentityTypeStep == IdentityTypeOK /\ [IdentityNext]_identityVars => IdentityTypeOK'
<1> SUFFICES ASSUME IdentityTypeOK, [IdentityNext]_identityVars PROVE IdentityTypeOK'
  OBVIOUS
<1>0. MaxKeys \in Nat /\ MaxKeys # 0
  BY KeysBound
<1> USE DEF IdentityTypeOK, File, Steps, Goes, Key
<1>1. ASSUME NEW p \in Process, Start(p) PROVE IdentityTypeOK'
  BY <1>1 DEF Start
<1>2. ASSUME NEW p \in Process, Look(p) PROVE IdentityTypeOK'
  BY <1>2 DEF Look
<1>3. ASSUME NEW p \in Process, Open(p) PROVE IdentityTypeOK'
  <2>1. /\ file'.exists = TRUE /\ file'.holds = 0 /\ file'.private = file.private
        /\ file' \in File
    BY <1>0, <1>3 DEF Open
  <2>2. made' \in 0 .. MaxKeys /\ made' # 0
    BY <1>0, <1>3 DEF Open
  <2> QED
    BY <1>3, <2>1, <2>2 DEF Open
<1>4. ASSUME NEW p \in Process, Write(p) PROVE IdentityTypeOK'
  <2>1. file.exists
    BY <1>4 DEF Write
  <2>2. file' \in File /\ file'.exists = file.exists /\ file'.private = file.private
    BY <1>0, <1>4 DEF Write
  <2> QED
    BY <1>4, <2>1, <2>2 DEF Write
<1>5. ASSUME NEW p \in Process, WriteFails(p) PROVE IdentityTypeOK'
  BY <1>0, <1>5 DEF WriteFails
<1>6. ASSUME NEW p \in Process, Chmod(p) PROVE IdentityTypeOK'
  <2>1. file.exists
    BY <1>6 DEF Chmod
  <2>2. file' \in File /\ file'.exists = file.exists /\ file'.holds = file.holds
    BY <1>0, <1>6 DEF Chmod
  <2> QED
    BY <1>6, <2>1, <2>2 DEF Chmod
<1>7. ASSUME NEW p \in Process, Load(p) PROVE IdentityTypeOK'
  BY <1>0, <1>7 DEF Load
<1>8. ASSUME NEW p \in Process, Read(p) PROVE IdentityTypeOK'
  BY <1>0, <1>8 DEF Read
<1>9. ASSUME NEW p \in Process, Exit(p) PROVE IdentityTypeOK'
  BY <1>0, <1>9 DEF Exit
<1>10. CASE UserRepairs
  <2>1. /\ file' \in File
        /\ file'.private \/ file'.holds # 0 => file'.exists
    <3>1. CASE file' = Absent
      <4>1. Absent \in File /\ ~Absent.private /\ Absent.holds = 0
        BY <1>0 DEF Absent
      <4> QED
        BY <3>1, <4>1
    <3>2. CASE file.exists /\ file' = [file EXCEPT !.private = TRUE]
      <4>1. file'.exists = file.exists
        BY <3>2
      <4> QED
        BY <3>2, <4>1
    <3> QED
      BY <1>10, <3>1, <3>2 DEF UserRepairs
  <2>2. \A p \in Process : step[p] \in {"off", "failed"}
    BY <1>10 DEF UserRepairs
  <2> QED
    BY <1>10, <2>1, <2>2 DEF UserRepairs
<1>11. CASE UNCHANGED identityVars
  BY <1>11 DEF identityVars
<1> QED
  BY <1>1, <1>2, <1>3, <1>4, <1>5, <1>6, <1>7, <1>8, <1>9, <1>10, <1>11 DEF IdentityNext

-----------------------------------------------------------------------------
\* At the start no one is at work.
LEMMA IdentityInvInit == IdentityInit => IdentityInv
BY DEF IdentityInit, IdentityInv, Settled, Relies

\* A step of one process leaves alone what the others rely on, because the
\* others are settled: a settled one relies on the file only when it has an
\* identity in use, and that one is the file's.
LEMMA IdentityInvStep ==
    ASSUME ~Together, IdentityTypeOK, IdentityTypeOK', IdentityInv, [IdentityNext]_identityVars
    PROVE  IdentityInv' /\ (file.holds # 0 => file'.holds = file.holds)
<1> USE DEF IdentityInv, IdentityTypeOK, Settled, Relies, Goes, File, Key
<1> DEFINE Kept == file.holds # 0 => file'.holds = file.holds
<1>1. ASSUME NEW p \in Process, Start(p) PROVE IdentityInv' /\ Kept
  BY <1>1 DEF Start
<1>2. ASSUME NEW p \in Process, Look(p) PROVE IdentityInv' /\ Kept
  BY <1>2 DEF Look
<1>3. ASSUME NEW p \in Process, Open(p) PROVE IdentityInv' /\ Kept
  <2>1. ~file.exists /\ file.holds = 0
    BY <1>3 DEF Open
  <2>2. \A q \in Process : step[q] # "ready"
    BY <2>1
  <2> QED
    BY <1>3, <2>1, <2>2 DEF Open
<1>4. ASSUME NEW p \in Process, Write(p) PROVE IdentityInv' /\ Kept
  <2>1. file.holds = 0
    BY <1>4 DEF Write
  <2>2. \A q \in Process : step[q] # "ready"
    BY <2>1
  <2> QED
    BY <1>4, <2>1, <2>2 DEF Write
<1>5. ASSUME NEW p \in Process, WriteFails(p) PROVE IdentityInv' /\ Kept
  BY <1>5 DEF WriteFails
<1>6. ASSUME NEW p \in Process, Chmod(p) PROVE IdentityInv' /\ Kept
  BY <1>6 DEF Chmod
<1>7. ASSUME NEW p \in Process, Load(p) PROVE IdentityInv' /\ Kept
  BY <1>7 DEF Load
<1>8. ASSUME NEW p \in Process, Read(p) PROVE IdentityInv' /\ Kept
  BY <1>8 DEF Read
<1>9. ASSUME NEW p \in Process, Exit(p) PROVE IdentityInv' /\ Kept
  BY <1>9 DEF Exit
<1>10. CASE UserRepairs
  BY <1>10 DEF UserRepairs, Absent
<1>11. CASE UNCHANGED identityVars
  BY <1>11 DEF identityVars
<1> QED
  BY <1>1, <1>2, <1>3, <1>4, <1>5, <1>6, <1>7, <1>8, <1>9, <1>10, <1>11 DEF IdentityNext

\* Type correctness of the identity store, with helpers that start together
\* or apart (load_or_create).
THEOREM IdentityTypeCorrect == IdentitySpec => []IdentityTypeOK
BY IdentityTypeInit, IdentityTypeStep, PTL DEF IdentitySpec

\* What each step relies on holds, when helpers start one after another.
LEMMA IdentityInvariant == ASSUME ~Together PROVE IdentitySpec => []IdentityInv
<1>1. IdentityTypeOK /\ IdentityTypeOK' /\ IdentityInv /\ [IdentityNext]_identityVars
      => IdentityInv'
  BY IdentityInvStep
<1> QED
  BY <1>1, IdentityInvInit, IdentityTypeCorrect, PTL DEF IdentitySpec

\* The identity presented to a hub is the one in the file, and the file is
\* private, wherever a helper has ended (create, load).
THEOREM InUseIsKeptHolds == ASSUME ~Together PROVE IdentitySpec => []InUseIsKept
<1>1. IdentityInv => InUseIsKept
  BY DEF IdentityInv, Relies, InUseIsKept
<1> QED
  BY <1>1, IdentityInvariant, PTL

\* Nothing overwrites or removes a key, once the file has one (create).
THEOREM KeyIsForeverHolds == ASSUME ~Together PROVE IdentitySpec => KeyIsForever
<1>1. IdentityTypeOK /\ IdentityTypeOK' /\ IdentityInv /\ [IdentityNext]_identityVars
      => [file.holds # 0 => file'.holds = file.holds]_identityVars
  BY IdentityInvStep
<1> QED
  BY <1>1, IdentityInvariant, IdentityTypeCorrect, PTL DEF IdentitySpec, KeyIsForever

-----------------------------------------------------------------------------
(* The pipes.                                                              *)

\* PipesTypeOK in two parts: who runs, and what is where.
Running ==
    /\ connected \in BOOLEAN /\ eof \in BOOLEAN
    /\ helper \in {"running", "gone"}
    /\ helper = "running" => connected \/ ui = "dead"

Places ==
    /\ ui \in {"idle", "writing", "quitting", "waiting", "dead"}
    /\ owed \in Nat /\ (owed > 0 <=> ui = "writing")
    /\ stdin \in Seq({"cmd", "quit"}) /\ Len(stdin) <= InSize
    /\ stdout \in 0 .. OutSize
    /\ queue \in Seq({"cmd", "quit", "eof", "net"})
    /\ main \in {"idle", "busy", "emitting"}
    /\ left \in 0 .. MaxEvents /\ (left > 0 <=> main = "emitting")

\* The two parts are all of it.
LEMMA TwoParts == PipesTypeOK <=> Running /\ Places
BY DEF PipesTypeOK, Running, Places

\* Nothing runs and nothing is in the pipes.
LEMMA PipesStart == PipesInit => PipesTypeOK
<1> SUFFICES ASSUME PipesInit PROVE Running /\ Places
  BY TwoParts
<1>1. Running
  BY DEF PipesInit, Running
<1>2. Len(stdin) = 0 /\ stdin \in Seq({"cmd", "quit"}) /\ queue \in Seq({"cmd", "quit", "eof", "net"})
  BY DEF PipesInit
<1>3. InSize \in Nat /\ 0 \in 0 .. OutSize /\ 0 \in 0 .. MaxEvents
  BY PipeSizes, QueueBounds
<1>4. ui = "idle" /\ owed = 0 /\ stdout = 0 /\ main = "idle" /\ left = 0
  BY DEF PipesInit
<1>5. Places
  BY <1>2, <1>3, <1>4 DEF Places
<1> QED
  BY <1>1, <1>5

\* A step starts a helper only with its connection, and drops a connection
\* only when the helper is gone.
LEMMA RunningStep == Running /\ [PipesNext]_pipeVars => Running'
<1> SUFFICES ASSUME Running, [PipesNext]_pipeVars PROVE Running'
  OBVIOUS
<1> USE DEF Running, helperVars
<1>1. CASE Spawn
  BY <1>1 DEF Spawn
<1>2. CASE Command
  BY <1>2 DEF Command
<1>3. CASE ReadEvents
  BY <1>3 DEF ReadEvents
<1>4. CASE WriteCommand
  BY <1>4 DEF WriteCommand
<1>5. CASE StopBegins
  BY <1>5 DEF StopBegins
<1>6. CASE StopWrites
  BY <1>6 DEF StopWrites
<1>7. CASE StopReturns
  BY <1>7 DEF StopReturns
<1>8. CASE StopKills
  BY <1>8 DEF StopKills
<1>9. CASE WeeChatDies
  BY <1>9 DEF WeeChatDies
<1>10. CASE ReadCommand \/ ReadEof \/ HubSpeaks \/ Handle
  BY <1>10 DEF ReadCommand, ReadEof, HubSpeaks, Handle
<1>11. CASE TakeEntry
  BY <1>11 DEF TakeEntry
<1>12. CASE Emit
  BY <1>12 DEF Emit
<1>13. CASE HelperDies
  BY <1>13 DEF HelperDies
<1>14. CASE Over \/ UNCHANGED pipeVars
  BY <1>14 DEF Over, pipeVars
<1> QED
  BY <1>1, <1>2, <1>3, <1>4, <1>5, <1>6, <1>7, <1>8, <1>9, <1>10, <1>11, <1>12, <1>13, <1>14
     DEF PipesNext

\* A step of WeeChat's.
LEMMA WeeChatStep ==
    ASSUME Places,
           \/ Spawn \/ Command \/ ReadEvents \/ WriteCommand \/ StopBegins \/ StopWrites
           \/ StopReturns \/ StopKills \/ WeeChatDies
    PROVE  Places'
<1> USE PipeSizes, QueueBounds DEF Places, helperVars
<1>1. CASE Spawn
  <2>1. /\ Len(stdin') = 0 /\ stdin' \in Seq({"cmd", "quit"})
        /\ queue' \in Seq({"cmd", "quit", "eof", "net"})
    BY <1>1 DEF Spawn
  <2>2. InSize \in Nat /\ 0 \in 0 .. OutSize /\ 0 \in 0 .. MaxEvents
    OBVIOUS
  <2>3. /\ ui' = "writing" /\ owed' = 1 /\ stdout' = 0 /\ main' = "idle" /\ left' = 0
    BY <1>1 DEF Spawn
  <2> QED
    BY <2>1, <2>2, <2>3
<1>2. CASE Command
  BY <1>2 DEF Command
<1>3. CASE ReadEvents
  BY <1>3 DEF ReadEvents
<1>4. CASE WriteCommand
  <2>1. ui = "writing" /\ owed \in Nat /\ owed > 0
    BY <1>4 DEF WriteCommand
  <2>2. CASE /\ helper = "running" /\ Len(stdin) < InSize /\ stdin' = Append(stdin, "cmd")
             /\ owed' = owed - 1 /\ Written /\ UNCHANGED helperVars
    <3>1. stdin' \in Seq({"cmd", "quit"}) /\ Len(stdin') = Len(stdin) + 1
      BY <2>2, AppendProperties
    <3>2. Len(stdin) \in Nat
      BY LenProperties
    <3>3. ui' \in {"idle", "writing"} /\ owed' \in Nat /\ (owed' > 0 <=> ui' = "writing")
      BY <2>1, <2>2 DEF Written
    <3>4. Len(stdin') <= InSize
      BY <2>2, <3>1, <3>2
    <3>5. UNCHANGED <<stdout, queue, main, left>>
      BY <2>2
    <3> QED
      BY <3>1, <3>3, <3>4, <3>5
  <2>3. CASE owed' = 0 /\ ui' = "idle" /\ UNCHANGED <<stdin, helperVars>>
    BY <2>3
  <2> QED
    BY <1>4, <2>2, <2>3 DEF WriteCommand
<1>5. CASE StopBegins
  BY <1>5 DEF StopBegins
<1>6. CASE StopWrites
  <2>1. stdin' \in Seq({"cmd", "quit"}) /\ Len(stdin') <= InSize
    <3>1. CASE Len(stdin) < InSize /\ stdin' = Append(stdin, "quit")
      <4>1. stdin' \in Seq({"cmd", "quit"}) /\ Len(stdin') = Len(stdin) + 1
        BY <3>1, AppendProperties
      <4>2. Len(stdin) \in Nat
        BY LenProperties
      <4> QED
        BY <3>1, <4>1, <4>2
    <3> QED
      BY <1>6, <3>1 DEF StopWrites
  <2>2. /\ ui = "quitting" /\ ui' = "waiting"
        /\ UNCHANGED <<owed, stdout, queue, main, left>>
    BY <1>6 DEF StopWrites
  <2> QED
    BY <2>1, <2>2
<1>7. CASE StopReturns
  BY <1>7 DEF StopReturns
<1>8. CASE StopKills
  BY <1>8 DEF StopKills
<1>9. CASE WeeChatDies
  BY <1>9 DEF WeeChatDies
<1> QED
  BY <1>1, <1>2, <1>3, <1>4, <1>5, <1>6, <1>7, <1>8, <1>9

\* A step of the helper's.
LEMMA HelperStep ==
    ASSUME Places,
           \/ ReadCommand \/ ReadEof \/ HubSpeaks \/ TakeEntry \/ Handle \/ Emit \/ HelperDies \/ Over
    PROVE  Places'
<1> USE PipeSizes, QueueBounds DEF Places, helperVars
<1>0. Len(stdin) \in Nat
  BY LenProperties
<1>1. CASE ReadCommand
  <2>1. /\ Head(stdin) \in {"cmd", "quit"} /\ Tail(stdin) \in Seq({"cmd", "quit"})
        /\ Len(Tail(stdin)) = Len(stdin) - 1
    BY <1>1, HeadTailProperties DEF ReadCommand
  <2>2. queue' \in Seq({"cmd", "quit", "eof", "net"})
    BY <1>1, <2>1, AppendProperties DEF ReadCommand
  <2> QED
    BY <1>0, <1>1, <2>1, <2>2 DEF ReadCommand
<1>2. CASE ReadEof
  <2>1. queue' \in Seq({"cmd", "quit", "eof", "net"})
    BY <1>2, AppendProperties DEF ReadEof
  <2> QED
    BY <1>2, <2>1 DEF ReadEof
<1>3. CASE HubSpeaks
  <2>1. queue' \in Seq({"cmd", "quit", "eof", "net"})
    BY <1>3, AppendProperties DEF HubSpeaks
  <2> QED
    BY <1>3, <2>1 DEF HubSpeaks
<1>4. CASE TakeEntry
  <2>1. queue' \in Seq({"cmd", "quit", "eof", "net"})
    BY <1>4, HeadTailProperties DEF TakeEntry
  <2> QED
    BY <1>4, <2>1 DEF TakeEntry
<1>5. CASE Handle
  BY <1>5 DEF Handle
<1>6. CASE Emit
  <2>1. CASE ui = "dead" /\ helper' = "gone" /\ UNCHANGED <<stdout, main, left>>
    BY <1>6, <2>1 DEF Emit
  <2>2. CASE /\ ui # "dead" /\ stdout < OutSize /\ stdout' = stdout + 1 /\ left' = left - 1
             /\ main' = (IF left = 1 THEN "idle" ELSE main) /\ UNCHANGED helper
    <3>1. left \in Nat /\ left > 0 /\ left' \in 0 .. MaxEvents /\ (left' > 0 <=> main' = "emitting")
      BY <1>6, <2>2 DEF Emit
    <3>2. stdout' \in 0 .. OutSize /\ main' \in {"idle", "busy", "emitting"}
      BY <2>2
    <3> QED
      BY <1>6, <2>2, <3>1, <3>2 DEF Emit
  <2> QED
    BY <1>6, <2>1, <2>2 DEF Emit
<1>7. CASE HelperDies
  BY <1>7 DEF HelperDies
<1>8. CASE Over
  BY <1>8 DEF Over, pipeVars
<1> QED
  BY <1>1, <1>2, <1>3, <1>4, <1>5, <1>6, <1>7, <1>8

\* A helper runs only while its connection holds it, or WeeChat is gone: stop
\* leaves none behind (stop).
THEOREM PipesTypeCorrect == PipesSpec => []PipesTypeOK
<1>1. Running /\ Places /\ [PipesNext]_pipeVars => Running' /\ Places'
  <2> SUFFICES ASSUME Running, Places, [PipesNext]_pipeVars PROVE Running' /\ Places'
    OBVIOUS
  <2>1. CASE UNCHANGED pipeVars
    BY <2>1, RunningStep DEF pipeVars, Places
  <2> QED
    BY <2>1, RunningStep, WeeChatStep, HelperStep DEF PipesNext
<1>2. PipesTypeOK /\ [PipesNext]_pipeVars => PipesTypeOK'
  BY <1>1, TwoParts DEF PipesTypeOK, Running, Places
<1> QED
  BY <1>2, PipesStart, PTL DEF PipesSpec
=============================================================================
