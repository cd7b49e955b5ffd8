-------------------------------- MODULE Pipes --------------------------------
(***************************************************************************)
(* Who waits for whom: WeeChat's one thread, the helper's two, and the two *)
(* pipes between them (rrc.py, start, send, stop, drain; __main__.py,      *)
(* read_commands, run, emit).  Here frames have no content, only room.     *)
(*                                                                         *)
(* WeeChat writes to a blocking pipe and reads from one that is not.  The  *)
(* helper writes to a blocking pipe from its main loop; a thread of its    *)
(* own reads commands into a queue without bound.  stderr goes to WeeChat  *)
(* through a third pipe, like stdout.  Module Helper assumes that its      *)
(* emit returns, and Plugin that its send does: this is why they do.       *)
(***************************************************************************)
EXTENDS Integers, Sequences

CONSTANTS
    InSize,     \* bound: frames that fit into the helper's stdin
    OutSize,    \* bound: frames that fit into its stdout
    MaxEvents,  \* bound: events emitted for one entry of the queue
    MaxQueue    \* bound: entries waiting when the user or the hub adds one

ASSUME PipeSizes == InSize \in Nat \ {0} /\ OutSize \in Nat \ {0}
ASSUME QueueBounds == MaxEvents \in Nat /\ MaxQueue \in Nat

VARIABLES
    ui,         \* WeeChat's thread
    owed,       \* commands the callback it is in has still to write
    connected,  \* Connection.process is not None
    helper,     \* the process: "running" or "gone"
    stdin,      \* the helper's stdin: frames in it
    eof,        \* stdin is closed at WeeChat's end
    stdout,     \* the helper's stdout: how many frames are in it
    queue,      \* Helper.events
    main,       \* the main loop
    left        \* events it has still to emit

pipeVars == <<ui, owed, connected, helper, stdin, eof, stdout, queue, main, left>>
helperVars == <<stdout, queue, main, left>>

PipesInit ==
    /\ ui = "idle" /\ owed = 0 /\ connected = FALSE
    /\ helper = "gone" /\ stdin = <<>> /\ eof = TRUE /\ stdout = 0
    /\ queue = <<>> /\ main = "idle" /\ left = 0

-----------------------------------------------------------------------------
(* WeeChat.                                                                *)

Slack == MaxQueue - Len(queue) - Len(stdin)

\* start: a new process, and its connect command.
Spawn ==
    /\ ui = "idle" /\ ~connected
    /\ connected' = TRUE /\ helper' = "running"
    /\ ui' = "writing" /\ owed' = 1
    /\ stdin' = <<>> /\ eof' = FALSE /\ stdout' = 0
    /\ queue' = <<>> /\ main' = "idle" /\ left' = 0

\* A command of the user's; Connection.send.
Command ==
    /\ ui = "idle" /\ connected /\ Slack > 0
    /\ ui' = "writing" /\ owed' = 1
    /\ UNCHANGED <<connected, helper, stdin, eof, helperVars>>

\* rrc_stdout_cb: what is in the pipe is read; an event may make the callback
\* send a command (who).
ReadEvents ==
    /\ ui = "idle" /\ connected /\ stdout > 0
    /\ stdout' = 0
    /\ \E n \in 0 .. stdout :
          /\ n = 0 \/ n <= Slack
          /\ owed' = n
          /\ ui' = IF n = 0 THEN "idle" ELSE "writing"
    /\ UNCHANGED <<connected, helper, stdin, eof, queue, main, left>>

Written == IF owed = 1 THEN ui' = "idle" ELSE ui' = ui

\* The write waits for room in the pipe; with no reader left it fails, and
\* the process is dropped.
WriteCommand ==
    /\ ui = "writing"
    /\ \/ /\ helper = "running" /\ Len(stdin) < InSize
          /\ stdin' = Append(stdin, "cmd")
          /\ owed' = owed - 1 /\ Written
          /\ UNCHANGED connected
       \/ /\ helper = "gone"
          /\ connected' = FALSE
          /\ owed' = 0 /\ ui' = "idle"
          /\ UNCHANGED stdin
    /\ UNCHANGED <<helper, eof, helperVars>>

\* stop: the hooks go first, so that nothing reads stdout from here on.
StopBegins ==
    /\ ui = "idle" /\ connected
    /\ ui' = "quitting"
    /\ UNCHANGED <<owed, connected, helper, stdin, eof, helperVars>>

\* The quit command, and the end of stdin.
StopWrites ==
    /\ ui = "quitting"
    /\ \/ /\ helper = "running" /\ Len(stdin) < InSize
          /\ stdin' = Append(stdin, "quit")
       \/ helper = "gone" /\ UNCHANGED stdin
    /\ eof' = TRUE
    /\ ui' = "waiting"
    /\ UNCHANGED <<owed, connected, helper, helperVars>>

StopReturns ==
    /\ ui = "waiting" /\ helper = "gone"
    /\ ui' = "idle" /\ connected' = FALSE
    /\ UNCHANGED <<owed, helper, stdin, eof, helperVars>>

\* Mutant: the helper is not killed.
StopGivesUp ==
    /\ ui = "waiting" /\ helper = "running"
    /\ ui' = "idle" /\ connected' = FALSE
    /\ UNCHANGED <<owed, helper, stdin, eof, helperVars>>

\* Mutant: process.wait has no timeout.
StopWaits == FALSE /\ UNCHANGED pipeVars

\* process.wait's five seconds are over.
StopKills ==
    /\ ui = "waiting" /\ helper = "running"
    /\ helper' = "gone"
    /\ ui' = "idle" /\ connected' = FALSE
    /\ UNCHANGED <<owed, stdin, eof, helperVars>>

\* WeeChat ends without a word; both pipes lose their other end.
WeeChatDies ==
    /\ ui # "dead"
    /\ ui' = "dead" /\ owed' = 0 /\ connected' = FALSE /\ eof' = TRUE
    /\ UNCHANGED <<helper, stdin, helperVars>>

-----------------------------------------------------------------------------
(* The helper's reader thread: read_commands.                              *)

\* Mutant: the queue has a bound, and put waits for room in it.
ReadCommandBounded ==
    /\ helper = "running" /\ stdin # <<>>
    /\ Len(queue) < 1
    /\ stdin' = Tail(stdin)
    /\ queue' = Append(queue, Head(stdin))
    /\ UNCHANGED <<ui, owed, connected, helper, eof, stdout, main, left>>

ReadCommand ==
    /\ helper = "running" /\ stdin # <<>>
    /\ stdin' = Tail(stdin)
    /\ queue' = Append(queue, Head(stdin))
    /\ UNCHANGED <<ui, owed, connected, helper, eof, stdout, main, left>>

\* Mutant: the reader returns at the end of the stream, and says nothing.
ReadEofQuietly == FALSE /\ UNCHANGED pipeVars

\* The end of the stream; the thread puts it in the queue, and returns.
ReadEof ==
    /\ helper = "running" /\ stdin = <<>> /\ eof
    /\ \A k \in 1 .. Len(queue) : queue[k] # "eof"
    /\ queue' = Append(queue, "eof")
    /\ UNCHANGED <<ui, owed, connected, helper, stdin, eof, stdout, main, left>>

-----------------------------------------------------------------------------
(* The helper's main loop: run.                                            *)

\* Reticulum's threads and the timers add entries.
HubSpeaks ==
    /\ helper = "running" /\ Slack > 0
    /\ queue' = Append(queue, "net")
    /\ UNCHANGED <<ui, owed, connected, helper, stdin, eof, stdout, main, left>>

\* The next entry: quit and the end of stdin end the loop, and hub.close the
\* process; any other is handled, which may take seconds (resolve_hub).
TakeEntry ==
    /\ helper = "running" /\ main = "idle" /\ queue # <<>>
    /\ queue' = Tail(queue)
    /\ IF Head(queue) \in {"quit", "eof"}
       THEN helper' = "gone" /\ main' = main
       ELSE helper' = helper /\ main' = "busy"
    /\ UNCHANGED <<ui, owed, connected, stdin, eof, stdout, left>>

Handle ==
    /\ helper = "running" /\ main = "busy"
    /\ left' \in 0 .. MaxEvents
    /\ main' = IF left' = 0 THEN "idle" ELSE "emitting"
    /\ UNCHANGED <<ui, owed, connected, helper, stdin, eof, stdout, queue>>

\* emit waits for room; with WeeChat gone the write fails, and run ends.
Emit ==
    /\ helper = "running" /\ main = "emitting"
    /\ \/ /\ ui = "dead"
          /\ helper' = "gone" /\ UNCHANGED <<stdout, main, left>>
       \/ /\ ui # "dead" /\ stdout < OutSize
          /\ stdout' = stdout + 1
          /\ left' = left - 1
          /\ main' = IF left = 1 THEN "idle" ELSE main
          /\ UNCHANGED helper
    /\ UNCHANGED <<ui, owed, connected, stdin, eof, queue>>

\* An exception nothing catches, or a signal.
HelperDies ==
    /\ helper = "running"
    /\ helper' = "gone"
    /\ UNCHANGED <<ui, owed, connected, stdin, eof, helperVars>>

Over == ui = "dead" /\ helper = "gone" /\ UNCHANGED pipeVars

PipesNext ==
    \/ Spawn \/ Command \/ ReadEvents \/ WriteCommand
    \/ StopBegins \/ StopWrites \/ StopReturns \/ StopKills \/ WeeChatDies
    \/ ReadCommand \/ ReadEof
    \/ HubSpeaks \/ TakeEntry \/ Handle \/ Emit \/ HelperDies \/ Over

\* Each thread runs, the five seconds pass, and WeeChat's loop comes back to
\* the callback of a descriptor that stays readable.
PipesFairness ==
    /\ WF_pipeVars(WriteCommand) /\ WF_pipeVars(StopWrites)
    /\ WF_pipeVars(StopReturns) /\ WF_pipeVars(StopKills)
    /\ SF_pipeVars(ReadEvents)
    /\ WF_pipeVars(ReadCommand) /\ WF_pipeVars(ReadEof)
    /\ WF_pipeVars(TakeEntry) /\ WF_pipeVars(Handle) /\ WF_pipeVars(Emit)

PipesSpec == PipesInit /\ [][PipesNext]_pipeVars /\ PipesFairness

-----------------------------------------------------------------------------
\* When stop has returned no helper runs, whatever it was doing: it has ended
\* of itself or been killed (stop).
PipesTypeOK ==
    /\ ui \in {"idle", "writing", "quitting", "waiting", "dead"}
    /\ owed \in Nat /\ (owed > 0 <=> ui = "writing")
    /\ connected \in BOOLEAN /\ eof \in BOOLEAN
    /\ helper \in {"running", "gone"}
    /\ helper = "running" => connected \/ ui = "dead"
    /\ stdin \in Seq({"cmd", "quit"}) /\ Len(stdin) <= InSize
    /\ stdout \in 0 .. OutSize
    /\ queue \in Seq({"cmd", "quit", "eof", "net"})
    /\ main \in {"idle", "busy", "emitting"}
    /\ left \in 0 .. MaxEvents /\ (left > 0 <=> main = "emitting")

\* WeeChat's only thread never waits for ever, though it writes to a blocking
\* pipe from a callback and the helper may itself be waiting for WeeChat to
\* read (send, stop).
CallbackReturns == ui \notin {"idle", "dead"} ~> ui \in {"idle", "dead"}

\* The helper's main loop never waits for ever for WeeChat to read (emit).
LoopMovesOn == main = "emitting" /\ helper = "running" ~> main # "emitting" \/ helper = "gone"

\* A helper does not outlive WeeChat ("EOF: WeeChat closed the pipe", run).
HelperFollows == ui = "dead" ~> helper = "gone"
=============================================================================
