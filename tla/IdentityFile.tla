---------------------------- MODULE IdentityFile ----------------------------
(***************************************************************************)
(* The identity file: identity.py, as Helper._cmd_connect uses it.         *)
(*                                                                         *)
(* Every connection has a helper process of its own, and by default all of *)
(* them use one file.  A process may end between any two steps: killed     *)
(* (Connection.stop waits five seconds), or with the machine.  The user    *)
(* does what the messages say: a refused file gets mode 0600, and one that *)
(* holds no identity is removed.  to_file and from_file are Reticulum's:   *)
(* the first opens the file for writing, with mode 0644 if it is new, and  *)
(* writes the key; it may fail, before the file is opened or after.        *)
(***************************************************************************)
EXTENDS Integers

CONSTANTS
    Process,    \* helpers that share the file, one after another or at once
    Together,   \* a helper may start while another has not yet settled
    MaxKeys     \* bound: identities generated

ASSUME TogetherIsBoolean == Together \in BOOLEAN
ASSUME KeysBound == MaxKeys \in Nat \ {0}

VARIABLES
    file,       \* the file: whether it is there, what it holds, its mode
    step,       \* where each process is in load_or_create
    identity,   \* the identity it loaded or generated; 0 for none
    made        \* identities generated so far

identityVars == <<file, step, identity, made>>

Key == 1 .. MaxKeys

\* holds is 0 when there is no key in it, of an identity or otherwise.
File == [exists: BOOLEAN, holds: 0 .. MaxKeys, private: BOOLEAN]
Absent == [exists |-> FALSE, holds |-> 0, private |-> FALSE]

IdentityInit ==
    /\ file = Absent
    /\ step = [p \in Process |-> "off"]
    /\ identity = [p \in Process |-> 0]
    /\ made = 0

Settled(p) == step[p] \in {"off", "ready", "failed"}

Goes(p, from, to) == step[p] = from /\ step' = [step EXCEPT ![p] = to]

-----------------------------------------------------------------------------
\* A connect command: Connection.start sends one to each new process.
Start(p) ==
    /\ Goes(p, "off", "look")
    /\ Together \/ \A q \in Process : Settled(q)
    /\ UNCHANGED <<file, identity, made>>

\* Mutant: a file that is refused is replaced.
LookAgain(p) ==
    /\ IF file.exists /\ file.private THEN Goes(p, "look", "load") ELSE Goes(p, "look", "create")
    /\ UNCHANGED <<file, identity, made>>

\* load_or_create: path.exists().
Look(p) ==
    /\ IF file.exists THEN Goes(p, "look", "load") ELSE Goes(p, "look", "create")
    /\ UNCHANGED <<file, identity, made>>

\* create: RNS.Identity(), and to_file opens the file.
Open(p) ==
    /\ Goes(p, "create", "write")
    /\ made < MaxKeys
    /\ made' = made + 1
    /\ identity' = [identity EXCEPT ![p] = made']
    /\ file' = [file EXCEPT !.exists = TRUE, !.holds = 0]

\* to_file writes the key.
Write(p) ==
    /\ Goes(p, "write", "chmod")
    /\ file' = [file EXCEPT !.holds = identity[p]]
    /\ UNCHANGED <<identity, made>>

\* Mutant: the answer of to_file is not looked at.
WriteIgnored(p) == Goes(p, "write", "chmod") /\ UNCHANGED <<file, identity, made>>

\* to_file answers False: the directory, or the disk.
WriteFails(p) ==
    /\ Goes(p, "create", "failed") \/ Goes(p, "write", "failed")
    /\ identity' = [identity EXCEPT ![p] = 0]
    /\ UNCHANGED <<file, made>>

Chmod(p) ==
    /\ Goes(p, "chmod", "ready")
    /\ file' = [file EXCEPT !.private = TRUE]
    /\ UNCHANGED <<identity, made>>

\* load: is_private, then from_file.
Load(p) ==
    /\ IF file.private THEN Goes(p, "load", "read") ELSE Goes(p, "load", "failed")
    /\ UNCHANGED <<file, identity, made>>

\* Mutant: the answer of from_file is not looked at.
ReadAnything(p) ==
    /\ Goes(p, "read", "ready")
    /\ identity' = [identity EXCEPT ![p] = file.holds]
    /\ UNCHANGED <<file, made>>

Read(p) ==
    /\ IF file.holds \in Key THEN Goes(p, "read", "ready") ELSE Goes(p, "read", "failed")
    /\ identity' = [identity EXCEPT ![p] = file.holds]
    /\ UNCHANGED <<file, made>>

\* The process ends, at any of its steps.
Exit(p) ==
    /\ step[p] # "off"
    /\ step' = [step EXCEPT ![p] = "off"]
    /\ identity' = [identity EXCEPT ![p] = 0]
    /\ UNCHANGED <<file, made>>

\* The user, having read the message and with no helper at work on the file.
UserRepairs ==
    /\ \A p \in Process : step[p] \in {"off", "failed"}
    /\ file.exists
    /\ \/ ~file.private /\ file' = [file EXCEPT !.private = TRUE]
       \/ file.private /\ file.holds = 0 /\ file' = Absent
    /\ UNCHANGED <<step, identity, made>>

IdentityNext ==
    \/ \E p \in Process : \/ Start(p) \/ Look(p) \/ Open(p) \/ Write(p) \/ WriteFails(p)
                          \/ Chmod(p) \/ Load(p) \/ Read(p) \/ Exit(p)
    \/ UserRepairs

IdentitySpec == IdentityInit /\ [][IdentityNext]_identityVars

-----------------------------------------------------------------------------
Steps == {"off", "look", "create", "write", "chmod", "load", "read", "ready", "failed"}

\* A process has an identity from the moment it generates or reads one, and
\* none before; the file it is at work on is there (load_or_create).
IdentityTypeOK ==
    /\ file \in File
    /\ file.private \/ file.holds # 0 => file.exists
    /\ step \in [Process -> Steps]
    /\ identity \in [Process -> 0 .. MaxKeys]
    /\ \A p \in Process : identity[p] # 0 <=> step[p] \in {"write", "chmod", "ready"}
    /\ \A p \in Process : step[p] \in {"write", "chmod", "load", "read", "ready"} => file.exists
    /\ made \in 0 .. MaxKeys

\* The identity a helper presents to a hub is the one in the file, and the
\* file is the user's alone: the next helper will be the same person, and no
\* other account can be (identity.py; default_path, "one identity, so the
\* user is recognisably the same person on every hub they join").
InUseIsKept ==
    \A p \in Process : step[p] = "ready" => file.holds = identity[p] /\ file.private

\* Once a file holds a key it holds that key for ever, whatever crashes,
\* fails or is refused: nothing here overwrites or removes it ("Losing the
\* file loses the identity permanently").
KeyIsForever == [][file.holds # 0 => file'.holds = file.holds]_identityVars
=============================================================================
