------------------------------- MODULE MCParts -------------------------------
(***************************************************************************)
(* The parts of the program that meet the rest of it through a value or a  *)
(* byte stream only, model-checked side by side: a behaviour picks one     *)
(* part and takes the steps of that part, the others staying as they were  *)
(* at their start.                                                         *)
(***************************************************************************)
EXTENDS Backoff, Framing, RateWindow, IdentityFile, Pipes, Wire, Roster, TLC

CONSTANTS p1, p2, r1, r2, w1, w2, h1, h2, h12

\* Two hashes with a beginning of their own each and one in common, and what
\* their owners may call themselves.
Words == {w1, w2, h1, h2, h12, p1, p2}
HexWords == {h1, h2, h12, p1, p2}
Hashes == {p1, p2}
Heads == p1 :> {p1, h1, h12} @@ p2 :> {p2, h2, h12}
ShortHeads == p1 :> h1 @@ p2 :> h2
ListedHeads == p1 :> {h1} @@ p2 :> {h2}
Plain == {<<w1, w2>>, <<h1>>}
InParens == {<<w1, Paren(h2)>>}

VARIABLE part

Init ==
    /\ part \in {"backoff", "framing", "rate", "identity", "pipes", "wire", "roster"}
    /\ BackoffInit /\ FramingInit /\ RateInit /\ IdentityInit /\ PipesInit /\ WireInit
    /\ RosterInit
    /\ part # "wire" => DOMAIN welcome = {} /\ message = Sent("WELCOME", None, "map", None, None)
    /\ part # "framing" => stream = <<>> /\ \A other \in Limits : limit <= other

Next ==
    \/ /\ part = "backoff" /\ BackoffNext
       /\ UNCHANGED <<part, framingVars, rateVars, identityVars, pipeVars, wireVars, rosterVars>>
    \/ /\ part = "framing" /\ FramingNext
       /\ UNCHANGED <<part, backoffVars, rateVars, identityVars, pipeVars, wireVars, rosterVars>>
    \/ /\ part = "rate" /\ RateNext
       /\ UNCHANGED <<part, backoffVars, framingVars, identityVars, pipeVars, wireVars, rosterVars>>
    \/ /\ part = "identity" /\ IdentityNext
       /\ UNCHANGED <<part, backoffVars, framingVars, rateVars, pipeVars, wireVars, rosterVars>>
    \/ /\ part = "pipes" /\ PipesNext
       /\ UNCHANGED <<part, backoffVars, framingVars, rateVars, identityVars, wireVars, rosterVars>>
    \/ /\ part = "wire" /\ WireNext
       /\ UNCHANGED <<part, backoffVars, framingVars, rateVars, identityVars, pipeVars, rosterVars>>
    \/ /\ part = "roster" /\ RosterNext
       /\ UNCHANGED <<part, backoffVars, framingVars, rateVars, identityVars, pipeVars, wireVars>>

vars == <<part, backoffVars, framingVars, rateVars, identityVars, pipeVars, wireVars, rosterVars>>

\* At its start no part of Pipes that is fair can move.
Spec == Init /\ [][Next]_vars /\ PipesFairness
=============================================================================
