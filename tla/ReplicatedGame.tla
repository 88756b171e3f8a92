---------------------------- MODULE ReplicatedGame ----------------------------
(***************************************************************************)
(* What the lockstep network promises to the game logic: there is one log  *)
(* of frames, each a set of commands, and every machine executes the       *)
(* frames of that log, in order and without a gap.                         *)
(***************************************************************************)
EXTENDS Naturals

CONSTANTS Players, Command

VARIABLES
    log,    \* the commands of every frame executed so far by anyone
    done    \* how many frames each machine has executed

vars == <<log, done>>

Init ==
    /\ log = [f \in {} |-> {}]
    /\ done = [p \in Players |-> 0]

\* The machine in front fixes the commands of a new frame, the others repeat them.
ExecuteFrame(p) ==
    /\ done' = [done EXCEPT ![p] = @ + 1]
    /\ IF done[p] \in DOMAIN log
         THEN UNCHANGED log
         ELSE /\ DOMAIN log' = 0 .. done[p]
              /\ log'[done[p]] \subseteq Command
              /\ \A f \in DOMAIN log : log'[f] = log[f]

Next == \E p \in Players : ExecuteFrame(p)

Spec == Init /\ [][Next]_vars
=============================================================================
