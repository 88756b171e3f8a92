--------------------------- MODULE MCNetCommandList ---------------------------
(***************************************************************************)
(* Small sets of commands for the model checking of NetCommandList.        *)
(***************************************************************************)
EXTENDS NetCommandList

Cmd(t, p, n, o) == [type |-> t, player |-> p, number |-> n, origin |-> o]

\* Commands of two players (with an identifier both use), of one before and after the
\* overflow of its identifiers, a command of a later type, and acknowledgements for the
\* send queue, where they wait as well.
MixedCommands ==
    {Cmd(GameCommand, 0, n, 0) : n \in {0, 3, 65535}} \cup {Cmd(GameCommand, 1, 3, 1)}
        \cup {Cmd(PlayerLeave, 0, 2, 0)} \cup {Cmd(AckBoth, 0, n, 1) : n \in {1, 2}}

ASSUME MixedCommandsDistinct == DistinctCommands
===============================================================================
