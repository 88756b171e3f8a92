---------------------------- MODULE NetCommandList ----------------------------
(***************************************************************************)
(* The sorted list of commands that every queue of the network layer and   *)
(* every frame's commands are kept in.  A frame is executed in the order   *)
(* of its list, so two machines that hold the same commands must hold them *)
(* in the same order, however the network delivered them.                  *)
(*                                                                         *)
(* The list remembers where it last inserted (the cursor) and tries there  *)
(* first; otherwise it looks for the position from the front.  It looks    *)
(* for a command that is already there only next to that position.         *)
(***************************************************************************)
EXTENDS Integers, FiniteSets, SequencesExt

CONSTANTS
    Lists,      \* lists, on one machine or on several
    Commands,   \* the commands that are added to them
    MaxLength   \* bound on the length of a list

\* The types of command that matter here, numbered as NetCommandType numbers them.
AckBoth == 0
AckStage1 == 1
AckStage2 == 2
FrameInfo == 3
GameCommand == 4
PlayerLeave == 5
RunAhead == 7
DestroyPlayer == 8

Acks == {AckBoth, AckStage1, AckStage2}

\* The types whose commands carry an identifier.
RequiresACommandID(type) == type \in (3 .. 8) \cup {11} \cup (15 .. 21) \cup {24, 27, 28, 29}

\* The types whose commands belong to a frame.
IsCommandSynchronized(type) ==
    type \in {FrameInfo, GameCommand, PlayerLeave, RunAhead, DestroyPlayer}

\* number is what a command of its type is sorted by: its own identifier, or the
\* one it acknowledges; origin is whose command an acknowledgement is for.
Command == [type : 0 .. 30, player : 0 .. 7, number : 0 .. 2 ^ 16 - 1, origin : 0 .. 7]

ASSUME ListAssumption == Commands \subseteq Command /\ MaxLength \in Nat

VARIABLES
    list,   \* of each list: the commands in order, and the cursor (0 is null)
    given   \* of each list: what was put in and not taken out (not in the code)

vars == <<list, given>>

Empty == [queue |-> <<>>, cursor |-> 0]

--------------------------------------------------------------------------------
IsCommandNewer(new, old) ==
    \/ new.type > old.type
    \/ new.type = old.type /\ new.player > old.player
    \/ new.type = old.type /\ new.player = old.player /\ new.number > old.number

SamePlayerGroup(a, b) == a.type = b.type /\ a.player = b.player

IsCommandNewerInSamePlayerGroup(new, old) ==
    SamePlayerGroup(new, old) /\ new.number > old.number

\* Commands with an identifier are the same if sender and identifier are; of the
\* others only acknowledgements are ever found to be the same.
IsEqualCommandMsg(a, b) ==
    IF RequiresACommandID(a.type)
    THEN RequiresACommandID(b.type) /\ a.player = b.player /\ a.number = b.number
    ELSE a.type \in Acks /\ SamePlayerGroup(a, b) /\ a.origin = b.origin /\ a.number = b.number

FindMessage(s, c) == \E i \in DOMAIN s.queue : IsEqualCommandMsg(s.queue[i], c)

\* The first position from i on that is not passed, or one past the end.
SkipWhile(q, i, passed) ==
    CHOOSE j \in i .. Len(q) + 1 :
        /\ \A k \in i .. j - 1 : k \in passed
        /\ j <= Len(q) => j \notin passed

\* Past the lower types, then the lower players of the type, then the older commands.
Position(q, c) ==
    IF c.type > Last(q).type
    THEN Len(q) + 1
    ELSE LET lowerType == {k \in DOMAIN q : c.type > q[k].type}
             lowerPlayer == {k \in DOMAIN q : c.type = q[k].type /\ c.player > q[k].player}
             older == {k \in DOMAIN q : IsCommandNewerInSamePlayerGroup(c, q[k])}
         IN  SkipWhile(q, SkipWhile(q, SkipWhile(q, 1, lowerType), lowerPlayer), older)

\* Mutant: what comes after the cursor is not looked at.
CanInsertAfterLast_NoNextBound(s, c) ==
    /\ s.cursor # 0
    /\ IsCommandNewerInSamePlayerGroup(c, s.queue[s.cursor])

CanInsertAfterLast(s, c) ==
    /\ s.cursor # 0
    /\ IsCommandNewerInSamePlayerGroup(c, s.queue[s.cursor])
    /\ s.cursor < Len(s.queue) => IsCommandNewer(s.queue[s.cursor + 1], c)

\* Mutant: the command is not compared with its neighbour.
InsertUnlessSame_Always(s, c, i, neighbour) ==
    [queue |-> InsertAt(s.queue, i, c), cursor |-> i]

\* Insertion at a position, unless the command is the one at the position neighbour.
InsertUnlessSame(s, c, i, neighbour) ==
    IF IsEqualCommandMsg(s.queue[neighbour], c)
    THEN s
    ELSE [queue |-> InsertAt(s.queue, i, c), cursor |-> i]

AddMessage(s, c) ==
    IF s.queue = <<>> THEN [queue |-> <<c>>, cursor |-> 1]
    ELSE IF CanInsertAfterLast(s, c)
    THEN InsertUnlessSame(s, c, s.cursor + 1, s.cursor)
    ELSE LET i == Position(s.queue, c)
         IN  InsertUnlessSame(s, c, i, IF i > Len(s.queue) THEN Len(s.queue) ELSE i)

\* Mutant: the cursor stays with a message that is removed.
RemoveMessage_CursorKept(s, i) ==
    [queue |-> RemoveAt(s.queue, i), cursor |-> IF s.cursor > i THEN s.cursor - 1 ELSE s.cursor]

RemoveMessage(s, i) ==
    LET queue == RemoveAt(s.queue, i)
    IN  [queue |-> queue,
         cursor |-> IF s.cursor > i THEN s.cursor - 1
                    ELSE IF s.cursor = i /\ i > Len(queue) THEN 0 ELSE s.cursor]

\* From the first message to the last: those of other players are removed.
RemoveExceptFrom(s, p) ==
    LET swept[n \in 0 .. Len(s.queue)] ==
            IF n = 0 THEN [rest |-> s, at |-> 1]
            ELSE LET before == swept[n - 1]
                 IN  IF before.rest.queue[before.at].player = p
                     THEN [before EXCEPT !.at = @ + 1]
                     ELSE [before EXCEPT !.rest = RemoveMessage(@, before.at)]
    IN  swept[Len(s.queue)].rest

AppendList(s, t) ==
    LET appended[n \in 0 .. Len(t.queue)] ==
            IF n = 0 THEN s ELSE AddMessage(appended[n - 1], t.queue[n])
    IN  appended[Len(t.queue)]

--------------------------------------------------------------------------------
Init ==
    /\ list = [l \in Lists |-> Empty]
    /\ given = [l \in Lists |-> {}]

\* A command is queued to be sent.
SendNetCommandMsg(l, c) ==
    /\ Len(list[l].queue) < MaxLength
    /\ list' = [list EXCEPT ![l] = AddMessage(@, c)]
    /\ given' = [given EXCEPT ![l] = @ \cup {c}]

\* A command for a frame arrives: the whole list is searched before it is added.
AddCommand(l, c) ==
    /\ IsCommandSynchronized(c.type)
    /\ Len(list[l].queue) < MaxLength
    /\ list' = [list EXCEPT ![l] = IF FindMessage(@, c) THEN @ ELSE AddMessage(@, c)]
    /\ given' = [given EXCEPT ![l] = @ \cup {c}]

\* A queued command is acknowledged, or sent when it needs no acknowledgement.
RemoveOne(l, i) ==
    /\ list' = [list EXCEPT ![l] = RemoveMessage(@, i)]
    /\ given' = [given EXCEPT ![l] = @ \ {list[l].queue[i]}]

\* The packet router left: only the local player's commands stay.
ClearCommandsExceptFrom(l, p) ==
    /\ list' = [list EXCEPT ![l] = RemoveExceptFrom(@, p)]
    /\ given' = [given EXCEPT ![l] = {c \in @ : c.player = p}]

\* The commands of one list are put together with those of another, for a frame.
CollectFrom(l, m) ==
    /\ \A c \in given[l] \cup given[m] : IsCommandSynchronized(c.type)
    /\ Len(list[l].queue) + Len(list[m].queue) <= MaxLength
    /\ list' = [list EXCEPT ![l] = AppendList(@, list[m])]
    /\ given' = [given EXCEPT ![l] = @ \cup given[m]]

\* A quitting connection that times out, or frame data that is used again.
Reset(l) ==
    /\ list' = [list EXCEPT ![l] = Empty]
    /\ given' = [given EXCEPT ![l] = {}]

Next ==
    \E l \in Lists :
        \/ \E c \in Commands : SendNetCommandMsg(l, c) \/ AddCommand(l, c)
        \/ \E i \in DOMAIN list[l].queue : RemoveOne(l, i)
        \/ \E p \in {c.player : c \in Commands} : ClearCommandsExceptFrom(l, p)
        \/ \E m \in Lists \ {l} : CollectFrom(l, m)
        \/ Reset(l)

Spec == Init /\ [][Next]_vars

--------------------------------------------------------------------------------
(* Commands that differ have different places in the order, and every command is  *)
(* found when it is looked for.  Two acknowledgements of commands of two players  *)
(* with the same identifier, and a command that has neither an identifier nor     *)
(* anything to acknowledge, are not of this kind; a frame's commands are.         *)
DistinctCommands ==
    \A c, d \in Commands :
        /\ IsEqualCommandMsg(c, d) <=> c = d
        /\ c = d \/ IsCommandNewer(c, d) \/ IsCommandNewer(d, c)

(* Every list is a sequence of commands, and its cursor is null or a position in  *)
(* it: removeMessage never leaves it at a message that was freed.                 *)
TypeOK ==
    /\ list \in [Lists -> [queue : Seq(Commands), cursor : Nat]]
    /\ given \in [Lists -> SUBSET Commands]
    /\ \A l \in Lists : list[l].cursor <= Len(list[l].queue)

(* No command stands before one it is newer than, whichever of the insertion      *)
(* paths (cursor, end, scan) placed it and whatever was removed in between.       *)
Sorted ==
    \A l \in Lists : \A i, j \in DOMAIN list[l].queue :
        i < j => ~IsCommandNewer(list[l].queue[i], list[l].queue[j])

(* Two lists with the same commands have them in the same order: the order of     *)
(* arrival and the frame data they were collected from leave no trace, so every   *)
(* machine executes the commands of a frame in the same order.                    *)
SameOrder ==
    \A l, m \in Lists : given[l] = given[m] => list[l].queue = list[m].queue

(* A list holds exactly what was added and not removed: looking for duplicates    *)
(* next to the position of insertion alone neither drops a command nor lets one   *)
(* through, and a removal takes nothing else along.                               *)
ContentsExact == \A l \in Lists : ToSet(list[l].queue) = given[l]
================================================================================
