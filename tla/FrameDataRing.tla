----------------------------- MODULE FrameDataRing -----------------------------
(***************************************************************************)
(* The frame data of one machine in the game: for every player a ring of   *)
(* FRAME_DATA_LENGTH FrameData, where the commands of frame f and the      *)
(* count announced for it are kept at f % FRAME_DATA_LENGTH.  A frame is   *)
(* executed when every player's count is reached, stays for FRAMES_TO_KEEP *)
(* more frames so that it can be sent to a machine that is behind, and is  *)
(* then reset for the frame that takes its place.  A frame with too many   *)
(* commands is reset and asked for again.  The frame data of a player who  *)
(* left is deleted when none of its frames is kept any more.               *)
(*                                                                         *)
(* FrameData.cpp, FrameDataManager.cpp and their use in                    *)
(* ConnectionManager.cpp are modelled.  The other machines are inputs: a   *)
(* command or a count of any frame they can have reached (module Lockstep, *)
(* RingFits) arrives at any time, and may arrive again.  A count below the *)
(* number of commands comes from a player that leaves and disconnects a    *)
(* third one: its DESTROYPLAYER command enters a frame it has announced.   *)
(***************************************************************************)
EXTENDS Integers, FiniteSets

CONSTANTS
    Players,          \* the players of the game, numbered as their slots
    Local,            \* the player of this machine
    MaxFramesAhead,   \* MAX_FRAMES_AHEAD
    InitialRunAhead,  \* frames below it were zeroed when the game began
    Word,             \* number of values of an UnsignedInt, 2^32 in the code
    CommandFrames,    \* bound of the model: frames in which commands are issued
    Leaver,           \* bound of the model: the player who leaves
    LeaveFrame,       \* bound of the model: the frame of the leave command
    MaxFrame          \* bound of the model: frames from MaxFrame on are not executed

MaxRunAhead == MaxFramesAhead \div 2
FramesToKeep == MaxFramesAhead \div 2 + 1
FrameDataLength == (MaxFramesAhead + 1) * 2

ASSUME RingAssumption ==
    /\ Players \subseteq Nat /\ IsFiniteSet(Players) /\ Local \in Players
    /\ MaxFramesAhead \in Nat /\ InitialRunAhead \in 1 .. MaxRunAhead
    /\ Word \in Nat /\ MaxFrame \in Nat \ {0} /\ MaxFrame + FrameDataLength < Word
    /\ CommandFrames \subseteq Nat \ (0 .. InitialRunAhead - 1)
    /\ Leaver \in Players \ {Local} /\ LeaveFrame \in CommandFrames

Command ==
    {c \in [player : Players, frame : CommandFrames, type : {"GAMECOMMAND", "PLAYERLEAVE"}] :
        /\ c.player = Leaver => c.frame <= LeaveFrame
        /\ c.type = "PLAYERLEAVE" => c.player = Leaver /\ c.frame = LeaveFrame}

Unset == -1     \* a frame command count that has not arrived, the largest UnsignedInt

VARIABLES
    logicFrame,  \* TheGameLogic->getFrame()
    managers,    \* the players whose m_frameData is there
    ring,        \* the m_frameData of each player: list and frameCommandCount per slot
    quitFrame,   \* m_quitFrame, Unset while not quitting
    executed     \* history: the commands of the frames executed last

vars == <<logicFrame, managers, ring, quitFrame, executed>>

Index(f) == f % FrameDataLength
Slot(p, f) == ring[p][Index(f)]
IsQuitting(p) == quitFrame[p] # Unset
CommandCount(s) == Cardinality(s.list)

\* Mutant: the local frame data is reset like that of the others.
EmptySlot_LocalUnset(p) == [list |-> {}, frameCommandCount |-> Unset]

\* FrameDataManager::resetFrame; the local count always is the number of commands.
EmptySlot(p) == [list |-> {}, frameCommandCount |-> IF p = Local THEN 0 ELSE Unset]

\* The frames others may send for: old ones in a late duplicate, and those as far ahead as
\* the run-ahead of a machine in front reaches (module Lockstep, RingFits).
Reach == 1 .. logicFrame - FramesToKeep + FrameDataLength - 1

\* The counts a player may announce for a frame.
Counts(p, f) == 0 .. Cardinality({c \in Command : c.player = p /\ c.frame = f})

-----------------------------------------------------------------------------
\* Network::parseUserList, and the first logic frame has begun.
Init ==
    /\ logicFrame = 1
    /\ managers = Players
    /\ ring = [p \in Players |-> [i \in 0 .. FrameDataLength - 1 |->
                  IF i \in 1 .. InitialRunAhead - 1
                    THEN [list |-> {}, frameCommandCount |-> 0] ELSE EmptySlot(p)]]
    /\ quitFrame = [p \in Players |-> Unset]
    /\ executed = [f \in {} |-> {}]

Waited == {p \in managers : ~IsQuitting(p)}
FrameReady(s) == s.frameCommandCount = CommandCount(s)
Overcounted(s) == s.frameCommandCount # Unset /\ CommandCount(s) > s.frameCommandCount

\* The player whose frame data ends the loop of ConnectionManager::allCommandsReady.
FirstNotReady(slots) ==
    {p \in Waited : /\ ~FrameReady(slots[p])
                    /\ \A q \in Waited : q < p => FrameReady(slots[q])}

\* ConnectionManager::allCommandsReady on one frame: when the frame data that ends the
\* loop has too many commands, all but the local player's are reset to be sent again.
AfterCheck(slots) ==
    IF \E p \in FirstNotReady(slots) : Overcounted(slots[p])
      THEN [p \in Players |->
              IF p \in managers \ {Local} THEN EmptySlot(p) ELSE slots[p]]
      ELSE slots

\* The slots of frame f, after allCommandsReady looked at them.
CheckedRing(f, slots) ==
    ring' = [p \in Players |-> [ring[p] EXCEPT ![Index(f)] = AfterCheck(slots)[p]]]

FrameSlots(f) == [p \in Players |-> Slot(p, f)]

\* Mutant: an old command is let through.
InTime_Always(f) == TRUE

\* ConnectionManager::processNetCommand drops a synchronized command of an old frame.
InTime(f) == f >= logicFrame

\* sendRemoteCommand: into the frame data of its player, once, and the frame is checked.
ReceiveCommand(c) ==
    /\ c.player \in managers \ {Local}
    /\ InTime(c.frame)
    /\ CheckedRing(c.frame,
         [FrameSlots(c.frame) EXCEPT ![c.player].list = @ \cup {c}])
    /\ UNCHANGED <<logicFrame, managers, quitFrame, executed>>

\* processFrameInfo, and sendRemoteCommand checks the frame here as well.
ReceiveFrameInfo(p, f, n) ==
    /\ p \in managers \ {Local}
    /\ InTime(f)
    /\ CheckedRing(f, [FrameSlots(f) EXCEPT ![p].frameCommandCount = n])
    /\ UNCHANGED <<logicFrame, managers, quitFrame, executed>>

\* sendLocalCommand: the count of the local frame data follows its commands.
SendLocalCommand(c) ==
    /\ c.player = Local
    /\ ring' = [ring EXCEPT ![Local][Index(c.frame)] =
                  [list |-> @.list \cup {c}, frameCommandCount |-> Cardinality(@.list \cup {c})]]
    /\ UNCHANGED <<logicFrame, managers, quitFrame, executed>>

\* Network::update finds the frame not ready; what is overcounted is reset here as well.
FrameNotReady ==
    /\ logicFrame < MaxFrame
    /\ \E p \in Waited : ~FrameReady(Slot(p, logicFrame))
    /\ CheckedRing(logicFrame, FrameSlots(logicFrame))
    /\ UNCHANGED <<logicFrame, managers, quitFrame, executed>>

FrameCommandList(f) == UNION {Slot(p, f).list : p \in managers}

\* ConnectionManager::getFrameCommandList: which frame is reset when f is executed.
Forgotten(f) == f - FramesToKeep

\* Mutant: the frame data is deleted one frame earlier.
QuitFrame_OneTooEarly(f) == f + FramesToKeep

\* ConnectionManager::processPlayerLeave for a leave command executed in frame f.
QuitFrame(f) == f + FramesToKeep + 1

\* Network::RelayCommandsToCommandList and the logic update that follows it.
ExecuteFrame ==
    LET cmds == FrameCommandList(logicFrame)
        old == Forgotten(logicFrame)
        leaving == {c.player : c \in {d \in cmds : d.type = "PLAYERLEAVE"}}
    IN  /\ logicFrame < MaxFrame
        /\ \A p \in managers : quitFrame[p] # logicFrame
        /\ \A p \in Waited : FrameReady(Slot(p, logicFrame))
        /\ executed' = [f \in (DOMAIN executed \cup {logicFrame}) \ {old} |->
                          IF f = logicFrame THEN cmds ELSE executed[f]]
        /\ ring' = [p \in Players |->
             IF p \in managers /\ logicFrame > FramesToKeep
               THEN [ring[p] EXCEPT ![Index(old)] = EmptySlot(p)] ELSE ring[p]]
        /\ quitFrame' = [p \in Players |->
             IF p \in leaving /\ p \in managers /\ ~IsQuitting(p)
               THEN QuitFrame(logicFrame) ELSE quitFrame[p]]
        /\ logicFrame' = logicFrame + 1
        /\ UNCHANGED managers

\* ConnectionManager::update deletes the frame data of a player whose quit frame came.
DeleteFrameData(p) ==
    /\ p \in managers
    /\ quitFrame[p] = logicFrame
    /\ managers' = managers \ {p}
    /\ ring' = [ring EXCEPT ![p] = [i \in DOMAIN @ |-> EmptySlot(p)]]
    /\ UNCHANGED <<logicFrame, quitFrame, executed>>

Next ==
    \/ \E c \in Command :
         \/ c.frame \in Reach /\ ReceiveCommand(c)
         \/ c.frame \in logicFrame + 1 .. logicFrame + MaxRunAhead /\ SendLocalCommand(c)
    \/ \E p \in Players, f \in Reach : \E n \in Counts(p, f) : ReceiveFrameInfo(p, f, n)
    \/ FrameNotReady
    \/ ExecuteFrame
    \/ \E p \in Players : DeleteFrameData(p)

Spec == Init /\ [][Next]_vars

-----------------------------------------------------------------------------
\* Every variable ranges over what the code can store in it.
TypeOK ==
    /\ logicFrame \in 1 .. MaxFrame
    /\ managers \subseteq Players
    /\ \A p \in Players : ring[p] \in [0 .. FrameDataLength - 1 ->
         [list : SUBSET {c \in Command : c.player = p},
          frameCommandCount : IF p = Local THEN 0 .. 1 ELSE {Unset} \cup 0 .. 2]]
    /\ quitFrame \in [Players -> {Unset} \cup Nat]
    /\ DOMAIN executed \subseteq 1 .. MaxFrame
    /\ \A f \in DOMAIN executed : executed[f] \subseteq Command

\* ConnectionManager::sendSingleFrameToPlayer refuses a frame; both sides are unsigned.
TooFarInThePast(f) == (logicFrame - FramesToKeep) % Word > f

\* p was in the game in frame f, as far as its frame data tells.
CountedIn(p, f) == IsQuitting(p) => f < quitFrame[p] - FramesToKeep

\* What this machine sends of a frame to one that is behind is what it executed in that
\* frame, with the counts that let the other machine execute it too: nothing is
\* overwritten, reset or deleted while it may still be asked for.
CatchUpFaithful ==
    \A f \in DOMAIN executed : ~TooFarInThePast(f) =>
        /\ FrameCommandList(f) = executed[f]
        /\ \A p \in managers : CountedIn(p, f) => FrameReady(Slot(p, f))

\* Every frame that is kept to be sent to a machine that is behind is sent when asked for;
\* the frames below InitialRunAhead are known to be empty and need not be.
KeptFramesAreSent == \A f \in DOMAIN executed : f >= InitialRunAhead => ~TooFarInThePast(f)

-----------------------------------------------------------------------------
\* The frames the ring stands for, oldest first.
Oldest == logicFrame - FramesToKeep
Within == Oldest .. Oldest + FrameDataLength - 1

Store == INSTANCE FrameStore WITH
    Span <- FrameDataLength,
    Fresh <- [p \in Players |-> [list |-> {}, count |-> EmptySlot(p).frameCommandCount]],
    first <- Oldest,
    store <- [p \in Players |-> [f \in Within |->
                [list |-> Slot(p, f).list, count |-> Slot(p, f).frameCommandCount]]]

\* The ring behaves as one entry per frame: no frame ever sees what another one left.
ImplementsFrameStore == Store!Spec
=============================================================================
