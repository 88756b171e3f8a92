------------------------------- MODULE Lockstep -------------------------------
(***************************************************************************)
(* The lockstep core of the multiplayer game: every machine runs the same  *)
(* logic frames and executes, in each frame, the same commands.  A command *)
(* issued in frame f is stamped with the execution frame f + runAhead; a   *)
(* machine announces, once per frame, how many commands it has issued for  *)
(* each frame it can no longer issue commands for (NetFrameCommandMsg), and *)
(* a machine executes a frame only when it holds, for every other machine  *)
(* in the game, exactly the announced number of commands.  The run-ahead   *)
(* itself changes by a synchronized command of the packet router, and a    *)
(* player leaves by a synchronized command of its own.                     *)
(*                                                                         *)
(* Network (Network.cpp) and the frame side of ConnectionManager           *)
(* (ConnectionManager.cpp) are modelled; delivery is abstracted to what    *)
(* acknowledgement, retry and relaying leave of it: a command that was     *)
(* sent can reach any other machine at any later time, in any order, any   *)
(* number of times, or never.                                              *)
(***************************************************************************)
EXTENDS Integers, FiniteSets

CONSTANTS
    NumPlayers,        \* human slots in the game, numbered from 0
    MinRunAhead,       \* MIN_RUNAHEAD
    MaxFramesAhead,    \* MAX_FRAMES_AHEAD
    InitialRunAhead,   \* run-ahead of Network::init, 30 in the code
    MaxFrame,          \* bound of the model: frames from MaxFrame on are not executed
    Senders,           \* bound of the model: the players that issue game commands
    MaxGameCommands,   \* bound of the model: how many each of them issues
    MaxRunAheads,      \* bound of the model: run-ahead commands issued by each router
    Leavers            \* bound of the model: the players that may leave

Players == 0 .. NumPlayers - 1
MaxRunAhead == MaxFramesAhead \div 2
FramesToKeep == MaxFramesAhead \div 2 + 1
FrameDataLength == (MaxFramesAhead + 1) * 2

ASSUME NumPlayersAssumption == NumPlayers \in Nat \ {0}
ASSUME RunAheadAssumption ==
    /\ MinRunAhead \in Nat \ {0}
    /\ MaxFramesAhead \in Nat
    /\ InitialRunAhead \in MinRunAhead .. MaxRunAhead
ASSUME BoundAssumption ==
    /\ MaxFrame \in Nat
    /\ Senders \subseteq Players
    /\ MaxGameCommands \in Nat
    /\ MaxRunAheads \in Nat
    /\ Leavers \subseteq Players

VARIABLES
    frame,          \* TheGameLogic->getFrame() of each player
    status,         \* m_localStatus
    lastFrame,      \* m_lastFrame: the frame whose tick was processed
    runAhead,       \* m_runAhead
    lastExec,       \* m_lastExecutionFrame
    lastCompleted,  \* m_lastFrameCompleted: counts are announced up to here
    nextId,         \* the command ids a machine has given out
    issued,         \* every synchronized command sent so far
    announced,      \* every NetFrameCommandMsg sent so far
    received,       \* the commands in a machine's frame data, its own included
    counts,         \* the command counts in a machine's frame data
    quit,           \* players whose leave command a machine has executed
    executed,       \* history: what a machine executed in each frame, up to the one it left in
    played          \* history: how many frames that are

localVars == <<lastFrame, runAhead, lastExec, lastCompleted, status>>
vars == <<frame, status, lastFrame, runAhead, lastExec, lastCompleted, nextId,
          issued, announced, received, counts, quit, executed, played>>

-----------------------------------------------------------------------------
(***************************************************************************)
(* Commands.  value is the new run-ahead of a RUNAHEAD command, 0 of the   *)
(* others; what a game command does to the game is not modelled.           *)
(***************************************************************************)
CommandType == {"GAMECOMMAND", "PLAYERLEAVE", "RUNAHEAD"}
Command == [type : CommandType, player : Players, id : Nat, frame : Nat, value : Nat]
FrameInfo == [player : Players, frame : Nat, count : Nat]

NewCommand(p, type, f, v) ==
    [type |-> type, player |-> p, id |-> nextId[p], frame |-> f, value |-> v]

CommandsOf(cmds, p, f) == {c \in cmds : c.player = p /\ c.frame = f}

\* The commands in q's frame data of player p for frame f, and those p issued.
Received(q, p, f) == CommandsOf(received[q], p, f)
Issued(p, f) == CommandsOf(issued, p, f)

InGame(p) == status[p] = "INGAME"
HasLeft(p) == status[p] \in {"LEFT", "POSTGAME"}
MaySend(p) == status[p] \in {"PREGAME", "INGAME"}

\* How many commands of a type p has issued, for the bounds of the model.
NumIssued(p, type) == Cardinality({c \in issued : c.player = p /\ c.type = type})

\* Mutant: the execution frame follows the run-ahead down.
ExecutionFrame_NotMonotone(p) == frame[p] + runAhead[p]

\* Network::getExecutionFrame: never earlier than an execution frame given before.
ExecutionFrame(p) ==
    IF frame[p] + runAhead[p] > lastExec[p] THEN frame[p] + runAhead[p] ELSE lastExec[p]

\* The first player of the fallback list that p has not seen leave.
IsPacketRouter(p) == \A q \in Players : q < p => q \in quit[p]

\* Network::update reads the command list before it asks for the frame's commands.
Ticked(p) == lastFrame[p] = frame[p]

-----------------------------------------------------------------------------
\* Network::init, then parseUserList: frames before the first execution frame hold
\* no commands and need no announcement.
ZeroedFrames == [player : Players, frame : 1 .. InitialRunAhead - 1, count : {0}]

Init ==
    /\ frame = [p \in Players |-> 0]
    /\ status = [p \in Players |-> "PREGAME"]
    /\ lastFrame = [p \in Players |-> 0]
    /\ runAhead = [p \in Players |-> InitialRunAhead]
    /\ lastExec = [p \in Players |-> InitialRunAhead - 1]
    /\ lastCompleted = [p \in Players |-> InitialRunAhead - 1]
    /\ nextId = [p \in Players |-> 0]
    /\ issued = {}
    /\ announced = {}
    /\ received = [p \in Players |-> {}]
    /\ counts = [p \in Players |-> ZeroedFrames]
    /\ quit = [p \in Players |-> {}]
    /\ executed = [p \in Players |-> [f \in {} |-> {}]]
    /\ played = [p \in Players |-> 0]

\* ConnectionManager::sendLocalCommand for a command of p that p executes too.
SendLocalCommand(p, c) ==
    /\ issued' = issued \cup {c}
    /\ received' = [received EXCEPT ![p] = @ \cup {c}]
    /\ nextId' = [nextId EXCEPT ![p] = @ + 1]

\* ConnectionManager::processFrameTick for the frames fs, with issued commands cmds.
AnnounceFrames(p, fs, cmds) ==
    announced' = announced \cup
        {[player |-> p, frame |-> f, count |-> Cardinality(CommandsOf(cmds, p, f))] : f \in fs}

\* Mutant: the execution frame itself is announced while commands may still enter it.
FramesToAnnounce_OffByOne(p) == lastCompleted[p] + 1 .. ExecutionFrame(p)

\* Mutant: the count waits for one frame more.
FramesToAnnounce_Late(p) == lastCompleted[p] + 1 .. ExecutionFrame(p) - 2

\* The frames Network::processCommand announces when a new logic frame starts.
FramesToAnnounce(p) == lastCompleted[p] + 1 .. ExecutionFrame(p) - 1

LastOf(f, fs) == CHOOSE m \in {f} \cup fs : \A n \in {f} \cup fs : n <= m

\* Network::processCommand at a new logic frame.
ProcessFrameTick(p) ==
    /\ ~Ticked(p)
    /\ frame[p] < MaxFrame
    /\ lastFrame' = [lastFrame EXCEPT ![p] = frame[p]]
    /\ IF MaySend(p)
         THEN /\ status' = [status EXCEPT ![p] = "INGAME"]
              /\ lastExec' = [lastExec EXCEPT ![p] = ExecutionFrame(p)]
              /\ AnnounceFrames(p, FramesToAnnounce(p), issued)
              /\ lastCompleted' = [lastCompleted EXCEPT ![p] = LastOf(@, FramesToAnnounce(p))]
         ELSE UNCHANGED <<status, lastExec, lastCompleted, announced>>
    /\ UNCHANGED <<frame, runAhead, nextId, issued, received, counts, quit, executed, played>>

\* Network::GetCommandsFromCommandList, a network message of the local player.
SendLocalGameMessage(p) ==
    /\ p \in Senders
    /\ InGame(p)
    /\ NumIssued(p, "GAMECOMMAND") < MaxGameCommands
    /\ lastExec' = [lastExec EXCEPT ![p] = ExecutionFrame(p)]
    /\ SendLocalCommand(p, NewCommand(p, "GAMECOMMAND", ExecutionFrame(p), 0))
    /\ UNCHANGED <<frame, status, lastFrame, runAhead, lastCompleted, announced,
                   counts, quit, executed, played>>

\* Mutants: no clamp at all, and a clamp to the whole of MAX_FRAMES_AHEAD.
ClampedRunAhead_Unclamped == MinRunAhead - 1 .. MaxRunAhead + 1
ClampedRunAhead_TooLarge == MinRunAhead .. MaxFramesAhead

\* The run-ahead the packet router may ask for; the measured latencies and frame rates
\* only decide which value within the clamp it is.
ClampedRunAhead == MinRunAhead .. MaxRunAhead

\* Mutant: without the comparison, the frame may be announced already.
RunAheadFrame_OldRunAhead(p) == frame[p] + runAhead[p]

\* The frame of a run-ahead command: the greater of the execution frame and the logic
\* frame plus the run-ahead in force.
RunAheadFrame(p) ==
    IF ExecutionFrame(p) > frame[p] + runAhead[p]
      THEN ExecutionFrame(p) ELSE frame[p] + runAhead[p]

\* ConnectionManager::updateRunAhead on the packet router.
UpdateRunAhead(p) ==
    /\ InGame(p)
    /\ Ticked(p)
    /\ IsPacketRouter(p)
    /\ NumIssued(p, "RUNAHEAD") < MaxRunAheads
    /\ lastExec' = [lastExec EXCEPT ![p] = ExecutionFrame(p)]
    /\ \E r \in ClampedRunAhead :
         SendLocalCommand(p, NewCommand(p, "RUNAHEAD", RunAheadFrame(p), r))
    /\ UNCHANGED <<frame, status, lastFrame, runAhead, lastCompleted, announced,
                   counts, quit, executed, played>>

\* Network::processCommand of MSG_CLEAR_GAME_DATA: the leave command goes one frame
\* past the execution frame, and the counts of both frames are announced at once.
LeaveGame(p) ==
    LET e == ExecutionFrame(p)
        leave == NewCommand(p, "PLAYERLEAVE", e + 1, 0)
    IN  /\ p \in Leavers
        /\ InGame(p)
        /\ Ticked(p)
        /\ status' = [status EXCEPT ![p] = "LEAVING"]
        /\ lastExec' = [lastExec EXCEPT ![p] = e]
        /\ lastCompleted' = [lastCompleted EXCEPT ![p] = e]
        /\ SendLocalCommand(p, leave)
        /\ AnnounceFrames(p, {e, e + 1}, issued \cup {leave})
        /\ UNCHANGED <<frame, lastFrame, runAhead, counts, quit, executed, played>>

-----------------------------------------------------------------------------
\* ConnectionManager::processNetCommand drops what is older than the logic frame.
OutOfDate(q, f) == f < frame[q]

\* sendRemoteCommand puts a synchronized command into the frame data of its player.
ReceiveCommand(q) ==
    /\ \E c \in issued \ received[q] :
         /\ c.player # q
         /\ ~OutOfDate(q, c.frame)
         /\ c.frame < MaxFrame
         /\ received' = [received EXCEPT ![q] = @ \cup {c}]
    /\ UNCHANGED <<frame, localVars, nextId, issued, announced, counts, quit, executed, played>>

\* processFrameInfo; FrameData::setFrameCommandCount overwrites.
ReceiveFrameInfo(q) ==
    /\ \E i \in announced \ counts[q] :
         /\ i.player # q
         /\ ~OutOfDate(q, i.frame)
         /\ i.frame < MaxFrame
         /\ counts' = [counts EXCEPT ![q] =
              {j \in @ : j.player # i.player \/ j.frame # i.frame} \cup {i}]
    /\ UNCHANGED <<frame, localVars, nextId, issued, announced, received, quit, executed, played>>

-----------------------------------------------------------------------------
\* Mutant: a count that has arrived is enough.
FrameReady_CountOnly(q, p, f) == \E i \in counts[q] : i.player = p /\ i.frame = f

\* Mutant: an unset count reads as zero, as it would were FrameData reset to 0, not -1.
FrameReady_UnsetIsZero(q, p, f) ==
    \/ Received(q, p, f) = {} /\ ~\E i \in counts[q] : i.player = p /\ i.frame = f
    \/ \E i \in counts[q] : /\ i.player = p
                            /\ i.frame = f
                            /\ i.count = Cardinality(Received(q, p, f))

\* FrameData::allCommandsReady: as many commands as announced, no more and no fewer.
FrameReady(q, p, f) ==
    \E i \in counts[q] : /\ i.player = p
                         /\ i.frame = f
                         /\ i.count = Cardinality(Received(q, p, f))

\* Network::AllCommandsReady; the local frame data always counts itself.
AllCommandsReady(q) ==
    \/ status[q] = "PREGAME"
    \/ \A p \in Players \ (quit[q] \cup {q}) : FrameReady(q, p, frame[q])

\* ConnectionManager::getFrameCommandList.
FrameCommandList(q) ==
    IF status[q] = "PREGAME" THEN {} ELSE {c \in received[q] : c.frame = frame[q]}

Forgotten(q, f) == frame[q] > FramesToKeep /\ f = frame[q] - FramesToKeep

\* The list is ordered by type, player and id: the last RUNAHEAD command wins.
ListedAfter(c, d) == c.player > d.player \/ (c.player = d.player /\ c.id > d.id)

ProcessRunAheadCommand(q, cmds) ==
    LET runAheads == {c \in cmds : c.type = "RUNAHEAD"}
    IN  \/ runAheads = {} /\ UNCHANGED runAhead
        \/ \E c \in runAheads :
             /\ \A d \in runAheads : ~ListedAfter(d, c)
             /\ runAhead' = [runAhead EXCEPT ![q] = c.value]

\* ConnectionManager::processPlayerLeave: the player is no longer waited for.
ProcessPlayerLeave(q, cmds) ==
    LET leaving == {c.player : c \in {d \in cmds : d.type = "PLAYERLEAVE"}}
    IN  /\ quit' = [quit EXCEPT ![q] = @ \cup leaving]
        /\ status' = [status EXCEPT ![q] = IF q \in leaving THEN "LEFT" ELSE @]

\* Network::RelayCommandsToCommandList: what the commands do to the network, and the
\* frame data that is forgotten with the frame.
RelayCommandsToCommandList(q, cmds) ==
    /\ ProcessRunAheadCommand(q, cmds)
    /\ ProcessPlayerLeave(q, cmds)
    /\ received' = [received EXCEPT ![q] = {c \in @ : ~Forgotten(q, c.frame)}]
    /\ counts' = [counts EXCEPT ![q] = {i \in @ : ~Forgotten(q, i.frame)}]

\* Network::update with a ready frame, and the logic update that follows it.
ExecuteFrame(q) ==
    LET cmds == FrameCommandList(q)
    IN  /\ ~HasLeft(q)
        /\ frame[q] < MaxFrame
        /\ Ticked(q)
        /\ AllCommandsReady(q)
        /\ RelayCommandsToCommandList(q, cmds)
        /\ frame' = [frame EXCEPT ![q] = @ + 1]
        /\ executed' = [executed EXCEPT ![q] =
             [f \in 0 .. frame[q] |-> IF f = frame[q] THEN cmds ELSE executed[q][f]]]
        /\ played' = [played EXCEPT ![q] = @ + 1]
        /\ UNCHANGED <<lastFrame, lastExec, lastCompleted, nextId, issued, announced>>

\* Network::isFrameDataReady: a machine that has left runs a logic frame in every loop of
\* the engine, until the game is cleared; the commands come with it only when they happen
\* to be ready and the time for a frame has come.
RunOn(q) ==
    /\ HasLeft(q)
    /\ frame[q] < MaxFrame
    /\ Ticked(q)
    /\ \/ status[q] = "LEFT" /\ AllCommandsReady(q)
          /\ RelayCommandsToCommandList(q, FrameCommandList(q))
       \/ UNCHANGED <<runAhead, quit, status, received, counts>>
    /\ frame' = [frame EXCEPT ![q] = @ + 1]
    /\ UNCHANGED <<lastFrame, lastExec, lastCompleted, nextId, issued, announced,
                   executed, played>>

\* Network::endOfGameCheck once the send queues have drained.
EndOfGame(p) ==
    /\ status[p] = "LEFT"
    /\ status' = [status EXCEPT ![p] = "POSTGAME"]
    /\ UNCHANGED <<frame, lastFrame, runAhead, lastExec, lastCompleted, nextId, issued,
                   announced, received, counts, quit, executed, played>>

-----------------------------------------------------------------------------
\* What a turn of the engine's loop does for the game by itself.
GameLoop(p) ==
    \/ ProcessFrameTick(p)
    \/ ExecuteFrame(p)
    \/ RunOn(p)
    \/ EndOfGame(p)

\* What a connection brings.
Receive(p) ==
    \/ ReceiveCommand(p)
    \/ ReceiveFrameInfo(p)

\* What the players and the packet router decide to do.
Issue(p) ==
    \/ SendLocalGameMessage(p)
    \/ UpdateRunAhead(p)
    \/ LeaveGame(p)

Next == \E p \in Players : GameLoop(p) \/ Receive(p) \/ Issue(p)

Spec == Init /\ [][Next]_vars

(***************************************************************************)
(* The engine's loop of a machine keeps running; a connection re-sends a   *)
(* command until it is acknowledged, so what was sent is received.  Nobody *)
(* has to issue a command, change the run-ahead or leave.                  *)
(***************************************************************************)
Fairness == \A p \in Players : WF_vars(GameLoop(p)) /\ WF_vars(Receive(p))

FairSpec == Spec /\ Fairness

-----------------------------------------------------------------------------
\* Every variable ranges over what the code can store in it.
TypeOK ==
    /\ frame \in [Players -> Nat]
    /\ status \in [Players -> {"PREGAME", "INGAME", "LEAVING", "LEFT", "POSTGAME"}]
    /\ lastFrame \in [Players -> Nat]
    /\ runAhead \in [Players -> MinRunAhead .. MaxRunAhead]
    /\ lastExec \in [Players -> Nat]
    /\ lastCompleted \in [Players -> Nat]
    /\ nextId \in [Players -> Nat]
    /\ issued \subseteq Command /\ IsFiniteSet(issued)
    /\ announced \subseteq FrameInfo
    /\ received \in [Players -> SUBSET Command]
    /\ counts \in [Players -> SUBSET FrameInfo]
    /\ quit \in [Players -> SUBSET Players]
    /\ played \in [Players -> Nat]
    /\ DOMAIN executed = Players
    /\ \A p \in Players : executed[p] \in [0 .. played[p] - 1 -> SUBSET Command]

\* Two machines that were both in the game in a frame, the frame one of them leaves in
\* included, executed the same commands in it: the promise of
\* Network::RelayCommandsToCommandList ("in the same order across all clients"); whatever
\* differs here is a desynchronized game.
Agreement ==
    \A p, q \in Players : \A f \in DOMAIN executed[p] \cap DOMAIN executed[q] :
        executed[p][f] = executed[q][f]

\* No machine in the game ever holds more commands for a frame than were announced for it,
\* so FrameData::allCommandsReady never discards a frame and asks for it again.
NeverOvercounted ==
    \A q \in Players : \A i \in counts[q] :
        ~HasLeft(q) /\ i.frame >= frame[q] =>
            Cardinality(Received(q, i.player, i.frame)) <= i.count

\* Machines in the game that reached the same frame have the same run-ahead, wait for the
\* same players and so agree on the packet router, although they got there by different
\* orders of delivery.  (A machine that has left runs frames without their commands.)
SameView ==
    \A p, q \in Players : ~HasLeft(p) /\ ~HasLeft(q) /\ frame[p] = frame[q] =>
        runAhead[p] = runAhead[q] /\ quit[p] = quit[q]

\* Every command that may still reach a player in the game maps to a slot of its frame
\* data ring (FRAME_DATA_LENGTH) that none of the frames it still keeps uses.
RingFits ==
    \A q \in Players : InGame(q) =>
        \A c \in issued : c.frame < frame[q] - FramesToKeep + FrameDataLength

\* No machine in the game is further ahead of one that may still send than the largest
\* run-ahead.  (One that has left runs on by itself.)
SkewBounded ==
    \A p, q \in Players : MaySend(p) /\ ~HasLeft(q) => frame[q] <= frame[p] + MaxRunAhead

\* Once a frame is executed by a machine in the game, nobody issues another command for it.
NoLateCommand ==
    [][\A c \in issued' \ issued : \A q \in Players : c.frame \notin DOMAIN executed[q]]_vars

\* The game never stalls for good: whoever stays in it reaches every frame, and whoever
\* leaves gets out of it.
Progress ==
    <>(\A p \in Players :
         \/ ~HasLeft(p) /\ frame[p] = MaxFrame
         \/ status[p] = "POSTGAME")

-----------------------------------------------------------------------------
\* A machine that has executed the most frames of the game.
Leader == CHOOSE p \in Players : \A q \in Players : played[q] <= played[p]

Replicated == INSTANCE ReplicatedGame WITH log <- executed[Leader], done <- played

\* The machines together behave as one game: until it leaves, each executes a prefix of the
\* same log.
ImplementsReplicatedGame == Replicated!Spec
=============================================================================
