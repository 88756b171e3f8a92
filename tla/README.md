# TLA+ models of the GeneralsGameCode multiplayer core

This directory holds TLA+ modules for the lockstep network of *Command & Conquer Generals / Zero Hour*
(`src/Core/GameEngine/{Include,Source}/GameNetwork/`) and for the scheduler that decides in which order every machine runs the
updates of its game objects (`src/GeneralsMD/Code/GameEngine/Source/GameLogic/System/GameLogic.cpp`), TLC configurations that check them on small
instances, and TLAPS proofs of what matters most about each of them for every number of players, commands and objects.

All source paths below are relative to `src/Core/GameEngine/Source/GameNetwork/` unless they start with `src/`.

## 1. The system

The game is a deterministic simulation that runs on every player's machine. Nothing of its state is sent;
the machines send only the *commands* of their players, and every machine executes the same commands in the
same logic frame. If two machines ever differ in the commands of one frame, their games diverge and the match is
lost ("mismatch"). If a machine waits for a command that nobody will send, the match stalls. The network
code has no locks and few tests: it is single-threaded per machine, and all its concurrency is between machines, through a
UDP network that loses, repeats, delays and reorders packets.

| Part | State | Operations | Talks to |
|---|---|---|---|
| Lockstep frame loop, `Network.cpp` | run-ahead, last execution frame, last completed frame, local status | tick, issue, leave, execute, change the run-ahead | `ConnectionManager`, game logic |
| `ConnectionManager.cpp` | connections, frame data per player, pending and relayed commands, packet router and its fallback list | send, relay, acknowledge, process each command type, disconnect, catch up | everything below |
| Frame data, `FrameData(Manager).cpp` | a ring of 258 frames per player: command list, count, announced count; quit frame | add, set count, ready?, reset, zero | `ConnectionManager` |
| Command list, `NetCommandList.cpp` | sorted linked list, place of the last insertion | add, find, remove, append, reset | every queue |
| `Connection.cpp` | send queue, retry times, quitting flag | send, retry, acknowledge, flush | `Transport` |
| `DisconnectManager.cpp` | time-outs, votes, the frame every player is stuck in | vote, time out, synchronise frames, disconnect | `ConnectionManager` |
| `NetCommandWrapperList.cpp`, `NetPacket.cpp` | partly assembled large commands | split, add a chunk, deliver | `ConnectionManager` |
| Update scheduler, `GameLogic.cpp` | a heap of update modules by frame and phase, each module's index and next frame | push, erase, wake, call, put back, remake | objects and their modules |
| `Transport.cpp`, `udp.cpp` | in and out buffers | queue, send, receive | sockets |
| `FrameMetrics.cpp` | averages of latency and frame rate | record | run-ahead |
| `FileTransfer.cpp` | map files and their progress | announce, send | `ConnectionManager` |
| `NAT.cpp`, `FirewallHelper.cpp` | rounds of port probing | probe, answer, time out | lobby |
| `LANAPI*.cpp`, `GameInfo.cpp` | lobby, slots, game options | announce, join, start | user interface |
| `EvolutionProtocol.cpp` and codec | none | encode, decode | `Connection`, recorder |
| `GameSpy/` | locked queues between the game and service threads | request, answer | lobby |

The commands of a machine go to one machine, the *packet router*, which relays them; when it leaves, the next
one of a fallback list that all machines share takes over. Every command is acknowledged in two stages (by the router,
and by the router once everybody has it) and sent again until it is.

What makes this hard:

* *Ordering.* A command, the count announced for its frame, a change of the run-ahead and a leave command
  reach each machine in any order, at different moments of its own frame.
* *Skew.* Machines are in different frames, up to a run-ahead apart, and the run-ahead itself changes.
* *Reuse.* The frame data is a ring: a late duplicate or an early command may hit a slot that means another frame.
* *Partial views.* The router leaves while it holds commands of others; on the disconnect screen every machine counts
  votes and time-outs for itself.
* *Order of updates.* The simulation is the same everywhere only if updates run in the same order. They are kept in a heap that each update may change
  while it runs, by waking, creating and destroying others.
* *Small integers.* Identifiers have 16 bits; frames are unsigned and are subtracted.

`PROJECT.json` lists these as hazards with the line where each bites.

## 2. Modules

| Module | Kind | Models |
|---|---|---|
| `Lockstep` | component | the frame loop of every machine, over a network that may do anything but invent commands |
| `ReplicatedGame` | abstract | what `Lockstep` implements: one log of frames, every machine executes it in order |
| `LockstepProofs` | proofs | the safety properties of `Lockstep` and the refinement |
| `FrameDataRing` | component | the frame data of one machine, the others as its environment |
| `FrameDataRingProofs` | proofs | the invariants of `FrameDataRing` and the refinement |
| `FrameStore` | abstract | what `FrameDataRing` implements: one entry per player and frame |
| `NetCommandList` | component | the sorted command list |
| `NetCommandListProofs` | proofs | all the properties of `NetCommandList` |
| `MCNetCommandList` | TLC | the command sets for checking `NetCommandList` |
| `Connections` | component | send queues, acknowledgements, relaying, leaving and the change of packet router, all machines together |
| `ConnectionsProofs` | proofs | the types of `Connections`, and its safety properties while the packet router stays |
| `Disconnect` | component | the disconnect screen: time-outs, votes, catching up, dropping a player, all machines together |
| `DisconnectProofs` | proofs | the types of `Disconnect`, its safety properties in games with one failure, and what votes can do until a second player is dropped |
| `SleepyUpdates` | component | the heap of sleeping update modules and the frame loop around it |
| `MCSleepyUpdates` | TLC | objects, modules and phases for checking `SleepyUpdates` |
| `SleepyUpdatesProofs` | proofs | all the properties of `SleepyUpdates` |
| `Stepwise` | proofs | lemmas about what is defined from one number to the next, for the two proof modules about loops |

Operators named `X_Something` beside an operator `X` are mutants: forms of `X` with a plausible bug in them. No
specification uses them; they record which mistake each property detects (`PROJECT.json`, "mutants").

### Lockstep

| Model | Code |
|---|---|
| `frame` | `TheGameLogic->getFrame()` |
| `status`, `lastFrame`, `runAhead`, `lastExec`, `lastCompleted` | `m_localStatus`, `m_lastFrame`, `m_runAhead`, `m_lastExecutionFrame`, `m_lastFrameCompleted` of `Network` |
| `received`, `counts` | the commands and announced counts in `m_frameData[]` |
| `quit` | the players whose frame data is quitting; with the fallback list, who the packet router is |
| `issued`, `announced` | every command and `NetFrameCommandMsg` ever sent: what the network can still deliver |
| `executed`, `played` | history only: what a machine executed in the frames up to the one it left in, and how many those are |
| `ProcessFrameTick` | `Network::processCommand` when the logic frame has changed |
| `SendLocalGameMessage` | `Network::GetCommandsFromCommandList`, `ConnectionManager::sendLocalGameMessage` |
| `UpdateRunAhead` | `ConnectionManager::updateRunAhead` on the packet router |
| `LeaveGame` | `Network::processCommand` of `MSG_CLEAR_GAME_DATA` |
| `ReceiveCommand`, `ReceiveFrameInfo` | `processNetCommand`, `sendRemoteCommand`, `processFrameInfo` |
| `ExecuteFrame` | `Network::update`, `allCommandsReady`, `getFrameCommandList`, `RelayCommandsToCommandList`, and the logic update |
| `RunOn` | `Network::isFrameDataReady`, `GameEngine::canUpdateNetworkGameLogic`: a machine that has left |
| `EndOfGame` | `Network::endOfGameCheck` |

A player that has executed its own leave command is not out of the game at once: until its send queues have drained (`endOfGameCheck`), `isFrameDataReady` is true in every loop of the engine, so its logic runs a frame each time,
whether or not the commands have arrived, and executes them only when they happen to be ready (`RunOn`). What it does there has nothing to do with the game of the others. `executed` and `played` therefore end with the frame a machine leaves in,
and the properties compare machines up to that frame, or machines that have not left; the clock `frame` goes on, and with it what the machine drops as out of date.

Abstractions: a game command is an identifier; the measured latencies are replaced by a free choice of any
run-ahead within the clamp of `updateRunAhead`; the two RUNAHEAD commands the router sends (one for the slowest
machine with another frame rate, both with the same identifier) are one command, since only the run-ahead is modelled; frame data
is a set instead of a ring (`RingFits` and `FrameDataRing` show that this is no loss); relaying and acknowledging
are replaced by a network that can deliver anything sent, at any time, repeatedly, or never. A frame's
command list orders commands by type, player and identifier, so a set stands for the list (`NetCommandList` shows this).

### FrameDataRing

`ring[p][i]` is `m_frameData[p]->m_frameData[i]`, with its command list and frame command count (−1 when it has not
arrived); `managers` are the players whose `FrameDataManager` exists; `quitFrame` is `m_quitFrame`; `logicFrame` is the logic
frame of this machine. The actions are `addNetCommandMsg` and `setFrameCommandCount` as reached from
`sendRemoteCommand` and `processFrameInfo` (including the readiness test that `sendRemoteCommand` makes for its metrics,
which may already discard an overcounted frame), local commands, the readiness test of `Network::update`, the
execution of a frame, and the deletion of the frame data of a player who left. The other machines are the
environment: any command or count for a frame within `Reach` may arrive. `Reach` is not a guess: it is the bound that
`RingFits` establishes in `Lockstep`, and for which `LockstepProofs` has a proof. Counts may be lower than the number of commands, as they
are when a leaving player destroys a third one on the disconnect screen; that is the only way to an overcounted frame, since
`NeverOvercounted` excludes it otherwise.

### NetCommandList

`list[l].queue` is the linked list, `list[l].cursor` the position of `m_lastMessageInserted` (0 for null); `given` is a
history of what was added and not removed. `AddMessage` follows the code's four paths: the empty list, the cursor, the end
(and the head, which is where the scan ends in that case), and the scan over types, players and sort numbers; the duplicate
test looks at one neighbour, as the code does. Command types have their numbers from `NetCommandType` since the order of the list
depends on them. The actions are the list's users: `Connection::sendNetCommandMsg`, `FrameData::addCommand`,
`Connection::processAck`, `Connection::clearCommandsExceptFrom`, `getFrameCommandList` and `reset`.
Comparison is the plain `>` of the build with `RETAIL_COMPATIBLE_NETWORKING` (`src/Core/GameEngine/Include/Common/GameDefines.h`).

### Connections

| Model | Code |
|---|---|
| `queue[m][n]` | `m_netCommandList` of m's `Connection` to n, each command with the relay mask of its `NetCommandRef` |
| `pending[m]`, `relayed[m]` | `m_pendingCommands`; `m_relayedCommands`, a command to the mask of those still to acknowledge it |
| `quitting[m]`, `closed[m]` | connections with `m_isQuitting`; those `ConnectionManager::update` has deleted |
| `received[m]`, `frame[m]` | the commands in `m_frameData[]`; the logic frame |
| `issued`, `leaves` | what each player has sent: every frame below `issued`, the leave command in frame `leaves` |
| `wire` | acknowledgements and late commands under way |
| `givenUp` | history only: the connections given up by `QuitTimeOut` |
| `PacketRouter(m)` | `m_packetRouterSlot`: the first of the fallback plan that m has not seen leave |
| `IssueFrame`, `LeaveGame` | `Network::processCommand`, `processFrameTick`, `sendLocalCommand` |
| `ExecuteFrame` | `allCommandsReady`, `RelayCommandsToCommandList`, and `processPlayerLeave` for each leave command of the frame, in the order of the list, with `disconnectPlayer` and `resendPendingCommands` |
| `Deliver`, `Delay` | `Connection::doSend`: a queued command is sent, for the first time or again, and arrives now or later (or never: then nothing happens) |
| `Deliver`, `ReceiveCommand` | `doRelay`: `ackCommand`, then `processNetCommand`, then `sendRemoteCommand` |
| `ReceiveAck` | `processAck` with both stages, and `sendRemoteCommand` of the acknowledgement itself |
| `Close`, `QuitTimeOut` | `ConnectionManager::update`, and the time-out in `doSend` |

Abstractions: `Lockstep` looks at what is in a frame, `Connections` at how it gets there, so what a player sends for a frame is
one command, `<<player, frame>>`: its game commands and its count share their fate here, and so does a leave command with the frame it
is for. The disconnect screen is left out and has a module of its own: what `Connections` shows as stuck is what that screen is for. Acknowledgements go to the network at once
instead of waiting in the send queue; since any of them may be lost and the queue sends them once, that differs only in their order.
`frame[m]` stays after the frame that m leaves in. In the code its logic runs on (see Lockstep), which has one consequence here: it may drop any command as out of date (`RunsOn`). All its connections are quitting by then, so it relays, acknowledges and sends again nothing that comes in.
A second-stage acknowledgement names player 0 as its sender, since `processAckStage2` never calls `setPlayerID`; it matters
when such an acknowledgement meets a relayed command. The order of players in the fallback plan is that of their slots.

### Disconnect

| Model | Code |
|---|---|
| `frame[m]`, `received[m]` | the logic frame; the commands in `m_frameData[]` |
| `lastFrame[m][p]` | the frame in which m dropped p (`setLastFrameInGame`); 0 while p's connection and frame data exist |
| `screen`, `notified` | `m_disconnectState`, `m_haveNotifiedOtherPlayersOfCurrentFrame` |
| `expired[m]` | the players p with `hasPlayerTimedOut` |
| `frames[m]`, `known[m]`, `votes[m]` | `m_disconnectFrames`, `m_disconnectFramesReceived`, `m_playerVotes` |
| `destroyed`, `cast` | history: the destroy commands of `sendPlayerDestruct` with the frame of `sendDisconnectCommand`; the votes |
| `TurnOnScreen`, `TimeOut`, `NotifyOthersOfCurrentFrame`, `UpdateDisconnectStatus` | `DisconnectManager::update` and `updateDisconnectStatus`, one action per thing it may do |
| `Vote` | `voteForPlayerDisconnect` |
| `AllCommandsReady`, `ExecuteFrame` | `Network::update` with a ready frame: the first call turns the screen off, the next executes |
| `Receive` | `processDisconnectCommand` with each handler, and `doRelay` of a command |
| `Crash`, `QuitGame` | the failure of a machine; `ConnectionManager::quitGame` |

The module begins when every player has issued the commands of the first `MaxFrame` frames (a run-ahead is longer than that) and some
player's are still on their way. What a player sends for a frame is one command, as in `Connections`. Messages arrive in any order; one
that is lost is sent again and so only late, unless its sender fails: then any of what it sent may never arrive. Messages that no longer
change anything are left out of `net` (`Idle`), which keeps the state space small and changes nothing that can be observed.

Abstractions: the time-outs are those of a well-chosen limit. A player times out (`Silent`) only when it is down or has dropped the machine, and when
nothing it sent is still under way; a keep-alive is the absence of a time-out. The frames a machine needs are still kept (`FRAMES_TO_KEEP`; the wrap-around of
the first 64 frames is the finding of `frame_ring_catch_up`). Catching up ignores frames that became overcounted, which need a destroyed player
(`FrameDataRing` has those). The execution of the destroy command is not modelled, and neither are the packet-router query and its answer: they have handlers, but nothing sends a query.

### SleepyUpdates

| Model | Code |
|---|---|
| `heap`, `index[m]` | `m_sleepyUpdates`; `m_indexInLogic`, one higher |
| `wake[m]`, `Phase[m]` | the two parts of `m_nextCallFrameAndPhase` |
| `pass`, `at`, `low` | the running loop of `rebalanceParentSleepyUpdate`, `rebalanceChildSleepyUpdate` or `remakeSleepyUpdate` and its place |
| `joining`, `leaving` | the modules that `registerObject` has yet to push, and `processDestroyList` to erase |
| `dying`, `unborn` | `m_objectsToDestroy`; objects not created yet |
| `now`, `stage`, `current` | `m_frame`; the place in `GameLogic::update`; `m_curUpdateModule` |
| `Rise`, `RiseNoMore`, `Sink`, `SinkNoMore` | one round of a loop, and its end |
| `PushSleepyUpdate`, `EraseSleepyUpdate` | `pushSleepyUpdate`, `eraseSleepyUpdate` |
| `RegisterObject`, `AwakenUpdateModule`, `DestroyObject` | what an update, a command or the rest of a frame may do, any number of times |
| `CallUpdate`, `ReturnFromUpdate`, `EndUpdates` | the update loop |
| `DeleteObject`, `EndDestroyList` | `processDestroyList` |
| `Init` | a new game, or the end of `loadPostProcess` of a saved one |

The loops are stepped through one round at a time, although nothing can come between, so that the steps are small enough to reason about. What an
update does to the world is left open, with three restrictions read off the code: modules of `PHASE_FINAL` create no objects,
modules of other phases than `PHASE_NORMAL` choose in their constructor when they are called first, and nobody wakes another module for a frame that is past or present
(`setWakeFrame` adds a sleep time, and none is 0). The second is what `CurrentStaysFirst` rests on, as its mutant shows: a new `PHASE_INITIAL` module that was to be called
at once would take the root from the module that creates it. `erase` takes an object's modules in any order. The buffer of 256 modules per object is not modelled.

## 3. What is checked

| Run | Question | Properties |
|---|---|---|
| `lockstep_shrink` | two machines; the run-ahead goes down and up again, twice within its own distance; the router may leave and run on | `TypeOK`, `Agreement`, `NeverOvercounted`, `SameView`, `RingFits`, `SkewBounded`, `NoLateCommand`, `ImplementsReplicatedGame` |
| `lockstep_client_leaves` | three machines, one issues a command and may leave; safety and liveness | `SameView`, `ImplementsReplicatedGame`, `Progress` |
| `frame_ring_wrap` | the ring is gone through twice, a player leaves, a frame is overcounted | `TypeOK`, `ImplementsFrameStore`, `CatchUpFaithful` |
| `frame_ring_catch_up` | *expected violation*, see section 5 | `KeptFramesAreSent` |
| `command_list_order` | two lists, two players, three types, merged and thinned out | `TypeOK`, `Sorted`, `SameOrder`, `ContentsExact` |
| `connections_leave` | three players; the router leaves, or a client, or both in one frame; the router may give up its quitting connections | `TypeOK`, `NoCommandLost`, `LeaverFlushed`, `OutOfDateWhileRouterStays`, `PendingUntilArrived` |
| `connections_out_of_date` | four players, the router leaves; *expected violation*, see section 5 | `OutOfDateIsUnnecessary` |
| `connections_relay` | four players, a command and its acknowledgements go through the router; safety and liveness | `PendingUntilArrived`, `EveryCommandArrives` |
| `disconnect_crash` | three players; the router fails, or another quits on the screen | `TypeOK`, `OneDestroyer`, `NobodyDropsEarlier`, `CanCatchUp`, `OthersGoOn` |
| `disconnect_votes` | three players; two vote against the third, who answers | `VotedOutInOneFrame` |
| `disconnect_wrong_frame` | *expected violation* | `DroppedInTheNamedFrame` |
| `sleepy_updates` | a saved game with two objects, a third is created; two modules each | `TypeOK`, `IndexInLogic`, `HeapOrdered`, `CurrentStaysFirst`, `NobodyOversleeps`, `PhasesInOrder` |

* `Agreement`: two machines that executed the same frame, neither having left before it, executed the same commands in it.
* `NeverOvercounted`: no machine in the game holds more commands of a frame than were announced, so no frame is thrown away.
* `SkewBounded`, `RingFits`: how far machines in the game drift apart, and that the ring is long enough for it.
* `SameView`: machines in the same frame that have not left agree on the run-ahead, on who is in the game and so on the packet router.
* `NoLateCommand`: no command is issued for a frame that somebody has executed while in the game.
* `ImplementsReplicatedGame`: the machines together, each until it leaves, behave as one replicated log. This needs more than `Agreement`: frames are executed in order and without a gap.
* `Progress`: whoever stays in the game reaches every frame, and whoever leaves gets out of it.
* `ImplementsFrameStore`: no frame ever sees commands, counts or resets meant for another one.
* `CatchUpFaithful`: what a machine would send of a kept frame to one that is behind is what it executed itself, with fitting counts.
* `SameOrder`: lists with the same commands have them in the same order. `Sorted`: that order is by type, player and number.
* `ContentsExact`: a list holds exactly what was added and not removed, although duplicates are only looked for next to the insertion.
* `NoCommandLost`: a command that a machine in the game lacks is queued for it, or on its way to a machine that will relay it, or its player has yet to send it to the next router. Only a connection that was given up may lose what it was to carry.
* `PendingUntilArrived`: a player forgets a command only when everybody has it who is in the game for all; this is what the second stage of acknowledgement is for.
* `LeaverFlushed`: a player that has closed its connections has handed on all that the others need to get to the frame in which it leaves, unless it gave one of them up.
* `OutOfDateIsUnnecessary`: whoever drops a command as too late was not the last one who could relay it. The code says so and is wrong (section 5); `OutOfDateWhileRouterStays` is what is true of it: until a machine has seen the first router leave.
* `EveryCommandArrives`: whatever is lost, retrying brings every command to every player.
* `OneDestroyer`: no two machines take themselves for the next packet router and destroy the same player.
* `NobodyDropsEarlier`: nobody who plays on dropped a failed player in an earlier frame than the machine that decided it, and so missed commands that one executed. (In a *later* frame they may: section 5.)
* `CanCatchUp`: whenever two machines that are in touch are in different frames, the one ahead has what the other waits for.
* `OthersGoOn`: when a machine fails, all others get to the end of what was issued: the screen ends.
* `VotedOutInOneFrame`: a player who answers is dropped only if all others voted against it in the very frame it is dropped in.
* `IndexInLogic`, `HeapOrdered`: what the code's own assertions say of the array (`validateSleepyUpdate`), whatever happened to it.
* `CurrentStaysFirst`: the module whose update runs is still at the root when it returns; the code relies on it without saying so.
* `NobodyOversleeps`: when the updates of a frame are done, every module whose frame has come has been called.
* `PhasesInOrder`: the modules called for a frame are called in the order of their phases.

### Bounds and why they are enough

`MaxFrame`, `Senders`, `MaxGameCommands`, `MaxRunAheads` and `Leavers` bound `Lockstep`; `CommandFrames`, `Leaver`, `LeaveFrame` and `MaxFrame` bound
`FrameDataRing`; the set `Commands` and `MaxLength` bound `NetCommandList`; `MaxFrame`, `MaxWire`, `MayGiveUp`, `Senders` and `Leavers` bound `Connections`;
`MaxFrame`, `MaxFaults`, `Delayed`, `MayCrash`, `Quitters`, `Voters` and `Targets` bound `Disconnect`; `NumModules`, `Objects`, `Delays`, `WakeDelays`, `Forever` and `MaxFrame` bound `SleepyUpdates`.
The runs of all but `NetCommandList` stop at `MaxFrame` or when everybody has left, so they do
not check for deadlock; that nothing is stuck earlier is what `Progress`, `EveryCommandArrives` and `OthersGoOn` say.

* The constants of the code (128 frames ahead, run-ahead 4 to 64, starting at 30) are scaled down keeping their relations: the largest run-ahead and the
  number of kept frames are derived from `MaxFramesAhead` exactly as in the code, and so is the length of the ring.
* A frame is decided by what happens within one run-ahead before it. Each `Lockstep` run goes several run-aheads beyond the first frame with a
  command. `lockstep_shrink` has the smallest range (1 to 3) in which the run-ahead can shrink below an announced distance and a second
  change can fall between; its `MaxFrame` 7 is past the second change. A run-ahead command for a frame that depends on the wrong run-ahead (mutant `RunAheadFrame_OldRunAhead`) is found there.
* `lockstep_shrink` has no game commands: its run-ahead commands are commands too, and the properties do not look at what a command does. Two machines are enough for a disagreement. That of two who see a third one leave is for `lockstep_client_leaves`,
  whose run-ahead is constant; its `MaxFrame` 4 is past every frame of the command and of a leave command issued in one of the first two. A router that leaves is in `lockstep_shrink`, where it is one of two; the proofs are for any number.
* `frame_ring_wrap` uses frames 2 and 8 with a ring of 6: they share a slot, so duplicates, early commands and resets of one can meet the other. One of
  three players leaves in frame 8, and `MaxFrame` is past the frame in which its frame data is deleted.
* In `command_list_order` one player has three commands of one type with a gap between the first two, so that the cursor can stand before, inside and
  behind the place of the next one; a higher type of the same player and acknowledgements, which sort first, are at both ends of the group.
* In `Connections` commands of different frames meet only where one is out of date, and that depends on the frames of the machines and not on other
  commands; one frame of commands, and a leave in it, is therefore enough for one departure or several at once (departures in different frames: section 5). Three players are the
  fewest of which one relays between two others; a relay mask with two members, and a machine that is slower than the next router, need four.
  `MayGiveUp` is the router alone, whose queues hold commands of others as well as its own. `MaxWire` bounds the packets under way at once: acknowledgements, and commands that arrive late (one that arrives at once needs no room). Three, in `connections_relay`, let
  the acknowledgements of one command overtake each other and the command's own repetition.
* In `Disconnect` a stall is about one frame: everybody waits in it, and whoever gets its commands in time goes on to the next. Machines are then in two frames, and
  no machine goes further, since the player is missing in the next frame as well. `MaxFrame = 1` gives both. With three players two remain, who must agree; the late commands are the router's or
  the client's. `disconnect_crash` allows one fault, since after two only one machine is left.
* `sleepy_updates` has six modules, so that the heap has three levels and a module that fills a gap may have to rise as well as sink; the phases are those of an AI, a physics and two normal modules and a
  firing tracker, and both objects that can be destroyed have modules of different phases. The saved game is loaded in frame 2, for which a saved module may be one frame late (a `PHASE_NORMAL` one that was created after the updates of frame 1). `Forever = 4` is within reach of the delays. Two frames let what was done in one show in the next. The proofs are for all values.
* `command_list_order` has identifiers 65535 and 0 of one player: after the overflow of identifiers the order is no longer chronological, but still one order.

### Fairness

`lockstep_client_leaves` assumes weak fairness of each machine's loop as a whole (`GameLoop`: its tick, its execution of a ready frame, running on and the end of its game) and of its receiving as a whole (`Receive`: a command or a count). The engine
calls `Network::update` for ever, which gives the first: what the loop can do in a given state is one thing but for a machine that has left, which runs on or ends its game. Receiving is fair because a connection sends a command again until it is acknowledged; each thing received is received once,
so nothing is put off for ever. No fairness is assumed for issuing commands, changing the run-ahead or leaving. In the run the router, player 0, stays: the commands of the others go through it. When the router itself leaves, a command may be sent by nobody until the
disconnect screen helps (section 5), so progress is not claimed of `Lockstep` then.

`connections_relay` assumes strong fairness of `Deliver` from each sender to the router and from the router to each other player, per command: a
command that is sent again and again (`doSend` does so for every unacknowledged one after the retry time) is not lost every time. Acknowledgements get no fairness: all of them may be lost.
In this run nobody leaves.

`disconnect_crash` assumes weak fairness of `System` as a whole: while anything can happen that the code or the network does by itself, something does. The game loop runs for ever, connections send again what is not
acknowledged, and time-outs pass. Since every such step brings the run nearer to its end (messages are used up and frames only grow, and a screen is turned on at most once in a frame), no finer
assumption is needed. Crashing, quitting and voting get no fairness.

## 4. What is proved

`LockstepProofs` proves, for every number of players, every range of the run-ahead and every value of the bounds, from the named assumptions of
`Lockstep` (`NumPlayersAssumption`, `RunAheadAssumption`, `BoundAssumption`) only:

| Theorem | Statement |
|---|---|
| `Invariance` | `Spec => []IInv` |
| `TypeCorrect` | `Spec => []TypeOK` |
| `AgreementHolds` | `Spec => []Agreement` |
| `NeverOvercountedHolds` | `Spec => []NeverOvercounted` |
| `SkewBoundedHolds` | `Spec => []SkewBounded` |
| `RingFitsHolds` | `Spec => []RingFits` |
| `NoLateCommandHolds` | `Spec => NoLateCommand` |
| `SameViewHolds` | `Spec => []SameView` |
| `LockstepRefinesReplicatedGame` | `Spec => ImplementsReplicatedGame` |

**The argument.** None of the properties is inductive. `Agreement` speaks of executed frames, but why two machines executed the same lies in what
may still be *issued*. The inductive invariant `IInv` is built around the notion of a *closed* frame of a player: one whose count the player has
announced, or that it has executed, or any frame once it may no longer send. `PlayedInv` ties the history to the clock: a machine that has not left has executed every frame before its own, and one that has left no more frames than it has run.

1. `ClockInv` and the lemma `ExecutionFrameOpen`: the execution frame of a player is past its every closed frame, however the run-ahead changed. So no new
   command enters a closed frame (`ClosedFramesUntouched`), and closed frames stay closed (`ClosedStable`).
2. `CountsInv`: an announced count is the number of commands issued for a closed frame, and by 1 stays so.
3. `ReceivedInv`: a machine holds a subset of what was issued; a subset with as many elements as the whole is the whole (`ReadyMeansComplete`).
4. `QuitInv` with `IssuedInv`: a player that is no longer waited for has a leave command in an earlier frame, and nothing issued past it.
5. Hence the frame that a machine in the game executes consists of exactly the commands issued for it (`FrameIsComplete`), which is `ExecutedInv`:
   `executed[q][f] = {c \in issued : c.frame = f}`, whoever `q` is. `Agreement` is immediate.

`SkewBounded` follows from closedness (a frame executed in the game is closed for everybody, and what is closed is at most a run-ahead past a player's own frame),
`RingFits` from it by arithmetic. The refinement maps the log to the longest history of a machine, and what each machine has done to `played`; running on is a stutter. That there is a longest history is `LeaderExists`; `FunctionsEqual` lets
histories be compared frame by frame. There is one lemma per action (`TickInv`, `IssueInv`, `LeaveGameInv`, `ReceiveInv`, `EndOfGameInv`, `ExecuteFrameInv`, `RunOnInv`), and `Invariance` puts them together.

`SameView` says that machines in the game and in the same frame agree on the run-ahead and on who has left. `ViewInv` expresses both by the history alone: the run-ahead is the value of the
last run-ahead command executed, in the order of frame, player and identifier, and who has left are the senders of the leave commands executed. Identifiers are given out once
(`UniqueInv`), so there is one last command. Two machines in the same frame have the same history (`ExecutedInv`), hence the same view of it.

### The frame data ring

`FrameDataRingProofs` proves, for every set of players, every length of the ring and every bound, from `RingAssumption` only:

| Theorem | Statement |
|---|---|
| `TypeCorrect` | `Spec => []TypeOK` |
| `CatchUpFaithfulHolds` | `Spec => []CatchUpFaithful` |
| `RingRefinesFrameStore` | `Spec => ImplementsFrameStore` |

**The argument.** The ring stands for a window of as many frames as it has slots, from the oldest frame that is kept on. Two frames of a window have different remainders and every remainder occurs
(`RemaindersDiffer`, `RemainderOccurs`), so a frame of the window has a slot of its own. `IInv` says that a slot holds commands of its frame only (`Own`), that the slots of frames that have not been used
are empty (`BeforeTheGame`), that what was executed is what is kept (`Executed`), and that nothing is kept of a player whose frame data was deleted (`Gone`, `Quit`). A step either works on one
frame of the window (`OneFrameStep`), or moves the window on: the slot of the frame that falls out is emptied for the one that comes in (`WindowMoves`). The refinement reads the slots of the window as entries of the store.

### The command list

`NetCommandListProofs` proves, for all lists, commands and lengths, from `ListAssumption`:

| Theorem | Statement |
|---|---|
| `TypeCorrect` | `Spec => []TypeOK` |
| `SortedHolds` | `Spec => []Sorted` |
| `ContentsExactHolds` | `DistinctCommands` implies `Spec => []ContentsExact` |
| `SameOrderHolds` | `DistinctCommands` implies `Spec => []SameOrder` |

`DistinctCommands` says that of two different commands one is newer, and that a command is found to be the same as itself and as no other. It is a hypothesis and not an assumption of the
module: acknowledgements may tie (section 5), and the first two theorems hold for them as well. It holds of commands with an identifier that their player has not used for a command of another type, which is
what a frame consists of; TLC evaluates it for the commands of the run (`MixedCommandsDistinct`).

**The argument.** `IInv` is inductive by itself: every list is in order, with its cursor in it or null. `PositionFacts` shows that the scan over types, players and identifiers ends where everything before is
older and nothing from there on is, and `AddMessageFacts` that all four insertion paths do the same. If no two commands tie, the command can only be in the list at that position, which is why it is enough to look for a duplicate there
(`AddMessageExact`). Appending and clearing go through a list; `StepsExist` and `UpTo` (module `Stepwise`) are what their proofs need instead of an induction principle. A strictly sorted list is determined by what is in it (`StrictUnique`), so
`SameOrder` follows from `ContentsExact`.

### The connections

`ConnectionsProofs` proves, for every number of players, frames and packets under way, every run-ahead and whoever may leave or be given up, from `ConnectionsAssumption`:

| Theorem | Statement |
|---|---|
| `TypeCorrect` | `Spec => []TypeOK` |
| `Invariance` | `Spec => []IInv` |
| `PendingUntilArrivedHolds` | `Spec => [](RouterPresent => PendingUntilArrived)` |
| `NoCommandLostHolds` | `Spec => [](RouterPresent => NoCommandLost)` |
| `OutOfDateWhileRouterStaysHolds` | `Spec => []OutOfDateWhileRouterStays`, which is `RouterPresent => OutOfDateIsUnnecessary` |
| `LeaverFlushedHolds` | `Spec => [](RouterPresent /\ ~GaveUp(0) => LeaverFlushed)` |
| `NothingLostWithRouter` | `0 \notin Leavers` implies `Spec => [](PendingUntilArrived /\ NoCommandLost /\ OutOfDateIsUnnecessary)` |

`RouterPresent` says that no machine has yet executed the frame in which player 0, the first of the fallback plan, leaves. It may have sent its leave command, and any others may have left. The hypothesis is needed, since each of the
four properties fails in some larger instance once the router has left (section 5); what the runs show for instances in which it leaves is beyond the theorems. `LeaverFlushed` also needs that the router has not given up a connection: one that is given
up loses what the router was relaying over it, which nobody but its player would notice, and that player has left.

**The argument.** `TypeInv` says what the queues and packets are; `LeavesFacts` carries it through the loop over the players who leave in a frame, with `StepsExist`. `RoutedInv` holds while the router is present:

1. `Routed`: a command takes one way. A client queues its own commands to the router, to be relayed to everybody else, and the router queues to each player what is for that player alone.
2. `TruePackets`: what a packet says is true when it arrives, however late, since nothing that a machine has is taken from it, and nobody who has left comes back (`GoesOn`, `StaysTrue`). `Has` is not only to have a command: a machine
   acknowledges one that it drops as out of date, and it does so because it has executed its frame or will have left by then (`OutOfDateHas`, `RunsOnHas`, by `Executed` and `Seen`).
3. `WaitedFor`: whoever may lack a command that the router has is in its relayed commands. So when the last of them is taken off, everybody has it, and the second-stage acknowledgement is true; by `StillPending` its player keeps it until then.
4. `TakenOver` and `HandedOn`: a client's command is in its queue to the router until the router has it, and in the router's queue to a player until the player has it, or the connection was given up.
5. `Emptied`: a connection is deleted with nothing queued, and the router gives up only connections to players that it has seen leave.

There is one lemma per kind of step (`RoutedSend`, `RoutedExecute`, `RoutedToRouter`, `RoutedToClient`, `RoutedDelay`, `RoutedAckToRouter`, `RoutedAckToOwner`, `RoutedClose`). All steps but the first two leave the frames alone, so they share `FramesKept` and the lemmas `Kept...`.

### The disconnect screen

`DisconnectProofs` proves, for every number of players and frames and whoever may crash, quit or vote, from `DisconnectAssumption`:

| Theorem | Statement |
|---|---|
| `TypeCorrect` | `Spec => []TypeOK` |
| `Invariance` | `Spec => []IInv` |
| `OneDestroyerHolds` | `Spec => [](Calm => OneDestroyer)` |
| `NobodyDropsEarlierHolds` | `Spec => [](Calm => NobodyDropsEarlier)` |
| `CanCatchUpHolds` | `Spec => [](Calm => CanCatchUp)` |
| `VotedOutInOneFrameHolds` | `Spec => [](OneDropped => VotedOutInOneFrame)` |
| `AlwaysCalm` | `Voters = {}` and `MaxFaults <= 1` imply `Spec => []Calm` |

`Calm` says that no more than one player has failed so far and nobody has voted. Both halves are needed. With `MaxFaults = 2` TLC finds a game that violates `OneDestroyer`: the machine that commanded the first player's destruction fails
with its messages under way, and the next in the plan commands it again. What votes can do is in section 5. The hypothesis is about the past of a run, not about its constants, so the theorems cover every game up to its second failure or first vote;
`AlwaysCalm` gives the instances that never leave it, `disconnect_crash` among them.

**The argument.** In a calm game whoever is timed out, dropped or to be dropped has failed (`OnlyFailed`), so the machine that commands a destruction is the first in the plan among all the others (`Commanded`), and there is one such.
It has heard from each of them that they wait in its own frame, what a machine says of its frame is true and stays true while its screen is on (`Told`, and `TypeInv` for the messages under way), so none of them
can have dropped the player before. Everybody else learns of the destruction by its messages, which are not lost while their sender is there. `Executed` says that a machine holds all it executed of the players it has not dropped, from which `CanCatchUp` follows. There is one lemma per action.

`OneDropped` says that no two players have been dropped so far, by anybody and for whatever reason; players may have failed, quit and voted against one another. When somebody has been dropped the code asks for fewer votes, so `VotedOutInOneFrame` says what it means only
of the first. Its invariant `BallotInv` holds in every game: votes that are counted or under way were cast (`Counted`, `VotesSent`), nobody votes against themselves, and whose time is out has failed or dropped the machine that waits (`TimedOut`). So a machine that drops the first player, who has not failed,
counts as many votes as there are others, and these are the others' votes in its own frame (`EverybodyVoted`).

### The scheduler

`SleepyUpdatesProofs` proves every property of `SleepyUpdates`, for any number of modules and objects, any phases, delays and bounds, from `SleepyAssumption` only:

| Theorem | Statement |
|---|---|
| `TypeCorrect` | `Spec => []TypeOK` |
| `IndexCorrect` | `Spec => []IndexInLogic` |
| `HeapCorrect` | `Spec => []HeapOrdered` |
| `CurrentFirst` | `Spec => []CurrentStaysFirst` |
| `NobodySleepsTooLong` | `Spec => NobodyOversleeps` |
| `InOrderOfPhases` | `Spec => PhasesInOrder` |

**The argument.** `HeapOrdered` speaks only of the moments at which nothing is being restored; `IInv` says what holds in between.

1. `Order`: all edges are in order but those at the node `at` where a loop stands: the one above it while it may rise, those below it while it may sink; and while a loaded game is put in
   order, those above the node `low`.
2. `Bridge`: the node above `at` is to be called no later than the nodes below `at`. So when a module has risen or sunk one place the edges it leaves behind are in order; without it a swap could
   break an edge two levels away. `RiseInTree` and `ChangeInTree` state this for integers on the nodes of a tree, apart from the code.
3. `Running`: while an update runs, whatever is being restored or waits to be pushed is not to be called before its module: what is woken up is for a later frame, and what
   is created now is, if it is for this frame, of `PHASE_NORMAL`, and its creator is of no later phase. So nothing rises past the root, and `CurrentStaysFirst` holds.
4. `RootIsFirst`: in a tree whose edges are in order no node is to be called before the root. The proof takes the smallest node of those that would be, which `NatLessThanWellFounded` provides; an induction on the nodes is beyond the prover.
   `NobodyOversleeps` follows, and with `Phases` (what is still to come in this frame is not of an earlier phase than the last one called) `PhasesInOrder`.
5. `Control` and `Membership` say which loop can run when, and that a module is in the heap, waiting to be pushed, or not created.

**Only model-checked:** `Progress`, `EveryCommandArrives` and `OthersGoOn` (liveness is beyond the prover), and what the runs show of `Connections` after
the router has left and of `Disconnect` after a vote or a second failure. There the properties are not theorems: section 5 has instances, larger than the runs, in which they fail.

## 5. Findings

* `ConnectionManager.cpp:2581`, run `frame_ring_catch_up`. `TheGameLogic->getFrame() - FRAMES_TO_KEEP` is unsigned. Until frame 65 it wraps around, every frame
  is "too far in the past", and a machine that is behind gets no frame data, although every frame is kept for this purpose (comment at `ConnectionManager.cpp:1805`).
* `DisconnectManager.cpp:315`, run `disconnect_wrong_frame`. The code asserts that a player is dropped in the frame the command names. Three machines wait in one frame for a player that has failed, and tell one another so. One of them
  gets the player's last command after all, turns its screen off and executes the frame; until its screen-off message arrives another machine takes everyone to be in the same frame, drops
  the player in it and tells the first one, which is in the next frame. The first machine executed a command that the other will not: the games diverge. `NobodyDropsEarlier` is the half of the promise that does hold.

* `ConnectionManager.cpp:619`, run `connections_out_of_date`. The comment above the line calls a command that is out of date unnecessary traffic. With four players the router leaves, and two others have executed the frame it leaves in; one of them is the next
  router, to which the other sends its pending command. The new router acknowledges it and drops it as out of date. The fourth player, who is slower and should have got it by relay, lacks it, and the old router has dropped its copy: nobody sends it any more. The game is
  stuck until the disconnect screen, where `CanCatchUp` and `OthersGoOn` apply. Only while the first router stays is the comment true (`OutOfDateWhileRouterStays`); with three players nobody is left who could be slower.

Situations met while modelling that no run reproduces, because they need bounds or parts beyond those of the runs:

* `ConnectionManager.cpp:1147`. A leaving router drops the counts of the others that it was relaying. With two machines left, each waits for the other's
  count of a frame up to the one with the leave command, and each sends its own again only after executing that frame. This too ends in the disconnect screen, not in different games.
* `NetCommandList.cpp:438`. Two commands of different types with the same player and identifier are taken for one. Catching up a machine produces such a pair: a count in another player's name with an identifier of the resender.
* When a client leaves and the router leaves in a *later* frame, the router drops what it was relaying for the
  client, and the client, which still has it as pending, executes no further leave command (its logic runs on without the others' commands) and never sends it again: `NoCommandLost` does not hold with
  `Leavers = {0, 2}` and `MaxFrame = 2`.
* When the router leaves in frame 0 of a game of four, a machine that has seen that is its own router and answers a command that the leaving router relayed to it straight to the command's player, with both stages. The player drops the
  command from its pending ones though another machine lacks it: `PendingUntilArrived` does not hold with `MaxFrame = 2` and a run-ahead of 1.
* The same happens to a client that has gone altogether: it leaves in frame 0 and closes its connections, the router leaves in frame 1 and drops what it was relaying for the client, and nobody has it any more. `LeaverFlushed` does not hold then; in the
  run all leave in one frame.
* `addMessage` looks for a duplicate next to the place of insertion only; acknowledgements of two players' commands with
  the same identifier tie in the order, so one of them can be in a send queue twice, which costs an acknowledgement sent twice; `MixedCommands` has no such tie.
* `ConnectionManager.cpp:1979`. A player who quits on the disconnect screen tells the others once. Those who hear it drop the player in whatever frame they are in, and one that does not hear it
  waits for its own time-out. `NobodyDropsEarlier`, `CanCatchUp` and `OthersGoOn` make no claim about a quitter.
* `DisconnectManager.cpp:795`. The votes of players who have been dropped still count, while the number of votes needed falls with the number of players. Two players who vote against each other may each be outvoted and two
  machines then take themselves for the next router (the comment at line 723 assumes that this cannot be); `OneDestroyer` is claimed without votes.
* `DisconnectManager.cpp:379`. A disconnect frame of 0 is ignored, since 0 stands for none: machines that stall in the first frame of a game never find one another on the same frame.
* `src/GeneralsMD/Code/GameEngine/Include/GameLogic/Module/UpdateModule.h:77`. "All phase 0 are called before all phase 1 within a given frame" holds for the modules whose frame it is. A `PHASE_NORMAL` module created after the updates of a frame (by a
  weapon or the destruction of an object) is called in the next frame for the one before, and so before all others. `PhasesInOrder` says the first and leaves out the second.

## 6. Plan

Done: the lockstep loop and its refinement and proofs, the frame data ring, command lists, connections, the disconnect screen, the update scheduler; proofs for all of them. What is left, in this order:

1. Proofs: what still holds of `Connections` once the packet router has left. With three players no instance tried (up to `MaxFrame = 2`, `Leavers = {0, 2}`) violates `PendingUntilArrived`, which is not proved there.
2. `WrappedCommands`: splitting and assembling large commands (`NetCommandWrapperList.cpp`, `NetPacket.cpp`), with the two hazards listed for it.
3. The execution of a commanded destruction across machines, composing `Disconnect` with the counts of `FrameDataRing`.
4. `FileTransfer`, the NAT rounds and the LAN lobby: protocols of their own that end before a game begins.

## 7. Not modelled, and why

Packet layout (`NetPacket*.cpp`, `NetCommandMsg.cpp`) is encoding without a protocol. Sockets, frame pacing and metrics are real time and
floating point; the models leave delays and run-aheads open instead. The service threads around GameSpy serve a service that no longer exists. What the updates of the game logic do, AI,
pathfinding, rendering, audio, user interface, save games, replays and memory pools do not take part in the lockstep protocol: to it, a frame is its list of commands. They are most of the repository's lines: computations over floating-point
state on one machine, without concurrency, messages or failures. `PROJECT.json` lists every part with its status.

## 8. Running

    tlc -workers 2 -config LockstepShrink.cfg Lockstep.tla
    tlc -workers 2 -config FrameDataRingWrap.cfg FrameDataRing.tla
    tlc -workers 2 -config CommandListOrder.cfg MCNetCommandList.tla
    tlc -workers 2 -config ConnectionsLeave.cfg Connections.tla
    tlc -workers 2 -config DisconnectCrash.cfg Disconnect.tla
    tlc -workers 2 -config SleepyUpdates.cfg MCSleepyUpdates.tla
    tlapm LockstepProofs.tla
    tlapm FrameDataRingProofs.tla
    tlapm NetCommandListProofs.tla
    tlapm ConnectionsProofs.tla
    tlapm DisconnectProofs.tla
    tlapm SleepyUpdatesProofs.tla
