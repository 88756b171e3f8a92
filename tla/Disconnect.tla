------------------------------- MODULE Disconnect -------------------------------
(***************************************************************************)
(* What the machines do when the game stands still because a player does   *)
(* not answer: the disconnect screen.  Each machine tells the others which *)
(* frame it is in, those ahead send the frames the others lack, and when   *)
(* everyone is in the same frame the machine that is packet router, or     *)
(* will be, drops the players whose time is out or who are voted out,      *)
(* tells the others to, and has what the players own destroyed.            *)
(*                                                                         *)
(* A command <<p, f>> stands for all that p sends for frame f.  The model  *)
(* starts when everyone has issued the commands of the frames it is about: *)
(* a run-ahead is longer than that.  Messages arrive in any order, and one *)
(* that is lost is sent again.                                             *)
(***************************************************************************)
EXTENDS Integers, FiniteSets, FiniteSetsExt

CONSTANTS
    NumPlayers,   \* players 0 .. NumPlayers - 1, in the order of the fallback plan
    MaxFrame,     \* bound on the frames whose commands have been issued
    Delayed,      \* sets of players: whose commands may be on their way at the start
    MayCrash,     \* the players whose machine or link may fail
    Quitters,     \* the players who may quit on the disconnect screen
    Voters,       \* the players who vote
    Targets,      \* the players they vote out
    MaxFaults     \* bound on the players who crash or quit

Players == 0 .. NumPlayers - 1

ASSUME DisconnectAssumption ==
    /\ NumPlayers \in 2 .. 8
    /\ MaxFrame \in Nat \ {0} /\ MaxFaults \in Nat
    /\ Delayed \subseteq SUBSET Players /\ Delayed # {}
    /\ MayCrash \subseteq Players /\ Quitters \subseteq Players
    /\ Voters \subseteq Players /\ Targets \subseteq Players

VARIABLES
    frame,       \* of each machine: the frame it executes next
    received,    \* of each machine: the commands in its frame data
    lastFrame,   \* of each machine: the frame it dropped each player in, or 0
    screen,      \* the machines that show the disconnect screen
    notified,    \* the machines that have told the others their frame since they show it
    expired,     \* of each machine: the players whose time is out
    frames,      \* of each machine: the latest frame each player told it (m_disconnectFrames)
    known,       \* of each machine: the players waiting in that frame (m_disconnectFramesReceived)
    votes,       \* of each machine: the frame of each player's vote against a player, or 0
    down,        \* the players who have crashed or quit
    destroyed,   \* the players whose destruction was commanded, by whom, and the frame named
    cast,        \* history: who voted against whom, in which frame
    net          \* messages under way

game == <<frame, received, lastFrame>>
clock == <<screen, notified, expired>>
heard == <<frames, known, votes>>
history == <<destroyed, cast>>
vars == <<game, clock, heard, history, down, net>>

--------------------------------------------------------------------------------
End == MaxFrame + 1
Frames == 1 .. End
Command == Players \X (1 .. MaxFrame)
Owner(c) == c[1]
FrameOf(c) == c[2]

Others(m) == Players \ {m}
Up == Players \ down

\* ConnectionManager::isPlayerConnected; nobody drops themselves.
Connected(m) == {p \in Players : lastFrame[m][p] = 0}
PeersOf(m) == Connected(m) \ {m}

FirstInPlan(ps) == CHOOSE q \in ps : \A r \in ps : q <= r
PacketRouter(m) == FirstInPlan(Connected(m))

Message(type, from, to, body, relay) ==
    [type |-> type, from |-> from, to |-> to, body |-> body, relay |-> relay]

\* ConnectionManager::sendLocalCommandDirect to the players of a set.
SendDirect(type, m, to, body) == {Message(type, m, n, body, {n}) : n \in to}

\* ConnectionManager::sendLocalCommand of commands, by way of the packet router r.
SendLocalCommands(m, r, peers, cs) ==
    UNION {IF r = m THEN SendDirect("COMMAND", m, peers, c)
           ELSE {Message("COMMAND", m, r, c, Others(m))} : c \in cs}

InitCommands(late) ==
    /\ received = [m \in Players |-> {c \in Command : Owner(c) = m \/ Owner(c) \notin late}]
    /\ net = UNION {SendLocalCommands(m, 0, Others(m), {m} \X (1 .. MaxFrame)) : m \in late}

Init ==
    /\ frame = [m \in Players |-> 1]
    /\ \E late \in Delayed : InitCommands(late)
    /\ lastFrame = [m \in Players |-> [p \in Players |-> 0]]
    /\ screen = {} /\ notified = {}
    /\ expired = [m \in Players |-> {}]
    /\ frames = [m \in Players |-> [p \in Players |-> 0]]
    /\ known = [m \in Players |-> {}]
    /\ votes = [m \in Players |-> [p \in Players |-> [q \in Players |-> 0]]]
    /\ down = {} /\ destroyed = {} /\ cast = {}

--------------------------------------------------------------------------------
\* Mutant: the votes of earlier frames count.
Votes_OfAnyFrame(m, p) == {q \in Players : votes[m][p][q] # 0}

\* DisconnectManager::countVotesForPlayer
Votes(m, p) == {q \in Players : votes[m][p][q] = frame[m]}

VotedOut(m, p) == p # m /\ Cardinality(Votes(m, p)) >= Cardinality(Connected(m)) - 1

\* DisconnectManager::isPlayerInGame
InGame(m, p) == p \in Connected(m) /\ ~VotedOut(m, p) /\ p \notin expired[m]

\* Mutant: nobody looks which frames the others are in.
AllOnSameFrame_Unchecked(m) == TRUE

\* DisconnectManager::allOnSameFrame
AllOnSameFrame(m) ==
    \A p \in PeersOf(m) : InGame(m, p) => p \in known[m] /\ frames[m][p] = frames[m][m]

\* Mutant: whoever finds a player gone acts.
IsLocalPlayerNextPacketRouter_Always(m) == TRUE

\* DisconnectManager::isLocalPlayerNextPacketRouter
IsLocalPlayerNextPacketRouter(m) ==
    m = FirstInPlan({p \in Connected(m) : p = m \/ InGame(m, p)})

\* DisconnectManager::resetPlayersVotes: the votes of q up to frame f.
ResetVotes(vs, q, f) ==
    [p \in Players |-> [vs[p] EXCEPT ![q] = IF @ <= f THEN 0 ELSE @]]

\* ConnectionManager::sendFrameDataToPlayer: what m has for the frames from f on that it
\* has executed, save the player's own.
FrameData(m, to, f) ==
    UNION {SendDirect("COMMAND", m, {to}, c) :
             c \in {d \in received[m] : Owner(d) # to /\ FrameOf(d) \in f .. frame[m] - 1}}

\* ConnectionManager::processNetCommand: from a player no longer in the game, or late.
OutOfDate(m, c) == lastFrame[m][Owner(c)] # 0 \/ FrameOf(c) < frame[m]

\* A message that changes nothing when it is received, now or later.
Idle(x) ==
    \/ x.to \in down
    \/ x.type = "COMMAND" /\ OutOfDate(x.to, x.body)
    \/ x.type = "COMMAND" /\ x.body \in received[x.to] /\ x.relay = {x.to}
    \/ x.type # "COMMAND" /\ lastFrame[x.to][x.from] # 0
    \/ x.type = "FRAME" /\ frames[x.to][x.from] >= x.body
    \/ x.type = "SCREENOFF" /\ frames[x.to][x.from] > x.body
    \/ x.type \in {"VOTE", "DISCONNECT"} /\ (x.body[1] = x.to \/ lastFrame[x.to][x.body[1]] # 0)

\* What is under way after a step: idle messages are left out.
Carry(msgs) == net' = {x \in msgs : ~Idle(x)'}

Ready(m) ==
    /\ frame[m] <= MaxFrame
    /\ \A q \in Connected(m) : <<q, frame[m]>> \in received[m]

--------------------------------------------------------------------------------
\* DisconnectManager::turnOnScreen, when the machine has waited for NetworkDisconnectTime.
TurnOnScreen(m) ==
    /\ m \notin screen /\ ~Ready(m)
    /\ screen' = screen \cup {m}
    /\ expired' = [expired EXCEPT ![m] = {}]
    /\ UNCHANGED <<notified, down, net, game, heard, history>>

\* Mutant: nobody sends the frames that others lack.
CatchUp_Not(m, fs, ks) == {}

\* DisconnectManager::processDisconnectFrame of m's own frame: to those it knows behind.
CatchUp(m, fs, ks) ==
    UNION {FrameData(m, p, fs[p]) :
             p \in {q \in Others(m) : InGame(m, q) /\ q \in ks /\ fs[q] < fs[m]}}

\* DisconnectManager::updateDisconnectStatus has the frame told to the others, m included.
NotifyOthersOfCurrentFrame(m) ==
    LET news == frames[m][m] < frame[m]
        fs == [frames[m] EXCEPT ![m] = frame[m]]
    IN  /\ m \in screen \ notified /\ PeersOf(m) # {}
        /\ notified' = notified \cup {m}
        /\ frames' = IF news THEN [frames EXCEPT ![m] = fs] ELSE frames
        /\ votes' = IF news THEN [votes EXCEPT ![m] = ResetVotes(@, m, frame[m] - 1)] ELSE votes
        /\ UNCHANGED <<screen, expired, known, down, game, history>>
        /\ Carry(net \cup SendDirect("FRAME", m, PeersOf(m), frame[m])
                     \cup IF news THEN CatchUp(m, fs, known[m]) ELSE {})

\* No keep-alive has come for NetworkPlayerTimeoutTime: the player is down or has dropped
\* the machine, and what it sent before has arrived or is lost.
Silent(m, p) ==
    /\ p \in down \/ lastFrame[p][m] # 0
    /\ \A x \in net : x.from # p

TimeOut(m, p) ==
    /\ m \in screen /\ p \in PeersOf(m) \ expired[m] /\ Silent(m, p)
    /\ expired' = [expired EXCEPT ![m] = @ \cup {p}]
    /\ UNCHANGED <<screen, notified, down, net, game, heard, history>>

\* m's commands that some player it is connected to has not got: those are pending.
Pending(m, peers) == {c \in received[m] : Owner(c) = m /\ \E n \in peers : c \notin received[n]}

ResendPendingCommands(m, peers) ==
    SendLocalCommands(m, FirstInPlan(peers \cup {m}), peers, Pending(m, peers))

\* DisconnectManager::disconnectPlayer on m, for p; queued is what m sends before.
DisconnectPlayer(m, p, queued) ==
    LET peers == PeersOf(m) \ {p}
        resent == IF p = PacketRouter(m) THEN ResendPendingCommands(m, peers) ELSE {}
    IN  /\ lastFrame' = [lastFrame EXCEPT ![m][p] = frame[m]]
        /\ received' = [received EXCEPT ![m] = {c \in @ : Owner(c) # p}]
        /\ UNCHANGED <<frame, down, cast, clock, heard>>
        /\ Carry({x \in queued : ~(x.from = m /\ x.to = p)} \cup resent)

\* Mutant: the machine that drops the player keeps it to itself.
SendDisconnectCommand_Not(m, p, f) == {}

\* DisconnectManager::sendDisconnectCommand, to the player as well.
SendDisconnectCommand(m, p, f) == SendDirect("DISCONNECT", m, PeersOf(m), <<p, f>>)

\* DisconnectManager::updateDisconnectStatus on m, for a player who is timed out or voted out.
UpdateDisconnectStatus(m, p) ==
    LET named == Max({frames[m][q] : q \in Players})
    IN  /\ m \in screen \cap notified
        /\ p \in PeersOf(m) /\ (p \in expired[m] \/ VotedOut(m, p))
        /\ AllOnSameFrame(m)
        /\ IsLocalPlayerNextPacketRouter(m)
        /\ destroyed' = destroyed \cup {[player |-> p, by |-> m, frame |-> named]}
        /\ DisconnectPlayer(m, p, net \cup SendDisconnectCommand(m, p, named))

\* DisconnectManager::voteForPlayerDisconnect
Vote(m, p) ==
    /\ m \in screen \cap Voters /\ p \in PeersOf(m) \cap Targets
    /\ votes[m][p][m] = 0
    /\ votes' = [votes EXCEPT ![m][p][m] = frame[m]]
    /\ cast' = cast \cup {<<m, p, frame[m]>>}
    /\ UNCHANGED <<frames, known, down, destroyed, game, clock>>
    /\ Carry(net \cup SendDirect("VOTE", m, PeersOf(m), <<p, frame[m]>>))

\* Mutant: what was said on the screen is not forgotten with it.
AllCommandsReady_StillNotified(m) ==
    /\ m \in screen /\ Ready(m)
    /\ screen' = screen \ {m}
    /\ UNCHANGED <<notified, expired, down, net, game, heard, history>>

\* DisconnectManager::allCommandsReady: the screen is turned off and the others told so.
AllCommandsReady(m) ==
    /\ m \in screen /\ Ready(m)
    /\ screen' = screen \ {m}
    /\ notified' = notified \ {m}
    /\ votes' = [votes EXCEPT ![m] = ResetVotes(@, m, End)]
    /\ frames' = [frames EXCEPT ![m][m] = frame[m]]
    /\ UNCHANGED <<expired, known, down, game, history>>
    /\ Carry(net \cup SendDirect("SCREENOFF", m, PeersOf(m), frame[m]))

\* The frame is executed, and the next is a new frame to the disconnect manager.
ExecuteFrame(m) ==
    /\ m \notin screen /\ Ready(m)
    /\ frame' = [frame EXCEPT ![m] = @ + 1]
    /\ expired' = [expired EXCEPT ![m] = {}]
    /\ UNCHANGED <<received, lastFrame, screen, notified, down, heard, history>>
    /\ Carry(net)

--------------------------------------------------------------------------------
ReceiveCommand(x) ==
    LET m == x.to
        c == x.body
    IN  /\ x.type = "COMMAND"
        /\ received' = [received EXCEPT ![m] = @ \cup {c}]
        /\ UNCHANGED <<frame, lastFrame, down, clock, heard, history>>
        /\ Carry((net \ {x}) \cup SendDirect("COMMAND", m, x.relay \cap PeersOf(m), c))

\* DisconnectManager::processDisconnectFrame, of a frame later than is known.
ProcessDisconnectFrame(x) ==
    LET m == x.to
        q == x.from
        f == x.body
    IN  /\ x.type = "FRAME"
        /\ frames' = [frames EXCEPT ![m][q] = f]
        /\ known' = [known EXCEPT ![m] = @ \cup {q}]
        /\ votes' = [votes EXCEPT ![m] = ResetVotes(@, q, f - 1)]
        /\ UNCHANGED <<down, game, clock, history>>
        /\ Carry((net \ {x}) \cup IF f < frames[m][m] THEN FrameData(m, q, f) ELSE {})

\* DisconnectManager::processDisconnectScreenOff, of a frame not earlier than is known.
ProcessDisconnectScreenOff(x) ==
    LET m == x.to
        q == x.from
        f == x.body
    IN  /\ x.type = "SCREENOFF"
        /\ frames' = [frames EXCEPT ![m][q] = f]
        /\ known' = [known EXCEPT ![m] = @ \ {q}]
        /\ votes' = [votes EXCEPT ![m] = ResetVotes(@, q, f)]
        /\ UNCHANGED <<down, game, clock, history>>
        /\ Carry(net \ {x})

\* DisconnectManager::processDisconnectVote
ProcessDisconnectVote(x) ==
    LET m == x.to
        p == x.body[1]
        f == x.body[2]
    IN  /\ x.type = "VOTE"
        /\ votes' = IF InGame(m, x.from) THEN [votes EXCEPT ![m][p][x.from] = f] ELSE votes
        /\ UNCHANGED <<frames, known, down, game, clock, history>>
        /\ Carry(net \ {x})

\* DisconnectManager::processDisconnectPlayer
ProcessDisconnectPlayer(x) ==
    /\ x.type = "DISCONNECT"
    /\ destroyed' = destroyed
    /\ DisconnectPlayer(x.to, x.body[1], net \ {x})

Receive(x) ==
    \/ ReceiveCommand(x) \/ ProcessDisconnectFrame(x) \/ ProcessDisconnectScreenOff(x)
    \/ ProcessDisconnectVote(x) \/ ProcessDisconnectPlayer(x)

--------------------------------------------------------------------------------
MayFail(m, ps) == m \in ps \ down /\ Cardinality(down) < MaxFaults

\* What a machine that goes down knew is lost, and so is what it has not sent.
GoDown(m, last) ==
    /\ down' = down \cup {m}
    /\ received' = [received EXCEPT ![m] = {}]
    /\ screen' = screen \ {m} /\ notified' = notified \ {m}
    /\ expired' = [expired EXCEPT ![m] = {}]
    /\ frames' = [frames EXCEPT ![m] = [p \in Players |-> 0]]
    /\ known' = [known EXCEPT ![m] = {}]
    /\ votes' = [votes EXCEPT ![m] = [p \in Players |-> [q \in Players |-> 0]]]
    /\ UNCHANGED <<frame, lastFrame, history>>
    /\ Carry({x \in net : x.from # m} \cup last)

Crash(m) == MayFail(m, MayCrash) /\ GoDown(m, {})

\* ConnectionManager::quitGame, on the disconnect screen: the others are told once.
QuitGame(m) ==
    /\ MayFail(m, Quitters) /\ m \in screen
    /\ \E told \in SUBSET (PeersOf(m) \ down) :
         GoDown(m, SendDirect("DISCONNECT", m, told, <<m, frame[m]>>))

System ==
    \/ \E m \in Up :
         \/ TurnOnScreen(m) \/ NotifyOthersOfCurrentFrame(m)
         \/ AllCommandsReady(m) \/ ExecuteFrame(m)
         \/ \E p \in Others(m) : TimeOut(m, p) \/ UpdateDisconnectStatus(m, p)
    \/ \E x \in net : Receive(x)

Next ==
    \/ System
    \/ \E m \in Up : Crash(m) \/ QuitGame(m) \/ \E p \in Others(m) : Vote(m, p)

Spec == Init /\ [][Next]_vars
FairSpec == Spec /\ WF_vars(System)

--------------------------------------------------------------------------------
(* Every variable has the values the code can give it: nobody drops themselves, a *)
(* machine tells its frame only while it shows the screen, and knows nothing that *)
(* the player it is about has not reached.                                        *)
TypeOK ==
    /\ frame \in [Players -> 1 .. End]
    /\ received \in [Players -> SUBSET Command]
    /\ lastFrame \in [Players -> [Players -> 0 .. End]]
    /\ \A m \in Players : lastFrame[m][m] = 0
    /\ notified \subseteq screen /\ screen \subseteq Players
    /\ expired \in [Players -> SUBSET Players]
    /\ frames \in [Players -> [Players -> 0 .. End]]
    /\ \A m, p \in Players : frames[m][p] <= frame[p]
    /\ known \in [Players -> SUBSET Players]
    /\ votes \in [Players -> [Players -> [Players -> 0 .. End]]]
    /\ down \subseteq Players

(* A player's destruction is commanded by one machine only: while time-outs are   *)
(* true, no two machines take themselves for the next packet router (what         *)
(* DisconnectManager::sendPlayerDestruct assumes).                                *)
OneDestroyer == \A d, e \in destroyed : d.player = e.player => d.by = e.by

(* Nobody who goes on playing executes a frame without a player's commands that   *)
(* the machine which had the player dropped executed with them.  A player who     *)
(* quits on the screen is dropped in whatever frame the word reaches a machine.   *)
NobodyDropsEarlier ==
    \A d \in destroyed : \A m \in Up :
        d.player \notin Quitters /\ lastFrame[m][d.player] # 0 =>
            lastFrame[m][d.player] >= lastFrame[d.by][d.player]

\* What n waits for of the players in ps can still get to it from m.
MayGetFrom(n, m, ps) ==
    \A q \in Connected(n) \cap ps :
        \/ <<q, frame[n]>> \in received[n] \cup received[m]
        \/ \E x \in net : x.type = "DISCONNECT" /\ x.to = n /\ x.body[1] = q

TogetherIn(m, n) == m # n /\ {m, n} \subseteq Up /\ m \in Connected(n) /\ n \in Connected(m)

(* A machine that is ahead of another has what the other waits for, or the other  *)
(* is being told to drop the player it waits for: the screen gets everyone to one *)
(* frame.                                                                         *)
CanCatchUp ==
    \A m, n \in Players : TogetherIn(m, n) /\ frame[n] < frame[m] =>
        MayGetFrom(n, m, Players \ Quitters)

(* A player whose machine failed is dropped in the frame that is named with it,   *)
(* on whichever machine, when that is the frame of the machine that names it.     *)
(* (DisconnectManager::processDisconnectPlayer asserts that the game is in the    *)
(* frame of the command: "disconnecting player on the wrong frame!!!")            *)
DroppedInTheNamedFrame ==
    \A d \in destroyed : d.frame = lastFrame[d.by][d.player] =>
        \A m \in Up : lastFrame[m][d.player] \in {0, d.frame}

(* A player who answers is dropped by vote only if everybody else voted against   *)
(* them in the very frame they are dropped in, however late votes and the end of  *)
(* a stall are heard of.                                                          *)
VotedOutInOneFrame ==
    \A d \in destroyed : d.player \in Targets \ down =>
        \A q \in Others(d.player) : <<q, d.player, lastFrame[d.by][d.player]>> \in cast

(* When a player's machine fails the others go on: they get to the end of what    *)
(* they have issued.                                                              *)
OthersGoOn ==
    \A m \in Players : <>(m \in down \/ down \cap Quitters # {} \/ frame[m] = End)
================================================================================
