------------------------------ MODULE Connections ------------------------------
(***************************************************************************)
(* How a player's commands get to everyone else: over a connection to each *)
(* other player that sends a command again until it is acknowledged, and   *)
(* through the packet router, which relays what it receives.  A command is *)
(* acknowledged in two stages: the router has it, and everybody the router *)
(* sent it to has it.  Until the second stage its player keeps it as       *)
(* pending, and sends it again to the next router when the router leaves.  *)
(*                                                                         *)
(* A command <<p, f>> stands for what p sends for frame f.  A machine      *)
(* executes a frame when it has the command of everybody who is in the     *)
(* game then (what Lockstep is about).  Packets are lost, late, repeated   *)
(* and reordered; a command that is lost is simply not delivered.          *)
(***************************************************************************)
EXTENDS Integers, FiniteSets

CONSTANTS
    NumPlayers,   \* players 0 .. NumPlayers - 1, in the order of the fallback plan
    Senders,      \* the players that get round to sending anything
    Leavers,      \* the players that may leave
    RunAhead,     \* frames between issuing and executing a command
    MaxFrame,     \* bound on the frames of a game
    MaxWire,      \* bound on acknowledgements and late commands under way
    MayGiveUp     \* the players whose quitting connections may be given up

Players == 0 .. NumPlayers - 1

ASSUME ConnectionsAssumption ==
    /\ NumPlayers \in 2 .. 8
    /\ Senders \subseteq Players
    /\ Leavers \subseteq Players /\ Leavers # Players
    /\ RunAhead \in Nat /\ MaxFrame \in Nat /\ MaxWire \in Nat
    /\ MayGiveUp \subseteq Players

VARIABLES
    frame,      \* of each machine: the frame it executes next
    issued,     \* of each player: for how many frames it has sent its commands
    leaves,     \* of each player: the frame it leaves in, MaxFrame if it has not said so
    received,   \* of each machine: the commands in its frame data
    queue,      \* of each machine: its send queue to each other player
    pending,    \* of each machine: own commands without a second-stage acknowledgement
    relayed,    \* of each machine: who it waits for to acknowledge a relayed command
    quitting,   \* of each machine: the players its connection to is quitting
    closed,     \* of each machine: the players it has deleted its connection to
    wire,       \* packets under way: acknowledgements, and commands that come late
    givenUp     \* history: the connections <<from, to>> that were given up

vars == <<frame, issued, leaves, received, queue, pending, relayed, quitting, closed, wire, givenUp>>

--------------------------------------------------------------------------------
Command == Players \X (0 .. MaxFrame - 1)
Owner(c) == c[1]
FrameOf(c) == c[2]
Commands(es) == {e.cmd : e \in es}

Others(m) == Players \ {m}

\* Whom m has not seen leave, and who is first of a set in the fallback plan.
InGame(m) == {q \in Players : leaves[q] >= frame[m]}
FirstInPlan(ps) == CHOOSE q \in ps : \A r \in ps : q <= r
PacketRouter(m) == FirstInPlan(InGame(m))

Playing(m) == frame[m] <= leaves[m]

\* The players m has a connection to that is neither quitting nor deleted.
Open(m) == Others(m) \ (quitting[m] \cup closed[m])

\* Connection::sendNetCommandMsg of commands; one that is queued keeps its relay.
Queued(es, cs, relay) ==
    es \cup {[cmd |-> c, relay |-> relay] : c \in cs \ Commands(es)}

\* ConnectionManager::sendLocalCommandDirect, and what the packet router does with its
\* own commands: to each player over the connection to that player.
SendDirect(qs, open, cs) ==
    [n \in Players |-> IF n \in open THEN Queued(qs[n], cs, {n}) ELSE qs[n]]

\* Mutant: the local player is not taken out of the relay.
RelayMask_All(m) == Players
RelayMask(m) == Others(m)

\* ConnectionManager::sendLocalCommand of commands to everybody else.
SendLocalCommands(qs, m, router, open, cs) ==
    IF router = m THEN SendDirect(qs, open, cs)
    ELSE IF router \in open THEN [qs EXCEPT ![router] = Queued(@, cs, RelayMask(m))]
    ELSE qs

--------------------------------------------------------------------------------
Init ==
    /\ frame = [m \in Players |-> 0]
    /\ issued = [m \in Players |-> 0]
    /\ leaves = [m \in Players |-> MaxFrame]
    /\ received = [m \in Players |-> {}]
    /\ queue = [m \in Players |-> [n \in Players |-> {}]]
    /\ pending = [m \in Players |-> {}]
    /\ relayed = [m \in Players |-> [c \in Command |-> {}]]
    /\ quitting = [m \in Players |-> {}]
    /\ closed = [m \in Players |-> {}]
    /\ wire = {}
    /\ givenUp = {}

\* m sends its commands for the next frame, as far ahead as the run-ahead allows.
SendCommand(m) ==
    LET c == <<m, issued[m]>>
        router == PacketRouter(m)
    IN  /\ m \in Senders
        /\ leaves[m] = MaxFrame
        /\ issued[m] < MaxFrame /\ issued[m] <= frame[m] + RunAhead
        /\ issued' = [issued EXCEPT ![m] = @ + 1]
        /\ received' = [received EXCEPT ![m] = @ \cup {c}]
        /\ queue' = [queue EXCEPT ![m] = SendLocalCommands(@, m, router, Open(m), {c})]
        /\ pending' = [pending EXCEPT ![m] = IF router = m THEN @ ELSE @ \cup {c}]
        /\ UNCHANGED <<frame, relayed, quitting, closed, wire, givenUp>>

IssueFrame(m) == SendCommand(m) /\ UNCHANGED leaves

\* The leave command is among the last commands that m sends.
LeaveGame(m) ==
    /\ m \in Leavers
    /\ SendCommand(m)
    /\ leaves' = [leaves EXCEPT ![m] = issued[m]]

\* Connection::clearCommandsExceptFrom
ClearCommandsExceptFrom(qs, m) == [n \in Players |-> {e \in qs[n] : Owner(e.cmd) = m}]

\* Mutant: the commands are not sent again.
ResendPendingCommands_Not(qs, m, router, open) == qs

ResendPendingCommands(qs, m, router, open) ==
    SendLocalCommands(qs, m, router, open, pending[m])

\* ConnectionManager::processPlayerLeave on m, for q; s is what it has come to so far.
ProcessPlayerLeave(m, s, q) ==
    LET quits == (s.quitting \cup IF q = m THEN Others(m) ELSE {q}) \ closed[m]
        inGame == s.inGame \ {q}
    IN  [inGame |-> inGame,
         quitting |-> quits,
         queue |-> IF q = m THEN ClearCommandsExceptFrom(s.queue, m)
                   ELSE IF q # FirstInPlan(s.inGame) THEN s.queue
                   ELSE ResendPendingCommands(s.queue, m, FirstInPlan(inGame),
                                              Others(m) \ (quits \cup closed[m]))]

Ready(m) == \A q \in InGame(m) : <<q, frame[m]>> \in received[m]

\* The leave commands of the frame that m executes, in the order of their players.
ProcessPlayerLeaves(m) ==
    LET after[k \in 0 .. NumPlayers] ==
            IF k = 0
            THEN [inGame |-> InGame(m), quitting |-> quitting[m], queue |-> queue[m]]
            ELSE IF leaves[k - 1] = frame[m] THEN ProcessPlayerLeave(m, after[k - 1], k - 1)
            ELSE after[k - 1]
    IN  after[NumPlayers]

\* Network::RelayCommandsToCommandList: the commands of a frame are executed.  Whoever
\* has left executes no more of them; that its logic runs on matters to RunsOn alone.
ExecuteFrame(m) ==
    LET after == ProcessPlayerLeaves(m)
    IN  /\ Playing(m) /\ frame[m] < MaxFrame
        /\ Ready(m)
        /\ frame' = [frame EXCEPT ![m] = @ + 1]
        /\ quitting' = [quitting EXCEPT ![m] = after.quitting]
        /\ queue' = [queue EXCEPT ![m] = after.queue]
        /\ UNCHANGED <<issued, leaves, received, pending, relayed, closed, wire, givenUp>>

--------------------------------------------------------------------------------
\* What is under way is carried as far as there is room for it, or lost.
Carry(rest, new) ==
    \E kept \in SUBSET new :
        /\ Cardinality(rest \cup kept) <= MaxWire
        /\ wire' = rest \cup kept

Packet(type, from, to, c, relay) ==
    [type |-> type, from |-> from, to |-> to, cmd |-> c, relay |-> relay]

\* Mutant: what is relayed is not considered.
AckType_AlwaysBoth(m, relay) == "ACKBOTH"

\* Whether somebody else is yet to get the command from m.
AckType(m, relay) == IF Open(m) \cap relay = {} THEN "ACKBOTH" ELSE "ACKSTAGE1"

\* ConnectionManager::ackCommand: to the packet router or, by the packet router, to
\* whose command it is.
AckCommand(m, c, relay) ==
    LET to == IF PacketRouter(m) = m THEN Owner(c) ELSE PacketRouter(m)
    IN  IF to \in Open(m) THEN {Packet(AckType(m, relay), m, to, c, {to})} ELSE {}

\* Mutant: a command for the frame that is next is too late already.
OutOfDate_NextFrame(m, c) == Owner(c) \in closed[m] \/ FrameOf(c) <= frame[m]

\* ConnectionManager::processNetCommand drops it.
OutOfDate(m, c) == Owner(c) \in closed[m] \/ FrameOf(c) < frame[m]

\* Network::isFrameDataReady: the logic of a machine that has left runs on without the
\* others' commands, so that it may be past the frame of any command.
RunsOn(m) == ~Playing(m)

\* What is relayed already is not added to the relayed commands again.
Relaying(old, targets) == IF old = {} THEN targets ELSE old

\* ConnectionManager::sendRemoteCommand
SendRemoteCommand(m, c, relay) ==
    LET targets == relay \cap Open(m)
    IN  /\ received' = [received EXCEPT ![m] = IF m \in relay THEN @ \cup {c} ELSE @]
        /\ queue' = [queue EXCEPT ![m] = SendDirect(@, targets, {c})]
        /\ relayed' = [relayed EXCEPT ![m][c] = Relaying(@, targets)]

\* ConnectionManager::doRelay of a command on m; rest is what else is under way.
ProcessCommand(m, c, relay, rest) ==
    /\ Carry(rest, AckCommand(m, c, relay))
    /\ \/ /\ OutOfDate(m, c) \/ RunsOn(m)
          /\ UNCHANGED <<received, queue, relayed>>
       \/ /\ ~OutOfDate(m, c)
          /\ SendRemoteCommand(m, c, relay)
    /\ UNCHANGED <<frame, issued, leaves, pending, quitting, closed, givenUp>>

\* Connection::doSend: a command is sent for the first time or again, and arrives.
Deliver(m, n, c) ==
    \E e \in queue[m][n] : e.cmd = c /\ ProcessCommand(n, c, e.relay, wire)

\* It is sent, and arrives some time later.
Delay(m, n) ==
    /\ \E e \in queue[m][n] :
         LET p == Packet("COMMAND", m, n, e.cmd, e.relay)
         IN  p \notin wire /\ Cardinality(wire) < MaxWire /\ wire' = wire \cup {p}
    /\ UNCHANGED <<frame, issued, leaves, received, queue, pending, relayed, quitting, closed, givenUp>>

\* A late packet is gone when it has arrived, or arrives once more.
After(p) == {wire \ {p}, wire}

ReceiveCommand(p) ==
    /\ p.type = "COMMAND"
    /\ \E rest \in After(p) : ProcessCommand(p.to, p.cmd, p.relay, rest)

\* Mutant: a player's first acknowledgement counts for all of them.
Acknowledged_ByAll(mask, from) == {}
Acknowledged(mask, from) == mask \ {from}

\* Mutant: the command's player is not compared.
IsCommand_AnyPlayer(c, d) == FrameOf(c) = FrameOf(d)
IsCommand(c, d) == c = d

\* ConnectionManager::processAckStage1: off the queue to whom the packet is from.
ProcessAckStage1(p) ==
    queue' = [queue EXCEPT ![p.to][p.from] =
                IF p.type = "ACKSTAGE2" THEN @ ELSE {e \in @ : ~IsCommand(e.cmd, p.cmd)}]

\* ConnectionManager::processAckStage2: no longer pending, and no longer relayed when
\* everybody has it.  A second-stage acknowledgement names player 0 as its sender.
ProcessAckStage2(p) ==
    LET sender == IF p.type = "ACKSTAGE2" THEN 0 ELSE p.from
        mask == Acknowledged(relayed[p.to][p.cmd], sender)
    IN  IF p.type = "ACKSTAGE1" THEN UNCHANGED <<pending, relayed>>
        ELSE /\ pending' = [pending EXCEPT ![p.to] = @ \ {p.cmd}]
             /\ relayed' = [relayed EXCEPT ![p.to][p.cmd] = mask]

\* The second-stage acknowledgement for the player whose command it is, by way of the
\* packet router if that is another machine.
Stage2For(p) ==
    LET m == p.to
        owner == Owner(p.cmd)
        to == IF PacketRouter(m) = m THEN owner ELSE PacketRouter(m)
    IN  IF relayed[m][p.cmd] # {} /\ relayed'[m][p.cmd] = {} /\ to \in Open(m)
        THEN {Packet("ACKSTAGE2", m, to, p.cmd, {owner})} ELSE {}

\* Acknowledgements are relayed as commands are, but not acknowledged.
Relayed(p) ==
    {Packet(p.type, p.to, n, p.cmd, {n}) : n \in p.relay \cap Open(p.to)}

ReceiveAck(p) ==
    /\ p.type # "COMMAND"
    /\ ProcessAckStage1(p)
    /\ ProcessAckStage2(p)
    /\ \E rest \in After(p) : Carry(rest, Stage2For(p) \cup Relayed(p))
    /\ UNCHANGED <<frame, issued, leaves, received, quitting, closed, givenUp>>

\* Mutant: a quitting connection is deleted although something is queued.
MayClose_Early(m, n) == n \in quitting[m]
MayClose(m, n) == n \in quitting[m] /\ queue[m][n] = {}

\* ConnectionManager::update deletes a quitting connection that has sent everything.
Close(m, n) ==
    /\ MayClose(m, n)
    /\ quitting' = [quitting EXCEPT ![m] = @ \ {n}]
    /\ closed' = [closed EXCEPT ![m] = @ \cup {n}]
    /\ queue' = [queue EXCEPT ![m][n] = {}]
    /\ UNCHANGED <<frame, issued, leaves, received, pending, relayed, wire, givenUp>>

\* Connection::doSend gives up a connection that has been quitting for MaxQuitFlushTime.
QuitTimeOut(m, n) ==
    /\ m \in MayGiveUp
    /\ n \in quitting[m] /\ queue[m][n] # {}
    /\ queue' = [queue EXCEPT ![m][n] = {}]
    /\ givenUp' = givenUp \cup {<<m, n>>}
    /\ UNCHANGED <<frame, issued, leaves, received, pending, relayed, quitting, closed, wire>>

Next ==
    \/ \E m \in Players : IssueFrame(m) \/ LeaveGame(m) \/ ExecuteFrame(m)
    \/ \E m, n \in Players :
         \/ \E c \in Command : Deliver(m, n, c)
         \/ Delay(m, n) \/ Close(m, n) \/ QuitTimeOut(m, n)
    \/ \E p \in wire : ReceiveCommand(p) \/ ReceiveAck(p)

Spec == Init /\ [][Next]_vars

\* While nobody leaves: what goes to the packet router and from it to the others is
\* sent again and again while it is queued, and not always lost.
Router == FirstInPlan(Players)
Sent == {c \in Command : Owner(c) \in Senders}

FairSpec ==
    /\ Spec
    /\ \A c \in Sent : Owner(c) # Router => SF_vars(Deliver(Owner(c), Router, c))
    /\ \A c \in Sent : \A n \in Players \ {Router, Owner(c)} : SF_vars(Deliver(Router, n, c))

--------------------------------------------------------------------------------
(* Every variable has the values the code can give it; nobody is queued a command *)
(* of their own, and nobody relays to the player a command is from.               *)
TypeOK ==
    /\ frame \in [Players -> 0 .. MaxFrame]
    /\ issued \in [Players -> 0 .. MaxFrame]
    /\ leaves \in [Players -> 0 .. MaxFrame]
    /\ received \in [Players -> SUBSET Command]
    /\ pending \in [Players -> SUBSET Command]
    /\ relayed \in [Players -> [Command -> SUBSET Players]]
    /\ quitting \in [Players -> SUBSET Players]
    /\ closed \in [Players -> SUBSET Players]
    /\ \A m, n \in Players : \A e \in queue[m][n] :
         e.cmd \in Command /\ Owner(e.cmd) # n /\ Owner(e.cmd) \notin e.relay
    /\ \A m \in Players, c \in Command : Owner(c) \notin relayed[m][c]

\* The commands that p needs and has not got: of others, sent, for frames it is in.
Missing(p) ==
    {c \in Command : Owner(c) # p /\ FrameOf(c) < issued[Owner(c)] /\ FrameOf(c) <= leaves[p]}
        \ received[p]

\* Some machine sends c to p, or it is sent to a machine that will.
OnItsWay(c, p) ==
    \E r \in Players :
        \/ c \in Commands(queue[r][p])
        \/ \E e \in queue[Owner(c)][r] :
             e.cmd = c /\ p \in e.relay \cap Open(r) /\ ~OutOfDate(r, c)

(* A command that a player does not keep as pending has reached everybody who     *)
(* needs it and whom nobody has seen leave: the second-stage acknowledgement is   *)
(* sent only when all have it, however acknowledgements are lost, late and        *)
(* repeated and the router changes.                                               *)
PendingUntilArrived ==
    \A p \in Players : \A c \in Missing(p) :
        Playing(Owner(c)) =>
            \/ c \in pending[Owner(c)] \/ c \in Commands(queue[Owner(c)][p])
            \/ \E m \in Players : p \notin InGame(m)

(* A command that somebody needs is being sent to them or will be sent again:     *)
(* when the router acknowledges it the router has taken it over, and if the       *)
(* router has left, its player still is to see that and sends it again.  A        *)
(* connection that is given up loses only commands of the player who gives it up  *)
(* and of those it was relaying to the player at the other end.                   *)
NoCommandLost ==
    \A p \in Players : \A c \in Missing(p) :
        \/ OnItsWay(c, p)
        \/ Playing(Owner(c)) /\ c \in pending[Owner(c)] /\ ~Playing(PacketRouter(Owner(c)))
        \/ \E m \in Players : {<<Owner(c), m>>, <<m, p>>} \cap givenUp # {}

(* A command that a machine drops as out of date is unnecessary traffic: whoever  *)
(* it was to be relayed to has it, or the machine is sending it to them.          *)
(* (ConnectionManager::processNetCommand: "Don't allow an out of date command to  *)
(* be sent through.  Its unnecessary traffic and it could cause problems.")       *)
OutOfDateIsUnnecessary ==
    \A m, n \in Players : \A e \in queue[m][n] :
        OutOfDate(n, e.cmd) =>
            \A p \in e.relay \cap Open(n) :
                e.cmd \in Missing(p) => OnItsWay(e.cmd, p)

\* Nobody has seen player 0 leave, who therefore is everybody's packet router.
RouterPresent == \A m \in Players : 0 \in InGame(m)

(* Until the first packet router is seen to leave that is so: only what was sent  *)
(* to the router before can be out of date there, and the router has executed it  *)
(* and goes on sending it to the others.                                          *)
OutOfDateWhileRouterStays == RouterPresent => OutOfDateIsUnnecessary

(* While nobody leaves, every command arrives everywhere: retrying what is not    *)
(* acknowledged makes up for every loss, on the way to the router and from it.    *)
EveryCommandArrives ==
    \A c \in Command : \A p \in Players \ {Owner(c)} :
        FrameOf(c) < issued[Owner(c)] ~> c \in received[p]

\* Whether m ran out of time while its connections were quitting.
GaveUp(m) == \E n \in Players : <<m, n>> \in givenUp

(* A player that has left and closed its connections in time left nothing behind: *)
(* its router has all its commands, or everybody has if it was the router itself. *)
(* (Network::processCommand: "we have to send all the frame info packets          *)
(* necessary to get to the frame where everyone else is going to see that we      *)
(* left".)                                                                        *)
LeaverFlushed ==
    \A m, n \in Players : closed[m] = Others(m) /\ ~GaveUp(m) =>
        \A c \in Missing(n) : Owner(c) = m =>
            \E r \in Others(m) : c \in Commands(queue[r][n])
================================================================================
