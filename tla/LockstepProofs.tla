---------------------------- MODULE LockstepProofs ----------------------------
(***************************************************************************)
(* Proofs about Lockstep, for every number of players, every run-ahead     *)
(* range and every bound of the model.                                     *)
(*                                                                         *)
(* The argument: a frame of a player is closed once its count is announced *)
(* (or the player executed it, or no longer may send).  ExecutionFrame is  *)
(* past every closed frame, so the set of commands issued for a closed     *)
(* frame never changes again and its announced count stays true.  What a   *)
(* machine has received is a subset of what was issued; a subset with as   *)
(* many elements is the whole set.  Hence a machine in the game executes   *)
(* in a frame exactly the commands issued for it, whoever the machine is.  *)
(* One that has left runs on without them: played counts the frames before *)
(* that, and nothing that anybody else relies on depends on the others.    *)
(***************************************************************************)
EXTENDS Lockstep, FiniteSetTheorems, TLAPS

\* Nobody will issue another command of p for frame f.
Closed(p, f) == ~MaySend(p) \/ f <= lastCompleted[p] \/ f < frame[p]

\* The counters of Network: what is announced stays below the next execution frame.
ClockInv ==
    \A p \in Players :
        /\ lastCompleted[p] >= InitialRunAhead - 1
        /\ lastExec[p] <= played[p] + MaxRunAhead
        /\ InGame(p) => lastCompleted[p] < lastExec[p]
        /\ status[p] = "PREGAME" =>
             /\ lastFrame[p] = 0
             /\ runAhead[p] = InitialRunAhead
             /\ lastExec[p] = InitialRunAhead - 1
             /\ lastCompleted[p] = InitialRunAhead - 1

\* A machine in the game executes the commands of every frame it runs; only one that has
\* left runs on without them.
PlayedInv ==
    \A p \in Players : played[p] <= frame[p] /\ (~HasLeft(p) => played[p] = frame[p])

\* Commands lie past frame 0 and at most one frame past the last execution frame given out,
\* and none of a player lies past the frame of its leave command.
IssuedInv ==
    /\ \A c \in issued :
         /\ c.frame > 0
         /\ c.frame <= lastExec[c.player] + 1
         /\ MaySend(c.player) => c.frame <= lastExec[c.player]
         /\ c.type = "PLAYERLEAVE" => ~MaySend(c.player)
         /\ c.type = "RUNAHEAD" => c.value \in MinRunAhead .. MaxRunAhead
    /\ \A c, d \in issued :
         d.type = "PLAYERLEAVE" /\ d.player = c.player => c.frame <= d.frame

\* An announcement is about a closed frame and counts everything issued for it.
TrueCount(i) == Closed(i.player, i.frame) /\ i.count = Cardinality(Issued(i.player, i.frame))

CountsInv ==
    /\ \A i \in announced : TrueCount(i)
    /\ \A q \in Players : \A i \in counts[q] : TrueCount(i)

\* A machine holds only what was issued, and everything it issued itself.
ReceivedInv ==
    \A q \in Players :
        /\ received[q] \subseteq issued
        /\ \A c \in issued : c.player = q /\ c.frame >= frame[q] => c \in received[q]

\* A player is not waited for only after the frame of its leave command.
QuitInv ==
    \A q \in Players : \A p \in quit[q] :
        \E c \in issued : c.type = "PLAYERLEAVE" /\ c.player = p /\ c.frame < frame[q]

\* Frames executed in the game are closed, and were executed completely.
ExecutedInv ==
    \A q \in Players : \A f \in 0 .. played[q] - 1 :
        /\ executed[q][f] = {c \in issued : c.frame = f}
        /\ \A p \in Players : Closed(p, f)

IInv ==
    /\ TypeOK /\ PlayedInv /\ ClockInv /\ IssuedInv
    /\ CountsInv /\ ReceivedInv /\ QuitInv /\ ExecutedInv

-----------------------------------------------------------------------------
\* The run-ahead range is not empty, and two of it fit MAX_FRAMES_AHEAD.
LEMMA RunAheadRange ==
    /\ MaxRunAhead \in Nat \ {0}
    /\ 2 * MaxRunAhead <= MaxFramesAhead
    /\ MaxFramesAhead < 2 * MaxRunAhead + 2
    /\ InitialRunAhead \in Nat \ {0}
    /\ InitialRunAhead <= MaxRunAhead
    /\ MinRunAhead .. MaxRunAhead \subseteq Nat \ {0}
    /\ FramesToKeep = MaxRunAhead + 1
BY RunAheadAssumption DEF MaxRunAhead, FramesToKeep

\* The execution frame is past the logic frame and, in the game, past every frame whose
\* count is announced.
LEMMA ExecutionFrameOpen ==
    ASSUME TypeOK, PlayedInv, ClockInv, NEW p \in Players
    PROVE  /\ ExecutionFrame(p) \in Nat
           /\ ExecutionFrame(p) > frame[p]
           /\ ExecutionFrame(p) >= lastExec[p]
           /\ MaySend(p) => ExecutionFrame(p) <= played[p] + MaxRunAhead
           /\ InGame(p) => ExecutionFrame(p) > lastCompleted[p]
<1>1. /\ frame[p] \in Nat /\ lastExec[p] \in Nat /\ lastCompleted[p] \in Nat
      /\ played[p] \in Nat /\ runAhead[p] \in MinRunAhead .. MaxRunAhead
  BY DEF TypeOK
<1>2. runAhead[p] \in Nat \ {0} /\ runAhead[p] <= MaxRunAhead
  BY <1>1, RunAheadRange
<1>3. lastExec[p] <= played[p] + MaxRunAhead /\ (InGame(p) => lastCompleted[p] < lastExec[p])
  BY DEF ClockInv
<1>4. MaySend(p) => played[p] = frame[p]
  BY DEF PlayedInv, MaySend, HasLeft
<1> QED
  BY <1>1, <1>2, <1>3, <1>4, RunAheadRange DEF ExecutionFrame

\* What LastOf picks for the frames announced at a tick.
LEMMA LastOfRange ==
    ASSUME NEW f \in Nat, NEW e \in Nat
    PROVE  LastOf(f, f + 1 .. e - 1) = IF f < e - 1 THEN e - 1 ELSE f
<1> DEFINE S == {f} \cup (f + 1 .. e - 1)
           m == IF f < e - 1 THEN e - 1 ELSE f
<1>1. m \in S /\ \A n \in S : n <= m
  OBVIOUS
<1>2. \A x \in S : (\A n \in S : n <= x) => x = m
  <2> TAKE x \in S
  <2> HAVE \A n \in S : n <= x
  <2>1. m <= x BY <1>1
  <2>2. x <= m BY <1>1
  <2> QED BY <2>1, <2>2
<1>3. LastOf(f, f + 1 .. e - 1) = CHOOSE x \in S : \A n \in S : n <= x
  BY DEF LastOf
<1> HIDE DEF S, m
<1>4. (CHOOSE x \in S : \A n \in S : n <= x) = m
  BY <1>1, <1>2
<1> QED BY <1>3, <1>4 DEF m

\* Counters only move on and players only stop sending, so a closed frame stays closed.
LEMMA ClosedStable ==
    ASSUME TypeOK, TypeOK', NEW p \in Players, NEW f \in Nat,
           Closed(p, f),
           MaySend(p)' => MaySend(p),
           lastCompleted[p] <= lastCompleted'[p], frame[p] <= frame'[p]
    PROVE  Closed(p, f)'
<1>1. /\ frame[p] \in Nat /\ frame'[p] \in Nat
      /\ lastCompleted[p] \in Nat /\ lastCompleted'[p] \in Nat
  BY DEF TypeOK
<1> QED BY <1>1 DEF Closed

\* A command of a player in the game that goes to its execution frame, or later, leaves
\* every closed frame as it was.
LEMMA ClosedFramesUntouched ==
    ASSUME TypeOK, PlayedInv, ClockInv, NEW p \in Players, InGame(p),
           NEW c \in Command, c.player = p, c.frame >= ExecutionFrame(p),
           NEW r \in Players, NEW f \in Nat, Closed(r, f)
    PROVE  CommandsOf(issued \cup {c}, r, f) = Issued(r, f)
<1>1. ~(c.player = r /\ c.frame = f)
  <2> SUFFICES ASSUME r = p, c.frame = f PROVE FALSE
    OBVIOUS
  <2>1. MaySend(p) BY DEF InGame, MaySend
  <2>2. f <= lastCompleted[p] \/ f < frame[p] BY <2>1 DEF Closed
  <2>3. frame[p] \in Nat /\ lastCompleted[p] \in Nat BY DEF TypeOK
  <2> QED BY <2>2, <2>3, ExecutionFrameOpen
<1> QED BY <1>1 DEF CommandsOf, Issued

\* A subset of a player's commands for a frame that has as many elements is all of them.
LEMMA ReadyMeansComplete ==
    ASSUME TypeOK, CountsInv, ReceivedInv,
           NEW q \in Players, NEW p \in Players, FrameReady(q, p, frame[q])
    PROVE  /\ Received(q, p, frame[q]) = Issued(p, frame[q])
           /\ Closed(p, frame[q])
<1>1. PICK i \in counts[q] : /\ i.player = p /\ i.frame = frame[q]
                             /\ i.count = Cardinality(Received(q, p, frame[q]))
  BY DEF FrameReady
<1>2. Closed(p, frame[q]) /\ i.count = Cardinality(Issued(p, frame[q]))
  BY <1>1 DEF CountsInv, TrueCount
<1>3. Received(q, p, frame[q]) \subseteq Issued(p, frame[q])
  BY DEF ReceivedInv, Received, Issued, CommandsOf
<1>4. IsFiniteSet(Issued(p, frame[q]))
  <2>1. Issued(p, frame[q]) \subseteq issued BY DEF Issued, CommandsOf
  <2> QED BY <2>1, FS_Subset DEF TypeOK
<1> QED BY <1>1, <1>2, <1>3, <1>4, FS_Subset

-----------------------------------------------------------------------------
\* The initial state of Network and ConnectionManager satisfies the invariant.
LEMMA InitInv == Init => IInv
<1> SUFFICES ASSUME Init PROVE IInv
  OBVIOUS
<1> USE DEF Init
<1>0. InitialRunAhead - 1 \in Nat /\ InitialRunAhead \in MinRunAhead .. MaxRunAhead
  BY RunAheadRange, RunAheadAssumption
<1>1. TypeOK
  <2>1. ZeroedFrames \subseteq FrameInfo
    BY <1>0, RunAheadRange DEF ZeroedFrames, FrameInfo
  <2>2. IsFiniteSet({}) BY FS_EmptySet
  <2>3. \A p \in Players : executed[p] \in [0 .. played[p] - 1 -> SUBSET Command]
    <3> TAKE p \in Players
    <3>1. 0 .. played[p] - 1 = {} OBVIOUS
    <3> QED BY <3>1
  <2> QED BY <1>0, <2>1, <2>2, <2>3 DEF TypeOK
<1>2. ClockInv
  BY <1>0, RunAheadRange DEF ClockInv, InGame
<1>3. IssuedInv
  BY DEF IssuedInv
<1>4. CountsInv
  <2> SUFFICES ASSUME NEW q \in Players, NEW i \in counts[q] PROVE TrueCount(i)
    BY DEF CountsInv
  <2>1. /\ i.player \in Players /\ i.frame \in 1 .. InitialRunAhead - 1 /\ i.count = 0
    BY DEF ZeroedFrames
  <2>2. Issued(i.player, i.frame) = {} BY DEF Issued, CommandsOf
  <2>3. i.frame <= lastCompleted[i.player] BY <1>0, <2>1
  <2> QED BY <2>1, <2>2, <2>3, FS_EmptySet DEF TrueCount, Closed
<1>5. ReceivedInv BY DEF ReceivedInv
<1>6. QuitInv BY DEF QuitInv
<1>7. ExecutedInv
  <2> SUFFICES ASSUME NEW q \in Players PROVE 0 .. played[q] - 1 = {}
    BY DEF ExecutedInv
  <2> QED OBVIOUS
<1>8. PlayedInv BY DEF PlayedInv
<1> QED BY <1>1, <1>2, <1>3, <1>4, <1>5, <1>6, <1>7, <1>8 DEF IInv

\* A tick announces true counts of the frames it closes.
LEMMA TickInv ==
    ASSUME IInv, NEW p \in Players, ProcessFrameTick(p)
    PROVE  IInv'
<1> DEFINE e == ExecutionFrame(p)
<1> USE DEF IInv
<1>1. CASE ~MaySend(p)
  <2>1. UNCHANGED <<frame, status, runAhead, lastExec, lastCompleted, nextId, issued,
                    announced, received, counts, quit, executed, played>>
    BY <1>1 DEF ProcessFrameTick
  <2>2. lastFrame' = [lastFrame EXCEPT ![p] = frame[p]] BY DEF ProcessFrameTick
  <2>3. TypeOK' BY <2>1, <2>2 DEF TypeOK
  <2>4. ClockInv' BY <1>1, <2>1, <2>2 DEF ClockInv, InGame, MaySend, TypeOK
  <2>5. IssuedInv' BY <2>1 DEF IssuedInv, MaySend
  <2>6. CountsInv' BY <2>1 DEF CountsInv, TrueCount, Closed, MaySend, Issued, CommandsOf
  <2>7. ReceivedInv' BY <2>1 DEF ReceivedInv
  <2>8. QuitInv' BY <2>1 DEF QuitInv
  <2>9. ExecutedInv' BY <2>1 DEF ExecutedInv, Closed, MaySend
  <2>10. PlayedInv' BY <2>1 DEF PlayedInv, HasLeft
  <2> QED BY <2>3, <2>4, <2>5, <2>6, <2>7, <2>8, <2>9, <2>10
<1>2. CASE MaySend(p)
  <2>1. /\ status' = [status EXCEPT ![p] = "INGAME"]
        /\ lastFrame' = [lastFrame EXCEPT ![p] = frame[p]]
        /\ lastExec' = [lastExec EXCEPT ![p] = e]
        /\ lastCompleted' = [lastCompleted EXCEPT ![p] = LastOf(@, FramesToAnnounce(p))]
        /\ announced' = announced \cup
             {[player |-> p, frame |-> f, count |-> Cardinality(Issued(p, f))] :
                f \in FramesToAnnounce(p)}
        /\ UNCHANGED <<frame, runAhead, nextId, issued, received, counts, quit, executed, played>>
    BY <1>2 DEF ProcessFrameTick, AnnounceFrames, Issued
  <2>2. /\ frame[p] \in Nat /\ lastFrame[p] \in Nat /\ lastExec[p] \in Nat
        /\ lastCompleted[p] \in Nat /\ e \in Nat
        /\ frame[p] # lastFrame[p]
        /\ e >= lastExec[p] /\ e <= played[p] + MaxRunAhead
    BY <1>2, ExecutionFrameOpen DEF TypeOK, ProcessFrameTick, Ticked
  <2>3. e > lastCompleted[p]
    <3>1. CASE InGame(p) BY <3>1, ExecutionFrameOpen
    <3>2. CASE status[p] = "PREGAME"
      <4>1. /\ frame[p] > 0 /\ runAhead[p] = InitialRunAhead
            /\ lastCompleted[p] = InitialRunAhead - 1 /\ lastExec[p] = InitialRunAhead - 1
        BY <2>2, <3>2 DEF ClockInv
      <4> QED BY <2>2, <4>1, RunAheadRange DEF ExecutionFrame
    <3> QED BY <1>2, <3>1, <3>2 DEF MaySend, InGame
  <2>4. lastCompleted' = [lastCompleted EXCEPT ![p] = e - 1]
    <3>1. LastOf(lastCompleted[p], FramesToAnnounce(p)) =
            IF lastCompleted[p] < e - 1 THEN e - 1 ELSE lastCompleted[p]
      BY <2>2, LastOfRange DEF FramesToAnnounce
    <3>2. LastOf(lastCompleted[p], FramesToAnnounce(p)) = e - 1
      BY <2>2, <2>3, <3>1
    <3> QED BY <2>1, <3>2
  <2> HIDE DEF e
  <2>5. TypeOK'
    <3>1. announced' \subseteq FrameInfo
      <4> SUFFICES ASSUME NEW f \in FramesToAnnounce(p)
                   PROVE  f \in Nat /\ Cardinality(Issued(p, f)) \in Nat
        BY <2>1 DEF TypeOK, FrameInfo
      <4>1. f \in Nat BY <2>2 DEF FramesToAnnounce, e
      <4>2. Issued(p, f) \subseteq issued BY DEF Issued, CommandsOf
      <4> QED BY <4>1, <4>2, FS_Subset, FS_CardinalityType DEF TypeOK
    <3>2. lastCompleted' \in [Players -> Nat]
      <4>1. e - 1 \in Nat BY <2>2, <2>3
      <4> QED BY <2>4, <4>1 DEF TypeOK
    <3> QED BY <2>1, <2>2, <3>1, <3>2 DEF TypeOK
  <2>6. \A r \in Players, f \in Nat : Closed(r, f) => Closed(r, f)'
    <3> SUFFICES ASSUME NEW r \in Players, NEW f \in Nat, Closed(r, f) PROVE Closed(r, f)'
      OBVIOUS
    <3>1. MaySend(r)' => MaySend(r) BY <1>2, <2>1 DEF MaySend, TypeOK
    <3>2. lastCompleted[r] <= lastCompleted'[r]
      <4>1. lastCompleted[r] \in Nat /\ lastCompleted[p] <= e - 1
        BY <2>2, <2>3 DEF TypeOK
      <4>2. lastCompleted'[r] = IF r = p THEN e - 1 ELSE lastCompleted[r]
        BY <2>4 DEF TypeOK
      <4> QED BY <4>1, <4>2
    <3>3. frame[r] <= frame'[r]
      <4>1. frame[r] \in Nat BY DEF TypeOK
      <4> QED BY <2>1, <4>1
    <3> QED BY <2>5, <3>1, <3>2, <3>3, ClosedStable
  <2>7. ClockInv'
    <3> SUFFICES ASSUME NEW r \in Players
                 PROVE  /\ lastCompleted'[r] >= InitialRunAhead - 1
                        /\ lastExec'[r] <= played'[r] + MaxRunAhead
                        /\ status'[r] = "INGAME" => lastCompleted'[r] < lastExec'[r]
                        /\ status'[r] = "PREGAME" =>
                             /\ lastFrame'[r] = 0
                             /\ runAhead'[r] = InitialRunAhead
                             /\ lastExec'[r] = InitialRunAhead - 1
                             /\ lastCompleted'[r] = InitialRunAhead - 1
      BY DEF ClockInv, InGame
    <3>1. CASE r # p
      BY <2>1, <2>4, <3>1 DEF ClockInv, InGame, TypeOK
    <3>2. CASE r = p
      <4>1. lastCompleted'[p] = e - 1 /\ lastExec'[p] = e /\ status'[p] = "INGAME"
        BY <2>1, <2>4 DEF TypeOK
      <4>2. lastCompleted[p] >= InitialRunAhead - 1 BY DEF ClockInv
      <4> QED BY <2>1, <2>2, <2>3, <3>2, <4>1, <4>2, RunAheadRange
    <3> QED BY <3>1, <3>2
  <2>8. IssuedInv'
    <3>1. \A r \in Players : lastExec[r] <= lastExec'[r] /\ (MaySend(r)' => MaySend(r))
                             /\ (MaySend(r) => MaySend(r)')
      BY <1>2, <2>1, <2>2 DEF TypeOK, MaySend
    <3>2. \A r \in Players : lastExec[r] \in Nat /\ lastExec'[r] \in Nat
      BY <2>5 DEF TypeOK
    <3>3. \A c \in issued : c.player \in Players /\ c.frame \in Nat
      BY DEF TypeOK, Command
    <3> QED BY <2>1, <3>1, <3>2, <3>3 DEF IssuedInv
  <2>9. CountsInv'
    <3>1. \A r \in Players, f \in Nat : Issued(r, f)' = Issued(r, f)
      BY <2>1 DEF Issued, CommandsOf
    <3>2. \A i \in FrameInfo : TrueCount(i) => TrueCount(i)'
      BY <2>6, <3>1 DEF TrueCount, FrameInfo
    <3>3. \A f \in FramesToAnnounce(p) : f \in Nat /\ Closed(p, f)'
      BY <2>2, <2>3, <2>4 DEF FramesToAnnounce, Closed, TypeOK, e
    <3>4. \A i \in announced' \ announced : TrueCount(i)'
      BY <2>1, <3>1, <3>3 DEF TrueCount
    <3> QED BY <2>1, <3>2, <3>4 DEF CountsInv, TypeOK
  <2>10. ReceivedInv' BY <2>1 DEF ReceivedInv
  <2>11. QuitInv' BY <2>1 DEF QuitInv
  <2>12. ExecutedInv'
    <3>1. \A q \in Players : \A f \in 0 .. played[q] - 1 : f \in Nat BY DEF TypeOK
    <3> QED BY <2>1, <2>6, <3>1 DEF ExecutedInv
  <2>13. PlayedInv' BY <1>2, <2>1 DEF PlayedInv, HasLeft, MaySend, TypeOK
  <2> QED BY <2>5, <2>7, <2>8, <2>9, <2>10, <2>11, <2>12, <2>13
<1> QED BY <1>1, <1>2

\* A game or run-ahead command for the execution frame changes no closed frame.
LEMMA IssueInv ==
    ASSUME IInv, NEW p \in Players, InGame(p),
           NEW type \in {"GAMECOMMAND", "RUNAHEAD"}, NEW v \in Nat,
           type = "RUNAHEAD" => v \in MinRunAhead .. MaxRunAhead,
           lastExec' = [lastExec EXCEPT ![p] = ExecutionFrame(p)],
           SendLocalCommand(p, NewCommand(p, type, ExecutionFrame(p), v)),
           UNCHANGED <<frame, status, lastFrame, runAhead, lastCompleted, announced,
                       counts, quit, executed, played>>
    PROVE  IInv'
<1> DEFINE e == ExecutionFrame(p)
           c == NewCommand(p, type, e, v)
<1> USE DEF IInv
<1>1. /\ issued' = issued \cup {c}
      /\ received' = [received EXCEPT ![p] = @ \cup {c}]
      /\ nextId' = [nextId EXCEPT ![p] = @ + 1]
      /\ lastExec' = [lastExec EXCEPT ![p] = e]
  BY DEF SendLocalCommand
<1>2. e \in Nat /\ e > frame[p] /\ e >= lastExec[p] /\ e <= played[p] + MaxRunAhead
      /\ e > lastCompleted[p]
  BY ExecutionFrameOpen DEF MaySend, InGame
<1>3. c \in Command /\ c.player = p /\ c.frame = e /\ c.type = type /\ c.value = v
  BY <1>2 DEF NewCommand, Command, CommandType, TypeOK
<1>4. MaySend(p) BY DEF InGame, MaySend
<1>5. \A r \in Players, f \in Nat :
        Closed(r, f) => Closed(r, f)' /\ Issued(r, f)' = Issued(r, f)
  <2> SUFFICES ASSUME NEW r \in Players, NEW f \in Nat, Closed(r, f)
               PROVE  Closed(r, f)' /\ Issued(r, f)' = Issued(r, f)
    OBVIOUS
  <2>1. CommandsOf(issued \cup {c}, r, f) = Issued(r, f)
    <3>1. c.frame >= ExecutionFrame(p) BY <1>2, <1>3
    <3> HIDE DEF c
    <3> QED BY <1>3, <3>1, ClosedFramesUntouched
  <2> QED BY <1>1, <2>1 DEF Closed, MaySend, Issued
<1> HIDE DEF c, e
<1>6. TypeOK'
  <2>1. IsFiniteSet(issued') BY <1>1, FS_AddElement DEF TypeOK
  <2>2. received' \in [Players -> SUBSET Command] /\ issued' \subseteq Command
    BY <1>1, <1>3 DEF TypeOK
  <2>3. nextId' \in [Players -> Nat] /\ lastExec' \in [Players -> Nat]
    BY <1>1, <1>2 DEF TypeOK
  <2> QED BY <2>1, <2>2, <2>3 DEF TypeOK
<1>7. ClockInv'
  <2>1. \A r \in Players : lastExec'[r] = IF r = p THEN e ELSE lastExec[r]
    BY <1>1 DEF TypeOK
  <2> QED BY <1>2, <2>1 DEF ClockInv, InGame
<1>8. IssuedInv'
  <2>1. \A r \in Players : lastExec'[r] = IF r = p THEN e ELSE lastExec[r]
    BY <1>1 DEF TypeOK
  <2>2. \A d \in issued : d.player \in Players /\ d.frame \in Nat
    BY DEF TypeOK, Command
  <2>3. \A r \in Players : lastExec[r] \in Nat BY DEF TypeOK
  <2>4. \A d \in issued' :
          /\ d.frame > 0
          /\ d.frame <= lastExec'[d.player] + 1
          /\ MaySend(d.player) => d.frame <= lastExec'[d.player]
          /\ d.type = "PLAYERLEAVE" => ~MaySend(d.player)
          /\ d.type = "RUNAHEAD" => d.value \in MinRunAhead .. MaxRunAhead
    <3> TAKE d \in issued'
    <3>1. CASE d = c
      <4>1. frame[p] \in Nat BY DEF TypeOK
      <4> QED BY <1>2, <1>3, <2>1, <3>1, <4>1
    <3>2. CASE d \in issued
      <4>1. lastExec[d.player] <= lastExec'[d.player] BY <1>2, <2>1, <2>2, <2>3, <3>2
      <4> QED BY <1>2, <2>1, <2>2, <2>3, <3>2, <4>1 DEF IssuedInv
    <3> QED BY <1>1, <3>1, <3>2
  <2>5. \A b, d \in issued' : d.type = "PLAYERLEAVE" /\ d.player = b.player
                              => b.frame <= d.frame
    <3> SUFFICES ASSUME NEW b \in issued', NEW d \in issued',
                        d.type = "PLAYERLEAVE", d.player = b.player
                 PROVE  b.frame <= d.frame
      OBVIOUS
    <3>1. d \in issued /\ ~MaySend(d.player) BY <1>1, <1>3 DEF IssuedInv
    <3>2. b # c BY <1>3, <1>4, <3>1
    <3> QED BY <1>1, <3>1, <3>2 DEF IssuedInv
  <2> QED BY <2>4, <2>5 DEF IssuedInv, MaySend
<1>9. CountsInv'
  <2>1. \A i \in FrameInfo : TrueCount(i) => TrueCount(i)'
    BY <1>5 DEF TrueCount, FrameInfo
  <2> QED BY <2>1 DEF CountsInv, TypeOK
<1>10. ReceivedInv'
  <2> SUFFICES ASSUME NEW q \in Players
               PROVE  /\ received'[q] \subseteq issued'
                      /\ \A d \in issued' : d.player = q /\ d.frame >= frame[q]
                                            => d \in received'[q]
    BY DEF ReceivedInv
  <2>1. received'[q] = IF q = p THEN received[q] \cup {c} ELSE received[q]
    BY <1>1 DEF TypeOK
  <2> QED BY <1>1, <1>3, <2>1 DEF ReceivedInv
<1>11. QuitInv' BY <1>1 DEF QuitInv
<1>12. ExecutedInv'
  <2> SUFFICES ASSUME NEW q \in Players, NEW f \in 0 .. played[q] - 1
               PROVE  /\ executed[q][f] = {d \in issued' : d.frame = f}
                      /\ \A r \in Players : Closed(r, f)'
    BY DEF ExecutedInv
  <2>1. f \in Nat /\ \A r \in Players : Closed(r, f)
    <3>1. played[q] \in Nat BY DEF TypeOK
    <3>2. \A r \in Players : Closed(r, f) BY DEF ExecutedInv
    <3> QED BY <3>1, <3>2
  <2>2. f # e
    <3>1. f <= lastCompleted[p] \/ f < frame[p] BY <1>4, <2>1 DEF Closed
    <3>2. lastCompleted[p] \in Nat /\ frame[p] \in Nat BY DEF TypeOK
    <3> HIDE DEF IInv
    <3> QED BY <1>2, <2>1, <3>1, <3>2
  <2>3. {d \in issued' : d.frame = f} = {d \in issued : d.frame = f}
    BY <1>1, <1>3, <2>2
  <2> QED BY <1>5, <2>1, <2>3 DEF ExecutedInv
<1>13. PlayedInv' BY <1>1 DEF PlayedInv, HasLeft
<1> QED BY <1>6, <1>7, <1>8, <1>9, <1>10, <1>11, <1>12, <1>13

LEMMA GameMessageInv ==
    ASSUME IInv, NEW p \in Players, SendLocalGameMessage(p)
    PROVE  IInv'
<1>1. /\ InGame(p)
      /\ lastExec' = [lastExec EXCEPT ![p] = ExecutionFrame(p)]
      /\ SendLocalCommand(p, NewCommand(p, "GAMECOMMAND", ExecutionFrame(p), 0))
      /\ UNCHANGED <<frame, status, lastFrame, runAhead, lastCompleted, announced,
                     counts, quit, executed, played>>
  BY DEF SendLocalGameMessage
<1> QED BY <1>1, IssueInv

\* The greater of the two frames is the execution frame.
LEMMA RunAheadFrameIsExecutionFrame ==
    ASSUME TypeOK, NEW p \in Players
    PROVE  RunAheadFrame(p) = ExecutionFrame(p)
<1>1. /\ frame[p] \in Nat /\ lastExec[p] \in Nat
      /\ runAhead[p] \in MinRunAhead .. MaxRunAhead
  BY DEF TypeOK
<1>2. runAhead[p] \in Nat BY <1>1, RunAheadRange
<1> QED BY <1>1, <1>2 DEF RunAheadFrame, ExecutionFrame

LEMMA UpdateRunAheadInv ==
    ASSUME IInv, NEW p \in Players, UpdateRunAhead(p)
    PROVE  IInv'
<1>1. PICK r \in MinRunAhead .. MaxRunAhead :
        SendLocalCommand(p, NewCommand(p, "RUNAHEAD", ExecutionFrame(p), r))
  BY RunAheadFrameIsExecutionFrame DEF UpdateRunAhead, ClampedRunAhead, IInv
<1>2. /\ InGame(p)
      /\ lastExec' = [lastExec EXCEPT ![p] = ExecutionFrame(p)]
      /\ UNCHANGED <<frame, status, lastFrame, runAhead, lastCompleted, announced,
                     counts, quit, executed, played>>
  BY DEF UpdateRunAhead
<1>3. r \in Nat BY <1>1, RunAheadRange
<1> QED BY <1>1, <1>2, <1>3, IssueInv

\* Leaving closes every frame of the player; the leave command is its last one, and the
\* two counts announced with it are true.
LEMMA LeaveGameInv ==
    ASSUME IInv, NEW p \in Players, LeaveGame(p)
    PROVE  IInv'
<1> DEFINE e == ExecutionFrame(p)
           c == NewCommand(p, "PLAYERLEAVE", e + 1, 0)
<1> USE DEF IInv
<1>1. /\ status' = [status EXCEPT ![p] = "LEAVING"]
      /\ lastExec' = [lastExec EXCEPT ![p] = e]
      /\ lastCompleted' = [lastCompleted EXCEPT ![p] = e]
      /\ issued' = issued \cup {c}
      /\ received' = [received EXCEPT ![p] = @ \cup {c}]
      /\ nextId' = [nextId EXCEPT ![p] = @ + 1]
      /\ announced' = announced \cup
           {[player |-> p, frame |-> f, count |-> Cardinality(CommandsOf(issued', p, f))] :
              f \in {e, e + 1}}
      /\ UNCHANGED <<frame, lastFrame, runAhead, counts, quit, executed, played>>
  BY DEF LeaveGame, SendLocalCommand, AnnounceFrames
<1>2. /\ e \in Nat /\ e > frame[p] /\ e >= lastExec[p] /\ e <= played[p] + MaxRunAhead
      /\ e > lastCompleted[p] /\ InGame(p)
  BY ExecutionFrameOpen DEF LeaveGame, MaySend, InGame
<1>3. c \in Command /\ c.player = p /\ c.frame = e + 1 /\ c.type = "PLAYERLEAVE"
  BY <1>2 DEF NewCommand, Command, CommandType, TypeOK
<1>4. MaySend(p) /\ ~MaySend(p)' /\ \A r \in Players : r # p => MaySend(r)' = MaySend(r)
  BY <1>1, <1>2 DEF InGame, MaySend, TypeOK
<1>5. \A r \in Players, f \in Nat :
        Closed(r, f) => Closed(r, f)' /\ Issued(r, f)' = Issued(r, f)
  <2> SUFFICES ASSUME NEW r \in Players, NEW f \in Nat, Closed(r, f)
               PROVE  Closed(r, f)' /\ Issued(r, f)' = Issued(r, f)
    OBVIOUS
  <2>1. CommandsOf(issued \cup {c}, r, f) = Issued(r, f)
    <3>1. c.frame >= ExecutionFrame(p) BY <1>2, <1>3
    <3> HIDE DEF c
    <3> QED BY <1>2, <1>3, <3>1, ClosedFramesUntouched
  <2>2. Closed(r, f)'
    <3>1. CASE r = p BY <1>4, <3>1 DEF Closed
    <3>2. CASE r # p BY <1>1, <1>4, <3>2 DEF Closed, TypeOK
    <3> QED BY <3>1, <3>2
  <2> QED BY <1>1, <2>1, <2>2 DEF Issued
<1> HIDE DEF c, e
<1>6. TypeOK'
  <2>1. IsFiniteSet(issued') BY <1>1, FS_AddElement DEF TypeOK
  <2>2. received' \in [Players -> SUBSET Command] /\ issued' \subseteq Command
    BY <1>1, <1>3 DEF TypeOK
  <2>3. /\ nextId' \in [Players -> Nat] /\ lastExec' \in [Players -> Nat]
        /\ lastCompleted' \in [Players -> Nat]
        /\ status' \in [Players -> {"PREGAME", "INGAME", "LEAVING", "LEFT", "POSTGAME"}]
    BY <1>1, <1>2 DEF TypeOK
  <2>4. announced' \subseteq FrameInfo
    <3> SUFFICES ASSUME NEW f \in {e, e + 1}
                 PROVE  f \in Nat /\ Cardinality(CommandsOf(issued', p, f)) \in Nat
      BY <1>1 DEF TypeOK, FrameInfo
    <3>1. CommandsOf(issued', p, f) \subseteq issued' BY DEF CommandsOf
    <3> QED BY <1>2, <2>1, <3>1, FS_Subset, FS_CardinalityType
  <2> QED BY <1>1, <2>1, <2>2, <2>3, <2>4 DEF TypeOK
<1>7. ClockInv'
  <2> SUFFICES ASSUME NEW r \in Players
               PROVE  /\ lastCompleted'[r] >= InitialRunAhead - 1
                      /\ lastExec'[r] <= played'[r] + MaxRunAhead
                      /\ status'[r] = "INGAME" => lastCompleted'[r] < lastExec'[r]
                      /\ status'[r] = "PREGAME" =>
                           /\ lastFrame'[r] = 0
                           /\ runAhead'[r] = InitialRunAhead
                           /\ lastExec'[r] = InitialRunAhead - 1
                           /\ lastCompleted'[r] = InitialRunAhead - 1
    BY DEF ClockInv, InGame
  <2>1. CASE r # p BY <1>1, <2>1 DEF ClockInv, InGame, TypeOK
  <2>2. CASE r = p
    <3>1. lastCompleted'[p] = e /\ lastExec'[p] = e /\ status'[p] = "LEAVING"
      BY <1>1 DEF TypeOK
    <3>2. lastCompleted[p] >= InitialRunAhead - 1 /\ lastCompleted[p] \in Nat
      BY DEF ClockInv, TypeOK
    <3> QED BY <1>1, <1>2, <2>2, <3>1, <3>2, RunAheadRange
  <2> QED BY <2>1, <2>2
<1>8. IssuedInv'
  <2>1. \A r \in Players : lastExec'[r] = IF r = p THEN e ELSE lastExec[r]
    BY <1>1 DEF TypeOK
  <2>2. \A d \in issued : d.player \in Players /\ d.frame \in Nat
    BY DEF TypeOK, Command
  <2>3. \A r \in Players : lastExec[r] \in Nat BY DEF TypeOK
  <2>4. \A d \in issued' :
          /\ d.frame > 0
          /\ d.frame <= lastExec'[d.player] + 1
          /\ MaySend(d.player)' => d.frame <= lastExec'[d.player]
          /\ d.type = "PLAYERLEAVE" => ~MaySend(d.player)'
          /\ d.type = "RUNAHEAD" => d.value \in MinRunAhead .. MaxRunAhead
    <3> TAKE d \in issued'
    <3>1. CASE d = c
      <4>1. frame[p] \in Nat BY DEF TypeOK
      <4> QED BY <1>2, <1>3, <1>4, <2>1, <3>1, <4>1
    <3>2. CASE d \in issued
      <4>1. lastExec[d.player] <= lastExec'[d.player] BY <1>2, <2>1, <2>2, <2>3, <3>2
      <4>2. MaySend(d.player)' => MaySend(d.player) BY <1>4, <2>2, <3>2
      <4> QED BY <1>2, <2>1, <2>2, <2>3, <3>2, <4>1, <4>2 DEF IssuedInv
    <3> QED BY <1>1, <3>1, <3>2
  <2>5. \A b, d \in issued' : d.type = "PLAYERLEAVE" /\ d.player = b.player
                              => b.frame <= d.frame
    <3> SUFFICES ASSUME NEW b \in issued', NEW d \in issued',
                        d.type = "PLAYERLEAVE", d.player = b.player
                 PROVE  b.frame <= d.frame
      OBVIOUS
    <3>1. CASE d \in issued
      <4>1. ~MaySend(d.player) BY <3>1 DEF IssuedInv
      <4>2. b # c BY <1>3, <1>4, <4>1
      <4> QED BY <1>1, <3>1, <4>2 DEF IssuedInv
    <3>2. CASE d = c
      <4>1. CASE b = c BY <1>2, <1>3, <3>2, <4>1
      <4>2. CASE b \in issued
        <5>1. b.frame <= lastExec[p] /\ b.frame \in Nat
          BY <1>3, <1>4, <2>2, <3>2, <4>2 DEF IssuedInv
        <5> QED BY <1>2, <1>3, <2>3, <3>2, <5>1
      <4> QED BY <1>1, <4>1, <4>2
    <3> QED BY <1>1, <3>1, <3>2
  <2> QED BY <2>4, <2>5 DEF IssuedInv
<1>9. CountsInv'
  <2>1. \A i \in FrameInfo : TrueCount(i) => TrueCount(i)'
    BY <1>5 DEF TrueCount, FrameInfo
  <2>2. \A i \in announced' \ announced : TrueCount(i)'
    <3> TAKE i \in announced' \ announced
    <3>1. PICK f \in {e, e + 1} :
            i = [player |-> p, frame |-> f, count |-> Cardinality(CommandsOf(issued', p, f))]
      BY <1>1
    <3>2. i.player = p /\ i.frame = f /\ i.count = Cardinality(CommandsOf(issued', p, f))
      BY <3>1
    <3>3. Closed(i.player, i.frame)' BY <1>4, <3>2 DEF Closed
    <3> QED BY <3>2, <3>3 DEF TrueCount, Issued
  <2> QED BY <1>1, <2>1, <2>2 DEF CountsInv, TypeOK
<1>10. ReceivedInv'
  <2> SUFFICES ASSUME NEW q \in Players
               PROVE  /\ received'[q] \subseteq issued'
                      /\ \A d \in issued' : d.player = q /\ d.frame >= frame[q]
                                            => d \in received'[q]
    BY <1>1 DEF ReceivedInv
  <2>1. received'[q] = IF q = p THEN received[q] \cup {c} ELSE received[q]
    BY <1>1 DEF TypeOK
  <2> QED BY <1>1, <1>3, <2>1 DEF ReceivedInv
<1>11. QuitInv' BY <1>1 DEF QuitInv
<1>12. ExecutedInv'
  <2> SUFFICES ASSUME NEW q \in Players, NEW f \in 0 .. played[q] - 1
               PROVE  /\ executed[q][f] = {d \in issued' : d.frame = f}
                      /\ \A r \in Players : Closed(r, f)'
    BY <1>1 DEF ExecutedInv
  <2>1. f \in Nat /\ \A r \in Players : Closed(r, f)
    <3>1. played[q] \in Nat BY DEF TypeOK
    <3>2. \A r \in Players : Closed(r, f) BY DEF ExecutedInv
    <3> QED BY <3>1, <3>2
  <2>2. f # e + 1
    <3>1. Closed(p, f) BY <2>1
    <3>2. frame[p] \in Nat /\ lastCompleted[p] \in Nat BY DEF TypeOK
    <3> QED BY <1>2, <1>4, <2>1, <3>1, <3>2 DEF Closed
  <2>3. {d \in issued' : d.frame = f} = {d \in issued : d.frame = f}
    BY <1>1, <1>3, <2>2
  <2> QED BY <1>5, <2>1, <2>3 DEF ExecutedInv
<1>13. PlayedInv' BY <1>1, <1>2 DEF PlayedInv, HasLeft, InGame, TypeOK
<1> QED BY <1>6, <1>7, <1>8, <1>9, <1>10, <1>11, <1>12, <1>13

\* Delivery adds only what was issued, and only true counts.
LEMMA ReceiveInv ==
    ASSUME IInv, NEW q \in Players, ReceiveCommand(q) \/ ReceiveFrameInfo(q)
    PROVE  IInv'
<1> USE DEF IInv
<1>1. UNCHANGED <<frame, localVars, nextId, issued, announced, quit, executed, played>>
  BY DEF ReceiveCommand, ReceiveFrameInfo
<1>2. /\ received' \in [Players -> SUBSET Command]
      /\ \A r \in Players : received[r] \subseteq received'[r] /\ received'[r] \subseteq issued
  <2>1. CASE ReceiveCommand(q)
    <3>1. PICK c \in issued : received' = [received EXCEPT ![q] = @ \cup {c}]
      BY <2>1 DEF ReceiveCommand
    <3>2. c \in Command BY DEF TypeOK
    <3> QED BY <3>1, <3>2 DEF ReceivedInv, TypeOK
  <2>2. CASE ReceiveFrameInfo(q)
    BY <2>2 DEF ReceiveFrameInfo, ReceivedInv, TypeOK
  <2> QED BY <2>1, <2>2
<1>3. /\ counts' \in [Players -> SUBSET FrameInfo]
      /\ \A r \in Players : counts'[r] \subseteq counts[r] \cup announced
  <2>1. CASE ReceiveFrameInfo(q)
    <3>1. PICK i \in announced :
            counts' = [counts EXCEPT ![q] =
              {j \in @ : j.player # i.player \/ j.frame # i.frame} \cup {i}]
      BY <2>1 DEF ReceiveFrameInfo
    <3>2. i \in FrameInfo BY DEF TypeOK
    <3> QED BY <3>1, <3>2 DEF TypeOK
  <2>2. CASE ReceiveCommand(q)
    BY <2>2 DEF ReceiveCommand, TypeOK
  <2> QED BY <2>1, <2>2
<1>4. TypeOK' BY <1>1, <1>2, <1>3 DEF TypeOK, localVars
<1>5. ClockInv' BY <1>1 DEF ClockInv, localVars, InGame
<1>6. IssuedInv' BY <1>1 DEF IssuedInv, localVars, MaySend
<1>7. \A i : TrueCount(i)' = TrueCount(i)
  BY <1>1 DEF TrueCount, Closed, MaySend, Issued, CommandsOf, localVars
<1>8. CountsInv' BY <1>1, <1>3, <1>7 DEF CountsInv
<1>9. ReceivedInv' BY <1>1, <1>2 DEF ReceivedInv
<1>10. QuitInv' BY <1>1 DEF QuitInv
<1>11. ExecutedInv' BY <1>1 DEF ExecutedInv, Closed, MaySend, localVars
<1>12. PlayedInv' BY <1>1 DEF PlayedInv, HasLeft, localVars
<1> QED BY <1>4, <1>5, <1>6, <1>8, <1>9, <1>10, <1>11, <1>12

LEMMA EndOfGameInv ==
    ASSUME IInv, NEW p \in Players, EndOfGame(p)
    PROVE  IInv'
<1> USE DEF IInv
<1>1. /\ status[p] = "LEFT"
      /\ status' = [status EXCEPT ![p] = "POSTGAME"]
      /\ UNCHANGED <<frame, lastFrame, runAhead, lastExec, lastCompleted, nextId, issued,
                     announced, received, counts, quit, executed, played>>
  BY DEF EndOfGame
<1>2. TypeOK' BY <1>1 DEF TypeOK
<1>3. \A r \in Players : MaySend(r)' = MaySend(r)
  BY <1>1 DEF MaySend, TypeOK
<1>4. ClockInv' BY <1>1 DEF ClockInv, InGame, TypeOK
<1>5. \A c \in issued : c.player \in Players BY DEF TypeOK, Command
<1>6. IssuedInv' BY <1>1, <1>3, <1>5 DEF IssuedInv
<1>7. \A i \in FrameInfo : TrueCount(i)' = TrueCount(i)
  BY <1>1, <1>3 DEF TrueCount, Closed, Issued, CommandsOf, FrameInfo
<1>8. CountsInv' BY <1>1, <1>7 DEF CountsInv, TypeOK
<1>9. ReceivedInv' BY <1>1 DEF ReceivedInv
<1>10. QuitInv' BY <1>1 DEF QuitInv
<1>11. ExecutedInv' BY <1>1, <1>3 DEF ExecutedInv, Closed
<1>12. PlayedInv' BY <1>1 DEF PlayedInv, HasLeft, TypeOK
<1> QED BY <1>2, <1>4, <1>6, <1>8, <1>9, <1>10, <1>11, <1>12

\* The heart of the argument: a machine that executes a frame holds exactly the commands
\* issued for it, and nobody will issue another.
LEMMA FrameIsComplete ==
    ASSUME IInv, NEW q \in Players, Ticked(q), AllCommandsReady(q)
    PROVE  /\ FrameCommandList(q) = {c \in issued : c.frame = frame[q]}
           /\ \A p \in Players \ {q} : Closed(p, frame[q])
<1> USE DEF IInv
<1>1. CASE status[q] = "PREGAME"
  <2>1. frame[q] = 0 BY <1>1 DEF ClockInv, Ticked
  <2>2. \A c \in issued : c.frame # 0 BY DEF IssuedInv
  <2>3. \A p \in Players : Closed(p, 0)
    <3> TAKE p \in Players
    <3>1. lastCompleted[p] >= InitialRunAhead - 1 /\ lastCompleted[p] \in Nat
      BY DEF ClockInv, TypeOK
    <3> QED BY <3>1 DEF Closed
  <2> QED BY <1>1, <2>1, <2>2, <2>3 DEF FrameCommandList
<1>2. CASE status[q] # "PREGAME"
  <2>1. \A p \in Players \ (quit[q] \cup {q}) : FrameReady(q, p, frame[q])
    BY <1>2 DEF AllCommandsReady
  <2>2. \A p \in quit[q] : ~MaySend(p) /\ \A c \in issued : c.player = p => c.frame < frame[q]
    <3> TAKE p \in quit[q]
    <3>1. PICK d \in issued : d.type = "PLAYERLEAVE" /\ d.player = p /\ d.frame < frame[q]
      BY DEF QuitInv
    <3>2. \A c \in issued : c.player = p => c.frame <= d.frame
      BY <3>1 DEF IssuedInv
    <3>3. frame[q] \in Nat /\ \A c \in issued : c.frame \in Nat
      BY DEF TypeOK, Command
    <3> QED BY <3>1, <3>2, <3>3 DEF IssuedInv
  <2>3. \A c \in issued : c.frame = frame[q] => c \in received[q]
    <3> SUFFICES ASSUME NEW c \in issued, c.frame = frame[q] PROVE c \in received[q]
      OBVIOUS
    <3>0. c.player \in Players /\ frame[q] \in Nat BY DEF TypeOK, Command
    <3>1. CASE c.player = q BY <3>0, <3>1 DEF ReceivedInv
    <3>2. CASE c.player \in quit[q] BY <2>2, <3>0, <3>2
    <3>3. CASE c.player \in Players \ (quit[q] \cup {q})
      <4>1. Received(q, c.player, frame[q]) = Issued(c.player, frame[q])
        BY <2>1, <3>3, ReadyMeansComplete
      <4> QED BY <4>1 DEF Received, Issued, CommandsOf
    <3> QED BY <3>0, <3>1, <3>2, <3>3
  <2>4. FrameCommandList(q) = {c \in issued : c.frame = frame[q]}
    BY <1>2, <2>3 DEF FrameCommandList, ReceivedInv
  <2>5. \A p \in Players \ {q} : Closed(p, frame[q])
    <3> TAKE p \in Players \ {q}
    <3>1. CASE p \in quit[q] BY <2>2, <3>1 DEF Closed
    <3>2. CASE p \notin quit[q] BY <2>1, <3>2, ReadyMeansComplete
    <3> QED BY <3>1, <3>2
  <2> QED BY <2>4, <2>5
<1> QED BY <1>1, <1>2

LEMMA ExecuteFrameInv ==
    ASSUME IInv, NEW q \in Players, ExecuteFrame(q)
    PROVE  IInv'
<1> DEFINE cmds == FrameCommandList(q)
           leaving == {c.player : c \in {d \in cmds : d.type = "PLAYERLEAVE"}}
<1> USE DEF IInv
<1>1. /\ executed' = [executed EXCEPT ![q] =
             [f \in 0 .. frame[q] |-> IF f = frame[q] THEN cmds ELSE executed[q][f]]]
      /\ ProcessRunAheadCommand(q, cmds)
      /\ quit' = [quit EXCEPT ![q] = @ \cup leaving]
      /\ status' = [status EXCEPT ![q] = IF q \in leaving THEN "LEFT" ELSE @]
      /\ frame' = [frame EXCEPT ![q] = @ + 1]
      /\ received' = [received EXCEPT ![q] = {c \in @ : ~Forgotten(q, c.frame)}]
      /\ counts' = [counts EXCEPT ![q] = {i \in @ : ~Forgotten(q, i.frame)}]
      /\ played' = [played EXCEPT ![q] = @ + 1]
      /\ UNCHANGED <<lastFrame, lastExec, lastCompleted, nextId, issued, announced>>
  BY DEF ExecuteFrame, RelayCommandsToCommandList, ProcessPlayerLeave
<1>2. /\ cmds = {c \in issued : c.frame = frame[q]}
      /\ \A p \in Players \ {q} : Closed(p, frame[q])
  BY FrameIsComplete DEF ExecuteFrame
<1>3. status[q] = "PREGAME" => cmds = {} BY DEF FrameCommandList
<1> HIDE DEF cmds
<1>4. /\ cmds \subseteq issued /\ cmds \subseteq Command /\ leaving \subseteq Players
      /\ \A c \in cmds : c.frame = frame[q]
      /\ frame[q] \in Nat /\ played[q] = frame[q]
  BY <1>2 DEF TypeOK, Command, ExecuteFrame, PlayedInv
<1>5. TypeOK'
  <2>1. frame' \in [Players -> Nat] /\ quit' \in [Players -> SUBSET Players]
        /\ played' \in [Players -> Nat]
    BY <1>1, <1>4 DEF TypeOK
  <2>2. status' \in [Players -> {"PREGAME", "INGAME", "LEAVING", "LEFT", "POSTGAME"}]
    BY <1>1 DEF TypeOK
  <2>3. runAhead' \in [Players -> MinRunAhead .. MaxRunAhead]
    <3>1. CASE UNCHANGED runAhead BY <3>1 DEF TypeOK
    <3>2. CASE ~UNCHANGED runAhead
      <4>1. PICK c \in cmds : /\ c.type = "RUNAHEAD"
                              /\ runAhead' = [runAhead EXCEPT ![q] = c.value]
        BY <1>1, <3>2 DEF ProcessRunAheadCommand
      <4>2. c.value \in MinRunAhead .. MaxRunAhead BY <1>4, <4>1 DEF IssuedInv
      <4> QED BY <4>1, <4>2 DEF TypeOK
    <3> QED BY <3>1, <3>2
  <2>4. received' \in [Players -> SUBSET Command] /\ counts' \in [Players -> SUBSET FrameInfo]
    BY <1>1 DEF TypeOK
  <2>5. DOMAIN executed' = Players BY <1>1 DEF TypeOK
  <2>6. \A p \in Players : executed'[p] \in [0 .. played'[p] - 1 -> SUBSET Command]
    <3> TAKE p \in Players
    <3>1. CASE p # q BY <1>1, <3>1 DEF TypeOK
    <3>2. CASE p = q
      <4>1. played'[q] - 1 = frame[q] BY <1>1, <1>4 DEF TypeOK
      <4>2. executed'[q] = [f \in 0 .. frame[q] |->
                              IF f = frame[q] THEN cmds ELSE executed[q][f]]
        BY <1>1 DEF TypeOK
      <4>3. executed[q] \in [0 .. frame[q] - 1 -> SUBSET Command] BY <1>4 DEF TypeOK
      <4>4. \A f \in 0 .. frame[q] : f = frame[q] \/ f \in 0 .. frame[q] - 1 BY <1>4
      <4> QED BY <1>4, <3>2, <4>1, <4>2, <4>3, <4>4
    <3> QED BY <3>1, <3>2
  <2> QED BY <1>1, <2>1, <2>2, <2>3, <2>4, <2>5, <2>6 DEF TypeOK
<1>6. /\ \A r \in Players : (MaySend(r)' => MaySend(r)) /\ frame[r] <= frame'[r]
      /\ \A r \in Players : status'[r] = status[r] \/ status'[r] = "LEFT"
  <2>1. /\ \A r \in Players : frame[r] \in Nat
        /\ \A r \in Players : frame'[r] = IF r = q THEN frame[r] + 1 ELSE frame[r]
        /\ \A r \in Players : status'[r] = status[r] \/ status'[r] = "LEFT"
    BY <1>1 DEF TypeOK
  <2> QED BY <2>1 DEF MaySend
<1>7. \A r \in Players, f \in Nat : Closed(r, f) => Closed(r, f)'
  <2> SUFFICES ASSUME NEW r \in Players, NEW f \in Nat, Closed(r, f) PROVE Closed(r, f)'
    OBVIOUS
  <2>1. lastCompleted[r] <= lastCompleted'[r] BY <1>1 DEF TypeOK
  <2> QED BY <1>5, <1>6, <2>1, ClosedStable
<1>8. ClockInv'
  <2> SUFFICES ASSUME NEW r \in Players
               PROVE  /\ lastCompleted'[r] >= InitialRunAhead - 1
                      /\ lastExec'[r] <= played'[r] + MaxRunAhead
                      /\ status'[r] = "INGAME" => lastCompleted'[r] < lastExec'[r]
                      /\ status'[r] = "PREGAME" =>
                           /\ lastFrame'[r] = 0
                           /\ runAhead'[r] = InitialRunAhead
                           /\ lastExec'[r] = InitialRunAhead - 1
                           /\ lastCompleted'[r] = InitialRunAhead - 1
    BY DEF ClockInv, InGame
  <2>1. /\ played[r] \in Nat /\ played'[r] \in Nat /\ lastExec[r] \in Nat
        /\ played[r] <= played'[r]
    <3>1. /\ played[r] \in Nat /\ lastExec[r] \in Nat
          /\ played'[r] = IF r = q THEN played[r] + 1 ELSE played[r]
      BY <1>1 DEF TypeOK
    <3> QED BY <3>1
  <2>2. lastExec'[r] <= played'[r] + MaxRunAhead
    BY <1>1, <1>6, <2>1, RunAheadRange DEF ClockInv
  <2>3. status'[r] = "PREGAME" => runAhead'[r] = runAhead[r]
    <3>1. CASE r # q BY <1>1, <3>1 DEF ProcessRunAheadCommand, TypeOK
    <3>2. CASE r = q BY <1>1, <1>3, <1>6, <3>2 DEF ProcessRunAheadCommand
    <3> QED BY <3>1, <3>2
  <2> QED BY <1>1, <1>6, <2>2, <2>3 DEF ClockInv, InGame
<1>9. IssuedInv'
  <2>1. \A c \in issued : c.player \in Players BY DEF TypeOK, Command
  <2> QED BY <1>1, <1>6, <2>1 DEF IssuedInv
<1>10. CountsInv'
  <2>1. \A i \in FrameInfo : TrueCount(i) => TrueCount(i)'
    BY <1>1, <1>7 DEF TrueCount, FrameInfo, Issued, CommandsOf
  <2>2. \A r \in Players : counts'[r] \subseteq counts[r] BY <1>1 DEF TypeOK
  <2> QED BY <1>1, <2>1, <2>2 DEF CountsInv, TypeOK
<1>11. ReceivedInv'
  <2> SUFFICES ASSUME NEW r \in Players
               PROVE  /\ received'[r] \subseteq issued
                      /\ \A c \in issued : c.player = r /\ c.frame >= frame'[r]
                                           => c \in received'[r]
    BY <1>1 DEF ReceivedInv
  <2>1. CASE r # q BY <1>1, <2>1 DEF ReceivedInv, TypeOK
  <2>2. CASE r = q
    <3>1. /\ received'[q] = {c \in received[q] : ~Forgotten(q, c.frame)}
          /\ frame'[q] = frame[q] + 1
      BY <1>1 DEF TypeOK
    <3>2. \A c \in issued : c.frame \in Nat BY DEF TypeOK, Command
    <3>3. \A f \in Nat : f >= frame[q] + 1 => ~Forgotten(q, f)
      BY <1>4, RunAheadRange DEF Forgotten
    <3> QED BY <1>4, <2>2, <3>1, <3>2, <3>3 DEF ReceivedInv
  <2> QED BY <2>1, <2>2
<1>12. QuitInv'
  <2> SUFFICES ASSUME NEW r \in Players, NEW p \in quit'[r]
               PROVE  \E c \in issued : /\ c.type = "PLAYERLEAVE" /\ c.player = p
                                        /\ c.frame < frame'[r]
    BY <1>1 DEF QuitInv
  <2>0. frame[r] \in Nat /\ frame'[r] \in Nat /\ frame[r] <= frame'[r]
        /\ \A c \in issued : c.frame \in Nat
    BY <1>5, <1>6 DEF TypeOK, Command
  <2>1. CASE p \in quit[r] BY <2>0, <2>1 DEF QuitInv
  <2>2. CASE p \notin quit[r]
    <3>1. r = q /\ p \in leaving BY <1>1, <2>2 DEF TypeOK
    <3>2. PICK c \in cmds : c.type = "PLAYERLEAVE" /\ c.player = p BY <3>1
    <3>3. c \in issued /\ c.frame = frame[q] BY <1>4, <3>2
    <3>4. frame'[q] = frame[q] + 1 BY <1>1 DEF TypeOK
    <3> QED BY <1>4, <3>1, <3>2, <3>3, <3>4
  <2> QED BY <2>1, <2>2
<1>13. ExecutedInv'
  <2> SUFFICES ASSUME NEW r \in Players, NEW f \in 0 .. played'[r] - 1
               PROVE  /\ executed'[r][f] = {c \in issued : c.frame = f}
                      /\ \A p \in Players : Closed(p, f)'
    BY <1>1 DEF ExecutedInv
  <2>0. played'[r] \in Nat /\ f \in Nat BY <1>5 DEF TypeOK
  <2>1. CASE f \in 0 .. played[r] - 1
    <3>1. executed'[r][f] = executed[r][f]
      <4>1. CASE r # q BY <1>1, <4>1 DEF TypeOK
      <4>2. CASE r = q
        <5>1. f # frame[q] /\ f \in 0 .. frame[q] BY <1>4, <2>1, <4>2
        <5> QED BY <1>1, <4>2, <5>1 DEF TypeOK
      <4> QED BY <4>1, <4>2
    <3> QED BY <1>7, <2>0, <2>1, <3>1 DEF ExecutedInv
  <2>2. CASE f \notin 0 .. played[r] - 1
    <3>1. r = q
      <4>1. played'[r] # played[r] BY <2>2
      <4> QED BY <1>1, <4>1 DEF TypeOK
    <3>2. played'[q] = frame[q] + 1 /\ frame'[q] = frame[q] + 1 BY <1>1, <1>4 DEF TypeOK
    <3>3. f = frame[q] BY <1>4, <2>0, <2>2, <3>1, <3>2
    <3>4. executed'[q][f] = cmds
      <4>1. f \in 0 .. frame[q] BY <1>4, <3>3
      <4> QED BY <1>1, <3>3, <4>1 DEF TypeOK
    <3>5. Closed(q, f)' BY <1>4, <3>2, <3>3 DEF Closed
    <3> QED BY <1>2, <1>7, <2>0, <3>1, <3>3, <3>4, <3>5
  <2> QED BY <2>1, <2>2
<1>14. PlayedInv'
  <2> SUFFICES ASSUME NEW r \in Players
               PROVE  played'[r] <= frame'[r] /\ (~HasLeft(r)' => played'[r] = frame'[r])
    BY DEF PlayedInv
  <2>1. CASE r # q BY <1>1, <2>1 DEF PlayedInv, HasLeft, TypeOK
  <2>2. CASE r = q BY <1>1, <1>4, <2>2 DEF TypeOK
  <2> QED BY <2>1, <2>2
<1> QED BY <1>5, <1>8, <1>9, <1>10, <1>11, <1>12, <1>13, <1>14

\* What a machine that has left still does to itself disturbs nobody.
LEMMA RunOnInv ==
    ASSUME IInv, NEW q \in Players, RunOn(q)
    PROVE  IInv'
<1> USE DEF IInv
<1>1. /\ HasLeft(q) /\ ~MaySend(q) /\ ~InGame(q) /\ status[q] # "PREGAME"
      /\ frame' = [frame EXCEPT ![q] = @ + 1]
      /\ UNCHANGED <<lastFrame, lastExec, lastCompleted, nextId, issued, announced,
                     executed, played>>
  BY DEF RunOn, HasLeft, MaySend, InGame
<1>2. /\ frame \in [Players -> Nat] /\ frame' \in [Players -> Nat]
      /\ frame'[q] = frame[q] + 1
      /\ \A r \in Players : r # q => frame'[r] = frame[r]
  BY <1>1 DEF TypeOK
<1>3. /\ runAhead' \in [Players -> MinRunAhead .. MaxRunAhead]
      /\ quit' \in [Players -> SUBSET Players]
      /\ received' \in [Players -> SUBSET Command]
      /\ counts' \in [Players -> SUBSET FrameInfo]
      /\ status' = status
      /\ \A r \in Players \ {q} : runAhead'[r] = runAhead[r] /\ quit'[r] = quit[r]
      /\ \A r \in Players : received'[r] \subseteq received[r] /\ counts'[r] \subseteq counts[r]
      /\ \A r \in Players : \A c \in received[r] : c.frame >= frame'[r] => c \in received'[r]
      /\ \A p \in quit'[q] \ quit[q] : \E c \in issued :
           c.type = "PLAYERLEAVE" /\ c.player = p /\ c.frame = frame[q]
  <2>1. CASE UNCHANGED <<runAhead, quit, status, received, counts>>
    BY <2>1 DEF TypeOK
  <2>2. CASE status[q] = "LEFT" /\ RelayCommandsToCommandList(q, FrameCommandList(q))
    <3> DEFINE cmds == FrameCommandList(q)
               leaving == {c.player : c \in {d \in cmds : d.type = "PLAYERLEAVE"}}
    <3>1. /\ ProcessRunAheadCommand(q, cmds)
          /\ quit' = [quit EXCEPT ![q] = @ \cup leaving]
          /\ status' = [status EXCEPT ![q] = IF q \in leaving THEN "LEFT" ELSE @]
          /\ received' = [received EXCEPT ![q] = {c \in @ : ~Forgotten(q, c.frame)}]
          /\ counts' = [counts EXCEPT ![q] = {i \in @ : ~Forgotten(q, i.frame)}]
      BY <2>2 DEF RelayCommandsToCommandList, ProcessPlayerLeave
    <3>2. /\ cmds \subseteq issued /\ cmds \subseteq Command /\ leaving \subseteq Players
          /\ \A c \in cmds : c.frame = frame[q]
      BY <1>1 DEF FrameCommandList, ReceivedInv, TypeOK, Command
    <3> HIDE DEF cmds
    <3>3. /\ runAhead' \in [Players -> MinRunAhead .. MaxRunAhead]
          /\ \A r \in Players \ {q} : runAhead'[r] = runAhead[r]
      <4>1. CASE UNCHANGED runAhead BY <4>1 DEF TypeOK
      <4>2. CASE ~UNCHANGED runAhead
        <5>1. PICK c \in cmds : /\ c.type = "RUNAHEAD"
                                /\ runAhead' = [runAhead EXCEPT ![q] = c.value]
          BY <3>1, <4>2 DEF ProcessRunAheadCommand
        <5>2. c.value \in MinRunAhead .. MaxRunAhead BY <3>2, <5>1 DEF IssuedInv
        <5> QED BY <5>1, <5>2 DEF TypeOK
      <4> QED BY <4>1, <4>2
    <3>4. status' = status BY <2>2, <3>1 DEF TypeOK
    <3>5. /\ quit' \in [Players -> SUBSET Players]
          /\ \A r \in Players \ {q} : quit'[r] = quit[r]
          /\ \A p \in quit'[q] \ quit[q] : \E c \in issued :
               c.type = "PLAYERLEAVE" /\ c.player = p /\ c.frame = frame[q]
      BY <3>1, <3>2 DEF TypeOK
    <3>6. \A f \in Nat : f >= frame[q] + 1 => ~Forgotten(q, f)
      BY <1>2, RunAheadRange DEF Forgotten
    <3>7. /\ received' \in [Players -> SUBSET Command]
          /\ counts' \in [Players -> SUBSET FrameInfo]
          /\ \A r \in Players : received'[r] \subseteq received[r]
                                /\ counts'[r] \subseteq counts[r]
      BY <3>1 DEF TypeOK
    <3>8. \A r \in Players : \A c \in received[r] : c.frame >= frame'[r] => c \in received'[r]
      <4> SUFFICES ASSUME NEW r \in Players, NEW c \in received[r], c.frame >= frame'[r]
                   PROVE  c \in received'[r]
        OBVIOUS
      <4>1. CASE r # q BY <3>1, <4>1 DEF TypeOK
      <4>2. CASE r = q
        <5>1. c.frame \in Nat BY DEF TypeOK, Command
        <5>2. ~Forgotten(q, c.frame) BY <1>2, <3>6, <4>2, <5>1
        <5> QED BY <3>1, <4>2, <5>2 DEF TypeOK
      <4> QED BY <4>1, <4>2
    <3> QED BY <3>3, <3>4, <3>5, <3>7, <3>8
  <2> QED BY <2>1, <2>2 DEF RunOn
<1>4. TypeOK' BY <1>1, <1>2, <1>3 DEF TypeOK
<1>5. \A r \in Players, f \in Nat : Closed(r, f) => Closed(r, f)'
  BY <1>1, <1>2, <1>3 DEF Closed, MaySend
<1>6. PlayedInv'
  <2> SUFFICES ASSUME NEW r \in Players
               PROVE  played[r] <= frame'[r] /\ (~HasLeft(r) => played[r] = frame'[r])
    BY <1>1, <1>3 DEF PlayedInv, HasLeft
  <2>1. played[r] \in Nat BY DEF TypeOK
  <2> QED BY <1>1, <1>2, <2>1 DEF PlayedInv
<1>7. ClockInv' BY <1>1, <1>3 DEF ClockInv, InGame
<1>8. IssuedInv' BY <1>1, <1>3 DEF IssuedInv, MaySend
<1>9. CountsInv'
  <2>1. \A i \in FrameInfo : TrueCount(i) => TrueCount(i)'
    BY <1>1, <1>5 DEF TrueCount, FrameInfo, Issued, CommandsOf
  <2> QED BY <1>1, <1>3, <2>1 DEF CountsInv, TypeOK
<1>10. ReceivedInv'
  <2> SUFFICES ASSUME NEW r \in Players
               PROVE  /\ received'[r] \subseteq issued
                      /\ \A c \in issued : c.player = r /\ c.frame >= frame'[r]
                                           => c \in received'[r]
    BY <1>1 DEF ReceivedInv
  <2>1. received'[r] \subseteq issued BY <1>3 DEF ReceivedInv
  <2>2. ASSUME NEW c \in issued, c.player = r, c.frame >= frame'[r] PROVE c \in received'[r]
    <3>1. c.frame \in Nat BY DEF TypeOK, Command
    <3>2. c.frame >= frame[r] BY <1>2, <2>2, <3>1
    <3>3. c \in received[r] BY <2>2, <3>2 DEF ReceivedInv
    <3> QED BY <1>3, <2>2, <3>3
  <2> QED BY <2>1, <2>2
<1>11. QuitInv'
  <2> SUFFICES ASSUME NEW r \in Players, NEW p \in quit'[r]
               PROVE  \E c \in issued : /\ c.type = "PLAYERLEAVE" /\ c.player = p
                                        /\ c.frame < frame'[r]
    BY <1>1 DEF QuitInv
  <2>1. frame[r] \in Nat /\ frame'[r] \in Nat /\ frame[r] <= frame'[r]
        /\ \A c \in issued : c.frame \in Nat
    <3>1. \A c \in issued : c.frame \in Nat BY DEF TypeOK, Command
    <3>2. frame[r] \in Nat /\ frame'[r] = IF r = q THEN frame[r] + 1 ELSE frame[r]
      BY <1>2
    <3> QED BY <3>1, <3>2
  <2>2. CASE p \in quit[r] BY <2>1, <2>2 DEF QuitInv
  <2>3. CASE p \notin quit[r]
    <3>1. r = q BY <1>3, <2>3
    <3> QED BY <1>2, <1>3, <2>1, <2>3, <3>1
  <2> QED BY <2>2, <2>3
<1>12. ExecutedInv'
  <2>1. \A r \in Players : \A f \in 0 .. played[r] - 1 : f \in Nat BY DEF TypeOK
  <2> QED BY <1>1, <1>5, <2>1 DEF ExecutedInv
<1> QED BY <1>4, <1>6, <1>7, <1>8, <1>9, <1>10, <1>11, <1>12


-----------------------------------------------------------------------------
\* The inductive invariant holds in every reachable state of Lockstep.
THEOREM Invariance == Spec => []IInv
<1>1. IInv /\ [Next]_vars => IInv'
  <2> SUFFICES ASSUME IInv, [Next]_vars PROVE IInv'
    OBVIOUS
  <2>1. CASE UNCHANGED vars
    <3> USE <2>1 DEF vars
    <3>1. TypeOK' BY DEF IInv, TypeOK
    <3>2. ClockInv' BY DEF IInv, ClockInv, InGame
    <3>3. IssuedInv' BY DEF IInv, IssuedInv, MaySend
    <3>4. \A i : TrueCount(i)' = TrueCount(i)
      BY DEF TrueCount, Closed, MaySend, Issued, CommandsOf
    <3>5. CountsInv' BY <3>4 DEF IInv, CountsInv
    <3>6. ReceivedInv' BY DEF IInv, ReceivedInv
    <3>7. QuitInv' BY DEF IInv, QuitInv
    <3>8. ExecutedInv' BY DEF IInv, ExecutedInv, Closed, MaySend
    <3>9. PlayedInv' BY DEF IInv, PlayedInv, HasLeft
    <3> QED BY <3>1, <3>2, <3>3, <3>5, <3>6, <3>7, <3>8, <3>9 DEF IInv
  <2>2. CASE Next
    <3>1. PICK p \in Players : GameLoop(p) \/ Receive(p) \/ Issue(p) BY <2>2 DEF Next
    <3>2. CASE ProcessFrameTick(p) BY <3>2, TickInv
    <3>3. CASE SendLocalGameMessage(p) BY <3>3, GameMessageInv
    <3>4. CASE UpdateRunAhead(p) BY <3>4, UpdateRunAheadInv
    <3>5. CASE LeaveGame(p) BY <3>5, LeaveGameInv
    <3>6. CASE ReceiveCommand(p) \/ ReceiveFrameInfo(p) BY <3>6, ReceiveInv
    <3>7. CASE ExecuteFrame(p) BY <3>7, ExecuteFrameInv
    <3>8. CASE EndOfGame(p) BY <3>8, EndOfGameInv
    <3>9. CASE RunOn(p) BY <3>9, RunOnInv
    <3> QED BY <3>1, <3>2, <3>3, <3>4, <3>5, <3>6, <3>7, <3>8, <3>9
            DEF GameLoop, Receive, Issue
  <2> QED BY <2>1, <2>2
<1> QED BY InitInv, <1>1, PTL DEF Spec

\* Every variable keeps its type: in particular the run-ahead a machine adopts from a
\* synchronized command stays within the range the packet router is clamped to.
THEOREM TypeCorrect == Spec => []TypeOK
<1>1. IInv => TypeOK BY DEF IInv
<1> QED BY <1>1, Invariance, PTL

\* Any two machines that were in the game in a frame executed the same commands in it.
THEOREM AgreementHolds == Spec => []Agreement
<1>1. IInv => Agreement
  <2> SUFFICES ASSUME IInv, NEW p \in Players, NEW q \in Players,
                      NEW f \in DOMAIN executed[p] \cap DOMAIN executed[q]
               PROVE  executed[p][f] = executed[q][f]
    BY DEF Agreement
  <2>1. f \in 0 .. played[p] - 1 /\ f \in 0 .. played[q] - 1
    BY DEF IInv, TypeOK
  <2> QED BY <2>1 DEF IInv, ExecutedInv
<1> QED BY <1>1, Invariance, PTL

\* No machine in the game holds more commands for a frame than were announced, so none is ever
\* discarded and asked for again in lockstep play.
THEOREM NeverOvercountedHolds == Spec => []NeverOvercounted
<1>1. IInv => NeverOvercounted
  <2> SUFFICES ASSUME IInv, NEW q \in Players, NEW i \in counts[q]
               PROVE  Cardinality(Received(q, i.player, i.frame)) <= i.count
    BY DEF NeverOvercounted
  <2>1. i.count = Cardinality(Issued(i.player, i.frame))
    BY DEF IInv, CountsInv, TrueCount
  <2>2. Received(q, i.player, i.frame) \subseteq Issued(i.player, i.frame)
    BY DEF IInv, ReceivedInv, Received, Issued, CommandsOf
  <2>3. Issued(i.player, i.frame) \subseteq issued /\ IsFiniteSet(issued)
    BY DEF IInv, TypeOK, Issued, CommandsOf
  <2> QED BY <2>1, <2>2, <2>3, FS_Subset
<1> QED BY <1>1, Invariance, PTL

\* A machine has executed at most the largest run-ahead of frames more than any machine
\* that may still send has run.
LEMMA SkewFromInv ==
    IInv => \A p, q \in Players : MaySend(p) => played[q] <= frame[p] + MaxRunAhead
<1> SUFFICES ASSUME IInv, NEW p \in Players, NEW q \in Players, MaySend(p)
             PROVE  played[q] <= frame[p] + MaxRunAhead
  OBVIOUS
<1>1. /\ frame[p] \in Nat /\ played[q] \in Nat /\ played[p] = frame[p]
      /\ lastCompleted[p] \in Nat /\ lastExec[p] \in Nat
  BY DEF IInv, TypeOK, PlayedInv, HasLeft, MaySend
<1>2. lastCompleted[p] < frame[p] + MaxRunAhead
  <2>1. lastExec[p] <= frame[p] + MaxRunAhead BY <1>1 DEF IInv, ClockInv
  <2>2. CASE InGame(p) BY <1>1, <2>1, <2>2, RunAheadRange DEF IInv, ClockInv
  <2>3. CASE status[p] = "PREGAME" BY <1>1, <2>3, RunAheadRange DEF IInv, ClockInv
  <2> QED BY <2>2, <2>3 DEF MaySend, InGame
<1>3. CASE played[q] = 0 BY <1>1, <1>3, RunAheadRange
<1>4. CASE played[q] # 0
  <2>1. played[q] - 1 \in 0 .. played[q] - 1 BY <1>1, <1>4
  <2>2. Closed(p, played[q] - 1) BY <2>1 DEF IInv, ExecutedInv
  <2>3. played[q] - 1 <= lastCompleted[p] \/ played[q] - 1 < frame[p] BY <2>2 DEF Closed
  <2> QED BY <1>1, <1>2, <2>3, RunAheadRange
<1> QED BY <1>3, <1>4

\* No machine in the game is further in front of one that may still send than the largest
\* run-ahead.
THEOREM SkewBoundedHolds == Spec => []SkewBounded
<1>1. IInv => SkewBounded
  BY SkewFromInv DEF SkewBounded, IInv, PlayedInv
<1> QED BY <1>1, Invariance, PTL

\* The frame data ring is long enough: whatever can still reach a player in the game lies
\* less than FRAME_DATA_LENGTH past the oldest frame it keeps, for every run-ahead range.
THEOREM RingFitsHolds == Spec => []RingFits
<1>1. IInv => RingFits
  <2> SUFFICES ASSUME IInv, NEW q \in Players, InGame(q), NEW c \in issued
               PROVE  c.frame < frame[q] - FramesToKeep + FrameDataLength
    BY DEF RingFits
  <2>1. /\ c.player \in Players /\ c.frame \in Nat /\ frame[q] \in Nat
        /\ played[c.player] \in Nat /\ lastExec[c.player] \in Nat
    BY DEF IInv, TypeOK, Command
  <2>2. c.frame <= lastExec[c.player] + 1 BY DEF IInv, IssuedInv
  <2>3. lastExec[c.player] <= played[c.player] + MaxRunAhead
    BY <2>1 DEF IInv, ClockInv
  <2>4. played[c.player] <= frame[q] + MaxRunAhead
    BY <2>1, SkewFromInv DEF MaySend, InGame
  <2>5. c.frame <= frame[q] + 2 * MaxRunAhead + 1
    BY <2>1, <2>2, <2>3, <2>4, RunAheadRange
  <2>6. MaxFramesAhead \in Nat /\ FrameDataLength = (MaxFramesAhead + 1) * 2
    BY RunAheadAssumption DEF FrameDataLength
  <2>7. FramesToKeep + 2 * MaxRunAhead + 1 < FrameDataLength
    BY <2>6, RunAheadRange
  <2> QED BY <2>1, <2>5, <2>6, <2>7, RunAheadRange
<1> QED BY <1>1, Invariance, PTL

\* No command is issued for a frame that some machine has already executed in the game.
THEOREM NoLateCommandHolds == Spec => NoLateCommand
<1> DEFINE A == \A c \in issued' \ issued : \A q \in Players : c.frame \notin DOMAIN executed[q]
<1>1. IInv /\ [Next]_vars => [A]_vars
  <2> SUFFICES ASSUME IInv, Next PROVE A
    OBVIOUS
  <2>1. SUFFICES ASSUME NEW c \in issued' \ issued, NEW q \in Players,
                        c.frame \in DOMAIN executed[q]
                 PROVE  FALSE
    OBVIOUS
  <2>2. PICK p \in Players : GameLoop(p) \/ Receive(p) \/ Issue(p) BY DEF Next
  <2> DEFINE Late == InGame(p) /\ c.player = p /\ c.frame >= ExecutionFrame(p)
  <2>3. Late
    <3>0. ExecutionFrame(p) \in Nat BY ExecutionFrameOpen DEF IInv
    <3>1. CASE SendLocalGameMessage(p)
      BY <2>1, <3>0, <3>1 DEF SendLocalGameMessage, SendLocalCommand, NewCommand
    <3>2. CASE UpdateRunAhead(p)
      BY <2>1, <3>0, <3>2, RunAheadFrameIsExecutionFrame
         DEF IInv, UpdateRunAhead, SendLocalCommand, NewCommand
    <3>3. CASE LeaveGame(p)
      BY <2>1, <3>0, <3>3 DEF LeaveGame, SendLocalCommand, NewCommand
    <3>4. CASE ProcessFrameTick(p) BY <2>1, <3>4 DEF ProcessFrameTick
    <3>5. CASE ReceiveCommand(p) \/ ReceiveFrameInfo(p)
      BY <2>1, <3>5 DEF ReceiveCommand, ReceiveFrameInfo
    <3>6. CASE ExecuteFrame(p) BY <2>1, <3>6 DEF ExecuteFrame
    <3>7. CASE EndOfGame(p) BY <2>1, <3>7 DEF EndOfGame
    <3>8. CASE RunOn(p) BY <2>1, <3>8 DEF RunOn
    <3> HIDE DEF Late
    <3> QED BY <2>2, <3>1, <3>2, <3>3, <3>4, <3>5, <3>6, <3>7, <3>8
            DEF GameLoop, Receive, Issue
  <2>4. c.frame \in 0 .. played[q] - 1 BY <2>1 DEF IInv, TypeOK
  <2>5. Closed(p, c.frame) BY <2>4 DEF IInv, ExecutedInv
  <2>6. /\ ExecutionFrame(p) \in Nat /\ ExecutionFrame(p) > frame[p]
        /\ ExecutionFrame(p) > lastCompleted[p]
    BY <2>3, ExecutionFrameOpen DEF IInv
  <2>7. /\ frame[p] \in Nat /\ lastCompleted[p] \in Nat
        /\ c.frame \in Int
    BY <2>4 DEF IInv, TypeOK
  <2> QED BY <2>3, <2>5, <2>6, <2>7 DEF Closed, MaySend, InGame
<1>2. NoLateCommand <=> [][A]_vars BY PTL DEF NoLateCommand
<1> QED BY <1>1, <1>2, Invariance, PTL DEF Spec

-----------------------------------------------------------------------------
\* Some machine has executed the most frames.
HasLeader == \E p \in Players : \A q \in Players : played[q] <= played[p]

LEMMA LeaderExists == Spec => []HasLeader
<1>1. Init => HasLeader
  <2>1. 0 \in Players BY NumPlayersAssumption DEF Players
  <2> QED BY <2>1 DEF Init, HasLeader
<1>2. IInv /\ HasLeader /\ [Next]_vars => HasLeader'
  <2> SUFFICES ASSUME IInv, HasLeader, [Next]_vars PROVE HasLeader'
    OBVIOUS
  <2>0. played \in [Players -> Nat] BY DEF IInv, TypeOK
  <2>1. CASE UNCHANGED played BY <2>1 DEF HasLeader
  <2>2. CASE \E q \in Players : ExecuteFrame(q)
    <3>1. PICK q \in Players : played' = [played EXCEPT ![q] = @ + 1]
      BY <2>2 DEF ExecuteFrame
    <3>2. PICK p \in Players : \A r \in Players : played[r] <= played[p] BY DEF HasLeader
    <3>3. CASE played[q] = played[p]
      <4>1. \A r \in Players : played'[r] <= played'[q] BY <2>0, <3>1, <3>2, <3>3
      <4> QED BY <4>1 DEF HasLeader
    <3>4. CASE played[q] # played[p]
      <4>1. \A r \in Players : played'[r] <= played'[p] BY <2>0, <3>1, <3>2, <3>4
      <4> QED BY <4>1 DEF HasLeader
    <3> QED BY <3>3, <3>4
  <2> QED
    BY <2>1, <2>2 DEF Next, GameLoop, Receive, Issue, vars, ProcessFrameTick,
       SendLocalGameMessage, UpdateRunAhead, LeaveGame, ReceiveCommand, ReceiveFrameInfo,
       RunOn, EndOfGame
<1> QED BY <1>1, <1>2, Invariance, PTL DEF Spec

LEMMA LeaderIsInFront ==
    ASSUME HasLeader
    PROVE  Leader \in Players /\ \A q \in Players : played[q] <= played[Leader]
BY DEF HasLeader, Leader

\* Functions with the same domain that agree on it are the same function.
LEMMA FunctionsEqual ==
    \A S, T : \A g, h \in [S -> T] : (\A x \in S : g[x] = h[x]) => g = h
<1> SUFFICES ASSUME NEW S, NEW T, NEW g \in [S -> T], NEW h \in [S -> T],
                    \A x \in S : g[x] = h[x]
             PROVE  g = h
  OBVIOUS
<1> QED OBVIOUS

\* The machines implement one replicated game: what the machine in front executed is the
\* log, and every machine executes the frames of that log in order until it leaves.
THEOREM LockstepRefinesReplicatedGame == Spec => ImplementsReplicatedGame
<1>1. Init => Replicated!Init
  <2> SUFFICES ASSUME Init PROVE Replicated!Init
    OBVIOUS
  <2>1. HasLeader
    <3>1. 0 \in Players BY NumPlayersAssumption DEF Players
    <3> QED BY <3>1 DEF Init, HasLeader
  <2>2. Leader \in Players BY <2>1, LeaderIsInFront
  <2> QED BY <2>2 DEF Init, Replicated!Init
<1>2. IInv /\ IInv' /\ HasLeader /\ HasLeader' /\ [Next]_vars
        => [Replicated!Next]_(Replicated!vars)
  <2> SUFFICES ASSUME IInv, IInv', HasLeader, HasLeader', [Next]_vars
               PROVE  [Replicated!Next]_(Replicated!vars)
    OBVIOUS
  <2> DEFINE L == Leader
             M == Leader'
  <2>0. /\ played \in [Players -> Nat] /\ played' \in [Players -> Nat]
        /\ \A p \in Players : DOMAIN executed[p] = 0 .. played[p] - 1
        /\ \A p \in Players : DOMAIN executed'[p] = 0 .. played'[p] - 1
        /\ \A p \in Players : executed'[p] \in [0 .. played'[p] - 1 -> SUBSET Command]
        /\ \A p \in Players : executed[p] \in [0 .. played[p] - 1 -> SUBSET Command]
    BY DEF IInv, TypeOK
  <2>1. /\ L \in Players /\ \A q \in Players : played[q] <= played[L]
        /\ M \in Players /\ \A q \in Players : played'[q] <= played'[M]
    BY LeaderIsInFront DEF HasLeader, Leader
  <2>2. CASE UNCHANGED <<played, executed>>
    <3>1. M = L BY <2>2 DEF Leader
    <3> QED BY <2>2, <3>1 DEF Replicated!vars
  <2>3. CASE \E q \in Players : ExecuteFrame(q)
    <3>1. PICK q \in Players : played' = [played EXCEPT ![q] = @ + 1] /\ issued' = issued
      BY <2>3 DEF ExecuteFrame
    <3>2. /\ \A f \in 0 .. played[L] - 1 : executed[L][f] = {c \in issued : c.frame = f}
          /\ \A f \in 0 .. played'[M] - 1 : executed'[M][f] = {c \in issued : c.frame = f}
      BY <2>1, <3>1 DEF IInv, ExecutedInv
    <3> HIDE DEF L, M
    <3>3. CASE played[q] < played[L]
      <4>1. played'[M] = played[L]
        <5>1. played'[L] = played[L] BY <2>0, <2>1, <3>1, <3>3
        <5>2. \A r \in Players : played'[r] <= played[L] BY <2>0, <2>1, <3>1, <3>3
        <5> QED BY <2>0, <2>1, <5>1, <5>2
      <4>2. executed'[M] = executed[L]
        <5>1. /\ executed'[M] \in [0 .. played[L] - 1 -> SUBSET Command]
              /\ executed[L] \in [0 .. played[L] - 1 -> SUBSET Command]
          BY <2>0, <2>1, <4>1
        <5>2. \A f \in 0 .. played[L] - 1 : executed'[M][f] = executed[L][f]
          BY <3>2, <4>1
        <5>3. \A g, h \in [0 .. played[L] - 1 -> SUBSET Command] :
                  (\A f \in 0 .. played[L] - 1 : g[f] = h[f]) => g = h
          BY FunctionsEqual, Zenon
        <5>4. (\A f \in 0 .. played[L] - 1 : (executed'[M])[f] = (executed[L])[f])
                => executed'[M] = executed[L]
          BY <5>1, <5>3, Zenon
        <5> QED BY <5>2, <5>4
      <4>3. played[q] \in DOMAIN executed[L] BY <2>0, <2>1, <3>3
      <4> QED BY <3>1, <4>2, <4>3 DEF Replicated!Next, Replicated!ExecuteFrame, L, M
    <3>4. CASE played[q] = played[L]
      <4>1. played'[M] = played[q] + 1
        <5>1. played'[q] = played[q] + 1 BY <2>0, <3>1
        <5>2. \A r \in Players : played'[r] <= played[q] + 1 BY <2>0, <2>1, <3>1, <3>4
        <5> QED BY <2>0, <2>1, <5>1, <5>2
      <4>2. played[q] \notin DOMAIN executed[L] BY <2>0, <2>1, <3>4
      <4>3. DOMAIN executed'[M] = 0 .. played[q] BY <2>0, <2>1, <4>1
      <4>4. executed'[M][played[q]] \subseteq Command
        <5>1. played[q] \in 0 .. played'[M] - 1 BY <2>0, <4>1
        <5> QED BY <2>0, <2>1, <5>1
      <4>5. \A f \in DOMAIN executed[L] : executed'[M][f] = executed[L][f]
        <5>1. \A f \in 0 .. played[L] - 1 : f \in 0 .. played'[M] - 1
          BY <2>0, <2>1, <3>4, <4>1
        <5> QED BY <2>0, <2>1, <3>2, <5>1
      <4> QED BY <3>1, <4>2, <4>3, <4>4, <4>5
              DEF Replicated!Next, Replicated!ExecuteFrame, L, M
    <3> QED BY <2>0, <2>1, <3>3, <3>4
  <2> QED
    BY <2>2, <2>3 DEF Next, GameLoop, Receive, Issue, vars, ProcessFrameTick,
       SendLocalGameMessage, UpdateRunAhead, LeaveGame, ReceiveCommand, ReceiveFrameInfo,
       RunOn, EndOfGame
<1> QED BY <1>1, <1>2, Invariance, LeaderExists, PTL
   DEF Spec, ImplementsReplicatedGame, Replicated!Spec

-----------------------------------------------------------------------------
(***************************************************************************)
(* What a machine makes of what it executed: its run-ahead is that of the  *)
(* last run-ahead command among it, and those who left it are not waited   *)
(* for.  Which command is the last is never open, because no two commands  *)
(* of a player have the same identifier.                                   *)
(***************************************************************************)
\* What q has executed so far, and the run-ahead commands among it.
History(q) == UNION {executed[q][f] : f \in 0 .. played[q] - 1}
RunAheads(q) == {c \in History(q) : c.type = "RUNAHEAD"}

Supersedes(c, d) == c.frame > d.frame \/ (c.frame = d.frame /\ ListedAfter(c, d))

\* Identifiers are given out once.
UniqueInv ==
    /\ \A c \in issued : c.id < nextId[c.player]
    /\ \A c, d \in issued : c.player = d.player /\ c.id = d.id => c = d

RunAheadInv ==
    \A q \in Players : ~HasLeft(q) =>
        \/ RunAheads(q) = {} /\ runAhead[q] = InitialRunAhead
        \/ \E c \in RunAheads(q) :
             runAhead[q] = c.value /\ \A d \in RunAheads(q) : ~Supersedes(d, c)

LeftInv ==
    \A q \in Players : ~HasLeft(q) =>
        quit[q] = {c.player : c \in {d \in History(q) : d.type = "PLAYERLEAVE"}}

ViewInv == UniqueInv /\ RunAheadInv /\ LeftInv

\* An issued command has the next identifier of its player.
LEMMA IssueUnique ==
    ASSUME TypeOK, UniqueInv, NEW p \in Players, NEW c, c.player = p, c.id = nextId[p],
           SendLocalCommand(p, c)
    PROVE  UniqueInv'
<1>1. issued' = issued \cup {c} /\ nextId' = [nextId EXCEPT ![p] = @ + 1]
  BY DEF SendLocalCommand
<1>2. nextId \in [Players -> Nat] /\ \A d \in issued : d.player \in Players /\ d.id \in Nat
  BY DEF TypeOK, Command
<1>3. \A d \in issued' : d.id < nextId'[d.player]
  BY <1>1, <1>2 DEF UniqueInv
<1>4. \A d \in issued : d.player = p => d.id # c.id
  BY <1>2 DEF UniqueInv
<1>5. \A d, e \in issued' : d.player = e.player /\ d.id = e.id => d = e
  BY <1>1, <1>4 DEF UniqueInv
<1> QED BY <1>3, <1>5 DEF UniqueInv

\* Of the machines in the game, only one that executes a frame changes what follows from
\* its history.
LEMMA ViewUntouched ==
    ASSUME RunAheadInv, LeftInv, UNCHANGED <<executed, played>>,
           \A q \in Players : ~HasLeft(q)' =>
             ~HasLeft(q) /\ runAhead'[q] = runAhead[q] /\ quit'[q] = quit[q]
    PROVE  RunAheadInv' /\ LeftInv'
<1>1. \A q \in Players : History(q)' = History(q)
  BY DEF History
<1>2. \A q \in Players : RunAheads(q)' = RunAheads(q)
  BY <1>1 DEF RunAheads
<1>3. RunAheadInv'
  BY <1>2 DEF RunAheadInv, Supersedes, ListedAfter
<1>4. LeftInv'
  BY <1>1 DEF LeftInv
<1> QED BY <1>3, <1>4

LEMMA ExecuteFrameView ==
    ASSUME IInv, IInv', ViewInv, NEW q \in Players, ExecuteFrame(q)
    PROVE  ViewInv'
<1> DEFINE F == frame[q]
           cmds == FrameCommandList(q)
           runAheads == {c \in cmds : c.type = "RUNAHEAD"}
           leaving == {c.player : c \in {d \in cmds : d.type = "PLAYERLEAVE"}}
<1>1. /\ executed' = [executed EXCEPT ![q] =
             [f \in 0 .. F |-> IF f = F THEN cmds ELSE executed[q][f]]]
      /\ played' = [played EXCEPT ![q] = @ + 1]
      /\ quit' = [quit EXCEPT ![q] = @ \cup leaving]
      /\ status' = [status EXCEPT ![q] = IF q \in leaving THEN "LEFT" ELSE @]
      /\ UNCHANGED <<nextId, issued>>
      /\ ~HasLeft(q)
  BY DEF ExecuteFrame, RelayCommandsToCommandList, ProcessPlayerLeave
<1>2. /\ played \in [Players -> Nat] /\ played[q] = F
      /\ DOMAIN executed = Players /\ runAhead \in [Players -> Nat]
      /\ quit \in [Players -> SUBSET Players]
      /\ \A r \in Players : executed[r] \in [0 .. played[r] - 1 -> SUBSET Command]
      /\ \A r \in Players \ {q} : HasLeft(r)' = HasLeft(r)
  <2>1. played[q] = F BY <1>1 DEF IInv, PlayedInv
  <2>2. runAhead \in [Players -> Nat] BY RunAheadRange DEF IInv, TypeOK
  <2>3. \A r \in Players \ {q} : HasLeft(r)' = HasLeft(r) BY <1>1 DEF IInv, TypeOK, HasLeft
  <2> QED BY <2>1, <2>2, <2>3 DEF IInv, TypeOK
<1>3. UniqueInv'
  BY <1>1 DEF ViewInv, UniqueInv
<1>4. History(q)' = History(q) \cup cmds
  <2>1. \A f \in 0 .. F : executed'[q][f] = IF f = F THEN cmds ELSE executed[q][f]
    BY <1>1, <1>2
  <2>2. played'[q] - 1 = F /\ 0 .. F = (0 .. F - 1) \cup {F} /\ F \in Nat
    BY <1>1, <1>2
  <2>3. \A f \in 0 .. F - 1 : executed'[q][f] = executed[q][f]
    BY <1>2, <2>1
  <2>4. History(q) = UNION {executed[q][f] : f \in 0 .. F - 1}
    BY <1>2 DEF History
  <2>5. History(q)' = UNION {executed'[q][f] : f \in 0 .. F}
    BY <2>2 DEF History
  <2>6. executed'[q][F] = cmds
    BY <2>1, <2>2
  <2> HIDE DEF cmds
  <2> QED BY <2>2, <2>3, <2>4, <2>5, <2>6
<1>5. \A r \in Players \ {q} :
        History(r)' = History(r) /\ runAhead'[r] = runAhead[r] /\ quit'[r] = quit[r]
  <2>1. \A r \in Players \ {q} : runAhead'[r] = runAhead[r]
    BY <1>2 DEF ExecuteFrame, RelayCommandsToCommandList, ProcessRunAheadCommand
  <2> QED BY <1>1, <1>2, <2>1 DEF History
<1>6. \A c \in cmds : c.frame = F
  BY DEF FrameCommandList
<1>7. \A c \in History(q) : c.frame \in Nat /\ c.frame < F
  <2>1. \A f \in 0 .. F - 1 : executed[q][f] = {c \in issued : c.frame = f}
    BY <1>2 DEF IInv, ExecutedInv
  <2> QED BY <1>2, <2>1 DEF History
<1>8. LeftInv'
  <2> SUFFICES ASSUME NEW r \in Players, ~HasLeft(r)'
               PROVE  quit'[r] = {c.player : c \in {d \in History(r)' : d.type = "PLAYERLEAVE"}}
    BY DEF LeftInv
  <2>1. CASE r # q BY <1>2, <1>5, <2>1 DEF ViewInv, LeftInv
  <2>2. CASE r = q
    <3>1. quit'[q] = quit[q] \cup leaving BY <1>1, <1>2
    <3> QED BY <1>1, <1>4, <2>2, <3>1 DEF ViewInv, LeftInv
  <2> QED BY <2>1, <2>2
<1>9. RunAheads(q)' = RunAheads(q) \cup runAheads
  BY <1>4 DEF RunAheads
<1>10. \A r \in Players \ {q} : RunAheads(r)' = RunAheads(r)
  BY <1>5 DEF RunAheads
<1>11. \A c \in runAheads : c.frame = F /\ \A d \in RunAheads(q) : ~Supersedes(d, c) /\ d.frame < F
  BY <1>2, <1>6, <1>7 DEF RunAheads, Supersedes
<1>12. ProcessRunAheadCommand(q, cmds)
  BY DEF ExecuteFrame, RelayCommandsToCommandList
<1> HIDE DEF cmds
<1>13. RunAheadInv'
  <2> SUFFICES ASSUME NEW r \in Players, ~HasLeft(r)'
               PROVE  \/ RunAheads(r)' = {} /\ runAhead'[r] = InitialRunAhead
                      \/ \E c \in RunAheads(r)' :
                           runAhead'[r] = c.value /\ \A d \in RunAheads(r)' : ~Supersedes(d, c)
    BY DEF RunAheadInv, Supersedes, ListedAfter
  <2>1. CASE r # q BY <1>2, <1>5, <1>10, <2>1 DEF ViewInv, RunAheadInv
  <2>2. CASE r = q /\ runAheads = {}
    <3>1. runAhead' = runAhead BY <1>12, <2>2 DEF ProcessRunAheadCommand
    <3> QED BY <1>1, <1>9, <2>2, <3>1 DEF ViewInv, RunAheadInv
  <2>3. CASE r = q /\ runAheads # {}
    <3>1. PICK c \in runAheads : /\ \A d \in runAheads : ~ListedAfter(d, c)
                                 /\ runAhead' = [runAhead EXCEPT ![q] = c.value]
      BY <1>12, <2>3 DEF ProcessRunAheadCommand
    <3>2. \A d \in runAheads : d.frame = F /\ c.frame = F /\ F \in Nat BY <1>2, <1>11
    <3>3. \A d \in runAheads : ~Supersedes(d, c) BY <3>1, <3>2 DEF Supersedes
    <3>4. \A d \in RunAheads(q) : ~Supersedes(d, c) BY <1>11
    <3>5. runAhead'[q] = c.value BY <1>2, <3>1
    <3> QED BY <1>9, <2>3, <3>3, <3>4, <3>5
  <2> QED BY <2>1, <2>2, <2>3
<1> QED BY <1>3, <1>8, <1>13 DEF ViewInv

\* Machines in the game that are in the same frame have the same run-ahead and wait for the
\* same players.
THEOREM SameViewHolds == Spec => []SameView
<1>1. Init => ViewInv
  <2> SUFFICES ASSUME Init PROVE ViewInv
    OBVIOUS
  <2>1. \A q \in Players : 0 .. played[q] - 1 = {} BY DEF Init
  <2>2. \A q \in Players : History(q) = {} BY <2>1 DEF History
  <2> QED BY <2>2 DEF Init, ViewInv, UniqueInv, RunAheadInv, RunAheads, LeftInv
<1>2. IInv /\ IInv' /\ ViewInv /\ [Next]_vars => ViewInv'
  <2> SUFFICES ASSUME IInv, IInv', ViewInv, [Next]_vars PROVE ViewInv'
    OBVIOUS
  <2>1. CASE UNCHANGED vars
    BY <2>1, ViewUntouched DEF vars, ViewInv, UniqueInv, HasLeft
  <2>2. CASE \E p \in Players : ExecuteFrame(p) BY <2>2, ExecuteFrameView
  <2>3. ASSUME NEW p \in Players,
               ProcessFrameTick(p) \/ ReceiveCommand(p) \/ ReceiveFrameInfo(p) \/ EndOfGame(p)
        PROVE  ViewInv'
    <3>1. UNCHANGED <<executed, played, runAhead, quit, issued, nextId>>
      BY <2>3 DEF ProcessFrameTick, ReceiveCommand, ReceiveFrameInfo, EndOfGame, localVars
    <3>2. \A q \in Players : ~HasLeft(q)' => ~HasLeft(q)
      BY <2>3 DEF ProcessFrameTick, ReceiveCommand, ReceiveFrameInfo, EndOfGame, localVars,
                  IInv, TypeOK, HasLeft, MaySend
    <3> QED BY <3>1, <3>2, ViewUntouched DEF ViewInv, UniqueInv
  <2>4. ASSUME NEW p \in Players, SendLocalGameMessage(p) \/ UpdateRunAhead(p) \/ LeaveGame(p)
        PROVE  ViewInv'
    <3>1. UNCHANGED <<executed, played, runAhead, quit>>
      BY <2>4 DEF SendLocalGameMessage, UpdateRunAhead, LeaveGame
    <3>4. \A q \in Players : ~HasLeft(q)' => ~HasLeft(q)
      BY <2>4 DEF SendLocalGameMessage, UpdateRunAhead, LeaveGame, IInv, TypeOK, HasLeft, InGame
    <3>2. \E c : c.player = p /\ c.id = nextId[p] /\ SendLocalCommand(p, c)
      BY <2>4 DEF SendLocalGameMessage, UpdateRunAhead, LeaveGame, NewCommand
    <3>3. UniqueInv' BY <3>2, IssueUnique DEF IInv, ViewInv
    <3> QED BY <3>1, <3>3, <3>4, ViewUntouched DEF ViewInv
  <2>5. ASSUME NEW p \in Players, RunOn(p) PROVE ViewInv'
    <3>1. UNCHANGED <<executed, played, issued, nextId>> /\ HasLeft(p)
      BY <2>5 DEF RunOn
    <3>2. HasLeft(p)'
      BY <2>5 DEF RunOn, HasLeft, RelayCommandsToCommandList, ProcessPlayerLeave, IInv, TypeOK
    <3>3. \A q \in Players : ~HasLeft(q)' =>
            ~HasLeft(q) /\ runAhead'[q] = runAhead[q] /\ quit'[q] = quit[q]
      <4> SUFFICES ASSUME NEW q \in Players, ~HasLeft(q)'
                   PROVE  ~HasLeft(q) /\ runAhead'[q] = runAhead[q] /\ quit'[q] = quit[q]
        OBVIOUS
      <4>1. q # p BY <3>2
      <4>2. status'[q] = status[q] /\ quit'[q] = quit[q]
        BY <2>5, <4>1 DEF RunOn, RelayCommandsToCommandList, ProcessPlayerLeave, IInv, TypeOK
      <4>3. runAhead'[q] = runAhead[q]
        BY <2>5, <4>1
           DEF RunOn, RelayCommandsToCommandList, ProcessRunAheadCommand, IInv, TypeOK
      <4> QED BY <4>2, <4>3 DEF HasLeft
    <3> QED BY <3>1, <3>3, ViewUntouched DEF ViewInv, UniqueInv
  <2> QED BY <2>1, <2>2, <2>3, <2>4, <2>5 DEF Next, GameLoop, Receive, Issue
<1>3. IInv /\ ViewInv => SameView
  <2> SUFFICES ASSUME IInv, ViewInv, NEW p \in Players, NEW q \in Players,
                      ~HasLeft(p), ~HasLeft(q), frame[p] = frame[q]
               PROVE  runAhead[p] = runAhead[q] /\ quit[p] = quit[q]
    BY DEF SameView
  <2>0. played[p] = played[q] BY DEF IInv, PlayedInv
  <2>1. \A f \in 0 .. played[p] - 1 : executed[p][f] = executed[q][f]
    BY <2>0 DEF IInv, ExecutedInv
  <2>2. History(p) = History(q) BY <2>0, <2>1 DEF History
  <2>3. quit[p] = quit[q] BY <2>2 DEF ViewInv, LeftInv
  <2>4. RunAheads(p) = RunAheads(q) BY <2>2 DEF RunAheads
  <2>5. RunAheads(p) \subseteq issued
    BY DEF IInv, ExecutedInv, History, RunAheads
  <2>6. runAhead[p] = runAhead[q]
    <3>1. CASE RunAheads(p) = {} BY <2>4, <3>1 DEF ViewInv, RunAheadInv
    <3>2. CASE RunAheads(p) # {}
      <4>1. PICK c \in RunAheads(p) :
              runAhead[p] = c.value /\ \A d \in RunAheads(p) : ~Supersedes(d, c)
        BY <3>2 DEF ViewInv, RunAheadInv
      <4>2. PICK d \in RunAheads(p) :
              runAhead[q] = d.value /\ \A e \in RunAheads(p) : ~Supersedes(e, d)
        BY <2>4, <3>2 DEF ViewInv, RunAheadInv
      <4>3. ~Supersedes(c, d) /\ ~Supersedes(d, c) BY <4>1, <4>2
      <4>4. /\ c \in issued /\ d \in issued
            /\ c.frame \in Nat /\ d.frame \in Nat /\ c.id \in Nat /\ d.id \in Nat
            /\ c.player \in Int /\ d.player \in Int
        <5>1. c \in issued /\ d \in issued BY <2>5
        <5>2. issued \subseteq Command BY DEF IInv, TypeOK
        <5>3. \A e \in Command : e.frame \in Nat /\ e.id \in Nat /\ e.player \in Int
          BY NumPlayersAssumption DEF Command, Players
        <5> QED BY <5>1, <5>2, <5>3
      <4>5. c.player = d.player /\ c.id = d.id
        BY <4>3, <4>4 DEF Supersedes, ListedAfter
      <4>6. c = d BY <4>4, <4>5 DEF ViewInv, UniqueInv
      <4> QED BY <4>1, <4>2, <4>6
    <3> QED BY <3>1, <3>2
  <2> QED BY <2>3, <2>6
<1> QED BY <1>1, <1>2, <1>3, Invariance, PTL DEF Spec
=============================================================================
