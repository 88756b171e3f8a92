--------------------------- MODULE DisconnectProofs ---------------------------
(***************************************************************************)
(* Proofs about Disconnect, for every number of players, every number of   *)
(* frames and whoever may crash, quit or vote.                             *)
(*                                                                         *)
(* The types hold without further conditions.  Most other theorems are     *)
(* about a calm game: no more than one player has failed and nobody has    *)
(* voted.  The argument: a player is only timed out if their machine       *)
(* failed or dropped the one that waits, and without votes nobody is       *)
(* dropped but by a time-out or their own word; so whoever is dropped has  *)
(* failed, and the machine that has a player destroyed looks for the first *)
(* one in the plan among all the others.  It has heard that each of them   *)
(* is in its own frame, and what a machine says of its frame is never      *)
(* taken back; so nobody drops the player in an earlier frame.             *)
(*                                                                         *)
(* The theorem about votes, at the end, is about the time until a second   *)
(* player is dropped, whoever has failed by then.                          *)
(***************************************************************************)
EXTENDS Disconnect, FiniteSetTheorems, WellFoundedInduction, TLAPS

--------------------------------------------------------------------------------
(* The first in the plan of some players is one of them, and before the others. *)
LEMMA FirstInPlanFacts ==
  ASSUME NEW ps, ps \subseteq Players, ps # {}
  PROVE  FirstInPlan(ps) \in ps /\ \A r \in ps : FirstInPlan(ps) <= r
<1>1. ps \subseteq Nat BY DisconnectAssumption DEF Players
<1>2. PICK q \in ps : \A r \in ps : ~ (<<r, q>> \in OpToRel(<, Nat))
  BY <1>1, NatLessThanWellFounded, WFMin
<1>3. ASSUME NEW r \in ps PROVE q <= r
  <2>1. r \in Nat /\ q \in Nat BY <1>1
  <2>2. ~ (r < q)
    <3> SUFFICES ASSUME r < q PROVE FALSE OBVIOUS
    <3>1. <<r, q>> \in OpToRel(<, Nat) BY <2>1, Zenon DEF OpToRel
    <3> QED BY <1>2, <3>1
  <2> QED BY <2>1, <2>2
<1> QED BY <1>3, Zenon DEF FirstInPlan

(* What the messages of each kind of sending are. *)
LEMMA DirectMessages ==
  ASSUME NEW type, NEW m, NEW to, NEW body, NEW x \in SendDirect(type, m, to, body)
  PROVE  x.type = type /\ x.from = m /\ x.to \in to /\ x.body = body
BY DEF SendDirect, Message

LEMMA LocalCommandMessages ==
  ASSUME NEW m, NEW r, NEW peers, NEW cs, NEW x \in SendLocalCommands(m, r, peers, cs)
  PROVE  x.type = "COMMAND" /\ x.from = m /\ x.to \in peers \cup {r} /\ x.body \in cs
<1>1. PICK c \in cs :
        x \in IF r = m THEN SendDirect("COMMAND", m, peers, c)
              ELSE {Message("COMMAND", m, r, c, Others(m))}
  BY DEF SendLocalCommands
<1>2. CASE r = m
  <2>1. x \in SendDirect("COMMAND", m, peers, c) BY <1>1, <1>2
  <2> QED BY <2>1, DirectMessages
<1>3. CASE r # m
  <2>1. x = Message("COMMAND", m, r, c, Others(m)) BY <1>1, <1>3
  <2> QED BY <2>1 DEF Message
<1> QED BY <1>2, <1>3

LEMMA FrameDataMessages ==
  ASSUME NEW m, NEW to, NEW f, NEW x \in FrameData(m, to, f)
  PROVE  x.type = "COMMAND" /\ x.from = m /\ x.to = to /\ x.body \in received[m]
<1>1. PICK c \in received[m] : x \in SendDirect("COMMAND", m, {to}, c)
  BY DEF FrameData
<1> QED BY <1>1, DirectMessages

LEMMA CatchUpMessages ==
  ASSUME NEW m, NEW fs, NEW ks, NEW x \in CatchUp(m, fs, ks)
  PROVE  x.type = "COMMAND" /\ x.from = m /\ x.to \in Others(m) /\ x.body \in received[m]
<1>1. PICK p \in Others(m) : x \in FrameData(m, p, fs[p])
  BY DEF CatchUp
<1> QED BY <1>1, FrameDataMessages

(* Forgetting votes only makes them 0. *)
LEMMA ResetVotesFacts ==
  ASSUME NEW vs \in [Players -> [Players -> 0 .. End]], NEW q \in Players, NEW f
  PROVE  /\ ResetVotes(vs, q, f) \in [Players -> [Players -> 0 .. End]]
         /\ \A p, r \in Players : ResetVotes(vs, q, f)[p][r] \in {0, vs[p][r]}
<1>1. 0 \in 0 .. End BY DisconnectAssumption DEF End
<1>2. ASSUME NEW p \in Players
      PROVE  /\ ResetVotes(vs, q, f)[p] \in [Players -> 0 .. End]
             /\ \A r \in Players : ResetVotes(vs, q, f)[p][r] \in {0, vs[p][r]}
  <2> DEFINE v == IF vs[p][q] <= f THEN 0 ELSE vs[p][q]
  <2>1. ResetVotes(vs, q, f)[p] = [vs[p] EXCEPT ![q] = v] BY DEF ResetVotes
  <2>2. v \in 0 .. End /\ v \in {0, vs[p][q]} BY <1>1
  <2> HIDE DEF v
  <2> QED BY <2>1, <2>2
<1> QED BY <1>2 DEF ResetVotes

--------------------------------------------------------------------------------
(* A message is one that some machine may have sent, with what the code puts in   *)
(* it, and it has an effect where it is going.                                    *)
Formed(x) ==
    /\ x.from \in Players /\ x.to \in Players
    /\ x.type = "COMMAND" => x.body \in Command
    /\ x.type \in {"FRAME", "SCREENOFF"} => x.body \in 1 .. frame[x.from] /\ x.from # x.to
    /\ x.type = "VOTE" => x.body[1] \in Players /\ x.body[2] \in 0 .. End
    /\ x.type = "DISCONNECT" => x.body[1] \in Players
Live(x) ==
    /\ x.to \notin down
    /\ x.type # "COMMAND" => lastFrame[x.to][x.from] = 0
    /\ x.type = "DISCONNECT" => x.body[1] # x.to /\ lastFrame[x.to][x.body[1]] = 0
SoundMessages == \A x \in net : Formed(x) /\ Live(x)

TypeInv == TypeOK /\ SoundMessages

(* The numbers of the model. *)
LEMMA Numbers == NumPlayers \in Nat /\ MaxFrame \in Nat /\ End \in Nat /\ 1 \in 1 .. End /\ 0 \in 0 .. End
BY DisconnectAssumption DEF End

(* No machine goes back to an earlier frame. *)
FramesGoOn == \A m \in Players : frame'[m] >= frame[m]

LEMMA StillFormed ==
  ASSUME TypeOK, TypeOK', FramesGoOn, NEW x, Formed(x)
  PROVE  Formed(x)'
<1>1. \A m \in Players : frame[m] \in Nat /\ frame'[m] \in Nat /\ frame'[m] >= frame[m]
  BY Numbers DEF TypeOK, FramesGoOn
<1>2. x.type \in {"FRAME", "SCREENOFF"} => x.body \in 1 .. frame'[x.from]
  BY <1>1 DEF Formed
<1> QED BY <1>2 DEF Formed

(* What is carried on is sound if it was sent so. *)
LEMMA CarrySound ==
  ASSUME NEW msgs, Carry(msgs), \A x \in msgs : Formed(x)'
  PROVE  SoundMessages'
BY DEF Carry, Idle, SoundMessages, Live, Formed

(* What is sent in a step and what was under way before are all there may be. *)
LEMMA SentSound ==
  ASSUME TypeInv, TypeOK', FramesGoOn, NEW sent, \A x \in sent : Formed(x)',
         NEW msgs, msgs \subseteq net \cup sent, Carry(msgs)
  PROVE  SoundMessages'
<1>1. \A x \in msgs : Formed(x)' BY StillFormed DEF TypeInv, SoundMessages
<1> QED BY <1>1, CarrySound

LEMMA NothingSentSound ==
  ASSUME TypeInv, TypeOK', FramesGoOn, NEW msgs, msgs \subseteq net, Carry(msgs)
  PROVE  SoundMessages'
<1>1. \A x \in msgs : Formed(x)' BY StillFormed DEF TypeInv, SoundMessages
<1> QED BY <1>1, CarrySound

--------------------------------------------------------------------------------
(* Each kind of step keeps the types. *)
LEMMA TypeInit == Init => TypeInv
<1> SUFFICES ASSUME Init PROVE TypeInv OBVIOUS
<1>1. PICK late \in Delayed : InitCommands(late) BY DEF Init
<1>2. late \subseteq Players BY DisconnectAssumption
<1>3. received \in [Players -> SUBSET Command] BY <1>1 DEF InitCommands
<1>4. TypeOK BY <1>3, Numbers DEF Init, TypeOK
<1>5. ASSUME NEW x \in net PROVE Formed(x) /\ Live(x)
  <2>1. PICK m \in late : x \in SendLocalCommands(m, 0, Others(m), {m} \X (1 .. MaxFrame))
    BY <1>1 DEF InitCommands
  <2>2. /\ x.type = "COMMAND" /\ x.from = m /\ x.to \in Others(m) \cup {0}
        /\ x.body \in {m} \X (1 .. MaxFrame)
    BY <2>1, LocalCommandMessages
  <2>3. 0 \in Players BY DisconnectAssumption DEF Players
  <2>4. x.body \in Command /\ x.to \in Players BY <1>2, <2>2, <2>3 DEF Command, Others
  <2> QED BY <1>2, <2>2, <2>4 DEF Formed, Live, Init
<1> QED BY <1>4, <1>5 DEF TypeInv, SoundMessages

LEMMA TypeWait ==
  ASSUME TypeInv, NEW m \in Up, NEW p \in Others(m), TurnOnScreen(m) \/ TimeOut(m, p)
  PROVE  TypeInv'
<1>1. TypeOK'
  <2>1. CASE TurnOnScreen(m)
    BY <2>1 DEF TypeInv, TypeOK, TurnOnScreen, game, heard, history, Up
  <2>2. CASE TimeOut(m, p)
    BY <2>2 DEF TypeInv, TypeOK, TimeOut, game, heard, history, Up, Others
  <2> QED BY <2>1, <2>2
<1>2. UNCHANGED <<frame, lastFrame, down, net>>
  BY DEF TurnOnScreen, TimeOut, game
<1> QED BY <1>1, <1>2 DEF TypeInv, SoundMessages, Formed, Live

LEMMA TypeNotify ==
  ASSUME TypeInv, NEW m \in Up, NotifyOthersOfCurrentFrame(m)
  PROVE  TypeInv'
<1> DEFINE news == frames[m][m] < frame[m]
           fs == [frames[m] EXCEPT ![m] = frame[m]]
           told == SendDirect("FRAME", m, PeersOf(m), frame[m])
           caught == IF news THEN CatchUp(m, fs, known[m]) ELSE {}
<1>0. m \in Players /\ frame[m] \in 1 .. End /\ frame[m] \in 0 .. End
  BY Numbers DEF Up, TypeInv, TypeOK
<1>1. /\ m \in screen \ notified /\ notified' = notified \cup {m}
      /\ frames' = IF news THEN [frames EXCEPT ![m] = fs] ELSE frames
      /\ votes' = IF news THEN [votes EXCEPT ![m] = ResetVotes(votes[m], m, frame[m] - 1)] ELSE votes
      /\ UNCHANGED <<screen, expired, known, down, frame, received, lastFrame>>
      /\ Carry(net \cup told \cup caught)
  BY DEF NotifyOthersOfCurrentFrame, game
<1> HIDE DEF news, told, caught
<1>2. votes' \in [Players -> [Players -> [Players -> 0 .. End]]]
  BY <1>0, <1>1, ResetVotesFacts DEF TypeInv, TypeOK
<1>3. /\ frames' \in [Players -> [Players -> 0 .. End]]
      /\ \A n, p \in Players : frames'[n][p] <= frame[p]
  BY <1>0, <1>1, Numbers DEF TypeInv, TypeOK
<1>4. TypeOK' BY <1>1, <1>2, <1>3 DEF TypeInv, TypeOK
<1>5. FramesGoOn BY <1>1, Numbers DEF FramesGoOn, TypeInv, TypeOK
<1>6. ASSUME NEW x \in told \cup caught PROVE Formed(x)'
  <2>1. CASE x \in told
    <3>1. x.type = "FRAME" /\ x.from = m /\ x.to \in PeersOf(m) /\ x.body = frame[m]
      BY <2>1, DirectMessages DEF told
    <3> QED BY <1>0, <1>1, <3>1 DEF Formed, PeersOf, Connected
  <2>2. CASE x \in caught
    <3>1. x.type = "COMMAND" /\ x.from = m /\ x.to \in Others(m) /\ x.body \in received[m]
      BY <2>2, CatchUpMessages DEF caught
    <3> QED BY <1>0, <3>1 DEF Formed, Others, TypeInv, TypeOK
  <2> QED BY <2>1, <2>2
<1>7. SoundMessages'
  <2>1. net \cup told \cup caught \subseteq net \cup (told \cup caught) OBVIOUS
  <2> QED BY <1>1, <1>4, <1>5, <1>6, <2>1, SentSound
<1> QED BY <1>4, <1>7 DEF TypeInv

LEMMA TypeVote ==
  ASSUME TypeInv, NEW m \in Up, NEW p \in Others(m), Vote(m, p)
  PROVE  TypeInv'
<1>0. m \in Players /\ p \in Players /\ frame[m] \in 1 .. End /\ frame[m] \in 0 .. End
  BY Numbers DEF Up, Others, TypeInv, TypeOK
<1>1. TypeOK' /\ FramesGoOn
  BY <1>0, Numbers DEF Vote, TypeInv, TypeOK, FramesGoOn, game, clock
<1>2. ASSUME NEW x \in SendDirect("VOTE", m, PeersOf(m), <<p, frame[m]>>) PROVE Formed(x)'
  <2>1. x.type = "VOTE" /\ x.from = m /\ x.to \in PeersOf(m) /\ x.body = <<p, frame[m]>>
    BY DirectMessages
  <2> QED BY <1>0, <2>1 DEF Formed, PeersOf, Connected
<1>3. SoundMessages'
  <2>1. Carry(net \cup SendDirect("VOTE", m, PeersOf(m), <<p, frame[m]>>)) BY DEF Vote
  <2> QED BY <1>1, <1>2, <2>1, SentSound
<1> QED BY <1>1, <1>3 DEF TypeInv

LEMMA TypeReady ==
  ASSUME TypeInv, NEW m \in Up, AllCommandsReady(m)
  PROVE  TypeInv'
<1>0. m \in Players /\ frame[m] \in 1 .. End /\ frame[m] \in 0 .. End
  BY Numbers DEF Up, TypeInv, TypeOK
<1>1. votes' \in [Players -> [Players -> [Players -> 0 .. End]]]
  BY <1>0, ResetVotesFacts DEF AllCommandsReady, TypeInv, TypeOK
<1>2. /\ frames' \in [Players -> [Players -> 0 .. End]]
      /\ \A n, p \in Players : frames'[n][p] <= frame[p]
  BY <1>0, Numbers DEF AllCommandsReady, TypeInv, TypeOK
<1>3. TypeOK' /\ FramesGoOn
  BY <1>0, <1>1, <1>2, Numbers DEF AllCommandsReady, TypeInv, TypeOK, FramesGoOn, game
<1>4. ASSUME NEW x \in SendDirect("SCREENOFF", m, PeersOf(m), frame[m]) PROVE Formed(x)'
  <2>1. x.type = "SCREENOFF" /\ x.from = m /\ x.to \in PeersOf(m) /\ x.body = frame[m]
    BY DirectMessages
  <2>2. frame' = frame BY DEF AllCommandsReady, game
  <2> QED BY <1>0, <2>1, <2>2 DEF Formed, PeersOf, Connected
<1>5. SoundMessages'
  <2>1. Carry(net \cup SendDirect("SCREENOFF", m, PeersOf(m), frame[m])) BY DEF AllCommandsReady
  <2> QED BY <1>3, <1>4, <2>1, SentSound
<1> QED BY <1>3, <1>5 DEF TypeInv

LEMMA TypeExecute ==
  ASSUME TypeInv, NEW m \in Up, ExecuteFrame(m)
  PROVE  TypeInv'
<1>1. m \in Players /\ frame[m] \in 1 .. End /\ frame[m] <= MaxFrame
  BY DEF Up, TypeInv, TypeOK, ExecuteFrame, Ready
<1>2. frame' \in [Players -> 1 .. End] /\ FramesGoOn
  BY <1>1, Numbers DEF ExecuteFrame, TypeInv, TypeOK, FramesGoOn, End
<1>3. \A n, p \in Players : frames[n][p] <= frame'[p]
  BY <1>1, <1>2, Numbers DEF TypeInv, TypeOK, FramesGoOn
<1>4. TypeOK' BY <1>1, <1>2, <1>3 DEF ExecuteFrame, TypeInv, TypeOK, heard, history
<1>5. Carry(net) BY DEF ExecuteFrame
<1> QED BY <1>2, <1>4, <1>5, NothingSentSound DEF TypeInv

(* A player other than the machine's own is dropped, and what is sent is sound. *)
LEMMA TypeDisconnectPlayer ==
  ASSUME TypeInv, NEW m \in Up, NEW p \in Others(m),
         NEW sent, \A x \in sent : Formed(x),
         NEW queued, queued \subseteq net \cup sent, DisconnectPlayer(m, p, queued)
  PROVE  TypeInv'
<1> DEFINE peers == PeersOf(m) \ {p}
           resent == IF p = PacketRouter(m) THEN ResendPendingCommands(m, peers) ELSE {}
<1>1. m \in Players /\ p \in Players /\ p # m /\ frame[m] \in 0 .. End
  BY Numbers DEF Up, Others, TypeInv, TypeOK
<1>2. /\ lastFrame' = [lastFrame EXCEPT ![m][p] = frame[m]]
      /\ received' = [received EXCEPT ![m] = {c \in received[m] : Owner(c) # p}]
      /\ UNCHANGED <<frame, down, screen, notified, expired, frames, known, votes>>
      /\ Carry({x \in queued : ~(x.from = m /\ x.to = p)} \cup resent)
  BY DEF DisconnectPlayer, clock, heard
<1>3. TypeOK' /\ FramesGoOn BY <1>1, <1>2, Numbers DEF TypeInv, TypeOK, FramesGoOn
<1>4. ASSUME NEW x \in resent PROVE Formed(x)
  <2> DEFINE r == FirstInPlan(peers \cup {m})
  <2>1. x \in SendLocalCommands(m, r, peers, Pending(m, peers)) BY DEF ResendPendingCommands
  <2>2. peers \subseteq Players BY DEF PeersOf, Connected
  <2> HIDE DEF peers
  <2>3. r \in Players BY <1>1, <2>2, FirstInPlanFacts
  <2> HIDE DEF r
  <2>4. x.type = "COMMAND" /\ x.from = m /\ x.to \in peers \cup {r} /\ x.body \in Pending(m, peers)
    BY <2>1, LocalCommandMessages
  <2>5. Pending(m, peers) \subseteq Command BY <1>1 DEF Pending, TypeInv, TypeOK
  <2> QED BY <1>1, <2>2, <2>3, <2>4, <2>5 DEF Formed
<1> HIDE DEF resent
<1>5. \A x \in sent \cup resent : Formed(x)' BY <1>2, <1>4 DEF Formed, End
<1>6. {x \in queued : ~(x.from = m /\ x.to = p)} \cup resent \subseteq net \cup (sent \cup resent)
  OBVIOUS
<1>7. SoundMessages' BY <1>2, <1>3, <1>5, <1>6, SentSound
<1> QED BY <1>3, <1>7 DEF TypeInv

LEMMA TypeUpdate ==
  ASSUME TypeInv, NEW m \in Up, NEW p \in Others(m), UpdateDisconnectStatus(m, p)
  PROVE  TypeInv'
<1> DEFINE named == Max({frames[m][q] : q \in Players})
           sent == SendDisconnectCommand(m, p, named)
<1>1. DisconnectPlayer(m, p, net \cup sent) BY DEF UpdateDisconnectStatus
<1> HIDE DEF named
<1>2. m \in Players /\ p \in Players BY DEF Up, Others
<1>3. ASSUME NEW x \in sent PROVE Formed(x)
  <2>1. x.type = "DISCONNECT" /\ x.from = m /\ x.to \in PeersOf(m) /\ x.body = <<p, named>>
    BY DirectMessages DEF SendDisconnectCommand
  <2> QED BY <1>2, <2>1 DEF Formed, PeersOf, Connected
<1> HIDE DEF sent
<1>4. net \cup sent \subseteq net \cup sent OBVIOUS
<1> QED BY <1>1, <1>3, <1>4, TypeDisconnectPlayer

LEMMA TypeReceive ==
  ASSUME TypeInv, NEW x \in net, Receive(x)
  PROVE  TypeInv'
<1> DEFINE m == x.to
<1>1. /\ Formed(x) /\ m \in Up /\ m \in Players /\ x.from \in Players
      /\ x.type = "DISCONNECT" => x.body[1] \in Others(m)
  BY DEF TypeInv, SoundMessages, Formed, Live, Up, Others
<1>2. CASE ReceiveCommand(x)
  <2> DEFINE sent == SendDirect("COMMAND", m, x.relay \cap PeersOf(m), x.body)
  <2>1. /\ x.body \in Command
        /\ received' = [received EXCEPT ![m] = received[m] \cup {x.body}]
        /\ UNCHANGED <<frame, lastFrame, down, screen, notified, expired, frames, known, votes>>
        /\ Carry((net \ {x}) \cup sent)
    BY <1>1, <1>2 DEF ReceiveCommand, Formed, clock, heard
  <2>2. TypeOK' /\ FramesGoOn BY <1>1, <2>1, Numbers DEF TypeInv, TypeOK, FramesGoOn
  <2>3. ASSUME NEW y \in sent PROVE Formed(y)'
    <3>1. y.type = "COMMAND" /\ y.from = m /\ y.to \in x.relay \cap PeersOf(m) /\ y.body = x.body
      BY DirectMessages
    <3> QED BY <1>1, <2>1, <3>1 DEF Formed, PeersOf, Connected
  <2> HIDE DEF sent
  <2>4. (net \ {x}) \cup sent \subseteq net \cup sent OBVIOUS
  <2> QED BY <2>1, <2>2, <2>3, <2>4, SentSound DEF TypeInv
<1>3. CASE ProcessDisconnectFrame(x)
  <2> DEFINE q == x.from
             sent == IF x.body < frames[m][m] THEN FrameData(m, q, x.body) ELSE {}
  <2>1. /\ x.body \in 1 .. frame[q]
        /\ frames' = [frames EXCEPT ![m][q] = x.body]
        /\ known' = [known EXCEPT ![m] = known[m] \cup {q}]
        /\ votes' = [votes EXCEPT ![m] = ResetVotes(votes[m], q, x.body - 1)]
        /\ UNCHANGED <<frame, received, lastFrame, down, screen, notified, expired>>
        /\ Carry((net \ {x}) \cup sent)
    BY <1>1, <1>3 DEF ProcessDisconnectFrame, Formed, clock, game
  <2>2. votes' \in [Players -> [Players -> [Players -> 0 .. End]]]
    BY <1>1, <2>1, ResetVotesFacts DEF TypeInv, TypeOK
  <2>3. x.body \in 0 .. End /\ x.body <= frame[q] BY <1>1, <2>1, Numbers DEF TypeInv, TypeOK
  <2>4. frames' \in [Players -> [Players -> 0 .. End]] /\ \A n, p \in Players : frames'[n][p] <= frame[p]
    BY <1>1, <2>1, <2>3, Numbers DEF TypeInv, TypeOK
  <2>5. TypeOK' /\ FramesGoOn BY <1>1, <2>1, <2>2, <2>4, Numbers DEF TypeInv, TypeOK, FramesGoOn
  <2>6. ASSUME NEW y \in sent PROVE Formed(y)'
    <3>1. y.type = "COMMAND" /\ y.from = m /\ y.to = q /\ y.body \in received[m]
      BY FrameDataMessages
    <3> QED BY <1>1, <3>1 DEF Formed, TypeInv, TypeOK
  <2> HIDE DEF sent
  <2>7. (net \ {x}) \cup sent \subseteq net \cup sent OBVIOUS
  <2> QED BY <2>1, <2>5, <2>6, <2>7, SentSound DEF TypeInv
<1>4. CASE ProcessDisconnectScreenOff(x)
  <2> DEFINE q == x.from
  <2>1. /\ x.body \in 1 .. frame[q]
        /\ frames' = [frames EXCEPT ![m][q] = x.body]
        /\ known' = [known EXCEPT ![m] = known[m] \ {q}]
        /\ votes' = [votes EXCEPT ![m] = ResetVotes(votes[m], q, x.body)]
        /\ UNCHANGED <<frame, received, lastFrame, down, screen, notified, expired>>
        /\ Carry(net \ {x})
    BY <1>1, <1>4 DEF ProcessDisconnectScreenOff, Formed, clock, game
  <2>2. votes' \in [Players -> [Players -> [Players -> 0 .. End]]]
    BY <1>1, <2>1, ResetVotesFacts DEF TypeInv, TypeOK
  <2>3. x.body \in 0 .. End /\ x.body <= frame[q] BY <1>1, <2>1, Numbers DEF TypeInv, TypeOK
  <2>4. frames' \in [Players -> [Players -> 0 .. End]] /\ \A n, p \in Players : frames'[n][p] <= frame[p]
    BY <1>1, <2>1, <2>3, Numbers DEF TypeInv, TypeOK
  <2>5. TypeOK' /\ FramesGoOn BY <1>1, <2>1, <2>2, <2>4, Numbers DEF TypeInv, TypeOK, FramesGoOn
  <2>6. net \ {x} \subseteq net OBVIOUS
  <2> QED BY <2>1, <2>5, <2>6, NothingSentSound DEF TypeInv
<1>5. CASE ProcessDisconnectVote(x)
  <2>1. /\ x.body[1] \in Players /\ x.body[2] \in 0 .. End
        /\ \/ votes' = [votes EXCEPT ![m][x.body[1]][x.from] = x.body[2]]
           \/ votes' = votes
        /\ UNCHANGED <<frames, known, down, frame, received, lastFrame, screen, notified, expired>>
        /\ Carry(net \ {x})
    BY <1>1, <1>5 DEF ProcessDisconnectVote, Formed, clock, game
  <2>2. votes' \in [Players -> [Players -> [Players -> 0 .. End]]]
    <3>1. votes \in [Players -> [Players -> [Players -> 0 .. End]]] BY DEF TypeInv, TypeOK
    <3> DEFINE row == [votes[m][x.body[1]] EXCEPT ![x.from] = x.body[2]]
               table == [votes[m] EXCEPT ![x.body[1]] = row]
    <3>2. row \in [Players -> 0 .. End] BY <1>1, <2>1, <3>1
    <3>3. votes' = [votes EXCEPT ![m] = table] \/ votes' = votes BY <2>1
    <3> HIDE DEF row
    <3>4. table \in [Players -> [Players -> 0 .. End]] BY <1>1, <2>1, <3>1, <3>2
    <3> HIDE DEF table
    <3> QED BY <1>1, <3>1, <3>3, <3>4
  <2>3. TypeOK' /\ FramesGoOn BY <1>1, <2>1, <2>2, Numbers DEF TypeInv, TypeOK, FramesGoOn
  <2>4. net \ {x} \subseteq net OBVIOUS
  <2> QED BY <2>1, <2>3, <2>4, NothingSentSound DEF TypeInv
<1>6. CASE ProcessDisconnectPlayer(x)
  <2>1. DisconnectPlayer(m, x.body[1], net \ {x}) /\ x.body[1] \in Others(m)
    BY <1>1, <1>6 DEF ProcessDisconnectPlayer
  <2>2. \A y \in {} : Formed(y) OBVIOUS
  <2>3. net \ {x} \subseteq net \cup {} OBVIOUS
  <2> HIDE DEF m
  <2> QED BY <1>1, <2>1, <2>2, <2>3, TypeDisconnectPlayer
<1> QED BY <1>2, <1>3, <1>4, <1>5, <1>6 DEF Receive

LEMMA TypeGoDown ==
  ASSUME TypeInv, NEW m \in Up, Crash(m) \/ QuitGame(m)
  PROVE  TypeInv'
<1>1. PICK told \in SUBSET Players :
        GoDown(m, SendDirect("DISCONNECT", m, told, <<m, frame[m]>>))
  <2>1. CASE Crash(m)
    <3>1. SendDirect("DISCONNECT", m, {}, <<m, frame[m]>>) = {} BY DEF SendDirect
    <3> QED BY <2>1, <3>1 DEF Crash
  <2>2. CASE QuitGame(m)
    <3>1. PeersOf(m) \ down \subseteq Players BY DEF PeersOf, Connected
    <3> QED BY <2>2, <3>1 DEF QuitGame
  <2> QED BY <2>1, <2>2
<1> DEFINE sent == SendDirect("DISCONNECT", m, told, <<m, frame[m]>>)
<1>2. m \in Players BY DEF Up
<1>3. TypeOK' /\ FramesGoOn
  BY <1>1, <1>2, Numbers DEF GoDown, TypeInv, TypeOK, FramesGoOn, history
<1>4. ASSUME NEW x \in sent PROVE Formed(x)'
  <2>1. x.type = "DISCONNECT" /\ x.from = m /\ x.to \in told /\ x.body = <<m, frame[m]>>
    BY DirectMessages
  <2> QED BY <1>2, <2>1 DEF Formed
<1>5. Carry({x \in net : x.from # m} \cup sent) BY <1>1 DEF GoDown
<1> HIDE DEF sent
<1>6. {x \in net : x.from # m} \cup sent \subseteq net \cup sent OBVIOUS
<1> QED BY <1>3, <1>4, <1>5, <1>6, SentSound DEF TypeInv

LEMMA TypeNext ==
  ASSUME TypeInv, [Next]_vars
  PROVE  TypeInv'
<1>1. ASSUME NEW m \in Up, TurnOnScreen(m) PROVE TypeInv'
  <2>1. PICK p \in Players : p # m
    <3>1. 0 \in Players /\ 1 \in Players BY DisconnectAssumption DEF Players
    <3> QED BY <3>1
  <2> QED BY <1>1, <2>1, TypeWait DEF Others
<1>2. ASSUME NEW m \in Up, NotifyOthersOfCurrentFrame(m) PROVE TypeInv' BY <1>2, TypeNotify
<1>3. ASSUME NEW m \in Up, AllCommandsReady(m) PROVE TypeInv' BY <1>3, TypeReady
<1>4. ASSUME NEW m \in Up, ExecuteFrame(m) PROVE TypeInv' BY <1>4, TypeExecute
<1>5. ASSUME NEW m \in Up, NEW p \in Others(m), TimeOut(m, p) PROVE TypeInv' BY <1>5, TypeWait
<1>6. ASSUME NEW m \in Up, NEW p \in Others(m), UpdateDisconnectStatus(m, p) PROVE TypeInv'
  BY <1>6, TypeUpdate
<1>7. ASSUME NEW x \in net, Receive(x) PROVE TypeInv' BY <1>7, TypeReceive
<1>8. ASSUME NEW m \in Up, Crash(m) \/ QuitGame(m) PROVE TypeInv' BY <1>8, TypeGoDown
<1>9. ASSUME NEW m \in Up, NEW p \in Others(m), Vote(m, p) PROVE TypeInv' BY <1>9, TypeVote
<1>10. CASE UNCHANGED vars
  BY <1>10 DEF vars, game, clock, heard, history, TypeInv, TypeOK, SoundMessages, Formed, Live
<1> QED BY <1>1, <1>2, <1>3, <1>4, <1>5, <1>6, <1>7, <1>8, <1>9, <1>10 DEF Next, System

(* Every variable keeps the values the code can give it: no machine drops itself, *)
(* knows more of another's frame than the other has reached, or tells its frame   *)
(* without showing the screen.                                                    *)
THEOREM TypeInvariance == Spec => []TypeInv
<1>1. Init => TypeInv BY TypeInit
<1>2. TypeInv /\ [Next]_vars => TypeInv' BY TypeNext
<1> QED BY <1>1, <1>2, PTL DEF Spec

THEOREM TypeCorrect == Spec => []TypeOK
<1>1. TypeInv => TypeOK BY DEF TypeInv
<1> QED BY <1>1, TypeInvariance, PTL

--------------------------------------------------------------------------------
(* No more than one player has failed, and nobody has voted. *)
Calm == cast = {} /\ \A p, q \in down : p = q

Tells(x, p) == x.type = "DISCONNECT" /\ x.body[1] = p

NoVotes == (\A m, p, q \in Players : votes[m][p][q] = 0) /\ \A x \in net : x.type # "VOTE"

\* Whoever is dropped, timed out or to be dropped has failed.
OnlyFailed ==
    /\ \A m, p \in Players : lastFrame[m][p] # 0 \/ p \in expired[m] => p \in down
    /\ \A x \in net : \A p \in Players : Tells(x, p) => p \in down

Told == \A m \in notified : frames[m][m] = frame[m]

\* A machine has what it executed, of the players that it has not dropped.
Executed ==
    \A m \in Up : \A q \in Connected(m) : \A f \in 1 .. frame[m] - 1 : <<q, f>> \in received[m]

\* What is true of a destruction that was commanded: everyone still there is as far as the
\* machine that commanded it was, drops the player no earlier, and is told.
Commanded(d) ==
    /\ d.player \in down /\ d.by \in Players /\ d.by = FirstInPlan(Players \ {d.player})
    /\ lastFrame[d.by][d.player] # 0
    /\ \A m \in Up :
         /\ frame[m] >= lastFrame[d.by][d.player]
         /\ d.player \notin Quitters /\ lastFrame[m][d.player] # 0 =>
              lastFrame[m][d.player] >= lastFrame[d.by][d.player]
         /\ \/ lastFrame[m][d.player] # 0
            \/ \E x \in net : x.to = m /\ x.from = d.by /\ Tells(x, d.player)

Destruction == \A d \in destroyed : Commanded(d)

\* Nobody drops a player who did not quit unless the player's destruction was commanded.
Named ==
    \A p \in Players \ Quitters :
        (\E m \in Players : lastFrame[m][p] # 0) \/ (\E x \in net : Tells(x, p)) =>
            \E d \in destroyed : d.player = p

CalmInv == NoVotes /\ OnlyFailed /\ Told /\ Executed /\ Destruction /\ Named

IInv == TypeInv /\ (Calm => CalmInv)

(* Without votes nobody is voted out. *)
LEMMA NobodyVotedOut ==
  ASSUME TypeInv, NoVotes, NEW m \in Players, NEW p \in PeersOf(m)
  PROVE  ~VotedOut(m, p)
<1>1. m \in Connected(m) /\ p \in Connected(m) /\ p # m /\ p \in Players
  BY DEF PeersOf, Connected, TypeInv, TypeOK
<1>2. Votes(m, p) = {}
  <2>1. frame[m] # 0 BY Numbers DEF TypeInv, TypeOK
  <2> QED BY <1>1, <2>1 DEF Votes, NoVotes
<1>3. Cardinality(Votes(m, p)) = 0 BY <1>2, FS_EmptySet
<1>4. IsFiniteSet(Connected(m))
  <2>1. IsFiniteSet(Players) BY DisconnectAssumption, FS_Interval DEF Players
  <2>2. Connected(m) \subseteq Players BY DEF Connected
  <2> QED BY <2>1, <2>2, FS_Subset
<1>5. Cardinality({m, p}) = 2 /\ {m, p} \subseteq Connected(m)
  <2>1. IsFiniteSet({m}) /\ Cardinality({m}) = 1 BY FS_Singleton
  <2>2. {m, p} = {m} \cup {p} OBVIOUS
  <2>3. Cardinality({m} \cup {p}) = 2 BY <1>1, <2>1, FS_AddElement
  <2> QED BY <1>1, <2>2, <2>3
<1>6. Cardinality(Connected(m)) \in Nat /\ 2 <= Cardinality(Connected(m))
  BY <1>4, <1>5, FS_Subset, FS_CardinalityType
<1> QED BY <1>3, <1>6 DEF VotedOut

LEMMA InGameFacts ==
  ASSUME TypeInv, NoVotes, OnlyFailed, NEW m \in Up, NEW p \in Up, p # m
  PROVE  p \in PeersOf(m) /\ InGame(m, p)
<1>1. p \in PeersOf(m) BY DEF Up, PeersOf, Connected, OnlyFailed
<1>2. p \notin expired[m] BY DEF Up, OnlyFailed
<1>3. ~VotedOut(m, p) BY <1>1, NobodyVotedOut DEF Up
<1> QED BY <1>1, <1>2, <1>3 DEF InGame, PeersOf

(* Steps that drop nobody: the same is said of dropped players. *)
SameWord ==
    /\ \A x \in net : x.type = "DISCONNECT" => x \in net'
    /\ \A x \in net' : x.type \in {"DISCONNECT", "VOTE"} => x \in net

LEMMA SameWordCarried ==
  ASSUME TypeInv, UNCHANGED <<lastFrame, down>>, NEW msgs, Carry(msgs),
         \A x \in net : x.type = "DISCONNECT" => x \in msgs,
         \A x \in msgs : x.type \in {"DISCONNECT", "VOTE"} => x \in net
  PROVE  SameWord
<1>1. ASSUME NEW x \in net, x.type = "DISCONNECT" PROVE ~Idle(x)'
  BY <1>1 DEF TypeInv, SoundMessages, Live, Idle
<1> QED BY <1>1 DEF Carry, SameWord

(* Forgetting votes where there are none leaves none. *)
LEMMA NoVotesReset ==
  ASSUME TypeInv, NoVotes, NEW m \in Players, NEW q \in Players, NEW f,
         \/ votes' = [votes EXCEPT ![m] = ResetVotes(votes[m], q, f)]
         \/ votes' = votes
  PROVE  \A n, p, r \in Players : votes'[n][p][r] = 0
<1>1. votes \in [Players -> [Players -> [Players -> 0 .. End]]] BY DEF TypeInv, TypeOK
<1>2. \A p, r \in Players : ResetVotes(votes[m], q, f)[p][r] = 0
  <2>1. votes[m] \in [Players -> [Players -> 0 .. End]] BY <1>1
  <2>2. \A p, r \in Players : votes[m][p][r] = 0 BY DEF NoVotes
  <2> QED BY <2>1, <2>2, ResetVotesFacts
<1>3. CASE votes' = votes BY <1>3 DEF NoVotes
<1>4. CASE votes' = [votes EXCEPT ![m] = ResetVotes(votes[m], q, f)]
  <2>1. votes'[m] = ResetVotes(votes[m], q, f) /\ \A n \in Players : n # m => votes'[n] = votes[n]
    BY <1>1, <1>4
  <2> QED BY <1>2, <2>1 DEF NoVotes
<1> QED BY <1>3, <1>4

LEMMA NobodyDropped ==
  ASSUME TypeInv, OnlyFailed, Destruction, Named, FramesGoOn, SameWord,
         UNCHANGED <<lastFrame, down, destroyed>>, TypeOK',
         \A m, p \in Players : p \in expired'[m] => p \in expired[m] \/ p \in down
  PROVE  OnlyFailed' /\ Destruction' /\ Named'
<1>1. OnlyFailed' BY DEF OnlyFailed, SameWord, Tells
<1>2. Named' BY DEF Named, SameWord, Tells
<1>3. ASSUME NEW d \in destroyed PROVE Commanded(d)'
  <2>1. Commanded(d) BY DEF Destruction
  <2>2. d.player \in down /\ d.by \in Players /\ d.by = FirstInPlan(Players \ {d.player})
        /\ lastFrame[d.by][d.player] # 0
    BY <2>1 DEF Commanded
  <2>3. ASSUME NEW m \in Up PROVE frame'[m] >= lastFrame[d.by][d.player]
    <3>1. m \in Players /\ d.player \in Players BY <2>2 DEF Up, TypeInv, TypeOK
    <3>2. frame[m] >= lastFrame[d.by][d.player] BY <2>1 DEF Commanded
    <3>3. frame'[m] >= frame[m] BY <3>1 DEF FramesGoOn
    <3>4. frame[m] \in 1 .. End /\ frame'[m] \in 1 .. End /\ lastFrame[d.by][d.player] \in 0 .. End
      BY <2>2, <3>1 DEF TypeInv, TypeOK
    <3> QED BY <3>2, <3>3, <3>4, Numbers
  <2>4. ASSUME NEW m \in Up
        PROVE  \/ lastFrame[m][d.player] # 0
               \/ \E x \in net' : x.to = m /\ x.from = d.by /\ Tells(x, d.player)
    BY <2>1 DEF Commanded, SameWord, Tells
  <2> QED BY <2>1, <2>2, <2>3, <2>4 DEF Commanded, Up, Tells
<1> QED BY <1>1, <1>2, <1>3 DEF Destruction

LEMMA CalmInit == Init => CalmInv
<1> SUFFICES ASSUME Init PROVE CalmInv OBVIOUS
<1>1. \A x \in net : x.type = "COMMAND"
  <2>1. PICK late \in Delayed : InitCommands(late) BY DEF Init
  <2> SUFFICES ASSUME NEW x \in net PROVE x.type = "COMMAND" OBVIOUS
  <2>2. PICK m \in late : x \in SendLocalCommands(m, 0, Others(m), {m} \X (1 .. MaxFrame))
    BY <2>1 DEF InitCommands
  <2> QED BY <2>2, LocalCommandMessages
<1>2. Executed BY Numbers DEF Executed, Init, Up
<1> QED BY <1>1, <1>2
    DEF Init, CalmInv, NoVotes, OnlyFailed, Told, Destruction, Named, Tells

LEMMA CalmWait ==
  ASSUME TypeInv, TypeInv', CalmInv, NEW m \in Up, NEW p \in Others(m),
         TurnOnScreen(m) \/ TimeOut(m, p)
  PROVE  CalmInv'
<1>1. /\ UNCHANGED <<frame, received, lastFrame, frames, votes, down, destroyed, net, notified>>
      /\ expired' = [expired EXCEPT ![m] = {}] \/ expired' = [expired EXCEPT ![m] = expired[m] \cup {p}]
      /\ expired' = [expired EXCEPT ![m] = {}] \/ p \in down
  <2>1. CASE TurnOnScreen(m) BY <2>1 DEF TurnOnScreen, game, heard, history
  <2>2. CASE TimeOut(m, p)
    <3>1. p \in down \/ lastFrame[p][m] # 0 BY <2>2 DEF TimeOut, Silent
    <3>2. p \in down BY <3>1 DEF CalmInv, OnlyFailed, Up, Others
    <3> QED BY <2>2, <3>2 DEF TimeOut, game, heard, history
  <2> QED BY <2>1, <2>2
<1>2. ASSUME NEW n \in Players, NEW q \in Players, q \in expired'[n] PROVE q \in expired[n] \/ q \in down
  <2>1. CASE expired' = [expired EXCEPT ![m] = {}]
    BY <1>2, <2>1 DEF TypeInv, TypeOK
  <2>2. CASE expired' = [expired EXCEPT ![m] = expired[m] \cup {p}] /\ p \in down
    BY <1>2, <2>2 DEF TypeInv, TypeOK
  <2> QED BY <1>1, <2>1, <2>2
<1>3. FramesGoOn /\ SameWord BY <1>1, Numbers DEF FramesGoOn, SameWord, TypeInv, TypeOK
<1>4. OnlyFailed' /\ Destruction' /\ Named'
  BY <1>1, <1>2, <1>3, NobodyDropped DEF CalmInv, TypeInv
<1>5. NoVotes' /\ Told' /\ Executed'
  BY <1>1 DEF CalmInv, NoVotes, Told, Executed, Up, Connected
<1> QED BY <1>4, <1>5 DEF CalmInv

LEMMA CalmNotify ==
  ASSUME TypeInv, TypeInv', CalmInv, NEW m \in Up, NotifyOthersOfCurrentFrame(m)
  PROVE  CalmInv'
<1> DEFINE news == frames[m][m] < frame[m]
           fs == [frames[m] EXCEPT ![m] = frame[m]]
           sent == SendDirect("FRAME", m, PeersOf(m), frame[m])
                     \cup IF news THEN CatchUp(m, fs, known[m]) ELSE {}
<1>1. /\ notified' = notified \cup {m} /\ m \in Players
      /\ frames' = IF news THEN [frames EXCEPT ![m] = fs] ELSE frames
      /\ \/ votes' = [votes EXCEPT ![m] = ResetVotes(votes[m], m, frame[m] - 1)]
         \/ votes' = votes
      /\ UNCHANGED <<frame, received, lastFrame, expired, down, destroyed>>
      /\ Carry(net \cup sent)
  <2>1. net \cup sent = net \cup SendDirect("FRAME", m, PeersOf(m), frame[m])
                            \cup IF news THEN CatchUp(m, fs, known[m]) ELSE {}
    OBVIOUS
  <2> QED BY <2>1 DEF NotifyOthersOfCurrentFrame, game, history, Up
<1>2. \A x \in sent : x.type \notin {"DISCONNECT", "VOTE"}
  BY DirectMessages, CatchUpMessages
<1> HIDE DEF sent
<1>3. SameWord
  <2>1. /\ \A x \in net : x.type = "DISCONNECT" => x \in net \cup sent
        /\ \A x \in net \cup sent : x.type \in {"DISCONNECT", "VOTE"} => x \in net
    BY <1>2
  <2> QED BY <1>1, <2>1, SameWordCarried
<1>4. FramesGoOn BY <1>1, Numbers DEF FramesGoOn, TypeInv, TypeOK
<1>5. OnlyFailed' /\ Destruction' /\ Named'
  BY <1>1, <1>3, <1>4, NobodyDropped DEF CalmInv, TypeInv
<1>6. \A n, p, q \in Players : votes'[n][p][q] = 0
  BY <1>1, NoVotesReset DEF CalmInv
<1>7. NoVotes' BY <1>3, <1>6 DEF CalmInv, NoVotes, SameWord
<1>8. frames'[m][m] = frame[m]
  <2>1. frames[m][m] \in 0 .. End /\ frame[m] \in 1 .. End /\ frames[m][m] <= frame[m]
    BY <1>1 DEF TypeInv, TypeOK
  <2>2. CASE news BY <1>1, <2>2 DEF TypeInv, TypeOK
  <2>3. CASE ~news BY <1>1, <2>1, <2>3, Numbers
  <2> QED BY <2>2, <2>3
<1>9. \A n \in Players : n # m => frames'[n][n] = frames[n][n]
  BY <1>1 DEF TypeInv, TypeOK
<1>10. Told'
  BY <1>1, <1>8, <1>9 DEF CalmInv, Told, TypeInv, TypeOK
<1>11. Executed' BY <1>1 DEF CalmInv, Executed, Up, Connected
<1> QED BY <1>5, <1>7, <1>10, <1>11 DEF CalmInv

LEMMA CalmReady ==
  ASSUME TypeInv, TypeInv', CalmInv, NEW m \in Up, AllCommandsReady(m)
  PROVE  CalmInv'
<1> DEFINE sent == SendDirect("SCREENOFF", m, PeersOf(m), frame[m])
<1>1. /\ notified' = notified \ {m} /\ m \in Players
      /\ frames' = [frames EXCEPT ![m][m] = frame[m]]
      /\ votes' = [votes EXCEPT ![m] = ResetVotes(votes[m], m, End)]
      /\ UNCHANGED <<frame, received, lastFrame, expired, down, destroyed>>
      /\ Carry(net \cup sent)
  BY DEF AllCommandsReady, game, history, Up
<1>2. \A x \in sent : x.type \notin {"DISCONNECT", "VOTE"} BY DirectMessages
<1> HIDE DEF sent
<1>3. SameWord
  <2>1. /\ \A x \in net : x.type = "DISCONNECT" => x \in net \cup sent
        /\ \A x \in net \cup sent : x.type \in {"DISCONNECT", "VOTE"} => x \in net
    BY <1>2
  <2> QED BY <1>1, <2>1, SameWordCarried
<1>4. FramesGoOn BY <1>1, Numbers DEF FramesGoOn, TypeInv, TypeOK
<1>5. OnlyFailed' /\ Destruction' /\ Named'
  BY <1>1, <1>3, <1>4, NobodyDropped DEF CalmInv, TypeInv
<1>6. \A n, p, q \in Players : votes'[n][p][q] = 0
  BY <1>1, NoVotesReset DEF CalmInv
<1>7. NoVotes' BY <1>3, <1>6 DEF CalmInv, NoVotes, SameWord
<1>8. Told' BY <1>1 DEF CalmInv, Told, TypeInv, TypeOK
<1>9. Executed' BY <1>1 DEF CalmInv, Executed, Up, Connected
<1> QED BY <1>5, <1>7, <1>8, <1>9 DEF CalmInv

LEMMA CalmExecute ==
  ASSUME TypeInv, TypeInv', CalmInv, NEW m \in Up, ExecuteFrame(m)
  PROVE  CalmInv'
<1>1. /\ m \notin screen /\ Ready(m) /\ m \in Players
      /\ frame' = [frame EXCEPT ![m] = frame[m] + 1]
      /\ expired' = [expired EXCEPT ![m] = {}]
      /\ UNCHANGED <<received, lastFrame, notified, frames, votes, down, destroyed>>
      /\ Carry(net)
  BY DEF ExecuteFrame, heard, history, Up
<1>2. SameWord
  <2>1. \A x \in net : x.type \in {"DISCONNECT", "VOTE"} => x \in net OBVIOUS
  <2>2. \A x \in net : x.type = "DISCONNECT" => x \in net OBVIOUS
  <2> QED BY <1>1, <2>1, <2>2, SameWordCarried
<1>3. FramesGoOn BY <1>1, Numbers DEF FramesGoOn, TypeInv, TypeOK
<1>4. \A n, q \in Players : q \in expired'[n] => q \in expired[n] \/ q \in down
  BY <1>1 DEF TypeInv, TypeOK
<1>5. OnlyFailed' /\ Destruction' /\ Named'
  BY <1>1, <1>2, <1>3, <1>4, NobodyDropped DEF CalmInv, TypeInv
<1>6. NoVotes' BY <1>1, <1>2 DEF CalmInv, NoVotes, SameWord
<1>7. Told' BY <1>1 DEF CalmInv, Told, TypeInv, TypeOK
<1>8. Executed'
  <2> SUFFICES ASSUME NEW n \in Up, NEW q \in Connected(n), NEW f \in 1 .. frame'[n] - 1
               PROVE  <<q, f>> \in received[n]
    BY <1>1 DEF Executed, Up, Connected
  <2>1. n \in Players /\ frame[n] \in 1 .. End /\ frame[m] \in 1 .. End
    BY <1>1 DEF Up, TypeInv, TypeOK
  <2>2. frame'[n] = IF n = m THEN frame[n] + 1 ELSE frame[n] BY <1>1, <2>1 DEF TypeInv, TypeOK
  <2>3. f \in 1 .. frame[n] - 1 \/ (n = m /\ f = frame[m])
    <3>1. \A a \in Nat : f \in 1 .. (a + 1) - 1 => f \in 1 .. a - 1 \/ f = a OBVIOUS
    <3>2. CASE n = m
      <4>1. frame'[n] = frame[m] + 1 /\ frame[m] \in Nat BY <2>1, <2>2, <3>2, Numbers
      <4> QED BY <3>1, <3>2, <4>1
    <3>3. CASE n # m
      <4>1. frame'[n] = frame[n] BY <2>2, <3>3
      <4> QED BY <4>1
    <3> QED BY <3>2, <3>3
  <2>4. CASE f \in 1 .. frame[n] - 1 BY <2>4 DEF CalmInv, Executed
  <2>5. CASE n = m /\ f = frame[m] BY <1>1, <2>5 DEF Ready
  <2> QED BY <2>3, <2>4, <2>5
<1> QED BY <1>5, <1>6, <1>7, <1>8 DEF CalmInv

(* A step that hears of frames: whose machine hears of them is not its own. *)
LEMMA CalmHear ==
  ASSUME TypeInv, TypeInv', CalmInv, NEW m \in Up, NEW q \in Players, q # m, NEW b, NEW f,
         NEW msgs, Carry(msgs),
         \A x \in net : x.type = "DISCONNECT" => x \in msgs,
         \A x \in msgs : x.type \in {"DISCONNECT", "VOTE"} => x \in net,
         frames' = [frames EXCEPT ![m][q] = b],
         votes' = [votes EXCEPT ![m] = ResetVotes(votes[m], q, f)],
         UNCHANGED <<frame, received, lastFrame, down, destroyed, notified, expired>>
  PROVE  CalmInv'
<1>0. m \in Players BY DEF Up
<1>1. SameWord BY SameWordCarried
<1>2. FramesGoOn BY Numbers DEF FramesGoOn, TypeInv, TypeOK
<1>3. OnlyFailed' /\ Destruction' /\ Named'
  BY <1>1, <1>2, NobodyDropped DEF CalmInv, TypeInv
<1>4. \A n, p, r \in Players : votes'[n][p][r] = 0
  BY <1>0, NoVotesReset DEF CalmInv
<1>5. NoVotes' BY <1>1, <1>4 DEF CalmInv, NoVotes, SameWord
<1>6. \A n \in Players : frames'[n][n] = frames[n][n]
  BY <1>0 DEF TypeInv, TypeOK
<1>7. Told' BY <1>6 DEF CalmInv, Told, TypeInv, TypeOK
<1>8. Executed' BY DEF CalmInv, Executed, Up, Connected
<1> QED BY <1>3, <1>5, <1>7, <1>8 DEF CalmInv

LEMMA CalmReceiveCommand ==
  ASSUME TypeInv, TypeInv', CalmInv, NEW x \in net, x.to \in Up, ReceiveCommand(x)
  PROVE  CalmInv'
<1> DEFINE m == x.to
           sent == SendDirect("COMMAND", m, x.relay \cap PeersOf(m), x.body)
<1>1. /\ m \in Players /\ x.type = "COMMAND"
      /\ received' = [received EXCEPT ![m] = received[m] \cup {x.body}]
      /\ UNCHANGED <<frame, lastFrame, down, destroyed, notified, expired, frames, votes>>
      /\ Carry((net \ {x}) \cup sent)
  BY DEF ReceiveCommand, clock, heard, history, Up
<1>2. \A y \in sent : y.type \notin {"DISCONNECT", "VOTE"} BY DirectMessages
<1> HIDE DEF sent
<1>3. SameWord
  <2> DEFINE msgs == (net \ {x}) \cup sent
  <2>1. /\ \A y \in net : y.type = "DISCONNECT" => y \in msgs
        /\ \A y \in msgs : y.type \in {"DISCONNECT", "VOTE"} => y \in net
    BY <1>1, <1>2
  <2> QED BY <1>1, <2>1, SameWordCarried
<1>4. FramesGoOn BY <1>1, Numbers DEF FramesGoOn, TypeInv, TypeOK
<1>5. OnlyFailed' /\ Destruction' /\ Named'
  BY <1>1, <1>3, <1>4, NobodyDropped DEF CalmInv, TypeInv
<1>6. NoVotes' /\ Told' BY <1>1, <1>3 DEF CalmInv, NoVotes, SameWord, Told
<1>7. \A n \in Players : received[n] \subseteq received'[n] BY <1>1 DEF TypeInv, TypeOK
<1>8. Executed' BY <1>1, <1>7 DEF CalmInv, Executed, Up, Connected
<1> QED BY <1>5, <1>6, <1>8 DEF CalmInv

(* What dropping a failed player keeps, and that the word of it gets on. *)
LEMMA CalmDrop ==
  ASSUME TypeInv, TypeInv', CalmInv, Calm,
         NEW m \in Up, NEW p \in Players, p # m, p \in down, lastFrame[m][p] = 0,
         NEW queued, DisconnectPlayer(m, p, queued),
         \A x \in queued : x \in net \/ Tells(x, p),
         \A x \in net : x \in queued \/ (x.to = m /\ Tells(x, p)),
         destroyed \subseteq destroyed',
         p \notin Quitters => \E d \in destroyed' : d.player = p
  PROVE  /\ NoVotes' /\ OnlyFailed' /\ Told' /\ Executed' /\ Named'
         /\ lastFrame' = [lastFrame EXCEPT ![m][p] = frame[m]]
         /\ \A d \in destroyed : Commanded(d)'
         /\ \A x \in queued : Tells(x, p) /\ x.from \in Up /\ x.to \in Up /\ lastFrame'[x.to][p] = 0 =>
              x \in net'
<1> DEFINE peers == PeersOf(m) \ {p}
           resent == IF p = PacketRouter(m) THEN ResendPendingCommands(m, peers) ELSE {}
<1>0. m \in Players /\ frame[m] \in 1 .. End BY DEF Up, TypeInv, TypeOK
<1>1. /\ lastFrame' = [lastFrame EXCEPT ![m][p] = frame[m]]
      /\ received' = [received EXCEPT ![m] = {c \in received[m] : Owner(c) # p}]
      /\ UNCHANGED <<frame, down, notified, expired, frames, votes>>
      /\ Carry({x \in queued : ~(x.from = m /\ x.to = p)} \cup resent)
  BY DEF DisconnectPlayer, clock, heard
<1>2. \A x \in resent : x.type = "COMMAND" BY LocalCommandMessages DEF ResendPendingCommands
<1> HIDE DEF resent
<1>3. \A n, q \in Players : lastFrame'[n][q] = IF n = m /\ q = p THEN frame[m] ELSE lastFrame[n][q]
  BY <1>0, <1>1 DEF TypeInv, TypeOK
<1>4. \A n, q \in Players : lastFrame'[n][q] # 0 => q \in down
  BY <1>3 DEF CalmInv, OnlyFailed
<1>5. \A x \in net' : x.type # "COMMAND" => x \in net \/ Tells(x, p)
  BY <1>1, <1>2 DEF Carry
<1>6. NoVotes' BY <1>1, <1>5 DEF CalmInv, NoVotes, Tells
<1>7. OnlyFailed' BY <1>1, <1>4, <1>5 DEF CalmInv, OnlyFailed, Tells
<1>8. Told' BY <1>1 DEF CalmInv, Told
<1>9. Executed'
  <2> SUFFICES ASSUME NEW n \in Up, NEW q \in Connected(n)', NEW f \in 1 .. frame[n] - 1
               PROVE  <<q, f>> \in received'[n]
    BY <1>1 DEF Executed, Up
  <2>1. n \in Players /\ q \in Players /\ q \in Connected(n) /\ ~(n = m /\ q = p)
    BY <1>0, <1>3, Numbers DEF Up, Connected
  <2>2. <<q, f>> \in received[n] BY <2>1 DEF CalmInv, Executed
  <2>3. received'[n] = IF n = m THEN {c \in received[m] : Owner(c) # p} ELSE received[n]
    BY <1>0, <1>1, <2>1 DEF TypeInv, TypeOK
  <2> QED BY <2>1, <2>2, <2>3 DEF Owner
<1>10. Named'
  <2> SUFFICES ASSUME NEW q \in Players \ Quitters,
                      (\E n \in Players : lastFrame'[n][q] # 0) \/ (\E x \in net' : Tells(x, q))
               PROVE  \E d \in destroyed' : d.player = q
    BY DEF Named, Tells
  <2>1. CASE q = p BY <2>1
  <2>2. CASE q # p
    <3>1. \A x \in net' : Tells(x, q) => x \in net BY <1>5, <2>2 DEF Tells
    <3>2. \A n \in Players : lastFrame'[n][q] = lastFrame[n][q] BY <1>3, <2>2
    <3> QED BY <3>1, <3>2 DEF CalmInv, Named
  <2> QED BY <2>1, <2>2
<1>11. ASSUME NEW x \in queued, x.type = "DISCONNECT", x.from \in Up, x.to \in Up,
              x.body[1] # x.to, lastFrame'[x.to][x.body[1]] = 0
       PROVE  x \in net'
  <2>1. x.to # p BY <1>11 DEF Up
  <2>2. x.to \notin down' BY <1>1, <1>11 DEF Up
  <2>3. lastFrame'[x.to][x.from] = 0 BY <1>4, <1>11 DEF Up
  <2>4. ~Idle(x)' BY <1>11, <2>2, <2>3 DEF Idle
  <2> QED BY <1>1, <2>1, <2>4 DEF Carry
<1>12. \A x \in queued : Tells(x, p) /\ x.from \in Up /\ x.to \in Up /\ lastFrame'[x.to][p] = 0 =>
         x \in net'
  BY <1>11 DEF Tells, Up
<1>13. ASSUME NEW d \in destroyed PROVE Commanded(d)'
  <2>1. Commanded(d) BY DEF CalmInv, Destruction
  <2>2. /\ d.player \in down /\ d.player \in Players /\ d.by \in Players
        /\ d.by = FirstInPlan(Players \ {d.player}) /\ lastFrame[d.by][d.player] # 0
    BY <2>1 DEF Commanded, TypeInv, TypeOK
  <2>3. d.by \in Up
    <3>1. Players \ {d.player} # {}
      <4>1. 0 \in Players /\ 1 \in Players BY DisconnectAssumption DEF Players
      <4> QED BY <4>1
    <3>2. d.by \in Players \ {d.player} BY <2>2, <3>1, FirstInPlanFacts
    <3> QED BY <2>2, <3>2 DEF Calm, Up
  <2>4. lastFrame'[d.by][d.player] = lastFrame[d.by][d.player] BY <1>3, <2>2
  <2>5. ASSUME NEW n \in Up
        PROVE  /\ frame[n] >= lastFrame[d.by][d.player]
               /\ d.player \notin Quitters /\ lastFrame'[n][d.player] # 0 =>
                    lastFrame'[n][d.player] >= lastFrame[d.by][d.player]
               /\ \/ lastFrame'[n][d.player] # 0
                  \/ \E x \in net' : x.to = n /\ x.from = d.by /\ Tells(x, d.player)
    <3>0. n \in Players BY DEF Up
    <3>1. frame[n] >= lastFrame[d.by][d.player] BY <2>1 DEF Commanded
    <3>2. CASE n = m /\ d.player = p
      <4>1. lastFrame'[n][d.player] = frame[n] BY <1>3, <2>2, <3>0, <3>2
      <4>2. frame[n] # 0 BY <1>0, <3>2, Numbers
      <4> QED BY <3>1, <4>1, <4>2
    <3>3. CASE ~(n = m /\ d.player = p)
      <4>1. lastFrame'[n][d.player] = lastFrame[n][d.player] BY <1>3, <2>2, <3>0, <3>3
      <4>2. CASE lastFrame[n][d.player] = 0
        <5>1. PICK x \in net : x.to = n /\ x.from = d.by /\ Tells(x, d.player)
          BY <2>1, <4>2 DEF Commanded
        <5>2. x \in queued BY <3>3, <5>1 DEF Tells
        <5>3. x.body[1] # x.to BY <5>1 DEF Tells, TypeInv, SoundMessages, Live
        <5>4. x \in net' BY <1>11, <2>3, <4>1, <4>2, <5>1, <5>2, <5>3 DEF Tells
        <5> QED BY <3>1, <4>1, <4>2, <5>1, <5>4
      <4>3. CASE lastFrame[n][d.player] # 0 BY <2>1, <3>1, <4>1, <4>3 DEF Commanded
      <4> QED BY <4>2, <4>3
    <3> QED BY <3>2, <3>3
  <2> QED BY <1>1, <2>2, <2>4, <2>5 DEF Commanded, Up, Tells
<1> QED BY <1>1, <1>6, <1>7, <1>8, <1>9, <1>10, <1>12, <1>13

(* The machine that has a player destroyed is the first of all the others, and has *)
(* heard that everyone is as far as it is.                                         *)
LEMMA CalmUpdate ==
  ASSUME TypeInv, TypeInv', CalmInv, Calm, NEW m \in Up, NEW p \in Others(m),
         UpdateDisconnectStatus(m, p)
  PROVE  CalmInv'
<1> DEFINE named == Max({frames[m][q] : q \in Players})
           sent == SendDisconnectCommand(m, p, named)
<1>0. PICK new : new = [player |-> p, by |-> m, frame |-> named] OBVIOUS
<1>1. /\ m \in screen \cap notified /\ p \in PeersOf(m) /\ (p \in expired[m] \/ VotedOut(m, p))
      /\ AllOnSameFrame(m) /\ IsLocalPlayerNextPacketRouter(m)
      /\ destroyed' = destroyed \cup {new}
      /\ DisconnectPlayer(m, p, net \cup sent)
  BY <1>0 DEF UpdateDisconnectStatus
<1> HIDE DEF named
<1>2. /\ m \in Players /\ p \in Players /\ p # m /\ lastFrame[m][p] = 0 /\ frame[m] \in 1 .. End
      /\ p \in expired[m] /\ p \in down
  <2>1. m \in Players /\ p \in Players /\ p # m /\ lastFrame[m][p] = 0 /\ frame[m] \in 1 .. End
    BY <1>1 DEF Up, Others, PeersOf, Connected, TypeInv, TypeOK
  <2>2. p \in expired[m] BY <1>1, <2>1, NobodyVotedOut DEF CalmInv
  <2> QED BY <2>1, <2>2 DEF CalmInv, OnlyFailed
<1>3. \A n \in Players : n # p => n \in Up BY <1>2 DEF Calm, Up
<1>4. m = FirstInPlan(Players \ {p})
  <2>1. \A n \in Players : n # p /\ n # m => n \in Connected(m) /\ InGame(m, n)
    BY <1>3, InGameFacts DEF CalmInv, PeersOf
  <2>2. ~InGame(m, p) BY <1>2 DEF InGame
  <2>3. m \in Connected(m) BY <1>2 DEF Connected, TypeInv, TypeOK
  <2>4. {n \in Connected(m) : n = m \/ InGame(m, n)} = Players \ {p}
    BY <1>2, <2>1, <2>2, <2>3 DEF Connected
  <2> QED BY <1>1, <2>4 DEF IsLocalPlayerNextPacketRouter
<1>5. ASSUME NEW n \in Up PROVE frame[n] >= frame[m]
  <2>1. n \in Players BY DEF Up
  <2>2. CASE n = m BY <1>2, <2>2, Numbers
  <2>3. CASE n # m
    <3>1. n \in PeersOf(m) /\ InGame(m, n) BY <2>3, InGameFacts DEF CalmInv
    <3>2. frames[m][n] = frames[m][m] BY <1>1, <3>1 DEF AllOnSameFrame
    <3>3. frames[m][m] = frame[m] BY <1>1 DEF CalmInv, Told
    <3>4. frames[m][n] <= frame[n] /\ frame[n] \in 1 .. End BY <1>2, <2>1 DEF TypeInv, TypeOK
    <3> QED BY <1>2, <3>2, <3>3, <3>4, Numbers
  <2> QED BY <2>2, <2>3
<1>6. \A x \in sent : Tells(x, p) BY DirectMessages DEF SendDisconnectCommand, Tells
<1>7. ASSUME NEW n \in Up, n # m PROVE \E x \in sent : x.from = m /\ x.to = n /\ Tells(x, p)
  <2>1. n \in PeersOf(m) BY <1>7, InGameFacts DEF CalmInv
  <2>2. Message("DISCONNECT", m, n, <<p, named>>, {n}) \in sent
    BY <2>1 DEF SendDisconnectCommand, SendDirect
  <2> QED BY <2>2 DEF Message, Tells
<1> HIDE DEF sent
<1>8. /\ NoVotes' /\ OnlyFailed' /\ Told' /\ Executed' /\ Named'
      /\ lastFrame' = [lastFrame EXCEPT ![m][p] = frame[m]]
      /\ \A d \in destroyed : Commanded(d)'
      /\ \A x \in net \cup sent :
           Tells(x, p) /\ x.from \in Up /\ x.to \in Up /\ lastFrame'[x.to][p] = 0 => x \in net'
  <2>1. \A x \in net \cup sent : x \in net \/ Tells(x, p) BY <1>6
  <2>2. \A x \in net : x \in net \cup sent \/ (x.to = m /\ Tells(x, p)) OBVIOUS
  <2>3. destroyed \subseteq destroyed' /\ \E d \in destroyed' : d.player = p BY <1>0, <1>1
  <2> QED BY <1>1, <1>2, <2>1, <2>2, <2>3, CalmDrop
<1>9. /\ lastFrame'[m][p] = frame[m]
      /\ \A n \in Players : n # m => lastFrame'[n][p] = lastFrame[n][p]
  BY <1>2, <1>8 DEF TypeInv, TypeOK
<1>10. UNCHANGED <<frame, down>> BY <1>1 DEF DisconnectPlayer
<1>11. Commanded(new)'
  <2>1. ASSUME NEW n \in Up
        PROVE  /\ frame[n] >= frame[m]
               /\ p \notin Quitters /\ lastFrame'[n][p] # 0 => lastFrame'[n][p] >= frame[m]
               /\ \/ lastFrame'[n][p] # 0
                  \/ \E x \in net' : x.to = n /\ x.from = m /\ Tells(x, p)
    <3>1. n \in Players BY DEF Up
    <3>2. CASE n = m
      <4>1. lastFrame'[n][p] = frame[m] /\ frame[m] # 0 /\ frame[m] >= frame[m]
        BY <1>2, <1>9, <3>2, Numbers
      <4> QED BY <1>5, <4>1
    <3>3. CASE n # m
      <4>1. p \notin Quitters => lastFrame[n][p] = 0
        <5> SUFFICES ASSUME p \notin Quitters, lastFrame[n][p] # 0 PROVE FALSE OBVIOUS
        <5>1. PICK d \in destroyed : d.player = p BY <1>2, <3>1 DEF CalmInv, Named
        <5>2. d.by = m /\ lastFrame[d.by][p] # 0
          BY <1>4, <5>1 DEF CalmInv, Destruction, Commanded
        <5> QED BY <1>2, <5>2
      <4>2. lastFrame'[n][p] = lastFrame[n][p] BY <1>9, <3>1, <3>3
      <4>3. CASE lastFrame[n][p] = 0
        <5>1. PICK x \in sent : x.from = m /\ x.to = n /\ Tells(x, p) BY <1>7, <3>3
        <5>2. x \in net' BY <1>8, <4>2, <4>3, <5>1
        <5> QED BY <1>5, <4>2, <4>3, <5>1, <5>2
      <4>4. CASE lastFrame[n][p] # 0 BY <1>5, <4>1, <4>2, <4>4
      <4> QED BY <4>3, <4>4
    <3> QED BY <3>2, <3>3
  <2>2. frame[m] # 0 BY <1>2, Numbers
  <2> QED BY <1>0, <1>2, <1>4, <1>9, <1>10, <2>1, <2>2 DEF Commanded, Up, Tells
<1>12. Destruction' BY <1>1, <1>8, <1>11 DEF Destruction
<1> QED BY <1>8, <1>12 DEF CalmInv

LEMMA CalmReceive ==
  ASSUME TypeInv, TypeInv', CalmInv, Calm, NEW x \in net, Receive(x)
  PROVE  CalmInv'
<1> DEFINE m == x.to
           q == x.from
<1>1. /\ Formed(x) /\ Live(x) /\ m \in Up /\ m \in Players /\ q \in Players
      /\ x.type # "VOTE"
  BY DEF TypeInv, SoundMessages, Formed, Live, Up, CalmInv, NoVotes
<1>2. CASE ReceiveCommand(x) BY <1>1, <1>2, CalmReceiveCommand
<1>3. CASE ProcessDisconnectFrame(x)
  <2> DEFINE sent == IF x.body < frames[m][m] THEN FrameData(m, q, x.body) ELSE {}
  <2>1. /\ q # m /\ x.type # "DISCONNECT"
        /\ frames' = [frames EXCEPT ![m][q] = x.body]
        /\ votes' = [votes EXCEPT ![m] = ResetVotes(votes[m], q, x.body - 1)]
        /\ UNCHANGED <<frame, received, lastFrame, down, destroyed, notified, expired>>
        /\ Carry((net \ {x}) \cup sent)
    BY <1>1, <1>3 DEF ProcessDisconnectFrame, Formed, clock, game, history
  <2>2. \A y \in sent : y.type \notin {"DISCONNECT", "VOTE"} BY FrameDataMessages
  <2> HIDE DEF sent
  <2> DEFINE msgs == (net \ {x}) \cup sent
  <2>3. /\ \A y \in net : y.type = "DISCONNECT" => y \in msgs
        /\ \A y \in msgs : y.type \in {"DISCONNECT", "VOTE"} => y \in net
    BY <2>1, <2>2
  <2> HIDE DEF msgs, m, q
  <2>4. Carry(msgs) BY <2>1 DEF msgs
  <2> QED BY <1>1, <2>1, <2>3, <2>4, CalmHear
<1>4. CASE ProcessDisconnectScreenOff(x)
  <2>1. /\ q # m /\ x.type = "SCREENOFF"
        /\ frames' = [frames EXCEPT ![m][q] = x.body]
        /\ votes' = [votes EXCEPT ![m] = ResetVotes(votes[m], q, x.body)]
        /\ UNCHANGED <<frame, received, lastFrame, down, destroyed, notified, expired>>
        /\ Carry(net \ {x})
    BY <1>1, <1>4 DEF ProcessDisconnectScreenOff, Formed, clock, game, history
  <2> DEFINE msgs == net \ {x}
  <2>2. /\ \A y \in net : y.type = "DISCONNECT" => y \in msgs
        /\ \A y \in msgs : y.type \in {"DISCONNECT", "VOTE"} => y \in net
    BY <2>1
  <2> HIDE DEF msgs, m, q
  <2>3. Carry(msgs) BY <2>1 DEF msgs
  <2> QED BY <1>1, <2>1, <2>2, <2>3, CalmHear
<1>5. CASE ProcessDisconnectVote(x) BY <1>1, <1>5 DEF ProcessDisconnectVote
<1>6. CASE ProcessDisconnectPlayer(x)
  <2> DEFINE p == x.body[1]
             queued == net \ {x}
  <2>1. /\ DisconnectPlayer(m, p, queued) /\ destroyed' = destroyed /\ Tells(x, p)
        /\ p \in Players /\ p # m /\ lastFrame[m][p] = 0
    BY <1>1, <1>6 DEF ProcessDisconnectPlayer, Formed, Live, Tells
  <2>2. /\ \A y \in queued : y \in net \/ Tells(y, p)
        /\ \A y \in net : y \in queued \/ (y.to = m /\ Tells(y, p))
    BY <2>1
  <2>3. p \in down BY <2>1 DEF CalmInv, OnlyFailed
  <2>4. p \notin Quitters => \E d \in destroyed : d.player = p BY <2>1 DEF CalmInv, Named
  <2>5. destroyed \subseteq destroyed' /\ (p \notin Quitters => \E d \in destroyed' : d.player = p)
    BY <2>1, <2>4
  <2> HIDE DEF p, queued, m, q
  <2>6. /\ NoVotes' /\ OnlyFailed' /\ Told' /\ Executed' /\ Named'
        /\ \A d \in destroyed : Commanded(d)'
    BY <1>1, <2>1, <2>2, <2>3, <2>5, CalmDrop
  <2> QED BY <2>1, <2>6 DEF CalmInv, Destruction
<1> QED BY <1>2, <1>3, <1>4, <1>5, <1>6 DEF Receive

(* The first player who fails: so far nobody was dropped. *)
LEMMA CalmGoDown ==
  ASSUME TypeInv, TypeInv', CalmInv, Calm', NEW m \in Up, Crash(m) \/ QuitGame(m)
  PROVE  CalmInv'
<1>1. PICK told \in SUBSET Players :
        /\ GoDown(m, SendDirect("DISCONNECT", m, told, <<m, frame[m]>>))
        /\ m \in Quitters \/ told = {}
  <2>1. CASE Crash(m)
    <3>1. SendDirect("DISCONNECT", m, {}, <<m, frame[m]>>) = {} BY DEF SendDirect
    <3> QED BY <2>1, <3>1 DEF Crash
  <2>2. CASE QuitGame(m)
    <3>1. PeersOf(m) \ down \subseteq Players BY DEF PeersOf, Connected
    <3> QED BY <2>2, <3>1 DEF QuitGame, MayFail
  <2> QED BY <2>1, <2>2
<1> DEFINE sent == SendDirect("DISCONNECT", m, told, <<m, frame[m]>>)
<1>2. /\ m \in Players /\ down' = down \cup {m}
      /\ received' = [received EXCEPT ![m] = {}]
      /\ notified' = notified \ {m}
      /\ expired' = [expired EXCEPT ![m] = {}]
      /\ frames' = [frames EXCEPT ![m] = [p \in Players |-> 0]]
      /\ votes' = [votes EXCEPT ![m] = [p \in Players |-> [q \in Players |-> 0]]]
      /\ UNCHANGED <<frame, lastFrame, destroyed, cast>>
      /\ Carry({x \in net : x.from # m} \cup sent)
  BY <1>1 DEF GoDown, history, Up
<1>3. \A x \in sent : Tells(x, m) /\ x.type # "VOTE" /\ m \in Quitters
  BY <1>1, DirectMessages DEF Tells
<1> HIDE DEF sent
<1>4. down = {} /\ down' = {m} BY <1>2 DEF Calm, Up
<1>5. /\ destroyed = {} /\ \A n, p \in Players : lastFrame[n][p] = 0 /\ p \notin expired[n]
      /\ \A x \in net : \A p \in Players : ~Tells(x, p)
  BY <1>4 DEF CalmInv, OnlyFailed, Destruction, Commanded
<1>6. \A n, p \in Players : p \notin expired'[n] BY <1>2, <1>5 DEF TypeInv, TypeOK
<1>7. \A n, p, q \in Players : votes'[n][p][q] = 0
  <2>1. votes'[m] = [p \in Players |-> [q \in Players |-> 0]]
        /\ \A n \in Players : n # m => votes'[n] = votes[n]
    BY <1>2 DEF TypeInv, TypeOK
  <2> QED BY <2>1 DEF CalmInv, NoVotes
<1>8. NoVotes' BY <1>2, <1>3, <1>7 DEF CalmInv, NoVotes, Carry
<1>9. \A x \in net' : \A p \in Players : Tells(x, p) => p = m /\ m \in Quitters
  BY <1>2, <1>3, <1>5 DEF Carry, Tells
<1>10. OnlyFailed' BY <1>2, <1>4, <1>5, <1>6, <1>9 DEF OnlyFailed, Tells
<1>11. Named' BY <1>2, <1>5, <1>9 DEF Named, Tells
<1>12. Destruction' BY <1>2, <1>5 DEF Destruction
<1>13. Told' BY <1>2 DEF CalmInv, Told, TypeInv, TypeOK
<1>14. Executed'
  <2> SUFFICES ASSUME NEW n \in Up, n # m, NEW q \in Connected(n), NEW f \in 1 .. frame[n] - 1
               PROVE  <<q, f>> \in received'[n]
    BY <1>2 DEF Executed, Up, Connected
  <2>1. received'[n] = received[n] BY <1>2 DEF Up, TypeInv, TypeOK
  <2> QED BY <2>1 DEF CalmInv, Executed
<1> QED BY <1>8, <1>10, <1>11, <1>12, <1>13, <1>14 DEF CalmInv

LEMMA CalmNext ==
  ASSUME TypeInv, TypeInv', [Next]_vars, Calm', Calm => CalmInv
  PROVE  CalmInv'
<1>1. CASE \E m \in Up : \E p \in Others(m) : Vote(m, p)
  <2>1. cast' # {} BY <1>1 DEF Vote
  <2> QED BY <2>1 DEF Calm
<1>2. CASE UNCHANGED vars
  <2>1. UNCHANGED <<frame, received, lastFrame, notified, expired, frames, votes, down, destroyed, cast, net>>
    BY <1>2 DEF vars, game, clock, heard, history
  <2>2. CalmInv BY <2>1 DEF Calm
  <2>3. NoVotes' /\ OnlyFailed' /\ Told' BY <2>1, <2>2 DEF CalmInv, NoVotes, OnlyFailed, Told, Tells
  <2>4. Executed' BY <2>1, <2>2 DEF CalmInv, Executed, Up, Connected
  <2>5. Named' BY <2>1, <2>2 DEF CalmInv, Named, Tells
  <2>6. Destruction' BY <2>1, <2>2 DEF CalmInv, Destruction, Commanded, Tells, Up
  <2> QED BY <2>3, <2>4, <2>5, <2>6 DEF CalmInv
<1>3. CASE \E m \in Up : Crash(m) \/ QuitGame(m)
  <2>1. Calm BY <1>3 DEF Calm, Crash, QuitGame, GoDown, history
  <2> QED BY <1>3, <2>1, CalmGoDown
<1>4. CASE System
  <2>1. Calm
    BY <1>4 DEF Calm, System, TurnOnScreen, NotifyOthersOfCurrentFrame, AllCommandsReady,
                ExecuteFrame, TimeOut, UpdateDisconnectStatus, DisconnectPlayer, Receive,
                ReceiveCommand, ProcessDisconnectFrame, ProcessDisconnectScreenOff,
                ProcessDisconnectVote, ProcessDisconnectPlayer, history
  <2>2. CalmInv BY <2>1
  <2>3. ASSUME NEW m \in Up, TurnOnScreen(m) PROVE CalmInv'
    <3>1. PICK p \in Players : p # m
      <4>1. 0 \in Players /\ 1 \in Players BY DisconnectAssumption DEF Players
      <4> QED BY <4>1
    <3> QED BY <2>2, <2>3, <3>1, CalmWait DEF Others
  <2>4. ASSUME NEW m \in Up, NotifyOthersOfCurrentFrame(m) PROVE CalmInv' BY <2>2, <2>4, CalmNotify
  <2>5. ASSUME NEW m \in Up, AllCommandsReady(m) PROVE CalmInv' BY <2>2, <2>5, CalmReady
  <2>6. ASSUME NEW m \in Up, ExecuteFrame(m) PROVE CalmInv' BY <2>2, <2>6, CalmExecute
  <2>7. ASSUME NEW m \in Up, NEW p \in Others(m), TimeOut(m, p) PROVE CalmInv'
    BY <2>2, <2>7, CalmWait
  <2>8. ASSUME NEW m \in Up, NEW p \in Others(m), UpdateDisconnectStatus(m, p) PROVE CalmInv'
    BY <2>1, <2>2, <2>8, CalmUpdate
  <2>9. ASSUME NEW x \in net, Receive(x) PROVE CalmInv' BY <2>1, <2>2, <2>9, CalmReceive
  <2> QED BY <1>4, <2>3, <2>4, <2>5, <2>6, <2>7, <2>8, <2>9 DEF System
<1> QED BY <1>1, <1>2, <1>3, <1>4 DEF Next

(* The inductive invariant, whose second half is about calm games. *)
THEOREM Invariance == Spec => []IInv
<1>1. Init => IInv BY TypeInit, CalmInit DEF IInv
<1>2. IInv /\ [Next]_vars => IInv' BY TypeNext, CalmNext DEF IInv
<1> QED BY <1>1, <1>2, PTL DEF Spec

(* While no more than one player has failed and nobody has voted, a player's      *)
(* destruction is commanded by one machine only.                                  *)
THEOREM OneDestroyerHolds == Spec => [](Calm => OneDestroyer)
<1>1. IInv => (Calm => OneDestroyer)
  BY DEF IInv, CalmInv, Destruction, Commanded, OneDestroyer
<1> QED BY <1>1, Invariance, PTL

(* Meanwhile nobody executes a frame without the commands of a failed player that *)
(* the machine which had the player destroyed executed with them.                 *)
THEOREM NobodyDropsEarlierHolds == Spec => [](Calm => NobodyDropsEarlier)
<1>1. IInv => (Calm => NobodyDropsEarlier)
  BY DEF IInv, CalmInv, Destruction, Commanded, NobodyDropsEarlier
<1> QED BY <1>1, Invariance, PTL

(* And whoever is behind can get the commands of the frame they wait in from      *)
(* anyone ahead of them, or is being told to drop the player they wait for.       *)
THEOREM CanCatchUpHolds == Spec => [](Calm => CanCatchUp)
<1>1. ASSUME IInv, Calm PROVE CanCatchUp
  <2> SUFFICES ASSUME NEW m \in Players, NEW n \in Players, TogetherIn(m, n), frame[n] < frame[m],
                      NEW q \in Connected(n) \cap (Players \ Quitters),
                      <<q, frame[n]>> \notin received[m]
               PROVE  \E x \in net : x.type = "DISCONNECT" /\ x.to = n /\ x.body[1] = q
    BY DEF CanCatchUp, MayGetFrom
  <2>1. m \in Up /\ n \in Up /\ q \in Players \ Quitters /\ lastFrame[n][q] = 0
    BY DEF TogetherIn, Connected
  <2>2. frame[n] \in 1 .. frame[m] - 1
    <3>1. frame[n] \in 1 .. End /\ frame[m] \in 1 .. End BY <1>1, <2>1 DEF IInv, TypeInv, TypeOK, Up
    <3> QED BY <3>1, Numbers
  <2>3. q \notin Connected(m) BY <1>1, <2>1, <2>2 DEF IInv, CalmInv, Executed
  <2>4. PICK d \in destroyed : d.player = q
    BY <1>1, <2>1, <2>3 DEF IInv, CalmInv, Named, Connected, Up
  <2> QED BY <1>1, <2>1, <2>4 DEF IInv, CalmInv, Destruction, Commanded, Tells
<1>2. IInv => (Calm => CanCatchUp) BY <1>1
<1> QED BY <1>2, Invariance, PTL

(* Where nobody votes and no more than one player may fail, every game is calm. *)
THEOREM AlwaysCalm ==
  ASSUME Voters = {}, MaxFaults <= 1
  PROVE  Spec => []Calm
<1>1. Init => Calm BY DEF Init, Calm
<1>2. ASSUME TypeInv, Calm, [Next]_vars PROVE Calm'
  <2>1. CASE \E m \in Up : \E p \in Others(m) : Vote(m, p) BY <2>1 DEF Vote
  <2>2. CASE UNCHANGED vars BY <1>2, <2>2 DEF vars, history, Calm
  <2>3. ASSUME NEW m \in Up, Crash(m) \/ QuitGame(m) PROVE Calm'
    <3>1. /\ Cardinality(down) < MaxFaults /\ down' = down \cup {m} /\ cast' = cast
      BY <2>3 DEF Crash, QuitGame, MayFail, GoDown, history
    <3>2. down = {}
      <4>1. IsFiniteSet(Players) BY DisconnectAssumption, FS_Interval DEF Players
      <4>2. IsFiniteSet(down) BY <1>2, <4>1, FS_Subset DEF TypeInv, TypeOK
      <4>3. Cardinality(down) \in Nat BY <4>2, FS_CardinalityType
      <4>4. Cardinality(down) = 0 BY <3>1, <4>3, DisconnectAssumption
      <4> QED BY <4>2, <4>4, FS_EmptySet
    <3> QED BY <1>2, <3>1, <3>2 DEF Calm
  <2>4. CASE System
    BY <1>2, <2>4 DEF Calm, System, TurnOnScreen, NotifyOthersOfCurrentFrame, AllCommandsReady,
                ExecuteFrame, TimeOut, UpdateDisconnectStatus, DisconnectPlayer, Receive,
                ReceiveCommand, ProcessDisconnectFrame, ProcessDisconnectScreenOff,
                ProcessDisconnectVote, ProcessDisconnectPlayer, history
  <2> QED BY <1>2, <2>1, <2>2, <2>3, <2>4 DEF Next
<1>3. TypeInv /\ Calm /\ [Next]_vars => Calm' BY <1>2
<1> QED BY <1>1, <1>3, TypeInvariance, PTL DEF Spec

--------------------------------------------------------------------------------
(* Votes, for games in which they are cast. *)

\* No two players have been dropped so far.
OneDropped ==
    \A m, n, p, q \in Players : lastFrame[m][p] # 0 /\ lastFrame[n][q] # 0 => p = q

\* Votes that are counted or under way were cast, and nobody votes against themselves.
Counted ==
    \A m, p, q \in Players : votes[m][p][q] # 0 => <<q, p, votes[m][p][q]>> \in cast
VotesSent == \A x \in net : x.type = "VOTE" => <<x.from, x.body[1], x.body[2]>> \in cast
AgainstOthers == \A v \in cast : v[1] # v[2]

\* Whose time is out has failed or dropped the machine that waits.
TimedOut == \A m \in Players : \A p \in expired[m] : p \in down \/ lastFrame[p][m] # 0

Unanimous(p, f) == \A q \in Others(p) : <<q, p, f>> \in cast

Rightly(d) ==
    /\ d.by \in Players /\ d.player \in Players /\ lastFrame[d.by][d.player] # 0
    /\ OneDropped /\ d.player \notin down => Unanimous(d.player, lastFrame[d.by][d.player])

BallotInv ==
    Counted /\ VotesSent /\ AgainstOthers /\ TimedOut /\ \A d \in destroyed : Rightly(d)

(* What the steps of machines can do to votes, time-outs and dropped players. *)
NoneRecalled ==
    /\ down \subseteq down' /\ cast \subseteq cast'
    /\ \A m, p \in Players : lastFrame[m][p] # 0 => lastFrame'[m][p] = lastFrame[m][p]

VotesFollow ==
    /\ \A m, p, q \in Players :
         votes'[m][p][q] \in {0, votes[m][p][q]} \/ <<q, p, votes'[m][p][q]>> \in cast'
    /\ \A x \in net' : x.type = "VOTE" => x \in net \/ <<x.from, x.body[1], x.body[2]>> \in cast'
    /\ \A v \in cast' : v \in cast \/ v[1] # v[2]

TimeOutsFollow ==
    \A m, p \in Players : p \in expired'[m] => p \in expired[m] \/ p \in down \/ lastFrame[p][m] # 0

Follows == NoneRecalled /\ VotesFollow /\ TimeOutsFollow

LEMMA BallotKept ==
  ASSUME TypeInv, TypeInv', BallotInv, Follows
  PROVE  Counted' /\ VotesSent' /\ AgainstOthers' /\ TimedOut' /\ \A d \in destroyed : Rightly(d)'
<1>1. Counted' BY DEF Follows, VotesFollow, NoneRecalled, BallotInv, Counted
<1>2. VotesSent' BY DEF Follows, VotesFollow, NoneRecalled, BallotInv, VotesSent
<1>3. AgainstOthers' BY DEF Follows, VotesFollow, BallotInv, AgainstOthers
<1>4. TimedOut'
  <2> SUFFICES ASSUME NEW m \in Players, NEW p \in expired'[m]
               PROVE  p \in down' \/ lastFrame'[p][m] # 0
    BY DEF TimedOut
  <2>1. p \in Players BY DEF TypeInv, TypeOK
  <2>2. p \in down \/ lastFrame[p][m] # 0
    BY <2>1 DEF Follows, TimeOutsFollow, BallotInv, TimedOut
  <2> QED BY <2>1, <2>2 DEF Follows, NoneRecalled
<1>5. ASSUME NEW d \in destroyed PROVE Rightly(d)'
  <2>1. Rightly(d) /\ d.by \in Players /\ d.player \in Players /\ lastFrame[d.by][d.player] # 0
    BY DEF BallotInv, Rightly
  <2>2. lastFrame'[d.by][d.player] = lastFrame[d.by][d.player] BY <2>1 DEF Follows, NoneRecalled
  <2>3. ASSUME OneDropped', d.player \notin down' PROVE Unanimous(d.player, lastFrame[d.by][d.player])'
    <3>1. OneDropped BY <2>3 DEF OneDropped, Follows, NoneRecalled
    <3>2. Unanimous(d.player, lastFrame[d.by][d.player])
      BY <2>1, <2>3, <3>1 DEF Rightly, Follows, NoneRecalled
    <3> QED BY <2>2, <3>2 DEF Unanimous, Follows, NoneRecalled
  <2> QED BY <2>1, <2>2, <2>3 DEF Rightly
<1> QED BY <1>1, <1>2, <1>3, <1>4, <1>5

(* Forgetting votes leaves those that are left as they were. *)
LEMMA VotesForgotten ==
  ASSUME TypeInv, NEW m \in Players, NEW q \in Players, NEW f,
         \/ votes' = [votes EXCEPT ![m] = ResetVotes(votes[m], q, f)]
         \/ votes' = votes
  PROVE  \A n, p, r \in Players : votes'[n][p][r] \in {0, votes[n][p][r]}
<1>1. votes \in [Players -> [Players -> [Players -> 0 .. End]]] BY DEF TypeInv, TypeOK
<1>2. \A p, r \in Players : ResetVotes(votes[m], q, f)[p][r] \in {0, votes[m][p][r]}
  BY <1>1, ResetVotesFacts
<1>3. CASE votes' = votes BY <1>3
<1>4. CASE votes' = [votes EXCEPT ![m] = ResetVotes(votes[m], q, f)]
  <2>1. votes'[m] = ResetVotes(votes[m], q, f) /\ \A n \in Players : n # m => votes'[n] = votes[n]
    BY <1>1, <1>4
  <2> QED BY <1>2, <2>1
<1> QED BY <1>3, <1>4

(* Steps that neither vote nor drop anybody, and send no votes of their own. *)
LEMMA OthersFollow ==
  ASSUME TypeInv, UNCHANGED <<lastFrame, down, cast, expired>>,
         NEW m \in Players, NEW q \in Players, NEW f,
         \/ votes' = [votes EXCEPT ![m] = ResetVotes(votes[m], q, f)]
         \/ votes' = votes,
         \A x \in net' : x.type = "VOTE" => x \in net
  PROVE  Follows
<1>1. \A n, p, r \in Players : votes'[n][p][r] \in {0, votes[n][p][r]} BY VotesForgotten
<1> QED BY <1>1 DEF Follows, NoneRecalled, VotesFollow, TimeOutsFollow

--------------------------------------------------------------------------------
LEMMA BallotInit == Init => BallotInv
<1> SUFFICES ASSUME Init PROVE BallotInv OBVIOUS
<1>1. \A x \in net : x.type = "COMMAND"
  <2>1. PICK late \in Delayed : InitCommands(late) BY DEF Init
  <2> SUFFICES ASSUME NEW x \in net PROVE x.type = "COMMAND" OBVIOUS
  <2>2. PICK m \in late : x \in SendLocalCommands(m, 0, Others(m), {m} \X (1 .. MaxFrame))
    BY <2>1 DEF InitCommands
  <2> QED BY <2>2, LocalCommandMessages
<1> QED BY <1>1 DEF Init, BallotInv, Counted, VotesSent, AgainstOthers, TimedOut

LEMMA FollowWait ==
  ASSUME TypeInv, NEW m \in Up, TurnOnScreen(m) \/ ExecuteFrame(m) \/ \E p \in Others(m) : TimeOut(m, p)
  PROVE  Follows
<1>1. /\ UNCHANGED <<lastFrame, down, cast, votes>> /\ m \in Players
      /\ net' \subseteq net
  BY DEF TurnOnScreen, ExecuteFrame, TimeOut, Carry, game, heard, history, Up
<1>2. ASSUME NEW n \in Players, NEW p \in Players, p \in expired'[n]
      PROVE  p \in expired[n] \/ p \in down \/ lastFrame[p][n] # 0
  <2>1. CASE expired' = [expired EXCEPT ![m] = {}]
    BY <1>1, <1>2, <2>1 DEF TypeInv, TypeOK
  <2>2. ASSUME NEW q \in Others(m), TimeOut(m, q) PROVE p \in expired[n] \/ p \in down \/ lastFrame[p][n] # 0
    <3>1. expired' = [expired EXCEPT ![m] = expired[m] \cup {q}] /\ (q \in down \/ lastFrame[q][m] # 0)
      BY <2>2 DEF TimeOut, Silent
    <3> QED BY <1>1, <1>2, <3>1 DEF TypeInv, TypeOK
  <2> QED BY <2>1, <2>2 DEF TurnOnScreen, ExecuteFrame
<1> QED BY <1>1, <1>2 DEF Follows, NoneRecalled, VotesFollow, TimeOutsFollow

LEMMA FollowNotify ==
  ASSUME TypeInv, NEW m \in Up, NotifyOthersOfCurrentFrame(m)
  PROVE  Follows
<1> DEFINE fs == [frames[m] EXCEPT ![m] = frame[m]]
           told == SendDirect("FRAME", m, PeersOf(m), frame[m])
           caught == IF frames[m][m] < frame[m] THEN CatchUp(m, fs, known[m]) ELSE {}
<1>1. /\ UNCHANGED <<lastFrame, down, cast, expired>> /\ m \in Players
      /\ \/ votes' = [votes EXCEPT ![m] = ResetVotes(votes[m], m, frame[m] - 1)]
         \/ votes' = votes
      /\ Carry(net \cup told \cup caught)
  BY DEF NotifyOthersOfCurrentFrame, game, history, Up
<1>2. \A x \in told : x.type = "FRAME" BY DirectMessages
<1>3. \A x \in caught : x.type = "COMMAND" BY CatchUpMessages
<1> HIDE DEF told, caught
<1>4. \A x \in net' : x.type = "VOTE" => x \in net BY <1>1, <1>2, <1>3 DEF Carry
<1> QED BY <1>1, <1>4, OthersFollow

LEMMA FollowReady ==
  ASSUME TypeInv, NEW m \in Up, AllCommandsReady(m)
  PROVE  Follows
<1> DEFINE told == SendDirect("SCREENOFF", m, PeersOf(m), frame[m])
<1>1. /\ UNCHANGED <<lastFrame, down, cast, expired>> /\ m \in Players
      /\ votes' = [votes EXCEPT ![m] = ResetVotes(votes[m], m, End)]
      /\ Carry(net \cup told)
  BY DEF AllCommandsReady, game, history, Up
<1>2. \A x \in told : x.type = "SCREENOFF" BY DirectMessages
<1> HIDE DEF told
<1>3. \A x \in net' : x.type = "VOTE" => x \in net BY <1>1, <1>2 DEF Carry
<1> QED BY <1>1, <1>3, OthersFollow

LEMMA FollowVote ==
  ASSUME TypeInv, NEW m \in Up, NEW p \in Others(m), Vote(m, p)
  PROVE  Follows
<1> DEFINE told == SendDirect("VOTE", m, PeersOf(m), <<p, frame[m]>>)
<1>0. PICK v : v = <<m, p, frame[m]>> OBVIOUS
<1>1. /\ UNCHANGED <<lastFrame, down, expired>> /\ m \in Players /\ p \in Players /\ p # m
      /\ votes' = [votes EXCEPT ![m][p][m] = frame[m]]
      /\ cast' = cast \cup {v}
      /\ Carry(net \cup told)
  BY <1>0 DEF Vote, game, clock, Up, Others
<1>2. \A x \in told : x.type = "VOTE" /\ x.from = m /\ x.body = <<p, frame[m]>> BY DirectMessages
<1> HIDE DEF told
<1>3. \A x \in net' : x.type = "VOTE" => x \in net \/ <<x.from, x.body[1], x.body[2]>> \in cast'
  BY <1>0, <1>1, <1>2 DEF Carry
<1>4. ASSUME NEW n \in Players, NEW r \in Players, NEW q \in Players
      PROVE  votes'[n][r][q] \in {0, votes[n][r][q]} \/ <<q, r, votes'[n][r][q]>> \in cast'
  <2>1. votes'[n][r][q] = IF n = m /\ r = p /\ q = m THEN frame[m] ELSE votes[n][r][q]
    BY <1>1 DEF TypeInv, TypeOK
  <2> QED BY <1>0, <1>1, <2>1
<1>5. \A w \in cast' : w \in cast \/ w[1] # w[2] BY <1>0, <1>1
<1> QED BY <1>1, <1>3, <1>4, <1>5 DEF Follows, NoneRecalled, VotesFollow, TimeOutsFollow

(* Dropping a player takes nothing back, and sends no votes. *)
LEMMA FollowDrop ==
  ASSUME TypeInv, NEW m \in Players, NEW p \in Players, lastFrame[m][p] = 0,
         NEW queued, DisconnectPlayer(m, p, queued),
         \A x \in queued : x.type = "VOTE" => x \in net
  PROVE  Follows
<1> DEFINE peers == PeersOf(m) \ {p}
           resent == IF p = PacketRouter(m) THEN ResendPendingCommands(m, peers) ELSE {}
<1>1. /\ lastFrame' = [lastFrame EXCEPT ![m][p] = frame[m]]
      /\ UNCHANGED <<down, expired, votes, cast>>
      /\ Carry({x \in queued : ~(x.from = m /\ x.to = p)} \cup resent)
  BY DEF DisconnectPlayer, clock, heard
<1>2. \A x \in resent : x.type = "COMMAND" BY LocalCommandMessages DEF ResendPendingCommands
<1> HIDE DEF resent
<1>3. \A n, q \in Players : lastFrame'[n][q] = IF n = m /\ q = p THEN frame[m] ELSE lastFrame[n][q]
  BY <1>1 DEF TypeInv, TypeOK
<1>4. \A x \in net' : x.type = "VOTE" => x \in net BY <1>1, <1>2 DEF Carry
<1> QED BY <1>1, <1>3, <1>4 DEF Follows, NoneRecalled, VotesFollow, TimeOutsFollow

LEMMA FollowReceive ==
  ASSUME TypeInv, VotesSent, NEW x \in net, Receive(x)
  PROVE  Follows /\ destroyed' = destroyed
<1> DEFINE m == x.to
<1>1. /\ Formed(x) /\ m \in Players /\ x.from \in Players
      /\ x.type = "DISCONNECT" => x.body[1] \in Players /\ lastFrame[m][x.body[1]] = 0
  BY DEF TypeInv, SoundMessages, Formed, Live
<1>2. CASE ReceiveCommand(x)
  <2> DEFINE sent == SendDirect("COMMAND", m, x.relay \cap PeersOf(m), x.body)
  <2>1. UNCHANGED <<lastFrame, down, cast, expired, votes, destroyed>> /\ Carry((net \ {x}) \cup sent)
    BY <1>2 DEF ReceiveCommand, clock, heard, history
  <2>2. \A y \in sent : y.type = "COMMAND" BY DirectMessages
  <2> HIDE DEF sent
  <2>3. \A y \in net' : y.type = "VOTE" => y \in net BY <2>1, <2>2 DEF Carry
  <2> QED BY <1>1, <2>1, <2>3, OthersFollow
<1>3. CASE ProcessDisconnectFrame(x)
  <2> DEFINE sent == IF x.body < frames[m][m] THEN FrameData(m, x.from, x.body) ELSE {}
  <2>1. /\ UNCHANGED <<lastFrame, down, cast, expired, destroyed>> /\ Carry((net \ {x}) \cup sent)
        /\ votes' = [votes EXCEPT ![m] = ResetVotes(votes[m], x.from, x.body - 1)]
    BY <1>3 DEF ProcessDisconnectFrame, game, clock, history
  <2>2. \A y \in sent : y.type = "COMMAND" BY FrameDataMessages
  <2> HIDE DEF sent
  <2>3. \A y \in net' : y.type = "VOTE" => y \in net BY <2>1, <2>2 DEF Carry
  <2> QED BY <1>1, <2>1, <2>3, OthersFollow
<1>4. CASE ProcessDisconnectScreenOff(x)
  <2>1. /\ UNCHANGED <<lastFrame, down, cast, expired, destroyed>> /\ Carry(net \ {x})
        /\ votes' = [votes EXCEPT ![m] = ResetVotes(votes[m], x.from, x.body)]
    BY <1>4 DEF ProcessDisconnectScreenOff, game, clock, history
  <2>2. \A y \in net' : y.type = "VOTE" => y \in net BY <2>1 DEF Carry
  <2> QED BY <1>1, <2>1, <2>2, OthersFollow
<1>5. CASE ProcessDisconnectVote(x)
  <2> DEFINE p == x.body[1]
             f == x.body[2]
  <2>1. /\ UNCHANGED <<lastFrame, down, cast, expired, destroyed>> /\ net' \subseteq net
        /\ votes' = [votes EXCEPT ![m][p][x.from] = f] \/ votes' = votes
        /\ p \in Players /\ <<x.from, p, f>> \in cast
    BY <1>1, <1>5 DEF ProcessDisconnectVote, Carry, game, clock, history, Formed, VotesSent
  <2> HIDE DEF p, f, m
  <2>2. ASSUME NEW n \in Players, NEW r \in Players, NEW q \in Players
        PROVE  votes'[n][r][q] \in {0, votes[n][r][q]} \/ <<q, r, votes'[n][r][q]>> \in cast'
    <3>1. CASE votes' = votes BY <3>1
    <3>2. CASE votes' = [votes EXCEPT ![m][p][x.from] = f]
      <4>1. votes'[n][r][q] = IF n = m /\ r = p /\ q = x.from THEN f ELSE votes[n][r][q]
        BY <1>1, <2>1, <3>2 DEF TypeInv, TypeOK
      <4> QED BY <2>1, <4>1
    <3> QED BY <2>1, <3>1, <3>2
  <2> QED BY <2>1, <2>2 DEF Follows, NoneRecalled, VotesFollow, TimeOutsFollow
<1>6. CASE ProcessDisconnectPlayer(x)
  <2>1. DisconnectPlayer(m, x.body[1], net \ {x}) /\ x.type = "DISCONNECT" /\ destroyed' = destroyed
    BY <1>6 DEF ProcessDisconnectPlayer
  <2>2. \A y \in net \ {x} : y.type = "VOTE" => y \in net OBVIOUS
  <2> HIDE DEF m
  <2> QED BY <1>1, <2>1, <2>2, FollowDrop
<1> QED BY <1>2, <1>3, <1>4, <1>5, <1>6 DEF Receive

LEMMA FollowGoDown ==
  ASSUME TypeInv, NEW m \in Up, Crash(m) \/ QuitGame(m)
  PROVE  Follows /\ destroyed' = destroyed
<1>1. PICK told : GoDown(m, SendDirect("DISCONNECT", m, told, <<m, frame[m]>>))
  <2>1. CASE Crash(m)
    <3>1. PICK none : none = {} OBVIOUS
    <3>2. SendDirect("DISCONNECT", m, none, <<m, frame[m]>>) = {} BY <3>1 DEF SendDirect
    <3> QED BY <2>1, <3>2 DEF Crash
  <2>2. CASE QuitGame(m) BY <2>2 DEF QuitGame
  <2> QED BY <2>1, <2>2
<1> DEFINE sent == SendDirect("DISCONNECT", m, told, <<m, frame[m]>>)
<1>2. /\ m \in Players /\ down \subseteq down' /\ UNCHANGED <<lastFrame, cast, destroyed>>
      /\ expired' = [expired EXCEPT ![m] = {}]
      /\ votes' = [votes EXCEPT ![m] = [p \in Players |-> [q \in Players |-> 0]]]
      /\ Carry({x \in net : x.from # m} \cup sent)
  BY <1>1 DEF GoDown, history, Up
<1>3. \A x \in sent : x.type = "DISCONNECT" BY DirectMessages
<1> HIDE DEF sent
<1>4. \A x \in net' : x.type = "VOTE" => x \in net BY <1>2, <1>3 DEF Carry
<1>5. \A n, p, q \in Players : votes'[n][p][q] \in {0, votes[n][p][q]}
  BY <1>2 DEF TypeInv, TypeOK
<1>6. \A n, p \in Players : p \in expired'[n] => p \in expired[n]
  BY <1>2 DEF TypeInv, TypeOK
<1> QED BY <1>2, <1>4, <1>5, <1>6 DEF Follows, NoneRecalled, VotesFollow, TimeOutsFollow

--------------------------------------------------------------------------------
(* If a machine that has dropped nobody yet counts votes enough, they are the     *)
(* votes of everybody else.                                                       *)
LEMMA EverybodyVoted ==
  ASSUME TypeInv, Counted, AgainstOthers, NEW m \in Players, NEW p \in Players,
         Connected(m) = Players, VotedOut(m, p)
  PROVE  Unanimous(p, frame[m])
<1> DEFINE counted == Votes(m, p)
<1>1. IsFiniteSet(Players) /\ Cardinality(Players) \in Nat
  BY DisconnectAssumption, FS_Interval, FS_CardinalityType DEF Players
<1>2. Others(p) = Players \ {p} /\ IsFiniteSet(Others(p)) /\ Cardinality(Others(p)) = Cardinality(Players) - 1
  BY <1>1, FS_RemoveElement DEF Others
<1>3. \A q \in counted : q \in Players /\ votes[m][p][q] = frame[m] /\ <<q, p, frame[m]>> \in cast
  <2>1. frame[m] # 0 BY Numbers DEF TypeInv, TypeOK
  <2> QED BY <2>1 DEF Votes, Counted
<1>4. counted \subseteq Others(p) BY <1>3 DEF AgainstOthers, Others
<1>5. Cardinality(counted) >= Cardinality(Others(p)) BY <1>2 DEF VotedOut
<1> HIDE DEF counted
<1>6. counted = Others(p) BY <1>2, <1>4, <1>5, FS_Subset, FS_CardinalityType
<1> QED BY <1>3, <1>6 DEF Unanimous

(* A player that is dropped first, and has not failed, is voted out. *)
LEMMA BallotUpdate ==
  ASSUME TypeInv, TypeInv', BallotInv, NEW m \in Up, NEW p \in Others(m), UpdateDisconnectStatus(m, p)
  PROVE  BallotInv'
<1> DEFINE named == Max({frames[m][q] : q \in Players})
           sent == SendDisconnectCommand(m, p, named)
<1>0. PICK new : new = [player |-> p, by |-> m, frame |-> named] OBVIOUS
<1>1. /\ p \in PeersOf(m) /\ (p \in expired[m] \/ VotedOut(m, p))
      /\ destroyed' = destroyed \cup {new}
      /\ DisconnectPlayer(m, p, net \cup sent)
  BY <1>0 DEF UpdateDisconnectStatus
<1>2. new.player = p /\ new.by = m BY <1>0
<1>3. \A x \in sent : x.type = "DISCONNECT" BY DirectMessages DEF SendDisconnectCommand
<1> HIDE DEF named, sent
<1>4. m \in Players /\ p \in Players /\ p # m /\ lastFrame[m][p] = 0 /\ frame[m] \in 1 .. End
  BY <1>1 DEF Up, Others, PeersOf, Connected, TypeInv, TypeOK
<1>5. Follows
  <2>1. \A x \in net \cup sent : x.type = "VOTE" => x \in net BY <1>3
  <2> QED BY <1>1, <1>4, <2>1, FollowDrop
<1>6. /\ Counted' /\ VotesSent' /\ AgainstOthers' /\ TimedOut'
      /\ \A d \in destroyed : Rightly(d)'
  BY <1>5, BallotKept
<1>7. /\ UNCHANGED <<down, cast, frame>>
      /\ \A n, q \in Players : lastFrame'[n][q] = IF n = m /\ q = p THEN frame[m] ELSE lastFrame[n][q]
  <2>1. lastFrame' = [lastFrame EXCEPT ![m][p] = frame[m]] /\ UNCHANGED <<down, cast, frame>>
    BY <1>1 DEF DisconnectPlayer
  <2> QED BY <1>4, <2>1 DEF TypeInv, TypeOK
<1>8. lastFrame'[m][p] = frame[m] /\ frame[m] # 0 BY <1>4, <1>7, Numbers
<1>9. ASSUME OneDropped', p \notin down' PROVE Unanimous(p, frame[m])'
  <2>1. \A n, q \in Players : lastFrame'[n][q] # 0 => q = p BY <1>4, <1>8, <1>9 DEF OneDropped
  <2>2. Connected(m) = Players
    <3>1. \A q \in Players : lastFrame[m][q] = 0 BY <1>4, <1>7, <2>1
    <3> QED BY <3>1 DEF Connected
  <2>3. p \notin expired[m]
    <3>1. lastFrame[p][m] = 0 BY <1>4, <1>7, <2>1
    <3> QED BY <1>4, <1>7, <1>9, <3>1 DEF BallotInv, TimedOut
  <2>4. Unanimous(p, frame[m]) BY <1>1, <1>4, <2>2, <2>3, EverybodyVoted DEF BallotInv
  <2> QED BY <1>7, <2>4 DEF Unanimous
<1>10. Rightly(new)'
  <2>1. lastFrame'[new.by][new.player] = frame'[m] /\ frame'[m] # 0 BY <1>2, <1>7, <1>8
  <2> QED BY <1>2, <1>4, <1>9, <2>1 DEF Rightly
<1> QED BY <1>1, <1>6, <1>10 DEF BallotInv

LEMMA BallotNext ==
  ASSUME TypeInv, TypeInv', BallotInv, [Next]_vars
  PROVE  BallotInv'
<1>1. ASSUME NEW m \in Up, NEW p \in Others(m), UpdateDisconnectStatus(m, p) PROVE BallotInv'
  BY <1>1, BallotUpdate
<1>2. ASSUME Follows, destroyed' = destroyed PROVE BallotInv' BY <1>2, BallotKept DEF BallotInv
<1>3. ASSUME NEW m \in Up, TurnOnScreen(m) \/ ExecuteFrame(m) \/ \E p \in Others(m) : TimeOut(m, p)
      PROVE  BallotInv'
  <2>1. destroyed' = destroyed BY <1>3 DEF TurnOnScreen, ExecuteFrame, TimeOut, history
  <2> QED BY <1>2, <1>3, <2>1, FollowWait
<1>4. ASSUME NEW m \in Up, NotifyOthersOfCurrentFrame(m) PROVE BallotInv'
  <2>1. destroyed' = destroyed BY <1>4 DEF NotifyOthersOfCurrentFrame, history
  <2> QED BY <1>2, <1>4, <2>1, FollowNotify
<1>5. ASSUME NEW m \in Up, AllCommandsReady(m) PROVE BallotInv'
  <2>1. destroyed' = destroyed BY <1>5 DEF AllCommandsReady, history
  <2> QED BY <1>2, <1>5, <2>1, FollowReady
<1>6. ASSUME NEW m \in Up, NEW p \in Others(m), Vote(m, p) PROVE BallotInv'
  <2>1. destroyed' = destroyed BY <1>6 DEF Vote
  <2> QED BY <1>2, <1>6, <2>1, FollowVote
<1>7. ASSUME NEW x \in net, Receive(x) PROVE BallotInv'
  BY <1>2, <1>7, FollowReceive DEF BallotInv
<1>8. ASSUME NEW m \in Up, Crash(m) \/ QuitGame(m) PROVE BallotInv' BY <1>2, <1>8, FollowGoDown
<1>9. CASE UNCHANGED vars
  <2>1. Follows /\ destroyed' = destroyed
    BY <1>9 DEF vars, game, clock, heard, history, Follows, NoneRecalled, VotesFollow, TimeOutsFollow
  <2> QED BY <1>2, <2>1
<1> QED BY <1>1, <1>3, <1>4, <1>5, <1>6, <1>7, <1>8, <1>9 DEF Next, System

(* As long as no two players have been dropped, whoever is dropped and has not    *)
(* failed has all votes of the others against them, cast in the frame in which    *)
(* they are dropped: votes of other frames, late ones and time-outs do not count  *)
(* (DisconnectManager::countVotesForPlayer).                                      *)
THEOREM VotedOutInOneFrameHolds == Spec => [](OneDropped => VotedOutInOneFrame)
<1>1. Init => TypeInv /\ BallotInv BY TypeInit, BallotInit
<1>2. TypeInv /\ BallotInv /\ [Next]_vars => (TypeInv /\ BallotInv)' BY TypeNext, BallotNext
<1>3. BallotInv => (OneDropped => VotedOutInOneFrame)
  BY DEF BallotInv, Rightly, Unanimous, VotedOutInOneFrame
<1> QED BY <1>1, <1>2, <1>3, PTL DEF Spec
================================================================================
