--------------------------- MODULE ConnectionsProofs ---------------------------
(***************************************************************************)
(* Proofs about Connections, for every number of players, frames, packets  *)
(* and run-ahead, whoever leaves and whichever connections are given up.   *)
(*                                                                         *)
(* The types hold without further conditions.  The other theorems are      *)
(* about the time until some machine sees the packet router leave.  The    *)
(* argument: until then every command of a client takes one way, from its  *)
(* player to player 0 and from there to everybody else.  A machine         *)
(* acknowledges a command only when it has it, or was to leave before it;  *)
(* so what the router waits for is exactly who may lack a command, and the *)
(* second-stage acknowledgement is true when it is sent.  It stays true,   *)
(* because nothing that a machine has is taken from it.                    *)
(***************************************************************************)
EXTENDS Connections, Stepwise

--------------------------------------------------------------------------------
(* The first in the plan of some players is one of them, and before the others. *)
LEMMA FirstInPlanFacts ==
  ASSUME NEW ps, ps \subseteq Players, ps # {}
  PROVE  FirstInPlan(ps) \in ps /\ \A r \in ps : FirstInPlan(ps) <= r
<1>1. ps \subseteq Nat BY ConnectionsAssumption DEF Players
<1>2. PICK q \in ps : \A r \in ps : ~ (<<r, q>> \in OpToRel(<, Nat))
  BY <1>1, NatLessThanWellFounded, WFMin
<1>3. ASSUME NEW r \in ps PROVE q <= r
  <2>1. r \in Nat /\ q \in Nat BY <1>1
  <2>2. ~ (r < q)
    <3> SUFFICES ASSUME r < q PROVE FALSE OBVIOUS
    <3>1. <<r, q>> \in OpToRel(<, Nat) BY <2>1, Zenon DEF OpToRel
    <3> QED BY <1>2, <3>1
  <2> QED BY <2>1, <2>2
<1> QED BY <1>3, Zenon DEF FirstInPlan

(* The numbers of the model. *)
LEMMA Numbers == NumPlayers \in Nat /\ MaxFrame \in Nat /\ 0 \in Players /\ Players \subseteq Nat
BY ConnectionsAssumption DEF Players

LEMMA FirstIsRouter ==
  ASSUME NEW ps, ps \subseteq Players, 0 \in ps
  PROVE  FirstInPlan(ps) = 0
<1> DEFINE q == FirstInPlan(ps)
<1>1. q \in Nat /\ q <= 0 BY FirstInPlanFacts, Numbers
<1> HIDE DEF q
<1> QED BY <1>1 DEF q

(* A command is a player and a frame. *)
LEMMA CommandFacts ==
  ASSUME NEW c \in Command
  PROVE  /\ Owner(c) \in Players /\ FrameOf(c) \in 0 .. MaxFrame - 1 /\ FrameOf(c) \in Nat
         /\ c = <<Owner(c), FrameOf(c)>>
<1>1. PICK p \in Players, f \in 0 .. MaxFrame - 1 : c = <<p, f>> BY DEF Command
<1> QED BY <1>1, Numbers DEF Owner, FrameOf

LEMMA CommandOf ==
  ASSUME NEW p \in Players, NEW f \in Nat, f < MaxFrame
  PROVE  <<p, f>> \in Command /\ Owner(<<p, f>>) = p /\ FrameOf(<<p, f>>) = f
BY Numbers DEF Command, Owner, FrameOf

--------------------------------------------------------------------------------
(* What may be queued to n: nobody's own command, and nobody is asked to relay a  *)
(* command to the player it is from.                                              *)
Entry == [cmd : Command, relay : SUBSET Players]
Fits(n, e) == e \in Entry /\ Owner(e.cmd) # n /\ Owner(e.cmd) \notin e.relay
SendQueues == [Players -> SUBSET Entry]
GoodQueues(qs) == qs \in SendQueues /\ \A n \in Players : \A e \in qs[n] : Fits(n, e)

Types == {"COMMAND", "ACKBOTH", "ACKSTAGE1", "ACKSTAGE2"}
PacketOK(x) ==
    /\ x.type \in Types /\ x.from \in Players /\ x.to \in Players
    /\ x.cmd \in Command /\ x.relay \subseteq Players
    /\ x.type = "COMMAND" => Owner(x.cmd) \notin x.relay

TypeInv ==
    /\ TypeOK
    /\ queue \in [Players -> SendQueues]
    /\ \A m \in Players : \A c \in pending[m] : Owner(c) = m
    /\ \A x \in wire : PacketOK(x)

(* A queue gets the commands that are not in it yet. *)
LEMMA QueuedFacts ==
  ASSUME NEW es, NEW cs, NEW relay
  PROVE  /\ es \subseteq Queued(es, cs, relay)
         /\ Commands(Queued(es, cs, relay)) = Commands(es) \cup cs
         /\ \A e \in Queued(es, cs, relay) :
              e \in es \/ (e.cmd \in cs /\ e = [cmd |-> e.cmd, relay |-> relay])
<1>1. \A e \in Queued(es, cs, relay) :
         e \in es \/ (e.cmd \in cs /\ e = [cmd |-> e.cmd, relay |-> relay])
  BY DEF Queued
<1>2. ASSUME NEW c \in cs PROVE c \in Commands(Queued(es, cs, relay))
  <2>1. CASE c \in Commands(es) BY <2>1 DEF Commands, Queued
  <2>2. CASE c \notin Commands(es)
    <3>1. [cmd |-> c, relay |-> relay] \in Queued(es, cs, relay) BY <2>2 DEF Queued
    <3> QED BY <3>1 DEF Commands
  <2> QED BY <2>1, <2>2
<1>3. Commands(Queued(es, cs, relay)) \subseteq Commands(es) \cup cs BY <1>1 DEF Commands
<1>4. es \subseteq Queued(es, cs, relay) BY DEF Queued
<1>5. Commands(es) \subseteq Commands(Queued(es, cs, relay)) BY <1>4 DEF Commands
<1> QED BY <1>1, <1>2, <1>3, <1>4, <1>5

LEMMA QueuedFits ==
  ASSUME NEW n \in Players, NEW es, \A e \in es : Fits(n, e), NEW cs, cs \subseteq Command,
         NEW relay, relay \subseteq Players, \A c \in cs : Owner(c) # n /\ Owner(c) \notin relay
  PROVE  \A e \in Queued(es, cs, relay) : Fits(n, e)
<1> SUFFICES ASSUME NEW e \in Queued(es, cs, relay) PROVE Fits(n, e) OBVIOUS
<1>1. e \in es \/ (e.cmd \in cs /\ e = [cmd |-> e.cmd, relay |-> relay]) BY QueuedFacts
<1>2. CASE e \in es BY <1>2
<1>3. CASE e.cmd \in cs /\ e = [cmd |-> e.cmd, relay |-> relay]
  <2>1. e \in Entry BY <1>3 DEF Entry
  <2>2. e.relay = relay BY <1>3
  <2> QED BY <1>3, <2>1, <2>2 DEF Fits
<1> QED BY <1>1, <1>2, <1>3

LEMMA SendDirectGood ==
  ASSUME NEW qs, GoodQueues(qs), NEW open, NEW cs, cs \subseteq Command,
         \A c \in cs : Owner(c) \notin open
  PROVE  GoodQueues(SendDirect(qs, open, cs))
<1> DEFINE row(n) == IF n \in open THEN Queued(qs[n], cs, {n}) ELSE qs[n]
<1>1. ASSUME NEW n \in Players PROVE \A e \in row(n) : Fits(n, e)
  <2>1. \A e \in qs[n] : Fits(n, e) BY DEF GoodQueues
  <2>2. CASE n \in open
    <3>1. \A c \in cs : Owner(c) # n /\ Owner(c) \notin {n} BY <2>2
    <3>2. {n} \subseteq Players OBVIOUS
    <3> QED BY <2>1, <2>2, <3>1, <3>2, QueuedFits
  <2> QED BY <2>1, <2>2
<1>2. SendDirect(qs, open, cs) = [n \in Players |-> row(n)] BY DEF SendDirect
<1> HIDE DEF row
<1>3. ASSUME NEW n \in Players PROVE row(n) \in SUBSET Entry BY <1>1 DEF Fits
<1> QED BY <1>1, <1>2, <1>3 DEF GoodQueues, SendQueues

LEMMA SendLocalGood ==
  ASSUME NEW qs, GoodQueues(qs), NEW m \in Players, NEW router, NEW open, open \subseteq Others(m),
         NEW cs, cs \subseteq Command, \A c \in cs : Owner(c) = m
  PROVE  GoodQueues(SendLocalCommands(qs, m, router, open, cs))
<1>1. m \notin open /\ open \subseteq Players BY DEF Others
<1>2. CASE router = m
  <2>1. \A c \in cs : Owner(c) \notin open BY <1>1
  <2> QED BY <1>2, <2>1, SendDirectGood DEF SendLocalCommands
<1>3. CASE router # m /\ router \in open
  <2> DEFINE new == Queued(qs[router], cs, RelayMask(m))
  <2>1. \A e \in new : Fits(router, e)
    <3>1. \A e \in qs[router] : Fits(router, e) BY <1>1, <1>3 DEF GoodQueues
    <3>2. RelayMask(m) \subseteq Players /\ m \notin RelayMask(m) BY DEF RelayMask, Others
    <3>3. \A c \in cs : Owner(c) # router /\ Owner(c) \notin RelayMask(m) BY <1>3, <3>2
    <3> QED BY <1>1, <1>3, <3>1, <3>2, <3>3, QueuedFits
  <2>2. SendLocalCommands(qs, m, router, open, cs) = [qs EXCEPT ![router] = new]
    BY <1>3 DEF SendLocalCommands
  <2> HIDE DEF new
  <2>3. new \in SUBSET Entry BY <2>1 DEF Fits
  <2> QED BY <2>1, <2>2, <2>3 DEF GoodQueues, SendQueues
<1>4. CASE router # m /\ router \notin open BY <1>4 DEF SendLocalCommands
<1> QED BY <1>2, <1>3, <1>4

LEMMA QueuesAreGood ==
  ASSUME TypeInv, NEW m \in Players
  PROVE  GoodQueues(queue[m]) /\ Open(m) \subseteq Others(m) /\ pending[m] \subseteq Command
<1>1. \A n \in Players : \A e \in queue[m][n] : e \in Entry BY DEF TypeInv, SendQueues
<1> QED BY <1>1 DEF TypeInv, TypeOK, SendQueues, GoodQueues, Fits, Open

--------------------------------------------------------------------------------
(* What m has come to while it goes through the leave commands of its frame: its  *)
(* connections only begin to quit, for a reason, and if the packet router is not  *)
(* among those who leave, what is queued stays.                                   *)
LeaveStates == [inGame : SUBSET Players, quitting : SUBSET Players, queue : SendQueues]
OwnOnly(m) == \A n \in Players : \A e \in queue[m][n] : Owner(e.cmd) = m
RouterStaysFor(m) == 0 \in InGame(m) /\ leaves[0] # frame[m] /\ (m = 0 \/ OwnOnly(m))
InLoop(m, s) ==
    /\ s \in LeaveStates /\ GoodQueues(s.queue)
    /\ quitting[m] \subseteq s.quitting \cup closed[m]
    /\ \A q \in s.quitting : q \in quitting[m] \/ leaves[q] = frame[m] \/ leaves[m] = frame[m]
    /\ RouterStaysFor(m) => 0 \in s.inGame /\ s.queue = queue[m]

LEMMA LoopStarts ==
  ASSUME TypeInv, NEW m \in Players
  PROVE  InLoop(m, [inGame |-> InGame(m), quitting |-> quitting[m], queue |-> queue[m]])
<1> DEFINE s == [inGame |-> InGame(m), quitting |-> quitting[m], queue |-> queue[m]]
<1>1. /\ s.inGame = InGame(m) /\ s.quitting = quitting[m] /\ s.queue = queue[m]
      /\ s \in [inGame : {InGame(m)}, quitting : {quitting[m]}, queue : {queue[m]}]
  OBVIOUS
<1>2. InGame(m) \subseteq Players BY DEF InGame
<1>3. quitting[m] \subseteq Players /\ GoodQueues(queue[m]) BY QueuesAreGood DEF TypeInv, TypeOK
<1>4. s \in LeaveStates BY <1>2, <1>3 DEF LeaveStates, GoodQueues
<1> HIDE DEF s
<1>5. InLoop(m, s) BY <1>1, <1>3, <1>4 DEF InLoop, RouterStaysFor
<1> QED BY <1>5 DEF s

LEMMA LoopGoesOn ==
  ASSUME TypeInv, NEW m \in Players, NEW s, InLoop(m, s), NEW q \in Players, leaves[q] = frame[m]
  PROVE  InLoop(m, ProcessPlayerLeave(m, s, q))
<1> DEFINE quits == (s.quitting \cup IF q = m THEN Others(m) ELSE {q}) \ closed[m]
           inGame == s.inGame \ {q}
           new == IF q = m THEN ClearCommandsExceptFrom(s.queue, m)
                  ELSE IF q # FirstInPlan(s.inGame) THEN s.queue
                  ELSE ResendPendingCommands(s.queue, m, FirstInPlan(inGame),
                                             Others(m) \ (quits \cup closed[m]))
           t == ProcessPlayerLeave(m, s, q)
<1>1. t = [inGame |-> inGame, quitting |-> quits, queue |-> new] BY DEF ProcessPlayerLeave
<1>2. t.inGame = inGame /\ t.quitting = quits /\ t.queue = new BY <1>1
<1>3. s.inGame \subseteq Players /\ s.quitting \subseteq Players /\ GoodQueues(s.queue)
  BY DEF InLoop, LeaveStates
<1>4. GoodQueues(new)
  <2>1. CASE q = m
    <3>1. new = [n \in Players |-> {e \in s.queue[n] : Owner(e.cmd) = m}]
      BY <2>1 DEF ClearCommandsExceptFrom
    <3> HIDE DEF new
    <3> QED BY <1>3, <3>1 DEF GoodQueues, SendQueues
  <2>2. CASE q # m /\ q # FirstInPlan(s.inGame) BY <1>3, <2>2
  <2>3. CASE q # m /\ q = FirstInPlan(s.inGame)
    <3> DEFINE open == Others(m) \ (quits \cup closed[m])
               router == FirstInPlan(inGame)
    <3>1. new = SendLocalCommands(s.queue, m, router, open, pending[m])
      BY <2>3 DEF ResendPendingCommands
    <3>2. open \subseteq Others(m) OBVIOUS
    <3>3. pending[m] \subseteq Command /\ \A c \in pending[m] : Owner(c) = m
      BY QueuesAreGood DEF TypeInv
    <3> HIDE DEF open, router, new
    <3> QED BY <1>3, <3>1, <3>2, <3>3, SendLocalGood
  <2> QED BY <2>1, <2>2, <2>3
<1>5. quits \subseteq Players BY <1>3 DEF Others
<1>6. quitting[m] \subseteq quits \cup closed[m] BY DEF InLoop
<1>7. ASSUME NEW p \in quits PROVE p \in quitting[m] \/ leaves[p] = frame[m] \/ leaves[m] = frame[m]
  BY <1>7 DEF InLoop
<1>8. ASSUME RouterStaysFor(m) PROVE 0 \in inGame /\ new = queue[m]
  <2>1. 0 \in s.inGame /\ s.queue = queue[m] /\ q # 0 BY <1>8 DEF InLoop, RouterStaysFor
  <2>2. FirstInPlan(s.inGame) = 0 BY <1>3, <2>1, FirstIsRouter
  <2>3. CASE q # m BY <2>1, <2>2, <2>3
  <2>4. CASE q = m
    <3>1. OwnOnly(m) BY <1>8, <2>1, <2>4 DEF RouterStaysFor
    <3>2. new = [n \in Players |-> {e \in queue[m][n] : Owner(e.cmd) = m}]
      BY <2>1, <2>4 DEF ClearCommandsExceptFrom
    <3>3. \A n \in Players : {e \in queue[m][n] : Owner(e.cmd) = m} = queue[m][n]
      BY <3>1 DEF OwnOnly
    <3>4. new = [n \in Players |-> queue[m][n]] BY <3>2, <3>3
    <3>5. queue[m] = [n \in Players |-> queue[m][n]] BY DEF TypeInv, SendQueues
    <3> QED BY <2>1, <3>4, <3>5
  <2> QED BY <2>1, <2>3, <2>4
<1>9. inGame \subseteq Players BY <1>3
<1> HIDE DEF quits, inGame, new
<1>10. t \in LeaveStates BY <1>1, <1>4, <1>5, <1>9 DEF LeaveStates, GoodQueues
<1> HIDE DEF t
<1>11. InLoop(m, t) BY <1>2, <1>4, <1>6, <1>7, <1>8, <1>10 DEF InLoop
<1> QED BY <1>11 DEF t

(* What m has come to when it has gone through all of them. *)
LEMMA LeavesFacts ==
  ASSUME TypeInv, NEW m \in Players
  PROVE  InLoop(m, ProcessPlayerLeaves(m))
<1> DEFINE n == NumPlayers
           S == {s \in LeaveStates : InLoop(m, s)}
           start == [inGame |-> InGame(m), quitting |-> quitting[m], queue |-> queue[m]]
           step(i, s) == IF leaves[i - 1] = frame[m] THEN ProcessPlayerLeave(m, s, i - 1) ELSE s
           GoesThrough(g) ==
             g = [k \in 0 .. n |->
                    IF k = 0 THEN start
                    ELSE IF leaves[k - 1] = frame[m] THEN ProcessPlayerLeave(m, g[k - 1], k - 1)
                    ELSE g[k - 1]]
           after == CHOOSE g : GoesThrough(g)
<1>1. ProcessPlayerLeaves(m) = after[n] BY DEF ProcessPlayerLeaves
<1>2. n \in Nat /\ \A i \in 1 .. n : i - 1 \in Players BY ConnectionsAssumption DEF Players
<1> HIDE DEF n
<1>3. start \in S BY LoopStarts DEF InLoop
<1>4. ASSUME NEW i \in 1 .. n, NEW s \in S PROVE step(i, s) \in S
  <2>1. CASE leaves[i - 1] = frame[m]
    <3>1. InLoop(m, ProcessPlayerLeave(m, s, i - 1)) BY <1>2, <2>1, LoopGoesOn
    <3> QED BY <2>1, <3>1 DEF InLoop
  <2>2. CASE leaves[i - 1] # frame[m] BY <2>2
  <2> QED BY <2>1, <2>2
<1> HIDE DEF S, start
<1>5. \E g : GoesThrough(g)
  <2> DEFINE F == [i \in 1 .. n |-> [s \in S |-> step(i, s)]]
  <2>1. F \in StepFunctions(n, S)
    <3> HIDE DEF step
    <3> QED BY <1>4 DEF StepFunctions
  <2>2. \A i \in 1 .. n : \A s \in S : F[i][s] = step(i, s) OBVIOUS
  <2> HIDE DEF F
  <2>3. PICK g \in [0 .. n -> S] : g[0] = start /\ \A i \in 1 .. n : g[i] = F[i][g[i - 1]]
    <3>1. Sequels(n, S, start, F) # {} BY <1>2, <1>3, <2>1, StepsExist
    <3> QED BY <3>1 DEF Sequels
  <2>4. ASSUME NEW i \in 1 .. n PROVE g[i] = step(i, g[i - 1])
    <3>1. i - 1 \in 0 .. n BY <1>2
    <3> HIDE DEF step
    <3> QED BY <2>2, <2>3, <3>1
  <2>5. GoesThrough(g) BY <1>2, <2>3, <2>4
  <2> QED BY <2>5
<1>6. GoesThrough(after) BY <1>5
<1> HIDE DEF after
<1>7. after[0] = start /\ \A i \in 1 .. n : after[i] = step(i, after[i - 1])
  BY <1>2, <1>6
<1>8. \A i \in 0 .. n : after[i] \in S
  <2> DEFINE T == {i \in 0 .. n : after[i] \in S}
  <2>1. 0 \in T BY <1>2, <1>3, <1>7
  <2>2. ASSUME NEW i \in 1 .. n, i - 1 \in T PROVE i \in T
    <3> HIDE DEF step
    <3> QED BY <1>2, <1>4, <1>7, <2>2
  <2> HIDE DEF T
  <2>3. \A i \in 0 .. n : i \in T BY <1>2, <2>1, <2>2, UpTo
  <2> QED BY <2>3 DEF T
<1>9. after[n] \in S BY <1>2, <1>8
<1> QED BY <1>1, <1>9 DEF S

--------------------------------------------------------------------------------
(* Each kind of step keeps the types. *)
LEMMA CarryFacts ==
  ASSUME NEW rest, NEW new, Carry(rest, new)
  PROVE  wire' \subseteq rest \cup new
BY DEF Carry

LEMMA TypeInit == Init => TypeInv
<1> SUFFICES ASSUME Init PROVE TypeInv OBVIOUS
<1>1. 0 \in 0 .. MaxFrame /\ MaxFrame \in 0 .. MaxFrame BY Numbers
<1>2. TypeOK BY <1>1 DEF Init, TypeOK
<1> QED BY <1>2 DEF Init, TypeInv, SendQueues

\* The rows of a table of queues but one, and the queues of a row but one, are as they were.
LEMMA RowChanged ==
  ASSUME TypeInv, NEW m \in Players, NEW row, GoodQueues(row), queue' = [queue EXCEPT ![m] = row]
  PROVE  /\ queue' \in [Players -> SendQueues]
         /\ \A k \in Players : GoodQueues(queue'[k])
         /\ \A k \in Players : queue'[k] = IF k = m THEN row ELSE queue[k]
<1>1. row \in SendQueues BY DEF GoodQueues
<1>2. queue \in [Players -> SendQueues] BY DEF TypeInv
<1>3. \A k \in Players : queue'[k] = IF k = m THEN row ELSE queue[k] BY <1>2
<1>4. queue' \in [Players -> SendQueues] BY <1>1, <1>2
<1> QED BY <1>3, <1>4, QueuesAreGood

IsCut(m, n, es) ==
    \A k, l \in Players : queue'[k][l] = IF k = m /\ l = n THEN es ELSE queue[k][l]

LEMMA QueueCut ==
  ASSUME TypeInv, NEW m \in Players, NEW n \in Players, NEW es, es \subseteq queue[m][n],
         queue' = [queue EXCEPT ![m][n] = es]
  PROVE  /\ queue' \in [Players -> SendQueues]
         /\ \A k \in Players : GoodQueues(queue'[k])
         /\ IsCut(m, n, es)
<1> DEFINE row == [queue[m] EXCEPT ![n] = es]
<1>1. queue \in [Players -> SendQueues] /\ queue[m] \in SendQueues BY DEF TypeInv
<1>2. queue' = [queue EXCEPT ![m] = row] OBVIOUS
<1>3. GoodQueues(queue[m]) BY QueuesAreGood
<1>4. \A l \in Players : row[l] = IF l = n THEN es ELSE queue[m][l] BY <1>1 DEF SendQueues
<1>5. row \in SendQueues BY <1>1 DEF SendQueues
<1> HIDE DEF row
<1>6. GoodQueues(row) BY <1>3, <1>4, <1>5 DEF GoodQueues
<1>7. \A k \in Players : queue'[k] = IF k = m THEN row ELSE queue[k] BY <1>2, <1>6, RowChanged
<1>8. IsCut(m, n, es)
  <2> SUFFICES ASSUME NEW k \in Players, NEW l \in Players
               PROVE  queue'[k][l] = IF k = m /\ l = n THEN es ELSE queue[k][l]
    BY DEF IsCut
  <2>1. CASE k = m
    <3>1. queue'[k][l] = row[l] BY <1>7, <2>1
    <3> QED BY <1>4, <2>1, <3>1
  <2>2. CASE k # m BY <1>7, <2>2
  <2> QED BY <2>1, <2>2
<1> QED BY <1>2, <1>6, <1>8, RowChanged

(* What is said of the queues in the types follows from what is said here. *)
LEMMA QueueTypes ==
  ASSUME \A k \in Players : GoodQueues(queue'[k])
  PROVE  \A m, n \in Players : \A e \in queue'[m][n] :
           e.cmd \in Command /\ Owner(e.cmd) # n /\ Owner(e.cmd) \notin e.relay
BY DEF GoodQueues, Fits, Entry

LEMMA TypeSend ==
  ASSUME TypeInv, NEW m \in Players, IssueFrame(m) \/ LeaveGame(m)
  PROVE  TypeInv'
<1> DEFINE c == <<m, issued[m]>>
           row == SendLocalCommands(queue[m], m, PacketRouter(m), Open(m), {c})
<1>1. /\ issued[m] < MaxFrame
      /\ issued' = [issued EXCEPT ![m] = @ + 1]
      /\ received' = [received EXCEPT ![m] = @ \cup {c}]
      /\ queue' = [queue EXCEPT ![m] = row]
      /\ pending' = [pending EXCEPT ![m] = IF PacketRouter(m) = m THEN @ ELSE @ \cup {c}]
      /\ UNCHANGED <<frame, relayed, quitting, closed, wire, givenUp>>
  BY DEF IssueFrame, LeaveGame, SendCommand
<1>2. leaves' = leaves \/ leaves' = [leaves EXCEPT ![m] = issued[m]]
  BY DEF IssueFrame, LeaveGame
<1>3. issued[m] \in Nat /\ issued[m] + 1 \in 0 .. MaxFrame /\ issued[m] \in 0 .. MaxFrame
  BY <1>1, Numbers DEF TypeInv, TypeOK
<1>4. c \in Command /\ Owner(c) = m BY <1>1, <1>3, CommandOf
<1>5. GoodQueues(row)
  <2>1. GoodQueues(queue[m]) /\ Open(m) \subseteq Others(m) BY QueuesAreGood
  <2>2. {c} \subseteq Command /\ \A d \in {c} : Owner(d) = m BY <1>4
  <2> HIDE DEF c
  <2> QED BY <2>1, <2>2, SendLocalGood
<1> HIDE DEF c, row
<1>6. queue' \in [Players -> SendQueues] /\ \A k \in Players : GoodQueues(queue'[k])
  BY <1>1, <1>5, RowChanged
<1>7. issued' \in [Players -> 0 .. MaxFrame] /\ leaves' \in [Players -> 0 .. MaxFrame]
  BY <1>1, <1>2, <1>3 DEF TypeInv, TypeOK
<1>8. received' \in [Players -> SUBSET Command] BY <1>1, <1>4 DEF TypeInv, TypeOK
<1>9. pending' \in [Players -> SUBSET Command] /\ \A k \in Players : \A d \in pending'[k] : Owner(d) = k
  BY <1>1, <1>4 DEF TypeInv, TypeOK
<1>10. TypeOK' BY <1>1, <1>6, <1>7, <1>8, <1>9, QueueTypes DEF TypeInv, TypeOK
<1>11. \A x \in wire' : PacketOK(x) BY <1>1 DEF TypeInv
<1> QED BY <1>6, <1>9, <1>10, <1>11 DEF TypeInv, PacketOK

LEMMA TypeExecute ==
  ASSUME TypeInv, NEW m \in Players, ExecuteFrame(m)
  PROVE  TypeInv'
<1> DEFINE after == ProcessPlayerLeaves(m)
<1>1. /\ frame[m] < MaxFrame
      /\ frame' = [frame EXCEPT ![m] = @ + 1]
      /\ quitting' = [quitting EXCEPT ![m] = after.quitting]
      /\ queue' = [queue EXCEPT ![m] = after.queue]
      /\ UNCHANGED <<issued, leaves, received, pending, relayed, closed, wire, givenUp>>
  BY DEF ExecuteFrame
<1>2. InLoop(m, after) BY LeavesFacts
<1> HIDE DEF after
<1>3. after.quitting \subseteq Players /\ GoodQueues(after.queue) BY <1>2 DEF InLoop, LeaveStates
<1>4. queue' \in [Players -> SendQueues] /\ \A k \in Players : GoodQueues(queue'[k])
  BY <1>1, <1>3, RowChanged
<1>5. frame' \in [Players -> 0 .. MaxFrame]
  <2>1. frame[m] + 1 \in 0 .. MaxFrame BY <1>1, Numbers DEF TypeInv, TypeOK
  <2> QED BY <1>1, <2>1 DEF TypeInv, TypeOK
<1>6. quitting' \in [Players -> SUBSET Players] BY <1>1, <1>3 DEF TypeInv, TypeOK
<1>7. TypeOK' BY <1>1, <1>4, <1>5, <1>6, QueueTypes DEF TypeInv, TypeOK
<1> QED BY <1>1, <1>4, <1>7 DEF TypeInv, PacketOK

(* What a machine sends when it gets a command. *)
LEMMA AckFacts ==
  ASSUME NEW m, NEW c, NEW relay, NEW x \in AckCommand(m, c, relay)
  PROVE  LET to == IF PacketRouter(m) = m THEN Owner(c) ELSE PacketRouter(m)
         IN  /\ x = Packet(AckType(m, relay), m, to, c, {to})
             /\ to \in Open(m)
BY DEF AckCommand

LEMMA PacketFacts ==
  ASSUME NEW type, NEW from, NEW to, NEW c, NEW relay
  PROVE  LET x == Packet(type, from, to, c, relay)
         IN  x.type = type /\ x.from = from /\ x.to = to /\ x.cmd = c /\ x.relay = relay
BY DEF Packet

LEMMA TypeProcess ==
  ASSUME TypeInv, NEW m \in Players, NEW c \in Command, NEW relay, relay \subseteq Players,
         Owner(c) \notin relay, NEW rest, rest \subseteq wire, ProcessCommand(m, c, relay, rest)
  PROVE  TypeInv'
<1>1. UNCHANGED <<frame, issued, leaves, pending, quitting, closed, givenUp>> BY DEF ProcessCommand
<1>2. \A x \in wire' : PacketOK(x)
  <2>1. wire' \subseteq wire \cup AckCommand(m, c, relay) BY CarryFacts DEF ProcessCommand
  <2>2. ASSUME NEW x \in AckCommand(m, c, relay) PROVE PacketOK(x)
    <3> DEFINE to == IF PacketRouter(m) = m THEN Owner(c) ELSE PacketRouter(m)
    <3>1. x = Packet(AckType(m, relay), m, to, c, {to}) /\ to \in Players
      BY <2>2, AckFacts DEF Open, Others
    <3> HIDE DEF to
    <3>2. x.type = AckType(m, relay) /\ x.from = m /\ x.to = to /\ x.cmd = c /\ x.relay = {to}
      BY <3>1, PacketFacts
    <3> QED BY <3>1, <3>2 DEF PacketOK, AckType, Types
  <2> QED BY <2>1, <2>2 DEF TypeInv
<1>3. CASE UNCHANGED <<received, queue, relayed>> BY <1>1, <1>2, <1>3 DEF TypeInv, TypeOK
<1>4. CASE SendRemoteCommand(m, c, relay)
  <2> DEFINE targets == relay \cap Open(m)
             row == SendDirect(queue[m], targets, {c})
             waited == Relaying(relayed[m][c], targets)
  <2>1. /\ received' = [received EXCEPT ![m] = IF m \in relay THEN @ \cup {c} ELSE @]
        /\ queue' = [queue EXCEPT ![m] = row]
        /\ relayed' = [relayed EXCEPT ![m][c] = waited]
    BY <1>4 DEF SendRemoteCommand
  <2>2. GoodQueues(row)
    <3>1. {c} \subseteq Command /\ \A d \in {c} : Owner(d) \notin targets OBVIOUS
    <3>2. GoodQueues(queue[m]) BY QueuesAreGood
    <3> HIDE DEF targets
    <3> QED BY <3>1, <3>2, SendDirectGood
  <2>3. waited \subseteq Players /\ Owner(c) \notin waited
    BY DEF Relaying, TypeInv, TypeOK
  <2> HIDE DEF row, waited
  <2>4. queue' \in [Players -> SendQueues] /\ \A k \in Players : GoodQueues(queue'[k])
    BY <2>1, <2>2, RowChanged
  <2>5. received' \in [Players -> SUBSET Command] BY <2>1 DEF TypeInv, TypeOK
  <2>6. /\ relayed' \in [Players -> [Command -> SUBSET Players]]
        /\ \A k \in Players, d \in Command : Owner(d) \notin relayed'[k][d]
    BY <2>1, <2>3 DEF TypeInv, TypeOK
  <2>7. TypeOK' BY <1>1, <2>4, <2>5, <2>6, QueueTypes DEF TypeInv, TypeOK
  <2>8. \A k \in Players : \A d \in pending'[k] : Owner(d) = k BY <1>1 DEF TypeInv
  <2> QED BY <1>2, <2>4, <2>7, <2>8 DEF TypeInv, PacketOK
<1> QED BY <1>3, <1>4 DEF ProcessCommand

LEMMA EntryFacts ==
  ASSUME TypeInv, NEW m \in Players, NEW n \in Players, NEW e \in queue[m][n]
  PROVE  /\ e.cmd \in Command /\ e.relay \subseteq Players
         /\ Owner(e.cmd) # n /\ Owner(e.cmd) \notin e.relay
BY QueuesAreGood DEF GoodQueues, Fits, Entry

LEMMA TypeDeliver ==
  ASSUME TypeInv, NEW m \in Players, NEW n \in Players, NEW c \in Command, Deliver(m, n, c)
  PROVE  TypeInv'
<1>1. PICK e \in queue[m][n] : e.cmd = c /\ ProcessCommand(n, c, e.relay, wire) BY DEF Deliver
<1> QED BY <1>1, EntryFacts, TypeProcess

LEMMA TypeReceiveCommand ==
  ASSUME TypeInv, NEW x \in wire, ReceiveCommand(x)
  PROVE  TypeInv'
<1>1. x.type = "COMMAND" BY DEF ReceiveCommand
<1>2. PICK rest \in After(x) : ProcessCommand(x.to, x.cmd, x.relay, rest) BY DEF ReceiveCommand
<1>3. rest \subseteq wire BY DEF After
<1>4. PacketOK(x) BY DEF TypeInv
<1> QED BY <1>1, <1>2, <1>3, <1>4, TypeProcess DEF PacketOK

LEMMA TypeDelay ==
  ASSUME TypeInv, NEW m \in Players, NEW n \in Players, Delay(m, n)
  PROVE  TypeInv'
<1>1. PICK e \in queue[m][n] : wire' = wire \cup {Packet("COMMAND", m, n, e.cmd, e.relay)}
  BY DEF Delay
<1>2. UNCHANGED <<frame, issued, leaves, received, queue, pending, relayed, quitting, closed, givenUp>>
  BY DEF Delay
<1>3. PacketOK(Packet("COMMAND", m, n, e.cmd, e.relay))
  BY EntryFacts, PacketFacts DEF PacketOK, Types
<1>4. \A x \in wire' : PacketOK(x) BY <1>1, <1>3 DEF TypeInv
<1>5. TypeOK' BY <1>2 DEF TypeInv, TypeOK
<1> QED BY <1>2, <1>4, <1>5 DEF TypeInv, PacketOK

(* What an acknowledgement does to the tables. *)
AckEffect(x) ==
    /\ queue' = [queue EXCEPT ![x.to][x.from] =
                   IF x.type = "ACKSTAGE2" THEN queue[x.to][x.from]
                   ELSE {e \in queue[x.to][x.from] : e.cmd # x.cmd}]
    /\ \/ x.type = "ACKSTAGE1" /\ pending' = pending /\ relayed' = relayed
       \/ /\ x.type # "ACKSTAGE1"
          /\ pending' = [pending EXCEPT ![x.to] = @ \ {x.cmd}]
          /\ relayed' = [relayed EXCEPT ![x.to][x.cmd] =
                           @ \ {IF x.type = "ACKSTAGE2" THEN 0 ELSE x.from}]
    /\ wire' \subseteq wire \cup Stage2For(x) \cup Relayed(x)
    /\ UNCHANGED <<frame, issued, leaves, received, quitting, closed, givenUp>>

LEMMA AckEffects ==
  ASSUME NEW x, ReceiveAck(x)
  PROVE  AckEffect(x)
<1>1. ProcessAckStage1(x) /\ ProcessAckStage2(x)
      /\ UNCHANGED <<frame, issued, leaves, received, quitting, closed, givenUp>>
  BY DEF ReceiveAck
<1>2. PICK rest \in After(x) : Carry(rest, Stage2For(x) \cup Relayed(x)) BY DEF ReceiveAck
<1>3. rest \subseteq wire \cup {x} \/ rest \subseteq wire BY DEF After
<1>4. rest \subseteq wire BY DEF After
<1>5. wire' \subseteq wire \cup Stage2For(x) \cup Relayed(x) BY <1>2, <1>4, CarryFacts
<1>6. queue' = [queue EXCEPT ![x.to][x.from] =
                   IF x.type = "ACKSTAGE2" THEN queue[x.to][x.from]
                   ELSE {e \in queue[x.to][x.from] : e.cmd # x.cmd}]
  BY <1>1 DEF ProcessAckStage1, IsCommand
<1>7. \/ x.type = "ACKSTAGE1" /\ pending' = pending /\ relayed' = relayed
      \/ /\ x.type # "ACKSTAGE1"
         /\ pending' = [pending EXCEPT ![x.to] = @ \ {x.cmd}]
         /\ relayed' = [relayed EXCEPT ![x.to][x.cmd] =
                          @ \ {IF x.type = "ACKSTAGE2" THEN 0 ELSE x.from}]
  BY <1>1 DEF ProcessAckStage2, Acknowledged
<1> QED BY <1>1, <1>5, <1>6, <1>7 DEF AckEffect

LEMMA TypeReceiveAck ==
  ASSUME TypeInv, NEW x \in wire, ReceiveAck(x)
  PROVE  TypeInv'
<1>1. AckEffect(x) BY AckEffects
<1>2. x.type # "COMMAND" BY DEF ReceiveAck
<1>3. PacketOK(x) BY DEF TypeInv
<1> DEFINE es == IF x.type = "ACKSTAGE2" THEN queue[x.to][x.from]
                 ELSE {e \in queue[x.to][x.from] : e.cmd # x.cmd}
<1>4. x.to \in Players /\ x.from \in Players /\ x.cmd \in Command /\ x.relay \subseteq Players
      /\ x.type \in Types
  BY <1>3 DEF PacketOK
<1>5. es \subseteq queue[x.to][x.from] /\ queue' = [queue EXCEPT ![x.to][x.from] = es]
  BY <1>1 DEF AckEffect
<1> HIDE DEF es
<1>6. queue' \in [Players -> SendQueues] /\ \A k \in Players : GoodQueues(queue'[k])
  BY <1>4, <1>5, QueueCut
<1>7. pending' \in [Players -> SUBSET Command] /\ \A k \in Players : \A d \in pending'[k] : Owner(d) = k
  <2>1. pending \in [Players -> SUBSET Command] /\ \A k \in Players : \A d \in pending[k] : Owner(d) = k
    BY DEF TypeInv, TypeOK
  <2>2. pending' = pending \/ pending' = [pending EXCEPT ![x.to] = @ \ {x.cmd}] BY <1>1 DEF AckEffect
  <2> QED BY <1>4, <2>1, <2>2
<1>8. /\ relayed' \in [Players -> [Command -> SUBSET Players]]
      /\ \A k \in Players, d \in Command : Owner(d) \notin relayed'[k][d]
  <2>1. /\ relayed \in [Players -> [Command -> SUBSET Players]]
        /\ \A k \in Players, d \in Command : Owner(d) \notin relayed[k][d]
    BY DEF TypeInv, TypeOK
  <2>2. \/ relayed' = relayed
        \/ relayed' = [relayed EXCEPT ![x.to][x.cmd] = @ \ {IF x.type = "ACKSTAGE2" THEN 0 ELSE x.from}]
    BY <1>1 DEF AckEffect
  <2> DEFINE left == relayed[x.to][x.cmd] \ {IF x.type = "ACKSTAGE2" THEN 0 ELSE x.from}
             row == [relayed[x.to] EXCEPT ![x.cmd] = left]
  <2>3. row \in [Command -> SUBSET Players] /\ \A d \in Command : Owner(d) \notin row[d]
    <3>1. left \subseteq Players /\ Owner(x.cmd) \notin left BY <1>4, <2>1
    <3>2. relayed[x.to] \in [Command -> SUBSET Players] BY <1>4, <2>1
    <3> HIDE DEF left
    <3> QED BY <1>4, <2>1, <3>1, <3>2
  <2>4. relayed' = relayed \/ relayed' = [relayed EXCEPT ![x.to] = row] BY <2>2
  <2> HIDE DEF row
  <2> QED BY <1>4, <2>1, <2>3, <2>4
<1>9. \A y \in wire' : PacketOK(y)
  <2>1. wire' \subseteq wire \cup Stage2For(x) \cup Relayed(x) BY <1>1 DEF AckEffect
  <2>2. ASSUME NEW y \in Stage2For(x) PROVE PacketOK(y)
    <3> DEFINE to == IF PacketRouter(x.to) = x.to THEN Owner(x.cmd) ELSE PacketRouter(x.to)
    <3>1. y = Packet("ACKSTAGE2", x.to, to, x.cmd, {Owner(x.cmd)}) /\ to \in Open(x.to)
      BY <2>2 DEF Stage2For
    <3>2. to \in Players /\ Owner(x.cmd) \in Players BY <1>4, <3>1, CommandFacts DEF Open, Others
    <3> HIDE DEF to
    <3> QED BY <1>4, <3>1, <3>2, PacketFacts DEF PacketOK, Types
  <2>3. ASSUME NEW y \in Relayed(x) PROVE PacketOK(y)
    <3>1. PICK n \in x.relay \cap Open(x.to) : y = Packet(x.type, x.to, n, x.cmd, {n})
      BY <2>3 DEF Relayed
    <3>2. n \in Players BY <1>4, <3>1
    <3> QED BY <1>2, <1>4, <3>1, <3>2, PacketFacts DEF PacketOK
  <2> QED BY <2>1, <2>2, <2>3 DEF TypeInv
<1>10. TypeOK' BY <1>1, <1>6, <1>7, <1>8, QueueTypes DEF AckEffect, TypeInv, TypeOK
<1> QED BY <1>6, <1>7, <1>9, <1>10 DEF TypeInv, PacketOK

LEMMA TypeClose ==
  ASSUME TypeInv, NEW m \in Players, NEW n \in Players, Close(m, n) \/ QuitTimeOut(m, n)
  PROVE  TypeInv'
<1>1. /\ queue' = [queue EXCEPT ![m][n] = {}]
      /\ UNCHANGED <<frame, issued, leaves, received, pending, relayed, wire>>
  BY DEF Close, QuitTimeOut
<1>2. /\ quitting' = [quitting EXCEPT ![m] = @ \ {n}] \/ quitting' = quitting
      /\ closed' = [closed EXCEPT ![m] = @ \cup {n}] \/ closed' = closed
  BY DEF Close, QuitTimeOut
<1>3. queue' \in [Players -> SendQueues] /\ \A k \in Players : GoodQueues(queue'[k])
  <2>1. PICK es : es = {} OBVIOUS
  <2>2. es \subseteq queue[m][n] /\ queue' = [queue EXCEPT ![m][n] = es] BY <1>1, <2>1
  <2> QED BY <2>2, QueueCut
<1>4. quitting' \in [Players -> SUBSET Players] /\ closed' \in [Players -> SUBSET Players]
  <2>1. quitting \in [Players -> SUBSET Players] /\ closed \in [Players -> SUBSET Players]
    BY DEF TypeInv, TypeOK
  <2>2. quitting[m] \ {n} \subseteq Players /\ closed[m] \cup {n} \subseteq Players BY <2>1
  <2>3. quitting' \in [Players -> SUBSET Players] BY <1>2, <2>1, <2>2
  <2>4. closed' \in [Players -> SUBSET Players] BY <1>2, <2>1, <2>2
  <2> QED BY <2>3, <2>4
<1>5. TypeOK' BY <1>1, <1>3, <1>4, QueueTypes DEF TypeInv, TypeOK
<1> QED BY <1>1, <1>3, <1>5 DEF TypeInv, PacketOK

LEMMA TypeNext == TypeInv /\ [Next]_vars => TypeInv'
<1> SUFFICES ASSUME TypeInv, [Next]_vars PROVE TypeInv' OBVIOUS
<1>1. ASSUME NEW m \in Players, IssueFrame(m) \/ LeaveGame(m) PROVE TypeInv' BY <1>1, TypeSend
<1>2. ASSUME NEW m \in Players, ExecuteFrame(m) PROVE TypeInv' BY <1>2, TypeExecute
<1>3. ASSUME NEW m \in Players, NEW n \in Players, NEW c \in Command, Deliver(m, n, c) PROVE TypeInv'
  BY <1>3, TypeDeliver
<1>4. ASSUME NEW m \in Players, NEW n \in Players, Delay(m, n) PROVE TypeInv' BY <1>4, TypeDelay
<1>5. ASSUME NEW m \in Players, NEW n \in Players, Close(m, n) \/ QuitTimeOut(m, n) PROVE TypeInv'
  BY <1>5, TypeClose
<1>6. ASSUME NEW x \in wire, ReceiveCommand(x) PROVE TypeInv' BY <1>6, TypeReceiveCommand
<1>7. ASSUME NEW x \in wire, ReceiveAck(x) PROVE TypeInv' BY <1>7, TypeReceiveAck
<1>8. CASE UNCHANGED vars BY <1>8 DEF vars, TypeInv, TypeOK, PacketOK
<1> QED BY <1>1, <1>2, <1>3, <1>4, <1>5, <1>6, <1>7, <1>8 DEF Next

(* Every variable keeps the values the code can give it, whoever leaves: nobody   *)
(* is queued a command of their own or relays one to the player it is from, and   *)
(* nobody keeps another player's command as pending.                              *)
THEOREM TypeInvariance == Spec => []TypeInv
<1>1. Init => TypeInv BY TypeInit
<1>2. TypeInv /\ [Next]_vars => TypeInv' BY TypeNext
<1> QED BY <1>1, <1>2, PTL DEF Spec

THEOREM TypeCorrect == Spec => []TypeOK
<1>1. TypeInv => TypeOK BY DEF TypeInv
<1> QED BY <1>1, TypeInvariance, PTL

--------------------------------------------------------------------------------
Issued(c) == FrameOf(c) < issued[Owner(c)]

\* The machine has the command, or its player leaves before its frame.
Has(p, c) == c \in received[p] \/ FrameOf(c) > leaves[p]

\* Nobody who may be waited for lacks the command.
Complete(c) == \A p \in Others(Owner(c)) : Has(p, c) \/ p \notin InGame(0)

Clocks ==
    \A m \in Players :
        /\ frame[m] <= issued[m]
        /\ leaves[m] = MaxFrame \/ issued[m] = leaves[m] + 1

OwnCommands ==
    /\ \A m \in Players : \A c \in received[m] : Issued(c)
    /\ \A c \in Command : Issued(c) => c \in received[Owner(c)]

\* A machine has what it executed.
Executed ==
    \A m, o \in Players : \A f \in 0 .. frame[m] - 1 : f <= leaves[o] => <<o, f>> \in received[m]

\* A connection quits for a reason.
Seen ==
    \A m \in Players : \A q \in quitting[m] \cup closed[m] :
        leaves[q] < frame[m] \/ leaves[m] < frame[m]

Emptied ==
    /\ \A m \in Players : \A n \in closed[m] : queue[m][n] = {}
    /\ \A p \in Players : <<0, p>> \in givenUp => p \notin Open(0)

\* A client sends its own commands to the router, to be relayed to everybody else; the
\* router sends what it has to each player, to be kept there.
Route(m, n, c, relay) ==
    /\ Issued(c)
    /\ \/ m = 0 /\ n # 0 /\ relay = {n} /\ c \in received[0]
       \/ m # 0 /\ n = 0 /\ relay = Others(m) /\ Owner(c) = m

Routed == \A m, n \in Players : \A e \in queue[m][n] : Route(m, n, e.cmd, e.relay)

\* What an acknowledgement says: to the router that its sender has the command, to the
\* player whose command it is that the router has it, or that everybody has.
Acknowledges(x) ==
    /\ x.relay = {x.to}
    /\ \/ x.to = 0 /\ x.from # 0 /\ x.type = "ACKBOTH" /\ Has(x.from, x.cmd)
       \/ /\ x.to # 0 /\ x.from = 0 /\ Owner(x.cmd) = x.to /\ x.cmd \in received[0]
          /\ x.type # "ACKSTAGE1" => Complete(x.cmd)

TruePacket(x) ==
    IF x.type = "COMMAND" THEN Route(x.from, x.to, x.cmd, x.relay) ELSE Acknowledges(x)

TruePackets == \A x \in wire : TruePacket(x)

\* The router waits for everybody who may lack a command that it relayed.
WaitedFor ==
    /\ \A m \in Players \ {0} : \A c \in Command : relayed[m][c] = {}
    /\ \A c \in Command : relayed[0][c] # {} => c \in received[0]
    /\ \A c \in received[0] : \A n \in Others(0) \ {Owner(c)} :
         Owner(c) = 0 \/ n \in relayed[0][c] \/ Has(n, c) \/ n \notin InGame(0)

StillPending ==
    /\ pending[0] = {}
    /\ \A c \in Command : Owner(c) # 0 /\ Issued(c) => c \in pending[Owner(c)] \/ Complete(c)

TakenOver ==
    \A c \in Command : Issued(c) =>
        \/ c \in received[0] \/ c \in Commands(queue[Owner(c)][0])
        \/ <<Owner(c), 0>> \in givenUp

HandedOn ==
    \A c \in received[0] : \A p \in Others(0) \ {Owner(c)} :
        Has(p, c) \/ c \in Commands(queue[0][p]) \/ <<0, p>> \in givenUp

FramesInv == Clocks /\ OwnCommands /\ Executed /\ Seen
RoutedInv ==
    /\ FramesInv /\ Emptied /\ Routed /\ TruePackets
    /\ WaitedFor /\ StillPending /\ TakenOver /\ HandedOn

IInv == TypeInv /\ (RouterPresent => RoutedInv)

--------------------------------------------------------------------------------
(* Nothing that a machine has is taken from it, and nobody comes back. *)
GoesOn ==
    \A p \in Players :
        /\ frame[p] <= frame'[p] /\ issued[p] <= issued'[p]
        /\ leaves'[p] <= leaves[p] /\ received[p] \subseteq received'[p]

LEMMA ClockTypes ==
  ASSUME TypeInv, NEW p \in Players
  PROVE  frame[p] \in Nat /\ issued[p] \in Nat /\ leaves[p] \in Nat /\ frame[p] <= MaxFrame
         /\ leaves[p] <= MaxFrame
BY Numbers DEF TypeInv, TypeOK

LEMMA ClockTypesNext ==
  ASSUME TypeInv', NEW p \in Players
  PROVE  frame'[p] \in Nat /\ issued'[p] \in Nat /\ leaves'[p] \in Nat
BY Numbers DEF TypeInv, TypeOK

LEMMA StaysOut ==
  ASSUME TypeInv, TypeInv', GoesOn, NEW m \in Players, NEW p \in Players, p \notin InGame(m)
  PROVE  p \notin InGame(m)'
<1>1. frame[m] <= frame'[m] /\ leaves'[p] <= leaves[p] BY DEF GoesOn
<1>2. ~(leaves[p] >= frame[m]) BY DEF InGame
<1>3. ~(leaves'[p] >= frame'[m]) BY <1>1, <1>2, ClockTypes, ClockTypesNext
<1> QED BY <1>3 DEF InGame

LEMMA RouterWasPresent ==
  ASSUME TypeInv, TypeInv', GoesOn, RouterPresent'
  PROVE  RouterPresent
BY StaysOut, Numbers DEF RouterPresent

LEMMA StaysIssued ==
  ASSUME TypeInv, TypeInv', GoesOn, NEW c \in Command, Issued(c)
  PROVE  Issued(c)'
<1>1. Owner(c) \in Players /\ FrameOf(c) \in Nat BY CommandFacts
<1>2. issued[Owner(c)] <= issued'[Owner(c)] BY <1>1 DEF GoesOn
<1>3. FrameOf(c) < issued'[Owner(c)] BY <1>1, <1>2, ClockTypes, ClockTypesNext DEF Issued
<1> QED BY <1>3 DEF Issued

LEMMA StaysHad ==
  ASSUME TypeInv, TypeInv', GoesOn, NEW p \in Players, NEW c \in Command, Has(p, c)
  PROVE  Has(p, c)'
<1>1. FrameOf(c) \in Nat BY CommandFacts
<1>2. received[p] \subseteq received'[p] /\ leaves'[p] <= leaves[p] BY DEF GoesOn
<1>3. FrameOf(c) > leaves[p] => FrameOf(c) > leaves'[p] BY <1>1, <1>2, ClockTypes, ClockTypesNext
<1> QED BY <1>2, <1>3 DEF Has

LEMMA StaysComplete ==
  ASSUME TypeInv, TypeInv', GoesOn, NEW c \in Command, Complete(c)
  PROVE  Complete(c)'
<1> SUFFICES ASSUME NEW p \in Others(Owner(c)) PROVE Has(p, c)' \/ p \notin InGame(0)'
  BY DEF Complete
<1>1. p \in Players BY DEF Others
<1> QED BY <1>1, StaysHad, StaysOut, Numbers DEF Complete

LEMMA StaysRouted ==
  ASSUME TypeInv, TypeInv', GoesOn, NEW m, NEW n, NEW c \in Command, NEW relay, Route(m, n, c, relay)
  PROVE  Route(m, n, c, relay)'
<1>1. Issued(c)' BY StaysIssued DEF Route
<1>2. received[0] \subseteq received'[0] BY Numbers DEF GoesOn
<1> QED BY <1>1, <1>2 DEF Route

LEMMA StaysTrue ==
  ASSUME TypeInv, TypeInv', GoesOn, NEW x, PacketOK(x), TruePacket(x)
  PROVE  TruePacket(x)'
<1>1. x.cmd \in Command /\ x.from \in Players BY DEF PacketOK
<1>2. CASE x.type = "COMMAND"
  <2>1. Route(x.from, x.to, x.cmd, x.relay)' BY <1>1, <1>2, StaysRouted DEF TruePacket
  <2> QED BY <1>2, <2>1 DEF TruePacket
<1>3. CASE x.type # "COMMAND"
  <2>1. Acknowledges(x) BY <1>3 DEF TruePacket
  <2>2. received[0] \subseteq received'[0] BY Numbers DEF GoesOn
  <2>3. Acknowledges(x)' BY <1>1, <2>1, <2>2, StaysHad, StaysComplete DEF Acknowledges
  <2> QED BY <1>3, <2>3 DEF TruePacket
<1> QED BY <1>2, <1>3

LEMMA StayTrue ==
  ASSUME TypeInv, TypeInv', GoesOn, TruePackets, NEW new, \A x \in new : TruePacket(x)',
         wire' \subseteq wire \cup new
  PROVE  TruePackets'
<1>1. \A x \in wire : TruePacket(x)' BY StaysTrue DEF TruePackets, TypeInv
<1> QED BY <1>1 DEF TruePackets

(* Where player 0 is present it is the packet router, and has no reason to go. *)
LEMMA RouterFacts ==
  ASSUME TypeInv, RouterPresent, NEW m \in Players
  PROVE  /\ PacketRouter(m) = 0 /\ leaves[0] >= frame[m]
         /\ Seen => \A q \in quitting[0] \cup closed[0] : leaves[q] < frame[0]
<1>1. 0 \in InGame(m) /\ InGame(m) \subseteq Players BY DEF RouterPresent, InGame
<1>2. PacketRouter(m) = 0 BY <1>1, FirstIsRouter DEF PacketRouter
<1>3. leaves[0] >= frame[m] /\ leaves[0] >= frame[0] BY <1>1, Numbers DEF RouterPresent, InGame
<1>4. ~(leaves[0] < frame[0]) BY <1>3, Numbers, ClockTypes
<1>5. Seen => \A q \in quitting[0] \cup closed[0] : leaves[q] < frame[0]
  BY <1>4, Numbers DEF Seen
<1> QED BY <1>2, <1>3, <1>5

(* Whoever the router has no open connection to has left. *)
LEMMA NotOpen ==
  ASSUME TypeInv, RouterPresent, Seen, NEW p \in Others(0), p \notin Open(0)
  PROVE  leaves[p] < frame[0] /\ p \notin InGame(0)
<1>1. p \in Players /\ p \in quitting[0] \cup closed[0] BY DEF Open, Others
<1>2. leaves[p] < frame[0] BY <1>1, Numbers, RouterFacts
<1>3. ~(leaves[p] >= frame[0]) BY <1>1, <1>2, Numbers, ClockTypes
<1> QED BY <1>2, <1>3 DEF InGame

(* A command that was issued is for a frame its player is in. *)
LEMMA IssuedInGame ==
  ASSUME TypeInv, Clocks, NEW c \in Command, Issued(c)
  PROVE  FrameOf(c) <= leaves[Owner(c)]
<1>1. Owner(c) \in Players /\ FrameOf(c) \in Nat /\ FrameOf(c) \in 0 .. MaxFrame - 1 BY CommandFacts
<1>2. leaves[Owner(c)] = MaxFrame \/ issued[Owner(c)] = leaves[Owner(c)] + 1 BY <1>1 DEF Clocks
<1>3. FrameOf(c) < issued[Owner(c)] BY DEF Issued
<1>4. issued[Owner(c)] \in Nat /\ leaves[Owner(c)] \in Nat BY <1>1, ClockTypes
<1> QED BY <1>1, <1>2, <1>3, <1>4, Numbers

LEMMA ExecutedHas ==
  ASSUME TypeInv, FramesInv, NEW c \in Command, Issued(c), NEW m \in Players, FrameOf(c) < frame[m]
  PROVE  c \in received[m]
<1>1. Owner(c) \in Players /\ FrameOf(c) \in Nat /\ c = <<Owner(c), FrameOf(c)>> BY CommandFacts
<1>2. FrameOf(c) \in 0 .. frame[m] - 1 BY <1>1, ClockTypes
<1>3. FrameOf(c) <= leaves[Owner(c)] BY IssuedInGame DEF FramesInv
<1>4. <<Owner(c), FrameOf(c)>> \in received[m] BY <1>1, <1>2, <1>3 DEF FramesInv, Executed
<1> QED BY <1>1, <1>4

--------------------------------------------------------------------------------
(* At the start nothing is issued, received or under way. *)
LEMMA RoutedInit == Init => RoutedInv
<1> SUFFICES ASSUME Init PROVE RoutedInv OBVIOUS
<1>0. TypeInv BY TypeInit
<1>1. ASSUME NEW c \in Command PROVE ~Issued(c)
  <2>1. Owner(c) \in Players /\ FrameOf(c) \in Nat BY CommandFacts
  <2>2. issued[Owner(c)] = 0 BY <2>1 DEF Init
  <2>3. ~(FrameOf(c) < 0) BY <2>1
  <2> QED BY <2>2, <2>3 DEF Issued
<1>2. FramesInv BY <1>1 DEF Init, FramesInv, Clocks, OwnCommands, Executed, Seen
<1>3. /\ \A m, n \in Players : queue[m][n] = {}
      /\ \A m \in Players : received[m] = {} /\ closed[m] = {} /\ pending[m] = {}
      /\ \A m \in Players, c \in Command : relayed[m][c] = {}
      /\ wire = {} /\ givenUp = {}
  BY DEF Init
<1>4. Emptied /\ Routed /\ TruePackets BY <1>3 DEF Emptied, Routed, TruePackets
<1>5. WaitedFor /\ StillPending /\ TakenOver /\ HandedOn
  BY <1>1, <1>3, Numbers DEF WaitedFor, StillPending, TakenOver, HandedOn
<1> QED BY <1>2, <1>4, <1>5 DEF RoutedInv

(* A player issues the commands of a frame. *)
LEMMA RoutedSend ==
  ASSUME TypeInv, TypeInv', RouterPresent, RouterPresent', RoutedInv, GoesOn,
         NEW m \in Players, IssueFrame(m) \/ LeaveGame(m)
  PROVE  RoutedInv'
<1>0. PICK c : c = <<m, issued[m]>> OBVIOUS
<1>1. /\ leaves[m] = MaxFrame /\ issued[m] < MaxFrame
      /\ issued' = [issued EXCEPT ![m] = @ + 1]
      /\ received' = [received EXCEPT ![m] = @ \cup {c}]
      /\ queue' = [queue EXCEPT ![m] = SendLocalCommands(@, m, PacketRouter(m), Open(m), {c})]
      /\ pending' = [pending EXCEPT ![m] = IF PacketRouter(m) = m THEN @ ELSE @ \cup {c}]
      /\ UNCHANGED <<frame, relayed, quitting, closed, wire, givenUp>>
  BY <1>0 DEF IssueFrame, LeaveGame, SendCommand
<1>2. leaves' = leaves \/ leaves' = [leaves EXCEPT ![m] = issued[m]]
  BY DEF IssueFrame, LeaveGame
<1>3. PacketRouter(m) = 0 BY RouterFacts
<1>4. c \in Command /\ Owner(c) = m /\ FrameOf(c) = issued[m] BY <1>0, <1>1, ClockTypes, CommandOf
<1>5. issued'[m] = issued[m] + 1 /\ \A k \in Players \ {m} : issued'[k] = issued[k]
  BY <1>1 DEF TypeInv, TypeOK
<1>6. /\ received'[m] = received[m] \cup {c}
      /\ \A k \in Players \ {m} : received'[k] = received[k]
      /\ pending'[m] = IF m = 0 THEN pending[m] ELSE pending[m] \cup {c}
      /\ \A k \in Players \ {m} : pending'[k] = pending[k]
  BY <1>1, <1>3 DEF TypeInv, TypeOK
<1>7. FramesInv /\ Clocks /\ Seen BY DEF RoutedInv, FramesInv
<1>8. Issued(c)'
  <2>1. issued[m] < issued[m] + 1 BY ClockTypes
  <2> QED BY <1>4, <1>5, <2>1 DEF Issued
<1>9. ASSUME NEW d \in Command, Issued(d)' PROVE d = c \/ Issued(d)
  <2>1. Owner(d) \in Players /\ FrameOf(d) \in Nat /\ d = <<Owner(d), FrameOf(d)>>
    BY CommandFacts
  <2>2. FrameOf(d) < issued'[Owner(d)] BY <1>9 DEF Issued
  <2>3. CASE Owner(d) # m BY <1>5, <2>1, <2>2, <2>3 DEF Issued
  <2>4. CASE Owner(d) = m
    <3>1. FrameOf(d) < issued[m] \/ FrameOf(d) = issued[m] BY <1>5, <2>1, <2>2, <2>4, ClockTypes
    <3>2. CASE FrameOf(d) < issued[m] BY <2>4, <3>2 DEF Issued
    <3>3. CASE FrameOf(d) = issued[m] BY <1>0, <2>1, <2>4, <3>3
    <3> QED BY <3>1, <3>2, <3>3
  <2> QED BY <2>3, <2>4
(* What is queued: only c, and not where a connection is quitting or closed. *)
<1> DEFINE grown(k, l) == k = m /\ l \in Open(m) /\ IF m = 0 THEN TRUE ELSE l = 0
           relay(l) == IF m = 0 THEN {l} ELSE Others(m)
<1>10. /\ \A k, l \in Players : queue'[k][l] = IF grown(k, l) THEN Queued(queue[k][l], {c}, relay(l))
                                              ELSE queue[k][l]
  <2> DEFINE row == SendLocalCommands(queue[m], m, PacketRouter(m), Open(m), {c})
  <2>1. queue' = [queue EXCEPT ![m] = row] BY <1>1
  <2>2. \A l \in Players : row[l] = IF grown(m, l) THEN Queued(queue[m][l], {c}, relay(l)) ELSE queue[m][l]
    <3>1. CASE m = 0
      <4>1. row = SendDirect(queue[m], Open(m), {c}) BY <1>3, <3>1 DEF SendLocalCommands
      <4> QED BY <3>1, <4>1 DEF SendDirect
    <3>2. CASE m # 0 /\ 0 \in Open(m)
      <4>1. row = [queue[m] EXCEPT ![0] = Queued(@, {c}, RelayMask(m))]
        BY <1>3, <3>2 DEF SendLocalCommands
      <4>2. queue[m] \in SendQueues BY DEF TypeInv
      <4> QED BY <3>2, <4>1, <4>2, Numbers DEF RelayMask, SendQueues
    <3>3. CASE m # 0 /\ 0 \notin Open(m)
      <4>1. row = queue[m] BY <1>3, <3>3 DEF SendLocalCommands
      <4> QED BY <3>3, <4>1
    <3> QED BY <3>1, <3>2, <3>3
  <2> HIDE DEF row, grown, relay
  <2>3. queue \in [Players -> SendQueues] BY DEF TypeInv
  <2>4. \A k \in Players : queue'[k] = IF k = m THEN row ELSE queue[k] BY <2>1, <2>3
  <2>5. \A k \in Players \ {m} : \A l \in Players : ~grown(k, l) BY DEF grown
  <2> QED BY <2>2, <2>4, <2>5
<1>11. \A k, l \in Players : queue[k][l] \subseteq queue'[k][l]
  <2> HIDE DEF grown, relay
  <2> QED BY <1>10, QueuedFacts
<1>12. \A k, l \in Players : Commands(queue[k][l]) \subseteq Commands(queue'[k][l])
  BY <1>11 DEF Commands
<1>13. m # 0 => 0 \in Open(m)
  <2> SUFFICES ASSUME m # 0, 0 \notin Open(m) PROVE FALSE OBVIOUS
  <2>1. 0 \in quitting[m] \cup closed[m] BY Numbers DEF Open, Others
  <2>2. leaves[0] < frame[m] \/ leaves[m] < frame[m] BY <1>7, <2>1 DEF Seen
  <2>3. leaves[0] >= frame[m] BY RouterFacts
  <2> QED BY <1>1, <2>2, <2>3, ClockTypes, Numbers
<1>14. FramesInv'
  <2>1. Clocks'
    <3> SUFFICES ASSUME NEW k \in Players
                 PROVE  frame'[k] <= issued'[k] /\ (leaves'[k] = MaxFrame \/ issued'[k] = leaves'[k] + 1)
      BY DEF Clocks
    <3>1. frame[k] <= issued[k] /\ (leaves[k] = MaxFrame \/ issued[k] = leaves[k] + 1)
      BY <1>7 DEF Clocks
    <3>2. CASE k # m
      <4>1. leaves'[k] = leaves[k] BY <1>2, <3>2 DEF TypeInv, TypeOK
      <4> QED BY <1>1, <1>5, <3>1, <3>2, <4>1
    <3>3. CASE k = m
      <4>1. leaves'[m] = leaves[m] \/ leaves'[m] = issued[m] BY <1>2 DEF TypeInv, TypeOK
      <4>2. frame[m] <= issued[m] + 1 BY <3>1, <3>3, ClockTypes
      <4> QED BY <1>1, <1>5, <3>3, <4>1, <4>2
    <3> QED BY <3>2, <3>3
  <2>2. OwnCommands'
    <3>1. ASSUME NEW k \in Players, NEW d \in received'[k] PROVE Issued(d)'
      <4>1. d = c \/ d \in received[k] BY <1>6, <3>1
      <4>2. d \in received[k] => d \in Command BY DEF TypeInv, TypeOK
      <4>3. d \in received[k] => Issued(d) BY <1>7 DEF FramesInv, OwnCommands
      <4> QED BY <1>8, <4>1, <4>2, <4>3, StaysIssued
    <3>2. ASSUME NEW d \in Command, Issued(d)' PROVE d \in received'[Owner(d)]
      <4>1. CASE d = c BY <1>4, <1>6, <4>1
      <4>2. CASE Issued(d)
        <5>1. d \in received[Owner(d)] BY <1>7, <4>2 DEF FramesInv, OwnCommands
        <5>2. Owner(d) \in Players BY CommandFacts
        <5> QED BY <5>1, <5>2 DEF GoesOn
      <4> QED BY <1>9, <3>2, <4>1, <4>2
    <3> QED BY <3>1, <3>2 DEF OwnCommands
  <2>3. Executed'
    <3> SUFFICES ASSUME NEW k \in Players, NEW o \in Players, NEW f \in 0 .. frame[k] - 1, f <= leaves'[o]
                 PROVE  <<o, f>> \in received'[k]
      BY <1>1 DEF Executed
    <3>1. f \in Nat BY ClockTypes
    <3>2. leaves'[o] <= leaves[o] BY DEF GoesOn
    <3>3. f <= leaves[o] BY <3>1, <3>2, ClockTypes, ClockTypesNext
    <3>4. <<o, f>> \in received[k] BY <1>7, <3>3 DEF FramesInv, Executed
    <3> QED BY <3>4 DEF GoesOn
  <2>4. Seen'
    <3> SUFFICES ASSUME NEW k \in Players, NEW q \in quitting[k] \cup closed[k]
                 PROVE  leaves'[q] < frame[k] \/ leaves'[k] < frame[k]
      BY <1>1 DEF Seen
    <3>1. q \in Players BY DEF TypeInv, TypeOK
    <3>2. leaves[q] < frame[k] \/ leaves[k] < frame[k] BY <1>7 DEF Seen
    <3>3. leaves'[q] <= leaves[q] /\ leaves'[k] <= leaves[k] BY <3>1 DEF GoesOn
    <3> QED BY <3>1, <3>2, <3>3, ClockTypes, ClockTypesNext
  <2> QED BY <2>1, <2>2, <2>3, <2>4 DEF FramesInv
<1>15. Emptied'
  <2>1. \A k \in Players : \A l \in closed[k] : l \in Players /\ queue[k][l] = {}
    BY DEF RoutedInv, Emptied, TypeInv, TypeOK
  <2>2. \A k \in Players : \A l \in closed[k] : ~grown(k, l) BY DEF Open
  <2>3. \A k \in Players : \A l \in closed'[k] : queue'[k][l] = {}
    <3> SUFFICES ASSUME NEW k \in Players, NEW l \in closed[k] PROVE queue'[k][l] = {}
      BY <1>1
    <3>1. l \in Players /\ queue[k][l] = {} /\ ~grown(k, l) BY <2>1, <2>2
    <3> HIDE DEF grown, relay
    <3> QED BY <1>10, <3>1
  <2> QED BY <1>1, <2>3 DEF RoutedInv, Emptied, Open
<1>16. Routed'
  <2> SUFFICES ASSUME NEW k \in Players, NEW l \in Players, NEW e \in queue'[k][l]
               PROVE  Route(k, l, e.cmd, e.relay)'
    BY DEF Routed
  <2>1. CASE e \in queue[k][l]
    <3>1. Route(k, l, e.cmd, e.relay) BY <2>1 DEF RoutedInv, Routed
    <3> QED BY <2>1, <3>1, EntryFacts, StaysRouted
  <2>2. CASE e \notin queue[k][l]
    <3>1. grown(k, l) /\ e \in Queued(queue[k][l], {c}, relay(l)) BY <1>10, <2>2
    <3> HIDE DEF relay
    <3>2. e.cmd = c /\ e = [cmd |-> e.cmd, relay |-> relay(l)] BY <2>2, <3>1, QueuedFacts
    <3>3. e.relay = relay(l) BY <3>2
    <3>4. l # m BY <3>1 DEF Open, Others
    <3> QED BY <1>4, <1>6, <1>8, <3>1, <3>2, <3>3, <3>4 DEF Route, relay
  <2> QED BY <2>1, <2>2
<1>17. TruePackets' BY <1>1, StaysTrue DEF RoutedInv, TruePackets, TypeInv
<1>18. WaitedFor'
  <2>1. WaitedFor BY DEF RoutedInv
  <2>2. ASSUME NEW d \in received'[0], NEW n \in Others(0) \ {Owner(d)}
        PROVE  Owner(d) = 0 \/ n \in relayed'[0][d] \/ Has(n, d)' \/ n \notin InGame(0)'
    <3>1. (d = c /\ m = 0) \/ d \in received[0] BY <1>6, <2>2, Numbers
    <3>2. CASE d \in received[0]
      <4>1. Owner(d) = 0 \/ n \in relayed[0][d] \/ Has(n, d) \/ n \notin InGame(0)
        BY <2>1, <2>2, <3>2 DEF WaitedFor
      <4>2. d \in Command /\ n \in Players BY <2>2, <3>2, Numbers DEF TypeInv, TypeOK, Others
      <4> QED BY <1>1, <4>1, <4>2, StaysHad, StaysOut, Numbers
    <3> QED BY <1>4, <3>1, <3>2
  <2>3. received[0] \subseteq received'[0] BY Numbers DEF GoesOn
  <2> QED BY <1>1, <2>1, <2>2, <2>3 DEF WaitedFor, Others
<1>19. StillPending'
  <2>1. pending'[0] = {} BY <1>6, Numbers DEF RoutedInv, StillPending
  <2>2. ASSUME NEW d \in Command, Owner(d) # 0, Issued(d)'
        PROVE  d \in pending'[Owner(d)] \/ Complete(d)'
    <3>1. CASE d = c BY <1>4, <1>6, <2>2, <3>1
    <3>2. CASE Issued(d)
      <4>1. d \in pending[Owner(d)] \/ Complete(d) BY <2>2, <3>2 DEF RoutedInv, StillPending
      <4>2. pending[Owner(d)] \subseteq pending'[Owner(d)] BY <1>6, CommandFacts
      <4> QED BY <4>1, <4>2, StaysComplete
    <3> QED BY <1>9, <2>2, <3>1, <3>2
  <2> QED BY <2>1, <2>2 DEF StillPending
<1>20. TakenOver'
  <2> SUFFICES ASSUME NEW d \in Command, Issued(d)'
               PROVE  \/ d \in received'[0] \/ d \in Commands(queue'[Owner(d)][0])
                      \/ <<Owner(d), 0>> \in givenUp
    BY <1>1 DEF TakenOver, Commands
  <2>1. CASE d = c
    <3>1. CASE m = 0 BY <1>6, <2>1, <3>1
    <3>2. CASE m # 0
      <4>1. grown(m, 0) BY <1>13, <3>2
      <4>2. queue'[m][0] = Queued(queue[m][0], {c}, relay(0)) BY <1>10, <4>1, Numbers
      <4> HIDE DEF relay
      <4>3. c \in Commands(queue'[m][0]) BY <4>2, QueuedFacts
      <4> QED BY <1>4, <2>1, <4>3
    <3> QED BY <3>1, <3>2
  <2>2. CASE Issued(d)
    <3>1. d \in received[0] \/ d \in Commands(queue[Owner(d)][0]) \/ <<Owner(d), 0>> \in givenUp
      BY <2>2 DEF RoutedInv, TakenOver
    <3>2. received[0] \subseteq received'[0] /\ Owner(d) \in Players BY Numbers, CommandFacts DEF GoesOn
    <3> QED BY <1>12, <3>1, <3>2, Numbers
  <2> QED BY <1>9, <2>1, <2>2
<1>21. HandedOn'
  <2> SUFFICES ASSUME NEW d \in received'[0], NEW p \in Others(0) \ {Owner(d)}
               PROVE  Has(p, d)' \/ d \in Commands(queue'[0][p]) \/ <<0, p>> \in givenUp
    BY <1>1 DEF HandedOn, Commands, Others
  <2>0. p \in Players /\ p # 0 BY DEF Others
  <2>1. CASE d \in received[0]
    <3>1. d \in Command BY <2>1, Numbers DEF TypeInv, TypeOK
    <3>2. Has(p, d) \/ d \in Commands(queue[0][p]) \/ <<0, p>> \in givenUp
      BY <2>1 DEF RoutedInv, HandedOn
    <3> QED BY <1>12, <2>0, <3>1, <3>2, StaysHad, Numbers
  <2>2. CASE d \notin received[0]
    <3>1. d = c /\ m = 0 BY <1>6, <2>2, Numbers
    <3>2. CASE p \in Open(0)
      <4>1. grown(0, p) BY <3>1, <3>2
      <4>2. queue'[0][p] = Queued(queue[0][p], {c}, relay(p)) BY <1>10, <2>0, <4>1, Numbers
      <4> HIDE DEF relay
      <4> QED BY <3>1, <4>2, QueuedFacts
    <3>3. CASE p \notin Open(0)
      <4>1. leaves[p] < frame[0] BY <1>7, <3>3, NotOpen DEF Others
      <4>2. frame[0] <= issued[0] /\ leaves'[p] <= leaves[p] BY <1>7, <2>0, Numbers DEF Clocks, GoesOn
      <4>3. frame[0] \in Nat /\ issued[0] \in Nat /\ leaves[p] \in Nat /\ leaves'[p] \in Nat
        BY <2>0, Numbers, ClockTypes, ClockTypesNext
      <4>4. issued[0] > leaves'[p] BY <4>1, <4>2, <4>3
      <4>5. FrameOf(c) > leaves'[p] BY <1>4, <3>1, <4>4
      <4> QED BY <3>1, <4>5 DEF Has
    <3> QED BY <3>2, <3>3
  <2> QED BY <2>1, <2>2
<1> QED BY <1>14, <1>15, <1>16, <1>17, <1>18, <1>19, <1>20, <1>21 DEF RoutedInv

(* A machine executes a frame: what is queued stays. *)
LEMMA RoutedExecute ==
  ASSUME TypeInv, TypeInv', RouterPresent, RouterPresent', RoutedInv, GoesOn,
         NEW m \in Players, ExecuteFrame(m)
  PROVE  RoutedInv'
<1> DEFINE after == ProcessPlayerLeaves(m)
<1>1. /\ Playing(m) /\ frame[m] < MaxFrame /\ Ready(m)
      /\ frame' = [frame EXCEPT ![m] = @ + 1]
      /\ quitting' = [quitting EXCEPT ![m] = after.quitting]
      /\ queue' = [queue EXCEPT ![m] = after.queue]
      /\ UNCHANGED <<issued, leaves, received, pending, relayed, closed, wire, givenUp>>
  BY DEF ExecuteFrame
<1>2. InLoop(m, after) BY LeavesFacts
<1> HIDE DEF after
<1>3. /\ frame'[m] = frame[m] + 1 /\ \A k \in Players \ {m} : frame'[k] = frame[k]
      /\ quitting'[m] = after.quitting /\ \A k \in Players \ {m} : quitting'[k] = quitting[k]
  BY <1>1 DEF TypeInv, TypeOK
<1>4. FramesInv /\ Clocks /\ Seen /\ OwnCommands /\ Executed BY DEF RoutedInv, FramesInv
<1>5. queue' = queue
  <2>1. 0 \in InGame(m) BY DEF RouterPresent
  <2>2. leaves[0] # frame[m]
    <3>1. leaves'[0] >= frame'[m] BY Numbers DEF RouterPresent, InGame
    <3> QED BY <1>1, <1>3, <3>1, ClockTypes, Numbers
  <2>3. m = 0 \/ OwnOnly(m) BY DEF RoutedInv, Routed, Route, OwnOnly
  <2>4. after.queue = queue[m] BY <1>2, <2>1, <2>2, <2>3 DEF InLoop, RouterStaysFor
  <2> QED BY <1>1, <2>4 DEF TypeInv
<1>6. ASSUME NEW o \in Players, frame[m] <= leaves[o] PROVE <<o, frame[m]>> \in received[m]
  <2>1. o \in InGame(m) BY <1>6, ClockTypes DEF InGame
  <2> QED BY <1>1, <2>1 DEF Ready
<1>7. Clocks'
  <2>1. <<m, frame[m]>> \in received[m] BY <1>1, <1>6 DEF Playing
  <2>2. Issued(<<m, frame[m]>>) BY <1>4, <2>1 DEF OwnCommands
  <2>3. frame[m] < issued[m] BY <1>1, <2>2, CommandOf, ClockTypes DEF Issued
  <2>4. frame[m] + 1 <= issued[m] BY <2>3, ClockTypes
  <2> QED BY <1>1, <1>3, <1>4, <2>4 DEF Clocks
<1>8. Executed'
  <2> SUFFICES ASSUME NEW k \in Players, NEW o \in Players, NEW f \in 0 .. frame'[k] - 1, f <= leaves[o]
               PROVE  <<o, f>> \in received[k]
    BY <1>1 DEF Executed
  <2>1. CASE f \in 0 .. frame[k] - 1 BY <1>4, <2>1 DEF Executed
  <2>2. CASE f \notin 0 .. frame[k] - 1
    <3>1. k = m BY <1>3, <2>2
    <3>2. f = frame[m] BY <1>3, <2>2, <3>1, ClockTypes
    <3> QED BY <1>6, <3>1, <3>2
  <2> QED BY <2>1, <2>2
<1>9. Seen'
  <2> SUFFICES ASSUME NEW k \in Players, NEW q \in quitting'[k] \cup closed[k]
               PROVE  leaves[q] < frame'[k] \/ leaves[k] < frame'[k]
    BY <1>1 DEF Seen
  <2>1. CASE q \in quitting[k] \cup closed[k]
    <3>1. q \in Players BY <2>1 DEF TypeInv, TypeOK
    <3>2. leaves[q] < frame[k] \/ leaves[k] < frame[k] BY <1>4, <2>1 DEF Seen
    <3>3. frame[k] <= frame'[k] BY DEF GoesOn
    <3> QED BY <3>1, <3>2, <3>3, ClockTypes, ClockTypesNext
  <2>2. CASE q \notin quitting[k] \cup closed[k]
    <3>1. k = m /\ q \in after.quitting BY <1>3, <2>2
    <3>2. leaves[q] = frame[m] \/ leaves[m] = frame[m] BY <1>2, <2>2, <3>1 DEF InLoop
    <3> QED BY <1>3, <3>1, <3>2, ClockTypes
  <2> QED BY <2>1, <2>2
<1>10. OwnCommands' BY <1>1, <1>4 DEF OwnCommands, Issued
<1>11. Emptied'
  <2>1. \A k \in Players : \A l \in closed'[k] : queue'[k][l] = {} BY <1>1, <1>5 DEF RoutedInv, Emptied
  <2>2. ASSUME NEW p \in Players, <<0, p>> \in givenUp' PROVE p \notin Open(0)'
    <3>1. p \notin Open(0) BY <1>1, <2>2 DEF RoutedInv, Emptied
    <3>2. quitting[0] \subseteq quitting'[0] \cup closed[0]
      <4>1. CASE m = 0 BY <1>2, <1>3, <4>1 DEF InLoop
      <4>2. CASE m # 0 BY <1>3, <4>2, Numbers
      <4> QED BY <4>1, <4>2
    <3> QED BY <1>1, <3>1, <3>2 DEF Open
  <2> QED BY <2>1, <2>2 DEF Emptied
<1>12. Routed' BY <1>5, EntryFacts, StaysRouted DEF RoutedInv, Routed
<1>13. TruePackets' BY <1>1, StaysTrue DEF RoutedInv, TruePackets, TypeInv
<1>14. WaitedFor'
  <2>1. ASSUME NEW d \in received[0], NEW n \in Others(0) \ {Owner(d)}
        PROVE  Owner(d) = 0 \/ n \in relayed[0][d] \/ Has(n, d)' \/ n \notin InGame(0)'
    <3>1. Owner(d) = 0 \/ n \in relayed[0][d] \/ Has(n, d) \/ n \notin InGame(0)
      BY DEF RoutedInv, WaitedFor
    <3>2. d \in Command /\ n \in Players BY Numbers DEF TypeInv, TypeOK, Others
    <3> QED BY <3>1, <3>2, StaysHad, StaysOut, Numbers
  <2> QED BY <1>1, <2>1 DEF RoutedInv, WaitedFor, Others
<1>15. StillPending'
  <2>1. ASSUME NEW d \in Command, Owner(d) # 0, Issued(d)' PROVE d \in pending[Owner(d)] \/ Complete(d)'
    <3>1. Issued(d) BY <1>1, <2>1 DEF Issued
    <3> QED BY <2>1, <3>1, StaysComplete DEF RoutedInv, StillPending
  <2> QED BY <1>1, <2>1 DEF RoutedInv, StillPending
<1>16. TakenOver' BY <1>1, <1>5 DEF RoutedInv, TakenOver, Issued
<1>17. HandedOn'
  <2> SUFFICES ASSUME NEW d \in received[0], NEW p \in Others(0) \ {Owner(d)}
               PROVE  Has(p, d)' \/ d \in Commands(queue[0][p]) \/ <<0, p>> \in givenUp
    BY <1>1, <1>5 DEF HandedOn, Others
  <2>1. d \in Command /\ p \in Players BY Numbers DEF TypeInv, TypeOK, Others
  <2> QED BY <2>1, StaysHad DEF RoutedInv, HandedOn
<1>18. FramesInv' BY <1>7, <1>8, <1>9, <1>10 DEF FramesInv
<1> QED BY <1>11, <1>12, <1>13, <1>14, <1>15, <1>16, <1>17, <1>18 DEF RoutedInv

--------------------------------------------------------------------------------
(* The other steps leave the frames alone: machines only get what was issued, and *)
(* no connection that was quitting or closed is open again.                       *)
FramesKept ==
    /\ UNCHANGED <<frame, issued, leaves>>
    /\ \A m \in Players : \A c \in received'[m] : c \in received[m] \/ Issued(c)
    /\ \A m \in Players : received[m] \subseteq received'[m]
    /\ \A m \in Players : quitting'[m] \cup closed'[m] = quitting[m] \cup closed[m]

LEMMA KeptGoesOn ==
  ASSUME TypeInv, FramesKept
  PROVE  GoesOn
<1> SUFFICES ASSUME NEW p \in Players
             PROVE  /\ frame[p] <= frame'[p] /\ issued[p] <= issued'[p]
                    /\ leaves'[p] <= leaves[p] /\ received[p] \subseteq received'[p]
  BY DEF GoesOn
<1> QED BY ClockTypes DEF FramesKept

LEMMA KeptFrames ==
  ASSUME TypeInv, FramesInv, FramesKept
  PROVE  FramesInv'
<1>1. Clocks' BY DEF FramesKept, FramesInv, Clocks
<1>2. OwnCommands'
  <2>1. \A m \in Players : \A c \in received'[m] : Issued(c)
    BY DEF FramesKept, FramesInv, OwnCommands
  <2>2. ASSUME NEW c \in Command, Issued(c) PROVE c \in received'[Owner(c)]
    BY <2>2, CommandFacts DEF FramesKept, FramesInv, OwnCommands
  <2> QED BY <2>1, <2>2 DEF FramesKept, OwnCommands, Issued
<1>3. Executed' BY DEF FramesKept, FramesInv, Executed
<1>4. Seen' BY DEF FramesKept, FramesInv, Seen
<1> QED BY <1>1, <1>2, <1>3, <1>4 DEF FramesInv

(* The parts of the invariant that such a step cannot disturb alone. *)
LEMMA KeptWaitedFor ==
  ASSUME TypeInv, TypeInv', FramesKept, WaitedFor,
         \A m \in Players \ {0} : \A c \in Command : relayed'[m][c] = {},
         \A c \in Command : relayed'[0][c] # {} => c \in received'[0],
         \A c \in received'[0] : \A n \in Others(0) \ {Owner(c)} :
            \/ c \in received[0] /\ (n \in relayed[0][c] => n \in relayed'[0][c] \/ Has(n, c)')
            \/ n \in relayed'[0][c] \/ n \notin InGame(0)
  PROVE  WaitedFor'
<1> SUFFICES ASSUME NEW c \in received'[0], NEW n \in Others(0) \ {Owner(c)}
             PROVE  Owner(c) = 0 \/ n \in relayed'[0][c] \/ Has(n, c)' \/ n \notin InGame(0)'
  BY DEF WaitedFor, Others
<1>1. c \in Command /\ n \in Players BY Numbers DEF TypeInv, TypeOK, Others
<1>2. GoesOn BY KeptGoesOn
<1>3. CASE c \in received[0] /\ (n \in relayed[0][c] => n \in relayed'[0][c] \/ Has(n, c)')
  BY <1>1, <1>2, <1>3, StaysHad, StaysOut, Numbers DEF WaitedFor
<1>4. CASE n \in relayed'[0][c] \/ n \notin InGame(0) BY <1>1, <1>2, <1>4, StaysOut, Numbers
<1> QED BY <1>3, <1>4

LEMMA KeptPending ==
  ASSUME TypeInv, TypeInv', FramesKept, StillPending,
         \A m \in Players : \A c \in pending[m] : c \in pending'[m] \/ Complete(c),
         \A m \in Players : pending'[m] \subseteq pending[m]
  PROVE  StillPending'
<1>1. pending'[0] = {} BY Numbers DEF StillPending
<1>2. GoesOn BY KeptGoesOn
<1>3. ASSUME NEW c \in Command, Owner(c) # 0, Issued(c)' PROVE c \in pending'[Owner(c)] \/ Complete(c)'
  <2>1. Issued(c) BY <1>3 DEF FramesKept, Issued
  <2>2. c \in pending[Owner(c)] \/ Complete(c) BY <1>3, <2>1 DEF StillPending
  <2>3. c \in pending'[Owner(c)] \/ Complete(c) BY <2>2, CommandFacts
  <2> QED BY <1>2, <2>3, StaysComplete
<1> QED BY <1>1, <1>3 DEF StillPending

LEMMA KeptTakenOver ==
  ASSUME TypeInv, FramesKept, TakenOver, givenUp \subseteq givenUp',
         \A m \in Players : \A c \in Commands(queue[m][0]) :
            Owner(c) = m => c \in Commands(queue'[m][0]) \/ c \in received'[0] \/ <<m, 0>> \in givenUp'
  PROVE  TakenOver'
<1> SUFFICES ASSUME NEW c \in Command, Issued(c)'
             PROVE  \/ c \in received'[0] \/ c \in Commands(queue'[Owner(c)][0])
                    \/ <<Owner(c), 0>> \in givenUp'
  BY DEF TakenOver, Commands
<1>1. Issued(c) BY DEF FramesKept, Issued
<1>2. c \in received[0] \/ c \in Commands(queue[Owner(c)][0]) \/ <<Owner(c), 0>> \in givenUp
  BY <1>1 DEF TakenOver
<1>3. received[0] \subseteq received'[0] BY Numbers DEF FramesKept
<1> QED BY <1>2, <1>3, CommandFacts

LEMMA KeptHandedOn ==
  ASSUME TypeInv, TypeInv', FramesKept, HandedOn, givenUp \subseteq givenUp',
         \A c \in received'[0] : \A p \in Others(0) \ {Owner(c)} :
            \/ /\ c \in received[0]
               /\ c \in Commands(queue[0][p]) =>
                    c \in Commands(queue'[0][p]) \/ Has(p, c)' \/ <<0, p>> \in givenUp'
            \/ c \in Commands(queue'[0][p]) \/ Has(p, c)'
  PROVE  HandedOn'
<1> SUFFICES ASSUME NEW c \in received'[0], NEW p \in Others(0) \ {Owner(c)}
             PROVE  Has(p, c)' \/ c \in Commands(queue'[0][p]) \/ <<0, p>> \in givenUp'
  BY DEF HandedOn, Commands, Others
<1>1. c \in Command /\ p \in Players BY Numbers DEF TypeInv, TypeOK, Others
<1>2. GoesOn BY KeptGoesOn
<1>3. CASE c \in received[0]
  BY <1>1, <1>2, <1>3, StaysHad DEF HandedOn
<1> QED BY <1>3

--------------------------------------------------------------------------------
(* A machine that does not get a command because it is out of date has it, or is  *)
(* no longer there to need it; the router then acknowledges what it has.          *)
LEMMA OutOfDateHas ==
  ASSUME TypeInv, FramesInv, NEW c \in Command, Issued(c), NEW n \in Players, OutOfDate(n, c)
  PROVE  Has(n, c)
<1>0. Clocks /\ Seen BY DEF FramesInv
<1>1. Owner(c) \in Players /\ FrameOf(c) \in Nat BY CommandFacts
<1>2. FrameOf(c) <= leaves[Owner(c)] BY <1>0, IssuedInGame
<1>3. CASE FrameOf(c) < frame[n] BY <1>3, ExecutedHas DEF Has
<1>4. CASE ~(FrameOf(c) < frame[n])
  <2>1. Owner(c) \in closed[n] BY <1>4 DEF OutOfDate
  <2>2. leaves[Owner(c)] < frame[n] \/ leaves[n] < frame[n] BY <1>0, <2>1 DEF Seen
  <2>3. FrameOf(c) > leaves[n] BY <1>1, <1>2, <1>4, <2>2, ClockTypes
  <2> QED BY <2>3 DEF Has
<1> QED BY <1>3, <1>4

(* So has one that runs on past the frame of a command: it took part in the game   *)
(* up to the frame it left in.                                                    *)
LEMMA RunsOnHas ==
  ASSUME TypeInv, FramesInv, NEW c \in Command, Issued(c), NEW n \in Players, RunsOn(n)
  PROVE  Has(n, c)
<1>1. FrameOf(c) \in Nat BY CommandFacts
<1>2. CASE FrameOf(c) < frame[n] BY <1>2, OutOfDateHas DEF OutOfDate
<1>3. CASE ~(FrameOf(c) < frame[n])
  <2>1. FrameOf(c) > leaves[n] BY <1>1, <1>3, ClockTypes DEF RunsOn, Playing
  <2> QED BY <2>1 DEF Has
<1> QED BY <1>2, <1>3

LEMMA RouterRunsOnNever ==
  ASSUME TypeInv, RouterPresent
  PROVE  ~RunsOn(0)
<1>1. leaves[0] >= frame[0] BY Numbers, RouterFacts
<1> QED BY <1>1, Numbers, ClockTypes DEF RunsOn, Playing

LEMMA OutOfDateAtRouter ==
  ASSUME TypeInv, RouterPresent, FramesInv, NEW c \in Command, Issued(c), OutOfDate(0, c)
  PROVE  c \in received[0]
<1>1. Has(0, c) BY Numbers, OutOfDateHas
<1>2. CASE FrameOf(c) < frame[0] BY <1>2, Numbers, ExecutedHas
<1>3. CASE ~(FrameOf(c) < frame[0])
  <2>1. Owner(c) \in closed[0] /\ Owner(c) \in Players /\ FrameOf(c) \in Nat
    BY <1>3, CommandFacts DEF OutOfDate
  <2>2. leaves[Owner(c)] < frame[0] BY <2>1, Numbers, RouterFacts DEF FramesInv
  <2>3. FrameOf(c) <= leaves[Owner(c)] BY IssuedInGame DEF FramesInv
  <2>4. leaves[Owner(c)] \in Nat /\ frame[0] \in Nat BY <2>1, ClockTypes, Numbers
  <2> QED BY <1>3, <2>1, <2>2, <2>3, <2>4
<1> QED BY <1>2, <1>3

(* What a machine has once it has looked at a command that came its way. *)
LEMMA ProcessedHas ==
  ASSUME TypeInv, FramesInv, NEW n \in Players, NEW c \in Command, NEW relay, n \in relay,
         Issued(c), NEW rest, ProcessCommand(n, c, relay, rest)
  PROVE  Has(n, c)'
<1>1. UNCHANGED leaves BY DEF ProcessCommand
<1>2. CASE (OutOfDate(n, c) \/ RunsOn(n)) /\ UNCHANGED received
  <2>1. Has(n, c) BY <1>2, OutOfDateHas, RunsOnHas
  <2> QED BY <1>1, <1>2, <2>1 DEF Has
<1>3. CASE SendRemoteCommand(n, c, relay)
  <2>1. received' = [received EXCEPT ![n] = @ \cup {c}] BY <1>3 DEF SendRemoteCommand
  <2>2. c \in received'[n] BY <2>1 DEF TypeInv, TypeOK
  <2> QED BY <2>2 DEF Has
<1> QED BY <1>2, <1>3 DEF ProcessCommand

(* A command of the router reaches a client. *)
LEMMA RoutedToClient ==
  ASSUME TypeInv, TypeInv', RouterPresent, RoutedInv, NEW n \in Players, n # 0,
         NEW c \in Command, Issued(c), c \in received[0],
         NEW rest, rest \subseteq wire, ProcessCommand(n, c, {n}, rest)
  PROVE  FramesKept /\ RoutedInv'
<1>1. UNCHANGED <<frame, issued, leaves, pending, quitting, closed, givenUp>> BY DEF ProcessCommand
<1>2. FramesInv BY DEF RoutedInv
<1>3. \A k \in Players : received[k] \subseteq received'[k] /\ received'[k] \subseteq received[k] \cup {c}
  <2>1. received' = received \/ received' = [received EXCEPT ![n] = @ \cup {c}]
    BY DEF ProcessCommand, SendRemoteCommand
  <2>2. received \in [Players -> SUBSET Command] BY DEF TypeInv, TypeOK
  <2> QED BY <2>1, <2>2
<1>4. queue' = queue /\ relayed' = relayed
  <2>1. CASE UNCHANGED <<received, queue, relayed>> BY <2>1
  <2>2. CASE SendRemoteCommand(n, c, {n})
    <3>1. {n} \cap Open(n) = {} BY DEF Open, Others
    <3>2. PICK none : none = {n} \cap Open(n) OBVIOUS
    <3>3. /\ queue' = [queue EXCEPT ![n] = SendDirect(@, none, {c})]
          /\ relayed' = [relayed EXCEPT ![n][c] = Relaying(@, none)]
      BY <2>2, <3>2 DEF SendRemoteCommand
    <3>4. SendDirect(queue[n], none, {c}) = queue[n]
      <4>1. queue[n] = [l \in Players |-> queue[n][l]] BY DEF TypeInv, SendQueues
      <4>2. SendDirect(queue[n], none, {c}) = [l \in Players |-> queue[n][l]]
        BY <3>1, <3>2 DEF SendDirect
      <4> QED BY <4>1, <4>2
    <3>5. Relaying(relayed[n][c], none) = relayed[n][c]
      BY <3>1, <3>2 DEF Relaying
    <3>6. queue' = queue BY <3>3, <3>4 DEF TypeInv
    <3>7. relayed' = relayed
      <4>1. relayed[n] = [relayed[n] EXCEPT ![c] = relayed[n][c]] BY DEF TypeInv, TypeOK
      <4>2. relayed = [relayed EXCEPT ![n] = relayed[n]] BY DEF TypeInv, TypeOK
      <4>3. relayed' = [relayed EXCEPT ![n] = [relayed[n] EXCEPT ![c] = relayed[n][c]]]
        BY <3>3, <3>5
      <4> QED BY <4>1, <4>2, <4>3
    <3> QED BY <3>6, <3>7
  <2> QED BY <2>1, <2>2 DEF ProcessCommand
<1>5. FramesKept BY <1>1, <1>3 DEF FramesKept
<1>6. GoesOn BY <1>5, KeptGoesOn
<1>7. FramesInv' BY <1>2, <1>5, KeptFrames
<1>8. Emptied' BY <1>1, <1>4 DEF RoutedInv, Emptied, Open
<1>9. Routed' BY <1>4, <1>6, EntryFacts, StaysRouted DEF RoutedInv, Routed
<1>10. TruePackets'
  <2>1. wire' \subseteq wire \cup AckCommand(n, c, {n}) BY CarryFacts DEF ProcessCommand
  <2>2. ASSUME NEW x \in AckCommand(n, c, {n}) PROVE TruePacket(x)'
    <3>1. PacketRouter(n) = 0 BY RouterFacts
    <3>2. x = Packet(AckType(n, {n}), n, 0, c, {0}) BY <2>2, <3>1, AckFacts
    <3>3. AckType(n, {n}) = "ACKBOTH" BY DEF AckType, Open, Others
    <3>4. x.type = "ACKBOTH" /\ x.from = n /\ x.to = 0 /\ x.cmd = c /\ x.relay = {0}
      BY <3>2, <3>3, PacketFacts
    <3>5. Has(n, c)' BY <1>2, ProcessedHas
    <3>6. Acknowledges(x)' BY <3>4, <3>5 DEF Acknowledges
    <3> QED BY <3>4, <3>6 DEF TruePacket
  <2> QED BY <1>6, <2>1, <2>2, StayTrue DEF RoutedInv
<1>11. received'[0] = received[0] BY <1>3, Numbers
<1>12. WaitedFor' BY <1>4, <1>5, <1>11, KeptWaitedFor DEF RoutedInv, WaitedFor
<1>13. StillPending' BY <1>1, <1>5, KeptPending DEF RoutedInv
<1>14. TakenOver' BY <1>1, <1>4, <1>5, KeptTakenOver DEF RoutedInv
<1>15. HandedOn' BY <1>1, <1>4, <1>5, <1>11, KeptHandedOn DEF RoutedInv
<1> QED BY <1>5, <1>7, <1>8, <1>9, <1>10, <1>12, <1>13, <1>14, <1>15 DEF RoutedInv

(* A command of a client reaches the router. *)
LEMMA RoutedToRouter ==
  ASSUME TypeInv, TypeInv', RouterPresent, RoutedInv,
         NEW c \in Command, Issued(c), Owner(c) # 0,
         NEW rest, rest \subseteq wire, ProcessCommand(0, c, Others(Owner(c)), rest)
  PROVE  FramesKept /\ RoutedInv'
<1> DEFINE relay == Others(Owner(c))
           targets == relay \cap Open(0)
<1>1. UNCHANGED <<frame, issued, leaves, pending, quitting, closed, givenUp>> BY DEF ProcessCommand
<1>0. OutOfDate(0, c) \/ SendRemoteCommand(0, c, relay) BY RouterRunsOnNever DEF ProcessCommand
<1>2. FramesInv /\ Seen BY DEF RoutedInv, FramesInv
<1>3. 0 \in relay /\ Owner(c) \in Players /\ 0 \in Players BY Numbers, CommandFacts DEF Others
<1>4. received'[0] = received[0] \cup {c} /\ \A k \in Players \ {0} : received'[k] = received[k]
  <2>1. CASE OutOfDate(0, c)
    <3>1. c \in received[0] /\ received' = received BY <1>2, <2>1, OutOfDateAtRouter DEF ProcessCommand
    <3> QED BY <3>1
  <2>2. CASE ~OutOfDate(0, c)
    <3>1. received' = [received EXCEPT ![0] = @ \cup {c}]
      BY <1>0, <1>3, <2>2 DEF SendRemoteCommand
    <3> QED BY <1>3, <3>1 DEF TypeInv, TypeOK
  <2> QED BY <2>1, <2>2
<1>5. /\ \A k \in Players \ {0} : queue'[k] = queue[k]
      /\ \A l \in Players :
           \/ queue'[0][l] = queue[0][l] /\ (c \notin received[0] => l \notin targets)
           \/ l \in targets /\ queue'[0][l] = Queued(queue[0][l], {c}, {l})
  <2>1. CASE OutOfDate(0, c)
    <3>1. c \in received[0] /\ queue' = queue BY <1>2, <2>1, OutOfDateAtRouter DEF ProcessCommand
    <3> QED BY <3>1
  <2>2. CASE ~OutOfDate(0, c)
    <3> DEFINE row == SendDirect(queue[0], targets, {c})
    <3>1. queue' = [queue EXCEPT ![0] = row]
      BY <1>0, <2>2 DEF SendRemoteCommand
    <3>2. \A l \in Players : row[l] = IF l \in targets THEN Queued(queue[0][l], {c}, {l}) ELSE queue[0][l]
      BY DEF SendDirect
    <3> HIDE DEF row, targets
    <3>3. queue \in [Players -> SendQueues] BY DEF TypeInv
    <3>4. \A k \in Players : queue'[k] = IF k = 0 THEN row ELSE queue[k] BY <3>1, <3>3
    <3> QED BY <1>3, <3>2, <3>4
  <2> QED BY <2>1, <2>2
<1>6. /\ \A k \in Players \ {0} : relayed'[k] = relayed[k]
      /\ \A d \in Command : relayed'[0][d] = relayed[0][d] \/ d = c
      /\ \/ relayed'[0][c] = relayed[0][c] /\ (c \in received[0] \/ relayed[0][c] # {})
         \/ relayed[0][c] = {} /\ relayed'[0][c] = targets
  <2>1. CASE OutOfDate(0, c)
    <3>1. c \in received[0] /\ relayed' = relayed BY <1>2, <2>1, OutOfDateAtRouter DEF ProcessCommand
    <3> QED BY <3>1
  <2>2. CASE ~OutOfDate(0, c)
    <3> DEFINE new == Relaying(relayed[0][c], targets)
               row == [relayed[0] EXCEPT ![c] = new]
    <3>1. relayed' = [relayed EXCEPT ![0] = row]
      BY <1>0, <2>2 DEF SendRemoteCommand
    <3>2. \/ new = relayed[0][c] /\ relayed[0][c] # {}
          \/ relayed[0][c] = {} /\ new = targets
      BY DEF Relaying
    <3> HIDE DEF new, targets
    <3>3. relayed \in [Players -> [Command -> SUBSET Players]] BY DEF TypeInv, TypeOK
    <3>4. \A d \in Command : row[d] = IF d = c THEN new ELSE relayed[0][d] BY <1>3, <3>3
    <3> HIDE DEF row
    <3>5. \A k \in Players : relayed'[k] = IF k = 0 THEN row ELSE relayed[k] BY <3>1, <3>3
    <3> QED BY <1>3, <3>2, <3>4, <3>5
  <2> QED BY <2>1, <2>2
<1> HIDE DEF targets
<1>7. FramesKept
  <2>1. \A k \in Players : received[k] \subseteq received'[k] BY <1>4
  <2>2. \A k \in Players : \A d \in received'[k] : d \in received[k] \/ Issued(d) BY <1>4
  <2> QED BY <1>1, <2>1, <2>2 DEF FramesKept
<1>8. GoesOn BY <1>7, KeptGoesOn
<1>9. FramesInv' BY <1>2, <1>7, KeptFrames
<1>10. \A k, l \in Players : queue[k][l] \subseteq queue'[k][l]
                             /\ Commands(queue[k][l]) \subseteq Commands(queue'[k][l])
  <2> SUFFICES ASSUME NEW k \in Players, NEW l \in Players PROVE queue[k][l] \subseteq queue'[k][l]
    BY DEF Commands
  <2>1. queue'[k][l] = queue[k][l] \/ queue'[k][l] = Queued(queue[k][l], {c}, {l}) BY <1>5
  <2> QED BY <2>1, QueuedFacts
<1>11. Emptied'
  <2>1. \A k \in Players : \A l \in closed[k] : l \in Players /\ queue[k][l] = {}
    BY DEF RoutedInv, Emptied, TypeInv, TypeOK
  <2>2. \A l \in closed[0] : l \notin targets BY DEF targets, Open
  <2>3. ASSUME NEW k \in Players, NEW l \in closed[k] PROVE queue'[k][l] = {}
    BY <1>5, <2>1, <2>2
  <2> QED BY <1>1, <2>3 DEF RoutedInv, Emptied, Open
<1>12. Routed'
  <2> SUFFICES ASSUME NEW k \in Players, NEW l \in Players, NEW e \in queue'[k][l]
               PROVE  Route(k, l, e.cmd, e.relay)'
    BY DEF Routed
  <2>1. CASE e \in queue[k][l]
    <3>1. Route(k, l, e.cmd, e.relay) BY <2>1 DEF RoutedInv, Routed
    <3> QED BY <1>8, <2>1, <3>1, EntryFacts, StaysRouted
  <2>2. CASE e \notin queue[k][l]
    <3>1. k = 0 /\ l \in targets /\ e \in Queued(queue[0][l], {c}, {l}) BY <1>5, <2>2
    <3>2. e.cmd = c /\ e = [cmd |-> e.cmd, relay |-> {l}] BY <2>2, <3>1, QueuedFacts
    <3>3. e.relay = {l} BY <3>2
    <3>4. l # 0 BY <3>1 DEF targets, Open, Others
    <3>5. c \in received'[0] BY <1>4
    <3>6. Issued(c)' BY <1>8, StaysIssued
    <3> QED BY <3>1, <3>2, <3>3, <3>4, <3>5, <3>6 DEF Route
  <2> QED BY <2>1, <2>2
<1>13. TruePackets'
  <2>1. wire' \subseteq wire \cup AckCommand(0, c, relay) BY CarryFacts DEF ProcessCommand
  <2>2. ASSUME NEW x \in AckCommand(0, c, relay) PROVE TruePacket(x)'
    <3>1. PacketRouter(0) = 0 BY <1>3, RouterFacts
    <3>2. x = Packet(AckType(0, relay), 0, Owner(c), c, {Owner(c)}) BY <2>2, <3>1, AckFacts
    <3>3. x.type = AckType(0, relay) /\ x.from = 0 /\ x.to = Owner(c) /\ x.cmd = c /\ x.relay = {Owner(c)}
      BY <3>2, PacketFacts
    <3>4. AckType(0, relay) # "ACKSTAGE1" => Complete(c)'
      <4> SUFFICES ASSUME Open(0) \cap relay = {}, NEW p \in relay
                   PROVE  Has(p, c)' \/ p \notin InGame(0)'
        BY DEF AckType, Complete, Others
      <4>1. CASE p = 0 BY <1>4, <4>1 DEF Has
      <4>2. CASE p # 0
        <5>1. p \in Others(0) /\ p \notin Open(0) BY <4>2 DEF Others
        <5>2. p \notin InGame(0) BY <1>2, <5>1, NotOpen
        <5> QED BY <1>3, <1>8, <5>1, <5>2, StaysOut DEF Others
      <4> QED BY <4>1, <4>2
    <3>5. c \in received'[0] BY <1>4
    <3>6. Acknowledges(x)' BY <3>3, <3>4, <3>5 DEF Acknowledges
    <3>7. x.type # "COMMAND" BY <3>3 DEF AckType
    <3> QED BY <3>6, <3>7 DEF TruePacket
  <2> QED BY <1>8, <2>1, <2>2, StayTrue DEF RoutedInv
<1>14. WaitedFor'
  <2>0. WaitedFor BY DEF RoutedInv
  <2>1. \A m \in Players \ {0} : \A d \in Command : relayed'[m][d] = {} BY <1>6, <2>0 DEF WaitedFor
  <2>2. \A d \in Command : relayed'[0][d] # {} => d \in received'[0] BY <1>4, <1>6, <2>0 DEF WaitedFor
  <2>3. ASSUME NEW d \in received'[0], NEW n \in Others(0) \ {Owner(d)}
        PROVE  \/ d \in received[0] /\ (n \in relayed[0][d] => n \in relayed'[0][d] \/ Has(n, d)')
               \/ n \in relayed'[0][d] \/ n \notin InGame(0)
    <3>1. d \in Command BY <1>3, <2>3 DEF TypeInv, TypeOK
    <3>2. CASE d # c BY <1>4, <1>6, <3>1, <3>2
    <3>3. CASE d = c /\ (c \in received[0] \/ relayed[0][c] # {})
      <4>1. c \in received[0] BY <2>0, <3>3 DEF WaitedFor
      <4>2. n \in relayed[0][c] => n \in relayed'[0][c] BY <1>6
      <4> QED BY <3>3, <4>1, <4>2
    <3>4. CASE d = c /\ c \notin received[0] /\ relayed[0][c] = {}
      <4>1. relayed'[0][c] = targets BY <1>6, <3>4
      <4>2. n \in relay BY <2>3, <3>4 DEF Others
      <4>3. n \in Open(0) => n \in targets BY <4>2 DEF targets
      <4> QED BY <1>2, <3>4, <4>1, <4>3, NotOpen
    <3> QED BY <3>2, <3>3, <3>4
  <2> QED BY <1>7, <2>0, <2>1, <2>2, <2>3, KeptWaitedFor
<1>15. StillPending' BY <1>1, <1>7, KeptPending DEF RoutedInv
<1>16. TakenOver'
  <2>1. \A m \in Players : \A d \in Commands(queue[m][0]) : d \in Commands(queue'[m][0])
    BY <1>3, <1>10
  <2> QED BY <1>1, <1>7, <2>1, KeptTakenOver DEF RoutedInv
<1>17. HandedOn'
  <2>1. ASSUME NEW d \in received'[0], NEW p \in Others(0) \ {Owner(d)}
        PROVE  \/ d \in received[0] /\ (d \in Commands(queue[0][p]) => d \in Commands(queue'[0][p]))
               \/ d \in Commands(queue'[0][p]) \/ Has(p, d)'
    <3>0. p \in Players BY DEF Others
    <3>1. CASE d \in received[0] BY <1>3, <1>10, <3>0, <3>1
    <3>2. CASE d \notin received[0] /\ p \in targets
      <4>1. d = c /\ queue'[0][p] = Queued(queue[0][p], {c}, {p}) BY <1>4, <1>5, <3>0, <3>2
      <4> QED BY <4>1, QueuedFacts
    <3>3. CASE d \notin received[0] /\ p \notin targets
      <4>1. d = c /\ p \in relay BY <1>4, <2>1, <3>3 DEF Others
      <4>2. p \in Others(0) /\ p \notin Open(0) BY <3>3, <4>1 DEF targets
      <4>3. leaves[p] < frame[0] BY <1>2, <4>2, NotOpen
      <4>4. ~OutOfDate(0, c) BY <1>2, <3>3, <4>1, OutOfDateAtRouter
      <4>5. FrameOf(c) > leaves[p]
        <5>1. FrameOf(c) \in Nat /\ ~(FrameOf(c) < frame[0]) BY <4>4, CommandFacts DEF OutOfDate
        <5> QED BY <1>3, <3>0, <4>3, <5>1, ClockTypes
      <4>6. FrameOf(c) > leaves'[p] BY <1>1, <4>5
      <4> QED BY <4>1, <4>6 DEF Has
    <3> QED BY <3>1, <3>2, <3>3
  <2>2. HandedOn /\ givenUp \subseteq givenUp' BY <1>1 DEF RoutedInv
  <2> QED BY <1>7, <2>1, <2>2, KeptHandedOn
<1> QED BY <1>7, <1>9, <1>11, <1>12, <1>13, <1>14, <1>15, <1>16, <1>17 DEF RoutedInv

LEMMA RoutedDeliver ==
  ASSUME TypeInv, TypeInv', RouterPresent, RoutedInv, NEW m \in Players, NEW n \in Players,
         NEW c \in Command, NEW relay, Route(m, n, c, relay),
         NEW rest, rest \subseteq wire, ProcessCommand(n, c, relay, rest)
  PROVE  FramesKept /\ RoutedInv'
<1>1. CASE m = 0
  <2>1. Issued(c) /\ n # 0 /\ relay = {n} /\ c \in received[0] BY <1>1 DEF Route
  <2> QED BY <2>1, RoutedToClient
<1>2. CASE m # 0
  <2>1. Issued(c) /\ n = 0 /\ relay = Others(m) /\ Owner(c) = m BY <1>2 DEF Route
  <2>2. ProcessCommand(0, c, Others(Owner(c)), rest) BY <2>1
  <2> QED BY <1>2, <2>1, <2>2, RoutedToRouter
<1> QED BY <1>1, <1>2

(* What acknowledgements leave alone. *)
LEMMA AckKept ==
  ASSUME TypeInv, TypeInv', RoutedInv, NEW x \in wire, AckEffect(x)
  PROVE  /\ FramesKept /\ GoesOn /\ FramesInv' /\ Emptied' /\ Routed'
         /\ \A k, l \in Players : queue'[k][l] \subseteq queue[k][l]
         /\ \A k, l \in Players : ~(k = x.to /\ l = x.from) => queue'[k][l] = queue[k][l]
         /\ \A d \in Commands(queue[x.to][x.from]) :
              d \in Commands(queue'[x.to][x.from]) \/ (d = x.cmd /\ x.type # "ACKSTAGE2")
<1>0. PacketOK(x) BY DEF TypeInv
<1>1. UNCHANGED <<frame, issued, leaves, received, quitting, closed, givenUp>> BY DEF AckEffect
<1>2. FramesKept BY <1>1 DEF FramesKept
<1>3. GoesOn BY <1>2, KeptGoesOn
<1>4. FramesInv' BY <1>2, KeptFrames DEF RoutedInv
<1>5. x.to \in Players /\ x.from \in Players BY <1>0 DEF PacketOK
<1> DEFINE es == IF x.type = "ACKSTAGE2" THEN queue[x.to][x.from]
                 ELSE {e \in queue[x.to][x.from] : e.cmd # x.cmd}
<1>6. es \subseteq queue[x.to][x.from] /\ queue' = [queue EXCEPT ![x.to][x.from] = es]
  BY DEF AckEffect
<1>7. \A d \in Commands(queue[x.to][x.from]) :
         d \in Commands(es) \/ (d = x.cmd /\ x.type # "ACKSTAGE2")
  BY DEF Commands
<1> HIDE DEF es
<1>8. \A k, l \in Players : queue'[k][l] = IF k = x.to /\ l = x.from THEN es ELSE queue[k][l]
  <2>1. IsCut(x.to, x.from, es) BY <1>5, <1>6, QueueCut
  <2> QED BY <2>1 DEF IsCut
<1>9. \A k, l \in Players : queue'[k][l] \subseteq queue[k][l] BY <1>6, <1>8
<1>10. Emptied'
  <2>1. \A k \in Players : \A l \in closed[k] : l \in Players /\ queue[k][l] = {}
    BY DEF RoutedInv, Emptied, TypeInv, TypeOK
  <2>2. \A k \in Players : \A l \in closed'[k] : queue'[k][l] = {} BY <1>1, <1>9, <2>1
  <2> QED BY <1>1, <2>2 DEF RoutedInv, Emptied, Open
<1>11. Routed' BY <1>3, <1>9, EntryFacts, StaysRouted DEF RoutedInv, Routed
<1>12. queue'[x.to][x.from] = es BY <1>5, <1>8
<1> QED BY <1>2, <1>3, <1>4, <1>7, <1>8, <1>9, <1>10, <1>11, <1>12

(* The router is told that a client has a command. *)
LEMMA RoutedAckToRouter ==
  ASSUME TypeInv, TypeInv', RouterPresent, RoutedInv, NEW x \in wire, x.to = 0,
         Acknowledges(x), AckEffect(x)
  PROVE  FramesKept /\ RoutedInv'
<1>1. x.from # 0 /\ x.type = "ACKBOTH" /\ Has(x.from, x.cmd) /\ x.relay = {0} BY DEF Acknowledges
<1>2. /\ FramesKept /\ GoesOn /\ FramesInv' /\ Emptied' /\ Routed'
      /\ \A k, l \in Players : ~(k = 0 /\ l = x.from) => queue'[k][l] = queue[k][l]
      /\ \A d \in Commands(queue[0][x.from]) : d \in Commands(queue'[0][x.from]) \/ d = x.cmd
  BY AckKept
<1>3. x.cmd \in Command /\ x.from \in Players /\ 0 \in Players /\ x.to \in Players
  BY Numbers DEF TypeInv, PacketOK
<1>4. UNCHANGED <<received, givenUp>> BY DEF AckEffect
<1>5. Has(x.from, x.cmd)' BY <1>1, <1>2, <1>3, StaysHad
<1>6. /\ pending' = [pending EXCEPT ![0] = @ \ {x.cmd}]
      /\ relayed' = [relayed EXCEPT ![0][x.cmd] = @ \ {x.from}]
  BY <1>1 DEF AckEffect
<1>7. /\ \A k \in Players \ {0} : relayed'[k] = relayed[k]
      /\ \A d \in Command : relayed'[0][d] = IF d = x.cmd THEN relayed[0][d] \ {x.from} ELSE relayed[0][d]
  <2> DEFINE left == relayed[0][x.cmd] \ {x.from}
             row == [relayed[0] EXCEPT ![x.cmd] = left]
  <2>1. relayed' = [relayed EXCEPT ![0] = row] BY <1>6
  <2>2. relayed \in [Players -> [Command -> SUBSET Players]] BY DEF TypeInv, TypeOK
  <2>3. \A d \in Command : row[d] = IF d = x.cmd THEN left ELSE relayed[0][d] BY <1>3, <2>2
  <2> HIDE DEF row
  <2>4. \A k \in Players : relayed'[k] = IF k = 0 THEN row ELSE relayed[k] BY <2>1, <2>2
  <2> QED BY <1>3, <2>3, <2>4
<1>8. WaitedFor'
  <2>0. WaitedFor BY DEF RoutedInv
  <2>1. \A m \in Players \ {0} : \A d \in Command : relayed'[m][d] = {} BY <1>7, <2>0 DEF WaitedFor
  <2>2. \A d \in Command : relayed'[0][d] # {} => d \in received'[0] BY <1>4, <1>7, <2>0 DEF WaitedFor
  <2>3. ASSUME NEW d \in received'[0], NEW n \in Others(0) \ {Owner(d)}
        PROVE  d \in received[0] /\ (n \in relayed[0][d] => n \in relayed'[0][d] \/ Has(n, d)')
    <3>1. d \in Command /\ d \in received[0] BY <1>3, <1>4, <2>3 DEF TypeInv, TypeOK
    <3>2. CASE d = x.cmd /\ n = x.from BY <1>5, <3>1, <3>2
    <3>3. CASE ~(d = x.cmd /\ n = x.from) BY <1>7, <3>1, <3>3
    <3> QED BY <3>2, <3>3
  <2> QED BY <1>2, <2>0, <2>1, <2>2, <2>3, KeptWaitedFor
<1>9. TruePackets'
  <2>1. wire' \subseteq wire \cup Stage2For(x)
    <3>1. wire' \subseteq wire \cup Stage2For(x) \cup Relayed(x) BY DEF AckEffect
    <3>2. Relayed(x) = {} BY <1>1 DEF Relayed, Open, Others
    <3> QED BY <3>1, <3>2
  <2>2. ASSUME NEW y \in Stage2For(x) PROVE TruePacket(y)'
    <3>1. PacketRouter(0) = 0 BY <1>3, RouterFacts
    <3>2. /\ relayed[0][x.cmd] # {} /\ relayed'[0][x.cmd] = {} /\ Owner(x.cmd) \in Open(0)
          /\ y = Packet("ACKSTAGE2", 0, Owner(x.cmd), x.cmd, {Owner(x.cmd)})
      BY <2>2, <3>1 DEF Stage2For
    <3>3. y.type = "ACKSTAGE2" /\ y.from = 0 /\ y.to = Owner(x.cmd) /\ y.cmd = x.cmd
          /\ y.relay = {Owner(x.cmd)}
      BY <3>2, PacketFacts
    <3>4. Owner(x.cmd) # 0 BY <3>2 DEF Open, Others
    <3>5. x.cmd \in received'[0] BY <1>3, <1>4, <3>2 DEF RoutedInv, WaitedFor
    <3>6. Complete(x.cmd)'
      <4> SUFFICES ASSUME NEW p \in Others(Owner(x.cmd)) PROVE Has(p, x.cmd)' \/ p \notin InGame(0)'
        BY DEF Complete, Others
      <4>1. CASE p = 0 BY <3>5, <4>1 DEF Has
      <4>2. CASE p # 0
        <5>1. p \in Others(0) \ {Owner(x.cmd)} BY <4>2 DEF Others
        <5>2. \A c \in received'[0] : \A n \in Others(0) \ {Owner(c)} :
                Owner(c) = 0 \/ n \in relayed'[0][c] \/ Has(n, c)' \/ n \notin InGame(0)'
          BY <1>8 DEF WaitedFor, Others
        <5> QED BY <3>2, <3>4, <3>5, <5>1, <5>2
      <4> QED BY <4>1, <4>2
    <3>7. Acknowledges(y)' BY <3>3, <3>4, <3>5, <3>6 DEF Acknowledges
    <3> QED BY <3>3, <3>7 DEF TruePacket
  <2> QED BY <1>2, <2>1, <2>2, StayTrue DEF RoutedInv
<1>10. StillPending'
  <2>1. pending[0] = {} BY DEF RoutedInv, StillPending
  <2>2. \A m \in Players : pending'[m] = pending[m] BY <1>6, <2>1 DEF TypeInv, TypeOK
  <2> QED BY <1>2, <2>2, KeptPending DEF RoutedInv
<1>11. TakenOver'
  <2>1. \A m \in Players : queue'[m][0] = queue[m][0] BY <1>1, <1>2, <1>3
  <2> QED BY <1>2, <1>4, <2>1, KeptTakenOver DEF RoutedInv
<1>12. HandedOn'
  <2>1. ASSUME NEW d \in received'[0], NEW p \in Others(0) \ {Owner(d)}
        PROVE  d \in received[0] /\ (d \in Commands(queue[0][p]) => d \in Commands(queue'[0][p]) \/ Has(p, d)')
    <3>1. p \in Players BY DEF Others
    <3> QED BY <1>2, <1>3, <1>4, <1>5, <3>1
  <2>2. HandedOn /\ givenUp \subseteq givenUp' BY <1>4 DEF RoutedInv
  <2> QED BY <1>2, <2>1, <2>2, KeptHandedOn
<1> QED BY <1>2, <1>8, <1>9, <1>10, <1>11, <1>12 DEF RoutedInv

(* A player is told that the router has its command, or that everybody has. *)
LEMMA RoutedAckToOwner ==
  ASSUME TypeInv, TypeInv', RouterPresent, RoutedInv, NEW x \in wire, x.to # 0,
         Acknowledges(x), AckEffect(x)
  PROVE  FramesKept /\ RoutedInv'
<1>1. /\ x.from = 0 /\ Owner(x.cmd) = x.to /\ x.cmd \in received[0] /\ x.relay = {x.to}
      /\ x.type # "ACKSTAGE1" => Complete(x.cmd)
  BY DEF Acknowledges
<1>2. /\ FramesKept /\ GoesOn /\ FramesInv' /\ Emptied' /\ Routed'
      /\ \A k, l \in Players : ~(k = x.to /\ l = 0) => queue'[k][l] = queue[k][l]
      /\ \A d \in Commands(queue[x.to][0]) : d \in Commands(queue'[x.to][0]) \/ d = x.cmd
  BY <1>1, AckKept
<1>3. x.cmd \in Command /\ x.to \in Players /\ 0 \in Players BY Numbers DEF TypeInv, PacketOK
<1>4. UNCHANGED <<received, givenUp>> BY DEF AckEffect
<1>5. relayed' = relayed
  <2>1. CASE relayed' = [relayed EXCEPT ![x.to][x.cmd] =
                           @ \ {IF x.type = "ACKSTAGE2" THEN 0 ELSE x.from}]
    <3> DEFINE left == relayed[x.to][x.cmd] \ {IF x.type = "ACKSTAGE2" THEN 0 ELSE x.from}
               row == [relayed[x.to] EXCEPT ![x.cmd] = left]
    <3>1. relayed[x.to][x.cmd] = {} BY <1>3 DEF RoutedInv, WaitedFor
    <3>2. left = relayed[x.to][x.cmd] BY <3>1
    <3>3. relayed' = [relayed EXCEPT ![x.to] = row] BY <2>1
    <3>4. relayed \in [Players -> [Command -> SUBSET Players]] BY DEF TypeInv, TypeOK
    <3> HIDE DEF left
    <3>5. row = relayed[x.to] BY <1>3, <3>2, <3>4
    <3> HIDE DEF row
    <3> QED BY <1>3, <3>3, <3>4, <3>5
  <2>2. CASE relayed' = relayed BY <2>2
  <2> QED BY <2>1, <2>2 DEF AckEffect
<1>6. WaitedFor' BY <1>2, <1>4, <1>5, KeptWaitedFor DEF RoutedInv, WaitedFor
<1>7. TruePackets'
  <2>1. wire' \subseteq wire \cup Stage2For(x) \cup Relayed(x) BY DEF AckEffect
  <2>2. Relayed(x) = {} BY <1>1 DEF Relayed, Open, Others
  <2>3. Stage2For(x) = {}
    <3>1. relayed[x.to][x.cmd] = {} BY <1>3 DEF RoutedInv, WaitedFor
    <3> QED BY <3>1 DEF Stage2For
  <2>4. wire' \subseteq wire BY <2>1, <2>2, <2>3
  <2> QED BY <1>2, <2>4, StaysTrue DEF RoutedInv, TruePackets, TypeInv
<1>8. StillPending'
  <2>1. /\ \A m \in Players : \A c \in pending[m] : c \in pending'[m] \/ Complete(c)
        /\ \A m \in Players : pending'[m] \subseteq pending[m]
    <3>1. CASE pending' = pending BY <3>1
    <3>2. CASE x.type # "ACKSTAGE1" /\ pending' = [pending EXCEPT ![x.to] = @ \ {x.cmd}]
      BY <1>1, <3>2 DEF TypeInv, TypeOK
    <3> QED BY <3>1, <3>2 DEF AckEffect
  <2> QED BY <1>2, <2>1, KeptPending DEF RoutedInv
<1>9. TakenOver'
  <2>1. \A m \in Players : \A d \in Commands(queue[m][0]) : d \in Commands(queue'[m][0]) \/ d \in received'[0]
    BY <1>1, <1>2, <1>3, <1>4
  <2> QED BY <1>2, <1>4, <2>1, KeptTakenOver DEF RoutedInv
<1>10. HandedOn'
  <2>1. \A p \in Players : queue'[0][p] = queue[0][p] BY <1>2, <1>3
  <2> QED BY <1>2, <1>4, <2>1, KeptHandedOn DEF RoutedInv, Others
<1> QED BY <1>2, <1>6, <1>7, <1>8, <1>9, <1>10 DEF RoutedInv

LEMMA RoutedReceive ==
  ASSUME TypeInv, TypeInv', RouterPresent, RoutedInv, NEW x \in wire, ReceiveCommand(x) \/ ReceiveAck(x)
  PROVE  FramesKept /\ RoutedInv'
<1>1. PacketOK(x) /\ TruePacket(x) BY DEF TypeInv, RoutedInv, TruePackets
<1>2. CASE ReceiveCommand(x)
  <2>1. x.type = "COMMAND" BY <1>2 DEF ReceiveCommand
  <2>2. PICK rest \in After(x) : ProcessCommand(x.to, x.cmd, x.relay, rest) BY <1>2 DEF ReceiveCommand
  <2>3. rest \subseteq wire BY DEF After
  <2>4. Route(x.from, x.to, x.cmd, x.relay) BY <1>1, <2>1 DEF TruePacket
  <2> QED BY <1>1, <2>2, <2>3, <2>4, RoutedDeliver DEF PacketOK
<1>3. CASE ReceiveAck(x)
  <2>1. Acknowledges(x) BY <1>1, <1>3 DEF ReceiveAck, TruePacket
  <2>2. AckEffect(x) BY <1>3, AckEffects
  <2> QED BY <2>1, <2>2, RoutedAckToRouter, RoutedAckToOwner
<1> QED BY <1>2, <1>3

(* A command is sent and comes late. *)
LEMMA RoutedDelay ==
  ASSUME TypeInv, TypeInv', RouterPresent, RoutedInv, NEW m \in Players, NEW n \in Players, Delay(m, n)
  PROVE  RoutedInv'
<1>1. PICK e \in queue[m][n] : wire' = wire \cup {Packet("COMMAND", m, n, e.cmd, e.relay)}
  BY DEF Delay
<1>2. UNCHANGED <<frame, issued, leaves, received, queue, pending, relayed, quitting, closed, givenUp>>
  BY DEF Delay
<1>3. FramesKept BY <1>2 DEF FramesKept
<1>4. GoesOn BY <1>3, KeptGoesOn
<1>5. FramesInv' BY <1>3, KeptFrames DEF RoutedInv
<1>6. TruePackets'
  <2> DEFINE x == Packet("COMMAND", m, n, e.cmd, e.relay)
  <2>1. x.type = "COMMAND" /\ x.from = m /\ x.to = n /\ x.cmd = e.cmd /\ x.relay = e.relay
    BY PacketFacts
  <2> HIDE DEF x
  <2>2. Route(m, n, e.cmd, e.relay)' BY <1>4, EntryFacts, StaysRouted DEF RoutedInv, Routed
  <2>3. TruePacket(x)' BY <2>1, <2>2 DEF TruePacket
  <2>4. PICK new : new = {x} OBVIOUS
  <2>5. wire' \subseteq wire \cup new BY <1>1, <2>4 DEF x
  <2>6. \A y \in new : TruePacket(y)' BY <2>3, <2>4
  <2> QED BY <1>4, <2>5, <2>6, StayTrue DEF RoutedInv
<1>7. Emptied' BY <1>2 DEF RoutedInv, Emptied, Open
<1>8. Routed' BY <1>2 DEF RoutedInv, Routed, Route, Issued
<1>9. WaitedFor' BY <1>2 DEF RoutedInv, WaitedFor, Has, InGame
<1>10. StillPending' BY <1>2 DEF RoutedInv, StillPending, Complete, Has, InGame, Issued
<1>11. TakenOver' /\ HandedOn' BY <1>2 DEF RoutedInv, TakenOver, HandedOn, Has, Issued
<1> QED BY <1>5, <1>6, <1>7, <1>8, <1>9, <1>10, <1>11 DEF RoutedInv

(* A quitting connection is deleted when it has nothing to send, or gives up what *)
(* it has.                                                                        *)
LEMMA RoutedClose ==
  ASSUME TypeInv, TypeInv', RouterPresent, RoutedInv, NEW m \in Players, NEW n \in Players,
         Close(m, n) \/ QuitTimeOut(m, n)
  PROVE  RoutedInv'
<1>1. /\ queue' = [queue EXCEPT ![m][n] = {}] /\ n \in quitting[m]
      /\ UNCHANGED <<frame, issued, leaves, received, pending, relayed, wire>>
  BY DEF Close, MayClose, QuitTimeOut
<1>2. \A k, l \in Players : queue'[k][l] = IF k = m /\ l = n THEN {} ELSE queue[k][l]
  <2>1. PICK es : es = {} OBVIOUS
  <2>2. es \subseteq queue[m][n] /\ queue' = [queue EXCEPT ![m][n] = es] BY <1>1, <2>1
  <2>3. IsCut(m, n, es) BY <2>2, QueueCut
  <2> QED BY <2>1, <2>3 DEF IsCut
<1>3. /\ \A k \in Players : quitting'[k] \cup closed'[k] = quitting[k] \cup closed[k]
      /\ \A k \in Players : \A l \in closed'[k] : l \in closed[k] \/ (k = m /\ l = n)
  <2>1. CASE Close(m, n)
    <3>1. quitting' = [quitting EXCEPT ![m] = @ \ {n}] /\ closed' = [closed EXCEPT ![m] = @ \cup {n}]
      BY <2>1 DEF Close
    <3>2. quitting \in [Players -> SUBSET Players] /\ closed \in [Players -> SUBSET Players]
      BY DEF TypeInv, TypeOK
    <3>3. \A k \in Players : quitting'[k] = IF k = m THEN quitting[k] \ {n} ELSE quitting[k]
      BY <3>1, <3>2
    <3>4. \A k \in Players : closed'[k] = IF k = m THEN closed[k] \cup {n} ELSE closed[k]
      BY <3>1, <3>2
    <3> QED BY <1>1, <3>3, <3>4
  <2>2. CASE QuitTimeOut(m, n) BY <2>2 DEF QuitTimeOut
  <2> QED BY <2>1, <2>2
<1>4. /\ givenUp \subseteq givenUp'
      /\ givenUp' \subseteq givenUp \cup {<<m, n>>}
      /\ <<m, n>> \in givenUp' \/ queue[m][n] = {}
  BY DEF Close, MayClose, QuitTimeOut
<1>5. FramesKept BY <1>1, <1>3 DEF FramesKept
<1>6. GoesOn BY <1>5, KeptGoesOn
<1>7. FramesInv' BY <1>5, KeptFrames DEF RoutedInv
<1>8. Emptied'
  <2>1. \A k \in Players : \A l \in closed'[k] : queue'[k][l] = {}
    <3>1. \A k \in Players : \A l \in closed[k] : l \in Players /\ queue[k][l] = {}
      BY DEF RoutedInv, Emptied, TypeInv, TypeOK
    <3> QED BY <1>2, <1>3, <3>1
  <2>2. ASSUME NEW p \in Players, <<0, p>> \in givenUp' PROVE p \notin Open(0)'
    <3>1. Open(0)' = Open(0) BY <1>3, Numbers DEF Open
    <3>2. CASE <<0, p>> \in givenUp BY <3>1, <3>2 DEF RoutedInv, Emptied
    <3>3. CASE <<0, p>> = <<m, n>> BY <1>1, <3>1, <3>3 DEF Open
    <3> QED BY <1>4, <2>2, <3>2, <3>3
  <2> QED BY <2>1, <2>2 DEF Emptied
<1>9. \A k, l \in Players : queue'[k][l] \subseteq queue[k][l] BY <1>2
<1>10. Routed' BY <1>6, <1>9, EntryFacts, StaysRouted DEF RoutedInv, Routed
<1>11. TruePackets' BY <1>1, <1>6, StaysTrue DEF RoutedInv, TruePackets, TypeInv
<1>12. WaitedFor' BY <1>1 DEF RoutedInv, WaitedFor, Has, InGame
<1>13. StillPending' BY <1>1 DEF RoutedInv, StillPending, Complete, Has, InGame, Issued
<1>14. \A k, l \in Players : \A c \in Commands(queue[k][l]) :
         c \in Commands(queue'[k][l]) \/ <<k, l>> \in givenUp'
  <2> SUFFICES ASSUME NEW k \in Players, NEW l \in Players, NEW e \in queue[k][l]
               PROVE  e.cmd \in Commands(queue'[k][l]) \/ <<k, l>> \in givenUp'
    BY DEF Commands
  <2>1. CASE k = m /\ l = n BY <1>4, <2>1
  <2>2. CASE ~(k = m /\ l = n) BY <1>2, <2>2 DEF Commands
  <2> QED BY <2>1, <2>2
<1>15. TakenOver'
  <2>1. \A k \in Players : \A c \in Commands(queue[k][0]) :
          c \in Commands(queue'[k][0]) \/ <<k, 0>> \in givenUp'
    BY <1>14, Numbers
  <2>2. TakenOver BY DEF RoutedInv
  <2> QED BY <1>4, <1>5, <2>1, <2>2, KeptTakenOver
<1>16. HandedOn'
  <2>1. ASSUME NEW c \in received'[0], NEW p \in Others(0) \ {Owner(c)}
        PROVE  /\ c \in received[0]
               /\ c \in Commands(queue[0][p]) => c \in Commands(queue'[0][p]) \/ <<0, p>> \in givenUp'
    <3>1. p \in Players BY DEF Others
    <3> QED BY <1>1, <1>14, <3>1, Numbers
  <2>2. HandedOn BY DEF RoutedInv
  <2> QED BY <1>4, <1>5, <2>1, <2>2, KeptHandedOn
<1> QED BY <1>7, <1>8, <1>10, <1>11, <1>12, <1>13, <1>15, <1>16 DEF RoutedInv

--------------------------------------------------------------------------------
LEMMA SendGoesOn ==
  ASSUME TypeInv, NEW m \in Players, IssueFrame(m) \/ LeaveGame(m)
  PROVE  GoesOn
<1>1. /\ leaves[m] = MaxFrame /\ issued[m] < MaxFrame
      /\ issued' = [issued EXCEPT ![m] = @ + 1]
      /\ received' = [received EXCEPT ![m] = @ \cup {<<m, issued[m]>>}]
      /\ frame' = frame
  BY DEF IssueFrame, LeaveGame, SendCommand
<1>2. leaves' = leaves \/ leaves' = [leaves EXCEPT ![m] = issued[m]]
  BY DEF IssueFrame, LeaveGame
<1> SUFFICES ASSUME NEW p \in Players
             PROVE  /\ frame[p] <= frame'[p] /\ issued[p] <= issued'[p]
                    /\ leaves'[p] <= leaves[p] /\ received[p] \subseteq received'[p]
  BY DEF GoesOn
<1>3. frame[p] \in Nat /\ issued[p] \in Nat /\ leaves[p] \in Nat /\ issued[m] \in Nat /\ MaxFrame \in Nat
  BY ClockTypes, Numbers
<1>4. issued'[p] = IF p = m THEN issued[p] + 1 ELSE issued[p] BY <1>1 DEF TypeInv, TypeOK
<1>5. received[p] \subseteq received'[p] BY <1>1 DEF TypeInv, TypeOK
<1>6. leaves'[p] = leaves[p] \/ (p = m /\ leaves'[p] = issued[m])
  BY <1>2 DEF TypeInv, TypeOK
<1>7. leaves'[p] <= leaves[p] BY <1>1, <1>3, <1>6
<1>8. frame[p] <= frame'[p] /\ issued[p] <= issued'[p] BY <1>1, <1>3, <1>4
<1> QED BY <1>5, <1>7, <1>8

LEMMA ExecuteGoesOn ==
  ASSUME TypeInv, NEW m \in Players, ExecuteFrame(m)
  PROVE  GoesOn
<1>1. frame' = [frame EXCEPT ![m] = @ + 1] /\ UNCHANGED <<issued, leaves, received>>
  BY DEF ExecuteFrame
<1> SUFFICES ASSUME NEW p \in Players
             PROVE  /\ frame[p] <= frame'[p] /\ issued[p] <= issued'[p]
                    /\ leaves'[p] <= leaves[p] /\ received[p] \subseteq received'[p]
  BY DEF GoesOn
<1>2. frame[p] \in Nat /\ issued[p] \in Nat /\ leaves[p] \in Nat BY ClockTypes
<1>3. frame'[p] = IF p = m THEN frame[p] + 1 ELSE frame[p] BY <1>1 DEF TypeInv, TypeOK
<1> QED BY <1>1, <1>2, <1>3

(* Where nothing is issued or executed the router is present as it was. *)
LEMMA SamePresence ==
  ASSUME UNCHANGED <<frame, leaves>>, RouterPresent'
  PROVE  RouterPresent
BY DEF RouterPresent, InGame

LEMMA RoutedNext == IInv /\ [Next]_vars => IInv'
<1> SUFFICES ASSUME IInv, [Next]_vars, RouterPresent' PROVE RoutedInv'
  BY TypeNext DEF IInv
<1>1. TypeInv /\ TypeInv' BY TypeNext DEF IInv
<1>2. RouterPresent => RoutedInv BY DEF IInv
<1>3. ASSUME NEW m \in Players, IssueFrame(m) \/ LeaveGame(m) PROVE RoutedInv'
  <2>1. GoesOn BY <1>1, <1>3, SendGoesOn
  <2>2. RouterPresent BY <1>1, <2>1, RouterWasPresent
  <2> QED BY <1>1, <1>2, <1>3, <2>1, <2>2, RoutedSend
<1>4. ASSUME NEW m \in Players, ExecuteFrame(m) PROVE RoutedInv'
  <2>1. GoesOn BY <1>1, <1>4, ExecuteGoesOn
  <2>2. RouterPresent BY <1>1, <2>1, RouterWasPresent
  <2> QED BY <1>1, <1>2, <1>4, <2>1, <2>2, RoutedExecute
<1>5. ASSUME NEW m \in Players, NEW n \in Players, NEW c \in Command, Deliver(m, n, c) PROVE RoutedInv'
  <2>1. PICK e \in queue[m][n] : e.cmd = c /\ ProcessCommand(n, c, e.relay, wire) BY <1>5 DEF Deliver
  <2>2. RouterPresent
    <3>1. UNCHANGED <<frame, leaves>> BY <2>1 DEF ProcessCommand
    <3> QED BY <3>1, SamePresence
  <2>3. Route(m, n, c, e.relay) BY <1>2, <2>1, <2>2 DEF RoutedInv, Routed
  <2>4. wire \subseteq wire OBVIOUS
  <2> QED BY <1>1, <1>2, <2>1, <2>2, <2>3, <2>4, RoutedDeliver
<1>6. ASSUME NEW m \in Players, NEW n \in Players, Delay(m, n) PROVE RoutedInv'
  <2>1. UNCHANGED <<frame, leaves>> BY <1>6 DEF Delay
  <2> QED BY <1>1, <1>2, <1>6, <2>1, SamePresence, RoutedDelay
<1>7. ASSUME NEW m \in Players, NEW n \in Players, Close(m, n) \/ QuitTimeOut(m, n) PROVE RoutedInv'
  <2>1. UNCHANGED <<frame, leaves>> BY <1>7 DEF Close, QuitTimeOut
  <2> QED BY <1>1, <1>2, <1>7, <2>1, SamePresence, RoutedClose
<1>8. ASSUME NEW x \in wire, ReceiveCommand(x) \/ ReceiveAck(x) PROVE RoutedInv'
  <2>1. UNCHANGED <<frame, leaves>> BY <1>8 DEF ReceiveCommand, ReceiveAck, ProcessCommand
  <2> QED BY <1>1, <1>2, <1>8, <2>1, SamePresence, RoutedReceive
<1>9. CASE UNCHANGED vars
  <2>1. UNCHANGED <<frame, issued, leaves, received, queue, pending, relayed, quitting, closed, wire, givenUp>>
    BY <1>9 DEF vars
  <2>2. RoutedInv BY <1>2, <2>1, SamePresence
  <2>3. FramesInv' BY <2>1, <2>2 DEF RoutedInv, FramesInv, Clocks, OwnCommands, Executed, Seen, Issued
  <2>4. Emptied' BY <2>1, <2>2 DEF RoutedInv, Emptied, Open
  <2>5. Routed' BY <2>1, <2>2 DEF RoutedInv, Routed, Route, Issued
  <2>6. TruePackets'
    BY <2>1, <2>2 DEF RoutedInv, TruePackets, TruePacket, Route, Issued, Acknowledges, Has, Complete, InGame
  <2>7. WaitedFor' BY <2>1, <2>2 DEF RoutedInv, WaitedFor, Has, InGame
  <2>8. StillPending' BY <2>1, <2>2 DEF RoutedInv, StillPending, Complete, Has, InGame, Issued
  <2>9. TakenOver' /\ HandedOn' BY <2>1, <2>2 DEF RoutedInv, TakenOver, HandedOn, Has, Issued
  <2> QED BY <2>3, <2>4, <2>5, <2>6, <2>7, <2>8, <2>9 DEF RoutedInv
<1> QED BY <1>3, <1>4, <1>5, <1>6, <1>7, <1>8, <1>9 DEF Next

(* While nobody has seen player 0 leave, every command goes one way, everybody    *)
(* says truthfully what they have, and whoever lacks a command is waited for.     *)
THEOREM Invariance == Spec => []IInv
<1>1. Init => IInv BY TypeInit, RoutedInit DEF IInv
<1> QED BY <1>1, RoutedNext, PTL DEF Spec

--------------------------------------------------------------------------------
(* What the invariant says of a command that somebody needs and has not got. *)
LEMMA MissingFacts ==
  ASSUME TypeInv, NEW p \in Players, NEW c \in Missing(p)
  PROVE  /\ c \in Command /\ Issued(c) /\ ~Has(p, c)
         /\ Owner(c) \in Players /\ p \in Others(Owner(c)) /\ FrameOf(c) <= leaves[p]
<1>1. c \in Command /\ Issued(c) /\ FrameOf(c) <= leaves[p] /\ c \notin received[p] /\ Owner(c) # p
  BY DEF Missing, Issued
<1>2. Owner(c) \in Players /\ FrameOf(c) \in Nat BY <1>1, CommandFacts
<1>3. ~(FrameOf(c) > leaves[p]) BY <1>1, <1>2, ClockTypes
<1> QED BY <1>1, <1>2, <1>3 DEF Has, Others

LEMMA RouterSends ==
  ASSUME TypeInv, RoutedInv, NEW p \in Players, NEW c \in Missing(p), c \in received[0]
  PROVE  /\ p \in Others(0)
         /\ c \in Commands(queue[0][p]) \/ (<<0, p>> \in givenUp /\ p \notin Open(0))
<1>1. ~Has(p, c) /\ p \in Others(Owner(c)) BY MissingFacts
<1>2. p \in Others(0) \ {Owner(c)} BY <1>1 DEF Has, Others
<1>3. c \in Commands(queue[0][p]) \/ <<0, p>> \in givenUp BY <1>1, <1>2 DEF RoutedInv, HandedOn
<1>4. <<0, p>> \in givenUp => p \notin Open(0) BY DEF RoutedInv, Emptied
<1> QED BY <1>2, <1>3, <1>4

LEMMA OwnAtRouter ==
  ASSUME TypeInv, RoutedInv, NEW c \in Command, Issued(c), Owner(c) = 0
  PROVE  c \in received[0]
BY DEF RoutedInv, FramesInv, OwnCommands

LEMMA PendingWhilePresent == IInv => (RouterPresent => PendingUntilArrived)
<1> SUFFICES ASSUME TypeInv, RouterPresent, RoutedInv, NEW p \in Players, NEW c \in Missing(p)
             PROVE  \/ c \in pending[Owner(c)] \/ c \in Commands(queue[Owner(c)][p])
                    \/ \E m \in Players : p \notin InGame(m)
  BY DEF IInv, PendingUntilArrived
<1>1. c \in Command /\ Issued(c) /\ ~Has(p, c) /\ p \in Others(Owner(c)) BY MissingFacts
<1>2. CASE Owner(c) # 0
  <2>1. c \in pending[Owner(c)] \/ Complete(c) BY <1>1, <1>2 DEF RoutedInv, StillPending
  <2> QED BY <1>1, <2>1, Numbers DEF Complete
<1>3. CASE Owner(c) = 0
  <2>1. c \in received[0] BY <1>1, <1>3, OwnAtRouter
  <2>2. p \in Others(0) /\ (c \in Commands(queue[0][p]) \/ p \notin Open(0)) BY <2>1, RouterSends
  <2>3. Seen BY DEF RoutedInv, FramesInv
  <2> QED BY <1>3, <2>2, <2>3, NotOpen, Numbers
<1> QED BY <1>2, <1>3

LEMMA NoneLostWhilePresent == IInv => (RouterPresent => NoCommandLost)
<1> SUFFICES ASSUME TypeInv, RouterPresent, RoutedInv, NEW p \in Players, NEW c \in Missing(p)
             PROVE  OnItsWay(c, p) \/ \E m \in Players : {<<Owner(c), m>>, <<m, p>>} \cap givenUp # {}
  BY DEF IInv, NoCommandLost
<1>1. /\ c \in Command /\ Issued(c) /\ ~Has(p, c) /\ p \in Others(Owner(c)) /\ Owner(c) \in Players
      /\ FrameOf(c) <= leaves[p]
  BY MissingFacts
<1>2. CASE c \in received[0]
  <2>1. c \in Commands(queue[0][p]) \/ <<0, p>> \in givenUp BY <1>2, RouterSends
  <2> QED BY <2>1, Numbers DEF OnItsWay
<1>3. CASE c \notin received[0]
  <2>1. c \in Commands(queue[Owner(c)][0]) \/ <<Owner(c), 0>> \in givenUp
    BY <1>1, <1>3 DEF RoutedInv, TakenOver
  <2>2. CASE <<Owner(c), 0>> \in givenUp BY <2>2, Numbers
  <2>3. CASE c \in Commands(queue[Owner(c)][0])
    <3>1. PICK e \in queue[Owner(c)][0] : e.cmd = c BY <2>3 DEF Commands
    <3>2. e.relay = Others(Owner(c))
      BY <1>1, <3>1, Numbers DEF RoutedInv, Routed, Route
    <3>3. CASE p = 0 BY <1>1, <2>3, <3>3 DEF OnItsWay
    <3>4. CASE p # 0
      <4>1. FramesInv /\ Seen BY DEF RoutedInv, FramesInv
      <4>2. ~OutOfDate(0, c) BY <1>1, <1>3, <4>1, OutOfDateAtRouter
      <4>3. p \in Open(0)
        <5> SUFFICES ASSUME p \notin Open(0) PROVE FALSE OBVIOUS
        <5>1. p \in Others(0) BY <3>4 DEF Others
        <5>2. leaves[p] < frame[0] BY <4>1, <5>1, NotOpen
        <5>3. FrameOf(c) < frame[0] BY <1>1, <5>2, ClockTypes, CommandFacts, Numbers
        <5> QED BY <4>2, <5>3 DEF OutOfDate
      <4>4. p \in e.relay \cap Open(0) BY <1>1, <3>2, <4>3
      <4> QED BY <3>1, <4>2, <4>4, Numbers DEF OnItsWay
    <3> QED BY <3>3, <3>4
  <2> QED BY <2>1, <2>2, <2>3
<1> QED BY <1>2, <1>3

LEMMA UnnecessaryWhilePresent == IInv => (RouterPresent => OutOfDateIsUnnecessary)
<1> SUFFICES ASSUME TypeInv, RouterPresent, RoutedInv, NEW m \in Players, NEW n \in Players,
                    NEW e \in queue[m][n], OutOfDate(n, e.cmd),
                    NEW p \in e.relay \cap Open(n), e.cmd \in Missing(p)
             PROVE  OnItsWay(e.cmd, p)
  BY DEF IInv, OutOfDateIsUnnecessary
<1>0. PICK c : c = e.cmd OBVIOUS
<1>1. p \in Players /\ p # n BY DEF Open, Others
<1>2. c \in Command /\ Issued(c) BY <1>0, <1>1, MissingFacts
<1>3. Route(m, n, c, e.relay) BY <1>0 DEF RoutedInv, Routed
<1>4. m # 0 /\ n = 0 BY <1>1, <1>3 DEF Route
<1>5. c \in received[0]
  <2>1. FramesInv BY DEF RoutedInv
  <2> QED BY <1>0, <1>2, <1>4, <2>1, OutOfDateAtRouter
<1>6. c \in Commands(queue[0][p]) BY <1>0, <1>1, <1>4, <1>5, RouterSends
<1> QED BY <1>0, <1>6, Numbers DEF OnItsWay

LEMMA FlushedWhilePresent == IInv => (RouterPresent /\ ~GaveUp(0) => LeaverFlushed)
<1> SUFFICES ASSUME TypeInv, RouterPresent, RoutedInv, ~GaveUp(0), NEW m \in Players, NEW n \in Players,
                    closed[m] = Others(m), ~GaveUp(m), NEW c \in Missing(n), Owner(c) = m
             PROVE  \E r \in Others(m) : c \in Commands(queue[r][n])
  BY DEF IInv, LeaverFlushed
<1>1. c \in Command /\ Issued(c) BY MissingFacts
<1>2. \A l \in Others(m) : Commands(queue[m][l]) = {}
  <2>1. \A l \in Others(m) : queue[m][l] = {} BY DEF RoutedInv, Emptied
  <2> QED BY <2>1 DEF Commands
<1>3. c \in received[0]
  <2>1. CASE m = 0 BY <1>1, <2>1, OwnAtRouter
  <2>2. CASE m # 0
    <3>1. c \in received[0] \/ c \in Commands(queue[m][0]) \/ <<m, 0>> \in givenUp
      BY <1>1 DEF RoutedInv, TakenOver
    <3>2. 0 \in Others(m) BY <2>2, Numbers DEF Others
    <3>3. <<m, 0>> \notin givenUp BY Numbers DEF GaveUp
    <3> QED BY <1>2, <3>1, <3>2, <3>3
  <2> QED BY <2>1, <2>2
<1>4. n \in Others(0) /\ <<0, n>> \notin givenUp BY <1>3, RouterSends DEF GaveUp
<1>5. c \in Commands(queue[0][n]) BY <1>3, <1>4, RouterSends
<1>6. m # 0 BY <1>2, <1>4, <1>5
<1> QED BY <1>5, <1>6, Numbers DEF Others

(* While the first player of the plan has not been seen to leave, a command that  *)
(* its player does not keep as pending has reached everybody who needs it and has *)
(* not left: what ConnectionManager::processAckStage2 takes off the pending       *)
(* commands is never needed again, whatever is lost, late or repeated.            *)
THEOREM PendingUntilArrivedHolds == Spec => [](RouterPresent => PendingUntilArrived)
BY Invariance, PendingWhilePresent, PTL

(* While the first player has not been seen to leave, each command that somebody  *)
(* needs is being sent to them, or to the packet router which will send it on;    *)
(* only a connection that is given up loses commands.                             *)
THEOREM NoCommandLostHolds == Spec => [](RouterPresent => NoCommandLost)
BY Invariance, NoneLostWhilePresent, PTL

(* While the first player has not been seen to leave, whoever the router would    *)
(* have relayed a command to that ConnectionManager::processNetCommand drops as   *)
(* out of date has it or is being sent it.                                        *)
THEOREM OutOfDateWhileRouterStaysHolds == Spec => []OutOfDateWhileRouterStays
<1>1. IInv => OutOfDateWhileRouterStays BY UnnecessaryWhilePresent DEF OutOfDateWhileRouterStays
<1> QED BY <1>1, Invariance, PTL

(* While the first player has not been seen to leave and has not given up a       *)
(* connection, what a player who left and closed its connections in time has sent *)
(* is at the router, which sends it to whoever still needs it.                    *)
THEOREM LeaverFlushedHolds == Spec => [](RouterPresent /\ ~GaveUp(0) => LeaverFlushed)
BY Invariance, FlushedWhilePresent, PTL

--------------------------------------------------------------------------------
(* Where the first player never leaves its leaving is never seen. *)
LEMMA RouterStays ==
  ASSUME 0 \notin Leavers
  PROVE  Spec => []RouterPresent
<1> DEFINE Stays == leaves[0] = MaxFrame
<1>1. Init => Stays BY Numbers DEF Init
<1>2. Stays /\ [Next]_vars => Stays'
  <2> SUFFICES ASSUME Stays, [Next]_vars PROVE leaves'[0] = leaves[0] OBVIOUS
  <2>1. ASSUME NEW m \in Players, LeaveGame(m) PROVE leaves'[0] = leaves[0]
    BY <2>1 DEF LeaveGame
  <2> QED BY <2>1 DEF Next, IssueFrame, ExecuteFrame, Deliver, Delay, Close, QuitTimeOut,
                     ReceiveCommand, ReceiveAck, ProcessCommand, vars
<1>3. TypeInv /\ Stays => RouterPresent
  <2> SUFFICES ASSUME TypeInv, Stays, NEW m \in Players PROVE leaves[0] >= frame[m]
    BY Numbers DEF RouterPresent, InGame
  <2> QED BY ClockTypes, Numbers
<1> QED BY <1>1, <1>2, <1>3, TypeInvariance, PTL DEF Spec

(* Where the first player never leaves, and the others leave as they may,         *)
(* no command is lost or forgotten in the whole game.                             *)
THEOREM NothingLostWithRouter ==
  ASSUME 0 \notin Leavers
  PROVE  Spec => [](PendingUntilArrived /\ NoCommandLost /\ OutOfDateIsUnnecessary)
<1>1. RouterPresent /\ OutOfDateWhileRouterStays => OutOfDateIsUnnecessary
  BY DEF OutOfDateWhileRouterStays
<1> QED BY <1>1, RouterStays, PendingUntilArrivedHolds, NoCommandLostHolds,
           OutOfDateWhileRouterStaysHolds, PTL
================================================================================
