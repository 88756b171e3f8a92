-------------------------- MODULE FrameDataRingProofs --------------------------
(***************************************************************************)
(* Proofs about FrameDataRing, for every set of players, every length of   *)
(* the ring and every bound of the model.                                  *)
(*                                                                         *)
(* The argument: the ring stands for a window of as many frames as it has  *)
(* slots, from the oldest frame that is kept on, so no two frames of the   *)
(* window share a slot.  Every step works on one frame of the window, or   *)
(* moves the window on by one frame: the slot of the frame that falls out  *)
(* of it is emptied for the frame that comes in.  So a slot holds commands *)
(* of its frame only, and what was executed stays what is kept, until the  *)
(* frame data of the player who left, which is needed no longer, goes.     *)
(***************************************************************************)
EXTENDS FrameDataRing, FiniteSetTheorems, TLAPS

SlotType == [list : SUBSET Command, frameCommandCount : Int]

Shape ==
    /\ logicFrame \in 1 .. MaxFrame
    /\ managers \subseteq Players
    /\ ring \in [Players -> [0 .. FrameDataLength - 1 -> SlotType]]
    /\ quitFrame \in [Players -> {Unset} \cup Nat]

\* The commands of player p for frame f.
CommandsFor(p, f) == {c \in Command : c.player = p /\ c.frame = f}

\* A slot holds what its frame may have; the local count always is the number of commands.
GoodSlot(s, p, f) ==
    /\ s.list \subseteq CommandsFor(p, f)
    /\ IF p = Local THEN s.frameCommandCount = CommandCount(s)
                    ELSE s.frameCommandCount \in {Unset} \cup 0 .. 2

Own == \A p \in Players : \A f \in Within : GoodSlot(Slot(p, f), p, f)

\* Nothing is in the slots of the window that no frame has used yet.
BeforeTheGame == \A p \in Players : \A f \in Within : f <= 0 => Slot(p, f) = EmptySlot(p)

\* Frame data is deleted only of a player who has quit, and is empty then.
Gone ==
    \A p \in Players \ managers :
        IsQuitting(p) /\ \A i \in 0 .. FrameDataLength - 1 : ring[p][i] = EmptySlot(p)

\* A player quits by executing its leave command.
Quit ==
    \A p \in Players : IsQuitting(p) =>
        p = Leaver /\ quitFrame[p] = QuitFrame(LeaveFrame) /\ LeaveFrame < logicFrame

\* The frames that were executed and are kept.
Kept == {f \in Oldest .. logicFrame - 1 : f >= 1}

\* What is kept of a frame is what was executed.
KeptFaithful(f) ==
    /\ FrameCommandList(f) = executed[f]
    /\ \A p \in managers : CountedIn(p, f) => FrameReady(Slot(p, f))

Executed ==
    /\ DOMAIN executed = Kept
    /\ \A f \in Kept : KeptFaithful(f)

IInv == Shape /\ Own /\ BeforeTheGame /\ Gone /\ Quit /\ Executed

--------------------------------------------------------------------------------
\* The lengths: the kept frames and the run-ahead fit the ring.
LEMMA RingLengths ==
    /\ MaxRunAhead \in Nat \ {0} /\ FramesToKeep = MaxRunAhead + 1
    /\ FrameDataLength \in Nat /\ FrameDataLength >= 4 * MaxRunAhead + 2
    /\ InitialRunAhead \in 1 .. MaxRunAhead
    /\ Local \in Players /\ Leaver \in Players \ {Local} /\ LeaveFrame \in Nat
BY RingAssumption DEF MaxRunAhead, FramesToKeep, FrameDataLength

\* Two numbers less than n apart have different remainders.
LEMMA RemaindersDiffer ==
    ASSUME NEW n \in Nat \ {0}, NEW a \in Int, NEW b \in Int, a < b, b < a + n
    PROVE  a % n # b % n
<1>1. a = (a \div n) * n + (a % n) /\ b = (b \div n) * n + (b % n)
  OBVIOUS
<1>2. (a \div n) \in Int /\ (b \div n) \in Int /\ a % n \in Int
  OBVIOUS
<1> SUFFICES ASSUME a % n = b % n PROVE FALSE
  OBVIOUS
<1> DEFINE k == (b \div n) - (a \div n)
<1>3. k \in Int /\ b - a = k * n
  <2>1. k * n = (b \div n) * n - (a \div n) * n
    BY <1>2
  <2>2. QED
    BY <1>1, <1>2, <2>1
<1>4. k >= 1 \/ k <= 0
  BY <1>3
<1> HIDE DEF k
<1>5. k >= 1 => k * n >= n
  BY <1>3
<1>6. k <= 0 => k * n <= 0
  BY <1>3
<1>7. QED
  BY <1>3, <1>4, <1>5, <1>6

\* A number below n is its own remainder.
LEMMA SmallRemainder == ASSUME NEW n \in Nat \ {0}, NEW i \in 0 .. n - 1 PROVE i % n = i
<1>1. i = (i \div n) * n + (i % n) /\ (i \div n) \in Int /\ i % n \in 0 .. n - 1
  OBVIOUS
<1> DEFINE k == i \div n
<1>2. k \in Int /\ i = k * n + (i % n)
  BY <1>1
<1> HIDE DEF k
<1>3. (k >= 1 => k * n >= n) /\ (k <= -1 => k * n <= -n)
  BY <1>2
<1>4. QED
  BY <1>1, <1>2, <1>3

\* Of any n numbers in a row one has a given remainder.
LEMMA RemainderOccurs ==
    ASSUME NEW n \in Nat \ {0}, NEW o \in Int, NEW i \in 0 .. n - 1
    PROVE  \E f \in o .. o + n - 1 : f % n = i
<1> DEFINE q == (i - o) \div n
           f == i - q * n
<1>1. q \in Int /\ i - o = q * n + ((i - o) % n) /\ (i - o) % n \in 0 .. n - 1
  <2>1. i - o \in Int
    OBVIOUS
  <2>2. \A a \in Int : a = (a \div n) * n + (a % n) /\ a \div n \in Int /\ a % n \in 0 .. n - 1
    OBVIOUS
  <2>3. QED
    BY <2>1, <2>2
<1>2. q * n \in Int
  BY <1>1
<1>3. f \in o .. o + n - 1
  BY <1>1, <1>2
<1>4. f % n = i
  <2>1. f \in Int /\ f = (f \div n) * n + (f % n) /\ f % n \in 0 .. n - 1 /\ (f \div n) \in Int
    <3>1. f \in Int
      BY <1>3
    <3>2. \A a \in Int : a = (a \div n) * n + (a % n) /\ a \div n \in Int /\ a % n \in 0 .. n - 1
      OBVIOUS
    <3> HIDE DEF f
    <3>3. QED
      BY <3>1, <3>2
  <2> DEFINE k == (f \div n) + q
  <2>2. k \in Int /\ i = k * n + (f % n)
    <3>1. k * n = (f \div n) * n + q * n
      BY <1>1, <2>1
    <3>2. QED
      BY <1>1, <1>2, <2>1, <3>1
  <2> HIDE DEF k, f
  <2>3. k = 0
    <3>1. k >= 1 => k * n >= n
      BY <2>2
    <3>2. k <= -1 => k * n <= -n
      BY <2>2
    <3>3. QED
      BY <2>1, <2>2, <3>1, <3>2
  <2>4. QED
    BY <2>1, <2>2, <2>3
<1>5. QED
  BY <1>3, <1>4

\* Every frame of the window has a slot of its own, and every slot a frame.
LEMMA WindowFacts ==
    ASSUME Shape
    PROVE  /\ logicFrame \in Nat \ {0} /\ Oldest \in Int /\ Within \subseteq Int
           /\ \A f \in Within : Index(f) \in 0 .. FrameDataLength - 1
           /\ \A f, g \in Within : f # g => Index(f) # Index(g)
           /\ \A i \in 0 .. FrameDataLength - 1 : \E f \in Within : Index(f) = i
           /\ Kept \subseteq Within /\ logicFrame \in Within
           /\ Index(Oldest + FrameDataLength) = Index(Oldest)
<1>1. logicFrame \in Nat \ {0} /\ FrameDataLength \in Nat \ {0}
  BY RingLengths, RingAssumption DEF Shape
<1>2. Oldest \in Int /\ Within \subseteq Int
  BY <1>1, RingLengths DEF Oldest, Within
<1>3. \A f \in Within : Index(f) \in 0 .. FrameDataLength - 1
  BY <1>1, <1>2 DEF Index
<1>4. \A f, g \in Within : f < g => Index(f) # Index(g)
  <2> SUFFICES ASSUME NEW f \in Within, NEW g \in Within, f < g PROVE Index(f) # Index(g)
    OBVIOUS
  <2>1. f \in Int /\ g \in Int /\ g < f + FrameDataLength
    BY <1>1, <1>2 DEF Within
  <2>2. QED
    BY <1>1, <2>1, RemaindersDiffer DEF Index
<1>5. \A f, g \in Within : f # g => Index(f) # Index(g)
  <2> TAKE f, g \in Within
  <2>1. f \in Int /\ g \in Int
    BY <1>2
  <2>2. QED
    BY <1>4, <2>1
<1>6. \A i \in 0 .. FrameDataLength - 1 : \E f \in Within : Index(f) = i
  BY <1>1, <1>2, RemainderOccurs DEF Index, Within
<1>7. Kept \subseteq Within /\ logicFrame \in Within
  BY <1>1, <1>2, RingLengths DEF Kept, Within, Oldest
<1>8. Index(Oldest + FrameDataLength) = Index(Oldest)
  <2>1. \A n \in Nat \ {0}, o \in Int : (o + n) % n = o % n
    <3> TAKE n \in Nat \ {0}, o \in Int
    <3>1. PICK f \in o + 1 .. o + 1 + n - 1 : f % n = o % n
      <4>1. o % n \in 0 .. n - 1 /\ o + 1 \in Int
        OBVIOUS
      <4>2. QED
        BY <4>1, RemainderOccurs
    <3>2. f \in Int /\ o < f /\ f <= o + n
      OBVIOUS
    <3>5. f < o + n => o % n # f % n
      BY <3>2, RemaindersDiffer
    <3>3. f = o + n
      BY <3>1, <3>2, <3>5
    <3>4. QED
      BY <3>1, <3>3
  <2>2. QED
    BY <1>1, <1>2, <2>1 DEF Index
<1>9. QED
  BY <1>1, <1>2, <1>3, <1>5, <1>6, <1>7, <1>8

\* There are no more than two commands of a player in a frame, of others than the one who
\* leaves no more than one.
LEMMA FewCommands ==
    ASSUME NEW p \in Players, NEW f, NEW S \in SUBSET CommandsFor(p, f)
    PROVE  /\ IsFiniteSet(S) /\ Cardinality(S) \in 0 .. 2
           /\ p # Leaver => Cardinality(S) \in 0 .. 1
<1> DEFINE a == [player |-> p, frame |-> f, type |-> "GAMECOMMAND"]
           b == [player |-> p, frame |-> f, type |-> "PLAYERLEAVE"]
<1>1. \A c \in S : (c = a \/ c = b) /\ (p # Leaver => c = a)
  BY DEF CommandsFor, Command
<1> HIDE DEF a, b
<1>2. IsFiniteSet({a}) /\ Cardinality({a}) = 1
  BY FS_Singleton
<1>3. IsFiniteSet({a, b}) /\ Cardinality({a, b}) <= 2
  <2>1. {a, b} = {a} \cup {b}
    OBVIOUS
  <2>2. IsFiniteSet({a} \cup {b})
        /\ Cardinality({a} \cup {b}) = IF b \in {a} THEN Cardinality({a}) ELSE Cardinality({a}) + 1
    BY <1>2, FS_AddElement
  <2>3. QED
    BY <1>2, <2>1, <2>2
<1>4. IsFiniteSet(S) /\ Cardinality(S) <= Cardinality({a, b})
  <2>1. S \subseteq {a, b}
    BY <1>1
  <2>2. QED
    BY <1>3, <2>1, FS_Subset
<1>5. p # Leaver => Cardinality(S) <= 1
  <2>1. p # Leaver => S \subseteq {a}
    BY <1>1
  <2>2. QED
    BY <1>2, <2>1, FS_Subset
<1>6. Cardinality(S) \in Nat /\ Cardinality({a, b}) \in Nat
  BY <1>3, <1>4, FS_CardinalityType
<1>7. QED
  BY <1>3, <1>4, <1>5, <1>6

\* An empty slot is a good one.
LEMMA EmptySlotGood ==
    ASSUME NEW p \in Players, NEW f
    PROVE  GoodSlot(EmptySlot(p), p, f) /\ EmptySlot(p) \in SlotType
BY FS_EmptySet DEF GoodSlot, EmptySlot, CommandCount, SlotType, Unset

--------------------------------------------------------------------------------
\* The slots of one frame of the window change, and no other frame is touched.
OnlyFrame(f, slots) ==
    /\ ring' = [p \in Players |-> [ring[p] EXCEPT ![Index(f)] = slots[p]]]
    /\ UNCHANGED <<logicFrame, managers, quitFrame, executed>>

LEMMA OneFrameFacts ==
    ASSUME Shape, NEW f \in Within, NEW slots \in [Players -> SlotType], OnlyFrame(f, slots)
    PROVE  /\ Shape' /\ Within' = Within
           /\ \A p \in Players : Slot(p, f)' = slots[p]
           /\ \A p \in Players : \A g \in Within \ {f} : Slot(p, g)' = Slot(p, g)
<1>1. ring' = [p \in Players |-> [ring[p] EXCEPT ![Index(f)] = slots[p]]]
      /\ UNCHANGED <<logicFrame, managers, quitFrame, executed>>
  BY DEF OnlyFrame
<1>2. ring \in [Players -> [0 .. FrameDataLength - 1 -> SlotType]]
  BY DEF Shape
<1>3. Index(f) \in 0 .. FrameDataLength - 1
  BY WindowFacts
<1>4. \A g \in Within \ {f} : Index(g) # Index(f) /\ Index(g) \in 0 .. FrameDataLength - 1
  BY WindowFacts
<1>5. Shape'
  BY <1>1, <1>2, <1>3 DEF Shape
<1>6. \A p \in Players : Slot(p, f)' = slots[p]
  BY <1>1, <1>2, <1>3 DEF Slot, Index
<1>7. \A p \in Players : \A g \in Within \ {f} : Slot(p, g)' = Slot(p, g)
  <2> SUFFICES ASSUME NEW p \in Players, NEW g \in Within \ {f} PROVE ring'[p][Index(g)] = ring[p][Index(g)]
    BY DEF Slot, Index
  <2>1. QED
    BY <1>1, <1>2, <1>4
<1>8. Within' = Within
  BY <1>1 DEF Within, Oldest
<1>9. QED
  BY <1>5, <1>6, <1>7, <1>8

\* What holds of the frame data when a frame that is still to be executed gets good slots.
LEMMA OneFrameStep ==
    ASSUME IInv, NEW f \in Within, f >= logicFrame, NEW slots \in [Players -> SlotType],
           OnlyFrame(f, slots), \A p \in Players : GoodSlot(slots[p], p, f),
           \A p \in Players \ managers : slots[p] = EmptySlot(p)
    PROVE  IInv'
<1>1. /\ UNCHANGED <<logicFrame, managers, quitFrame, executed>>
      /\ ring' = [p \in Players |-> [ring[p] EXCEPT ![Index(f)] = slots[p]]]
  BY DEF OnlyFrame
<1>2. /\ Shape' /\ Within' = Within
      /\ \A p \in Players : Slot(p, f)' = slots[p]
      /\ \A p \in Players : \A g \in Within \ {f} : Slot(p, g)' = Slot(p, g)
  BY OneFrameFacts DEF IInv
<1>3. logicFrame \in Nat \ {0} /\ Within \subseteq Int /\ Kept \subseteq Within
  BY WindowFacts DEF IInv
<1>4. Own'
  BY <1>2 DEF IInv, Own, GoodSlot
<1>5. BeforeTheGame'
  <2>1. \A p \in Players : EmptySlot(p)' = EmptySlot(p)
    BY DEF EmptySlot
  <2>2. \A g \in Within : g <= 0 => g # f
    BY <1>3
  <2>3. QED
    BY <1>2, <2>1, <2>2 DEF IInv, BeforeTheGame
<1>6. Gone'
  <2>1. ring \in [Players -> [0 .. FrameDataLength - 1 -> SlotType]]
    BY DEF IInv, Shape
  <2> SUFFICES ASSUME NEW p \in Players \ managers
               PROVE  IsQuitting(p) /\ \A i \in 0 .. FrameDataLength - 1 : ring'[p][i] = EmptySlot(p)
    BY <1>1 DEF Gone, IsQuitting, EmptySlot
  <2>2. QED
    BY <1>1, <2>1 DEF IInv, Gone
<1>7. Quit'
  BY <1>1 DEF IInv, Quit, IsQuitting
<1>8. Executed'
  <2>1. Kept' = Kept
    BY <1>1 DEF Kept, Oldest
  <2>2. \A g \in Kept : g \in Within \ {f}
    BY <1>3 DEF Kept
  <2>3. ASSUME NEW g \in Kept PROVE KeptFaithful(g)'
    <3>1. \A p \in Players : Slot(p, g)' = Slot(p, g)
      BY <1>2, <2>2
    <3>2. managers \subseteq Players
      BY DEF IInv, Shape
    <3>3. FrameCommandList(g)' = FrameCommandList(g)
      BY <1>1, <3>1, <3>2 DEF FrameCommandList
    <3>4. \A p \in managers : CountedIn(p, g)' = CountedIn(p, g)
                              /\ FrameReady(Slot(p, g))' = FrameReady(Slot(p, g))
      BY <1>1, <3>1, <3>2 DEF CountedIn, IsQuitting, FrameReady, CommandCount
    <3>5. KeptFaithful(g)
      BY DEF IInv, Executed
    <3>6. QED
      BY <1>1, <3>3, <3>4, <3>5 DEF KeptFaithful
  <2>4. QED
    BY <1>1, <2>1, <2>3 DEF IInv, Executed
<1>9. QED
  BY <1>2, <1>4, <1>5, <1>6, <1>7, <1>8 DEF IInv

\* What allCommandsReady leaves of good slots is good.
LEMMA CheckKeepsGood ==
    ASSUME NEW f, NEW slots \in [Players -> SlotType],
           \A p \in Players : GoodSlot(slots[p], p, f),
           \A p \in Players \ managers : slots[p] = EmptySlot(p)
    PROVE  /\ AfterCheck(slots) \in [Players -> SlotType]
           /\ \A p \in Players : GoodSlot(AfterCheck(slots)[p], p, f)
           /\ \A p \in Players \ managers : AfterCheck(slots)[p] = EmptySlot(p)
<1> DEFINE reset == [p \in Players |-> IF p \in managers \ {Local} THEN EmptySlot(p) ELSE slots[p]]
<1>1. reset \in [Players -> SlotType] /\ \A p \in Players : GoodSlot(reset[p], p, f)
  BY EmptySlotGood
<1>2. \A p \in Players \ managers : reset[p] = EmptySlot(p)
  OBVIOUS
<1>3. AfterCheck(slots) = reset \/ AfterCheck(slots) = slots
  BY DEF AfterCheck
<1> HIDE DEF reset
<1>4. CASE AfterCheck(slots) = reset
  BY <1>1, <1>2, <1>4
<1>5. CASE AfterCheck(slots) = slots
  BY <1>5
<1>6. QED
  BY <1>3, <1>4, <1>5

\* The slots of a frame of the window as they are.
LEMMA FrameSlotsGood ==
    ASSUME IInv, NEW f \in Within
    PROVE  /\ FrameSlots(f) \in [Players -> SlotType]
           /\ \A p \in Players : FrameSlots(f)[p] = Slot(p, f) /\ GoodSlot(FrameSlots(f)[p], p, f)
           /\ \A p \in Players \ managers : FrameSlots(f)[p] = EmptySlot(p)
<1>1. Index(f) \in 0 .. FrameDataLength - 1
  BY WindowFacts DEF IInv
<1>2. \A p \in Players : Slot(p, f) \in SlotType
  BY <1>1 DEF IInv, Shape, Slot
<1>3. \A p \in Players \ managers : Slot(p, f) = EmptySlot(p)
  BY <1>1 DEF IInv, Gone, Slot
<1>4. QED
  BY <1>2, <1>3 DEF FrameSlots, IInv, Own

--------------------------------------------------------------------------------
\* A step that gives one frame that is still to be executed good slots.
FrameStep(f) ==
    /\ f \in Within /\ f >= logicFrame
    /\ \E slots \in [Players -> SlotType] :
         /\ OnlyFrame(f, slots)
         /\ \A p \in Players : GoodSlot(slots[p], p, f)
         /\ \A p \in Players \ managers : slots[p] = EmptySlot(p)

LEMMA FrameStepInv == ASSUME IInv, NEW f, FrameStep(f) PROVE IInv'
BY OneFrameStep DEF FrameStep

\* The frames others may send for are in the window.
LEMMA ReachInWindow ==
    ASSUME Shape, NEW f \in Reach, f >= logicFrame
    PROVE  f \in Within
<1>1. logicFrame \in Nat /\ Oldest \in Int
  BY WindowFacts
<1>2. QED
  BY <1>1, RingLengths DEF Reach, Within, Oldest

LEMMA CheckedFrameStep ==
    ASSUME NEW f \in Within, f >= logicFrame, NEW slots \in [Players -> SlotType],
           CheckedRing(f, slots), UNCHANGED <<logicFrame, managers, quitFrame, executed>>,
           \A p \in Players : GoodSlot(slots[p], p, f),
           \A p \in Players \ managers : slots[p] = EmptySlot(p)
    PROVE  FrameStep(f)
<1>1. OnlyFrame(f, AfterCheck(slots))
  BY DEF OnlyFrame, CheckedRing
<1>2. QED
  BY <1>1, CheckKeepsGood DEF FrameStep

LEMMA ReceiveCommandStep ==
    ASSUME IInv, NEW c \in Command, c.frame \in Reach, ReceiveCommand(c)
    PROVE  FrameStep(c.frame)
<1> DEFINE f == c.frame
           p == c.player
           slots == [FrameSlots(f) EXCEPT ![p].list = @ \cup {c}]
<1>1. /\ p \in managers \ {Local} /\ f >= logicFrame /\ p \in Players
      /\ CheckedRing(f, slots) /\ UNCHANGED <<logicFrame, managers, quitFrame, executed>>
  BY DEF ReceiveCommand, InTime, IInv, Shape
<1>2. f \in Within
  BY <1>1, ReachInWindow DEF IInv
<1> HIDE DEF f
<1>3. /\ FrameSlots(f) \in [Players -> SlotType]
      /\ \A q \in Players : GoodSlot(FrameSlots(f)[q], q, f)
      /\ \A q \in Players \ managers : FrameSlots(f)[q] = EmptySlot(q)
  BY <1>2, FrameSlotsGood
<1>4. slots \in [Players -> SlotType]
  BY <1>1, <1>3 DEF SlotType
<1>5. \A q \in Players \ managers : slots[q] = EmptySlot(q)
  BY <1>1, <1>3
<1>6. \A q \in Players : GoodSlot(slots[q], q, f)
  <2> TAKE q \in Players
  <2>1. CASE q # p
    BY <1>3, <2>1
  <2>2. CASE q = p
    <3>1. slots[p].list = FrameSlots(f)[p].list \cup {c}
          /\ slots[p].frameCommandCount = FrameSlots(f)[p].frameCommandCount
      BY <1>1, <1>3 DEF SlotType
    <3>2. c \in CommandsFor(p, f)
      BY DEF CommandsFor, f
    <3>3. QED
      BY <1>1, <1>3, <2>2, <3>1, <3>2 DEF GoodSlot
  <2>3. QED
    BY <2>1, <2>2
<1>7. FrameStep(f)
  BY <1>1, <1>2, <1>4, <1>5, <1>6, CheckedFrameStep
<1>8. QED
  BY <1>7 DEF f

LEMMA ReceiveFrameInfoStep ==
    ASSUME IInv, NEW p \in Players, NEW f \in Reach, NEW n \in Counts(p, f),
           ReceiveFrameInfo(p, f, n)
    PROVE  FrameStep(f)
<1> DEFINE slots == [FrameSlots(f) EXCEPT ![p].frameCommandCount = n]
<1>1. /\ p \in managers \ {Local} /\ f >= logicFrame
      /\ CheckedRing(f, slots) /\ UNCHANGED <<logicFrame, managers, quitFrame, executed>>
  BY DEF ReceiveFrameInfo, InTime
<1>2. f \in Within
  BY <1>1, ReachInWindow DEF IInv
<1>3. /\ FrameSlots(f) \in [Players -> SlotType]
      /\ \A q \in Players : GoodSlot(FrameSlots(f)[q], q, f)
      /\ \A q \in Players \ managers : FrameSlots(f)[q] = EmptySlot(q)
  BY <1>2, FrameSlotsGood
<1>4. n \in 0 .. 2
  <2>1. Cardinality(CommandsFor(p, f)) \in 0 .. 2
    BY FewCommands
  <2>2. QED
    BY <2>1 DEF Counts, CommandsFor
<1>5. slots \in [Players -> SlotType]
  BY <1>3, <1>4 DEF SlotType
<1>6. \A q \in Players \ managers : slots[q] = EmptySlot(q)
  BY <1>1, <1>3
<1>7. \A q \in Players : GoodSlot(slots[q], q, f)
  <2> TAKE q \in Players
  <2>1. CASE q # p
    BY <1>3, <2>1
  <2>2. CASE q = p
    <3>1. slots[p].list = FrameSlots(f)[p].list /\ slots[p].frameCommandCount = n
      BY <1>3 DEF SlotType
    <3>2. QED
      BY <1>1, <1>3, <1>4, <2>2, <3>1 DEF GoodSlot
  <2>3. QED
    BY <2>1, <2>2
<1>8. QED
  BY <1>1, <1>2, <1>5, <1>6, <1>7, CheckedFrameStep

LEMMA SendLocalStep ==
    ASSUME IInv, NEW c \in Command, c.frame \in logicFrame + 1 .. logicFrame + MaxRunAhead,
           SendLocalCommand(c)
    PROVE  FrameStep(c.frame)
<1> DEFINE f == c.frame
           list == Slot(Local, f).list \cup {c}
           slot == [list |-> list, frameCommandCount |-> Cardinality(list)]
           slots == [FrameSlots(f) EXCEPT ![Local] = slot]
<1>1. Local \in Players /\ Local \in managers /\ c.player = Local
  BY RingLengths DEF IInv, Gone, Quit, SendLocalCommand
<1>2. f \in Within /\ f >= logicFrame
  <2>1. logicFrame \in Nat /\ Oldest \in Int
    BY WindowFacts DEF IInv
  <2>2. QED
    BY <2>1, RingLengths DEF Within, Oldest
<1>3. /\ FrameSlots(f) \in [Players -> SlotType]
      /\ \A q \in Players : FrameSlots(f)[q] = Slot(q, f) /\ GoodSlot(FrameSlots(f)[q], q, f)
      /\ \A q \in Players \ managers : FrameSlots(f)[q] = EmptySlot(q)
  BY <1>2, FrameSlotsGood
<1>4. list \subseteq CommandsFor(Local, f)
  BY <1>1, <1>3 DEF GoodSlot, CommandsFor
<1>5. Cardinality(list) \in 0 .. 2
  BY <1>1, <1>4, FewCommands
<1>6. slot \in SlotType /\ GoodSlot(slot, Local, f)
  BY <1>4, <1>5 DEF SlotType, CommandsFor, GoodSlot, CommandCount
<1>7. OnlyFrame(f, slots)
  <2>1. ring \in [Players -> [0 .. FrameDataLength - 1 -> SlotType]]
        /\ Index(f) \in 0 .. FrameDataLength - 1
    BY <1>2, WindowFacts DEF IInv, Shape
  <2>2. ring' = [ring EXCEPT ![Local] = [@ EXCEPT ![Index(f)] = slot]]
        /\ UNCHANGED <<logicFrame, managers, quitFrame, executed>>
    BY DEF SendLocalCommand, Slot
  <2>3. \A q \in Players : ring'[q] = [ring[q] EXCEPT ![Index(f)] = slots[q]]
    <3> TAKE q \in Players
    <3>1. CASE q = Local
      BY <1>1, <1>3, <2>1, <2>2, <3>1
    <3>2. CASE q # Local
      <4>1. slots[q] = ring[q][Index(f)] /\ ring'[q] = ring[q]
        BY <1>1, <1>3, <2>1, <2>2, <3>2 DEF Slot
      <4>2. QED
        BY <2>1, <4>1
    <3>3. QED
      BY <3>1, <3>2
  <2> HIDE DEF slots, slot
  <2>4. QED
    BY <2>1, <2>2, <2>3 DEF OnlyFrame
<1>8. slots \in [Players -> SlotType]
  BY <1>3, <1>6
<1>9. \A q \in Players : GoodSlot(slots[q], q, f)
  BY <1>3, <1>6
<1>10. \A q \in Players \ managers : slots[q] = EmptySlot(q)
  BY <1>1, <1>3
<1>11. FrameStep(f)
  BY <1>2, <1>7, <1>8, <1>9, <1>10 DEF FrameStep
<1>12. QED
  BY <1>11

LEMMA FrameNotReadyStep == ASSUME IInv, FrameNotReady PROVE FrameStep(logicFrame)
<1>1. logicFrame \in Within /\ logicFrame >= logicFrame
  BY WindowFacts DEF IInv
<1>2. CheckedRing(logicFrame, FrameSlots(logicFrame))
      /\ UNCHANGED <<logicFrame, managers, quitFrame, executed>>
  BY DEF FrameNotReady
<1>3. QED
  BY <1>1, <1>2, FrameSlotsGood, CheckedFrameStep

--------------------------------------------------------------------------------
\* The window moves on by one frame, which starts out empty.
LEMMA WindowMoves ==
    ASSUME IInv, ExecuteFrame
    PROVE  /\ Shape' /\ Oldest' = Oldest + 1 /\ logicFrame' = logicFrame + 1
           /\ Within' = (Within \ {Oldest}) \cup {Oldest + FrameDataLength}
           /\ Oldest + FrameDataLength \notin Within /\ Oldest \in Within
           /\ \A p \in Players : \A f \in {Oldest + FrameDataLength} : Slot(p, f)' = EmptySlot(p)
           /\ \A p \in Players : \A f \in Within \ {Oldest} : Slot(p, f)' = Slot(p, f)
<1> DEFINE old == Oldest
<1>1. /\ logicFrame < MaxFrame /\ logicFrame' = logicFrame + 1 /\ managers' = managers
      /\ ring' = [p \in Players |->
             IF p \in managers /\ logicFrame > FramesToKeep
               THEN [ring[p] EXCEPT ![Index(old)] = EmptySlot(p)] ELSE ring[p]]
      /\ \A p \in Players : quitFrame'[p] \in {QuitFrame(logicFrame), quitFrame[p]}
      /\ quitFrame' = [p \in Players |-> quitFrame'[p]]
  <2>1. Forgotten(logicFrame) = old
    BY DEF Forgotten, Oldest
  <2>2. QED
    BY <2>1 DEF ExecuteFrame
<1>2. logicFrame \in Nat \ {0} /\ old \in Int /\ Within \subseteq Int
      /\ FrameDataLength \in Nat \ {0} /\ FramesToKeep \in Nat \ {0} /\ MaxFrame \in Nat
  BY WindowFacts, RingLengths, RingAssumption DEF IInv
<1>3. ring \in [Players -> [0 .. FrameDataLength - 1 -> SlotType]]
  BY DEF IInv, Shape
<1>4. old \in Within /\ old + FrameDataLength \notin Within
  BY <1>2 DEF Within
<1>5. Index(old) \in 0 .. FrameDataLength - 1 /\ Index(old + FrameDataLength) = Index(old)
      /\ \A f \in Within \ {old} : Index(f) # Index(old) /\ Index(f) \in 0 .. FrameDataLength - 1
  BY <1>4, WindowFacts DEF IInv
<1>6. Shape'
  <2>1. logicFrame' \in 1 .. MaxFrame
    BY <1>1, <1>2
  <2>2. ring' \in [Players -> [0 .. FrameDataLength - 1 -> SlotType]]
    BY <1>1, <1>3, <1>5, EmptySlotGood
  <2>3. quitFrame' \in [Players -> {Unset} \cup Nat]
    <3>1. QuitFrame(logicFrame) \in Nat
      BY <1>2 DEF QuitFrame
    <3>2. \A p \in Players : quitFrame'[p] \in {Unset} \cup Nat
      BY <1>1, <3>1 DEF IInv, Shape
    <3>3. QED
      BY <1>1, <3>2
  <2>4. QED
    BY <1>1, <2>1, <2>2, <2>3 DEF IInv, Shape
<1>7. Oldest' = old + 1
  BY <1>1, <1>2 DEF Oldest
<1>8. Within' = (Within \ {old}) \cup {old + FrameDataLength}
  BY <1>2, <1>7 DEF Within
<1> HIDE DEF old
<1>9. \A p \in Players : \A f \in Within \ {old} : Slot(p, f)' = Slot(p, f)
  <2> TAKE p \in Players
  <2> TAKE f \in Within \ {old}
  <2>1. ring'[p][Index(f)] = ring[p][Index(f)]
    BY <1>1, <1>3, <1>5
  <2>2. QED
    BY <2>1 DEF Slot, Index
<1>10. \A p \in Players : \A f \in {old + FrameDataLength} : Slot(p, f)' = EmptySlot(p)
  <2> TAKE p \in Players
  <2> TAKE f \in {old + FrameDataLength}
  <2>1. ring'[p][Index(old)] = EmptySlot(p)
    <3>1. CASE p \in managers /\ logicFrame > FramesToKeep
      BY <1>1, <1>3, <1>5, <3>1
    <3>2. CASE p \notin managers
      BY <1>1, <1>5, <3>2 DEF IInv, Gone
    <3>3. CASE logicFrame <= FramesToKeep
      <4>1. old <= 0
        BY <1>2, <3>3 DEF old, Oldest
      <4>2. ring'[p] = ring[p]
        BY <1>1, <1>2, <3>3
      <4>3. QED
        BY <1>4, <4>1, <4>2 DEF IInv, BeforeTheGame, Slot
    <3>4. QED
      BY <1>2, <3>1, <3>2, <3>3
  <2>2. QED
    BY <1>5, <2>1 DEF Slot, Index
<1>11. QED
  BY <1>1, <1>4, <1>6, <1>7, <1>8, <1>9, <1>10 DEF old

LEMMA ExecuteFrameInv == ASSUME IInv, ExecuteFrame PROVE IInv'
<1> DEFINE L == logicFrame
           cmds == FrameCommandList(L)
           new == Oldest + FrameDataLength
           leaving == {c.player : c \in {d \in cmds : d.type = "PLAYERLEAVE"}}
<1>1. /\ Shape' /\ Oldest' = Oldest + 1 /\ logicFrame' = L + 1
      /\ Within' = (Within \ {Oldest}) \cup {new} /\ new \notin Within /\ Oldest \in Within
      /\ \A p \in Players : \A f \in {new} : Slot(p, f)' = EmptySlot(p)
      /\ \A p \in Players : \A f \in Within \ {Oldest} : Slot(p, f)' = Slot(p, f)
  BY WindowMoves
<1>2. /\ managers' = managers
      /\ \A p \in Waited : FrameReady(Slot(p, L))
      /\ executed' = [f \in (DOMAIN executed \cup {L}) \ {Oldest} |->
                          IF f = L THEN cmds ELSE executed[f]]
      /\ quitFrame' = [p \in Players |->
             IF p \in leaving /\ p \in managers /\ ~IsQuitting(p)
               THEN QuitFrame(L) ELSE quitFrame[p]]
  BY DEF ExecuteFrame, Forgotten, Oldest
<1>3. /\ L \in Nat \ {0} /\ Oldest \in Int /\ Within \subseteq Int /\ Kept \subseteq Within
      /\ L \in Within /\ new \in Int /\ Oldest < L /\ new > L /\ new > 0
  <2>1. L \in Nat \ {0} /\ Oldest \in Int /\ Within \subseteq Int /\ Kept \subseteq Within
        /\ L \in Within
    BY WindowFacts DEF IInv
  <2>2. QED
    BY <2>1, RingLengths DEF Oldest
<1>4. managers \subseteq Players /\ quitFrame \in [Players -> {Unset} \cup Nat]
  BY DEF IInv, Shape
<1> HIDE DEF new
<1>5. Own'
  <2> SUFFICES ASSUME NEW p \in Players, NEW f \in Within' PROVE GoodSlot(Slot(p, f)', p, f)
    BY DEF Own, GoodSlot, CommandCount
  <2>1. CASE f = new
    BY <1>1, <2>1, EmptySlotGood
  <2>2. CASE f \in Within \ {Oldest}
    BY <1>1, <2>2 DEF IInv, Own
  <2>3. QED
    BY <1>1, <2>1, <2>2
<1>6. BeforeTheGame'
  <2> SUFFICES ASSUME NEW p \in Players, NEW f \in Within', f <= 0 PROVE Slot(p, f)' = EmptySlot(p)
    BY DEF BeforeTheGame, EmptySlot
  <2>1. f \in Within \ {Oldest}
    BY <1>1, <1>3
  <2>2. QED
    BY <1>1, <2>1 DEF IInv, BeforeTheGame
<1>7. Gone'
  <2> SUFFICES ASSUME NEW p \in Players \ managers
               PROVE  quitFrame'[p] # Unset /\ \A i \in 0 .. FrameDataLength - 1 : ring'[p][i] = EmptySlot(p)
    BY <1>2 DEF Gone, IsQuitting, EmptySlot
  <2>1. quitFrame'[p] = quitFrame[p]
    BY <1>2
  <2>2. ring'[p] = ring[p]
    BY DEF ExecuteFrame
  <2>3. QED
    BY <2>1, <2>2 DEF IInv, Gone, IsQuitting
<1>8. \A p \in Players : p \in leaving => p = Leaver /\ L = LeaveFrame
  <2> SUFFICES ASSUME NEW p \in leaving PROVE p = Leaver /\ L = LeaveFrame
    OBVIOUS
  <2>1. PICK c \in cmds : c.type = "PLAYERLEAVE" /\ c.player = p
    OBVIOUS
  <2>2. PICK q \in managers : c \in Slot(q, L).list
    BY <2>1 DEF FrameCommandList
  <2>3. c \in CommandsFor(q, L)
    BY <1>3, <1>4, <2>2 DEF IInv, Own, GoodSlot
  <2>4. QED
    BY <2>1, <2>3 DEF CommandsFor, Command
<1>9. Quit'
  <2> SUFFICES ASSUME NEW p \in Players, quitFrame'[p] # Unset
               PROVE  p = Leaver /\ quitFrame'[p] = QuitFrame(LeaveFrame) /\ LeaveFrame < L + 1
    BY <1>1 DEF Quit, IsQuitting, QuitFrame
  <2>1. LeaveFrame \in Nat
    BY RingLengths
  <2>2. CASE p \in leaving /\ p \in managers /\ ~IsQuitting(p)
    BY <1>2, <1>3, <1>8, <2>2
  <2>3. CASE ~(p \in leaving /\ p \in managers /\ ~IsQuitting(p))
    BY <1>2, <1>3, <2>1, <2>3 DEF IInv, Quit, IsQuitting
  <2>4. QED
    BY <2>2, <2>3
<1>10. \A p \in managers : IsQuitting(p) => quitFrame'[p] = quitFrame[p]
  BY <1>2, <1>4
<1>11. Kept' = (Kept \cup {L}) \ {Oldest}
  BY <1>1, <1>3 DEF Kept
<1>12. \A f \in Kept' : f \in Within \ {Oldest} /\ f \in Int /\ f <= L
  BY <1>3, <1>11 DEF Kept
<1>13. \A f \in Kept' : FrameCommandList(f)' = FrameCommandList(f)
  BY <1>1, <1>2, <1>4, <1>12 DEF FrameCommandList
<1>14. ASSUME NEW f \in Kept', NEW p \in managers, CountedIn(p, f)'
       PROVE  FrameReady(Slot(p, f)')
  <2>1. Slot(p, f)' = Slot(p, f)
    BY <1>1, <1>4, <1>12
  <2>2. FramesToKeep \in Nat /\ LeaveFrame \in Nat /\ Unset # QuitFrame(LeaveFrame)
    BY RingLengths DEF Unset, QuitFrame
  <2>3. CASE IsQuitting(p)
    <3>1. quitFrame'[p] = quitFrame[p] /\ quitFrame[p] = LeaveFrame + FramesToKeep + 1 /\ LeaveFrame < L
      BY <1>4, <1>10, <2>3 DEF IInv, Quit, QuitFrame
    <3>2. f < quitFrame[p] - FramesToKeep
      BY <1>14, <2>3, <3>1 DEF CountedIn, IsQuitting
    <3>3. f < L
      BY <1>3, <1>12, <2>2, <3>1, <3>2
    <3>4. f \in Kept
      BY <1>3, <1>11, <1>12, <3>3
    <3>5. QED
      BY <2>1, <2>3, <3>2, <3>4 DEF IInv, Executed, KeptFaithful, CountedIn
  <2>4. CASE ~IsQuitting(p)
    <3>1. CASE f = L
      BY <1>2, <2>1, <2>4, <3>1 DEF Waited
    <3>2. CASE f \in Kept
      BY <2>1, <2>4, <3>2 DEF IInv, Executed, KeptFaithful, CountedIn
    <3>3. QED
      BY <1>11, <3>1, <3>2
  <2>5. QED
    BY <2>3, <2>4
<1>15. Executed'
  <2>1. DOMAIN executed' = Kept'
    BY <1>2, <1>11 DEF IInv, Executed
  <2>2. ASSUME NEW f \in Kept' PROVE executed'[f] = FrameCommandList(f)
    <3>1. executed'[f] = IF f = L THEN cmds ELSE executed[f]
      BY <1>2, <2>1
    <3>2. f # L => f \in Kept
      BY <1>11
    <3>3. QED
      BY <3>1, <3>2 DEF IInv, Executed, KeptFaithful
  <2>3. ASSUME NEW f \in Kept' PROVE KeptFaithful(f)'
    <3>1. \A p \in managers : CountedIn(p, f)' => FrameReady(Slot(p, f))'
      BY <1>14 DEF FrameReady, CommandCount
    <3>2. QED
      BY <1>2, <1>13, <2>2, <3>1 DEF KeptFaithful
  <2>4. QED
    BY <2>1, <2>3 DEF Executed
<1>16. QED
  BY <1>1, <1>5, <1>6, <1>7, <1>9, <1>15 DEF IInv

\* Frame data is deleted when no frame that is kept has commands in it.
LEMMA DeleteFrameDataInv ==
    ASSUME IInv, NEW p \in Players, DeleteFrameData(p)
    PROVE  IInv' /\ \A f \in Kept : Slot(p, f).list = {}
<1>1. /\ p \in managers /\ quitFrame[p] = logicFrame /\ managers' = managers \ {p}
      /\ ring' = [ring EXCEPT ![p] = [i \in 0 .. FrameDataLength - 1 |-> EmptySlot(p)]]
      /\ UNCHANGED <<logicFrame, quitFrame, executed>>
  BY DEF DeleteFrameData, IInv, Shape
<1>2. logicFrame \in Nat \ {0} /\ Kept \subseteq Within /\ Within \subseteq Int
      /\ \A f \in Within : Index(f) \in 0 .. FrameDataLength - 1
  BY WindowFacts DEF IInv
<1>3. IsQuitting(p) /\ p = Leaver /\ logicFrame = QuitFrame(LeaveFrame)
  BY <1>1, <1>2 DEF IInv, Quit, IsQuitting, Unset
<1>4. ring \in [Players -> [0 .. FrameDataLength - 1 -> SlotType]]
  BY DEF IInv, Shape
<1>5. Shape'
  BY <1>1, <1>4, EmptySlotGood DEF IInv, Shape
<1>6. Within' = Within /\ Kept' = Kept
  BY <1>1 DEF Within, Kept, Oldest
<1>7. \A f \in Within : Slot(p, f)' = EmptySlot(p)
  BY <1>1, <1>2, <1>4 DEF Slot, Index
<1>8. \A q \in Players \ {p} : \A f \in Within : Slot(q, f)' = Slot(q, f)
  BY <1>1, <1>4 DEF Slot, Index
<1>9. Own'
  <2> SUFFICES ASSUME NEW q \in Players, NEW f \in Within PROVE GoodSlot(Slot(q, f)', q, f)
    BY <1>6 DEF Own, GoodSlot, CommandCount
  <2>1. QED
    BY <1>7, <1>8, EmptySlotGood DEF IInv, Own
<1>10. BeforeTheGame'
  BY <1>6, <1>7, <1>8 DEF IInv, BeforeTheGame, EmptySlot
<1>11. Gone'
  <2> SUFFICES ASSUME NEW q \in Players \ managers'
               PROVE  IsQuitting(q) /\ \A i \in 0 .. FrameDataLength - 1 : ring'[q][i] = EmptySlot(q)
    BY <1>1 DEF Gone, IsQuitting, EmptySlot
  <2>1. CASE q = p
    BY <1>1, <1>3, <1>4, <2>1
  <2>2. CASE q # p
    BY <1>1, <1>4, <2>2 DEF IInv, Gone
  <2>3. QED
    BY <2>1, <2>2
<1>12. Quit'
  BY <1>1 DEF IInv, Quit, IsQuitting, QuitFrame
<1>13. \A f \in Kept : Slot(p, f).list = {}
  <2> TAKE f \in Kept
  <2>1. f \in Int /\ f > LeaveFrame
    <3>1. f >= logicFrame - FramesToKeep /\ f \in Int
      BY <1>2 DEF Kept, Oldest
    <3>2. QED
      BY <1>3, <3>1, RingLengths DEF QuitFrame
  <2>2. Slot(p, f).list \subseteq CommandsFor(p, f)
    BY <1>2 DEF IInv, Own, GoodSlot
  <2>3. \A c \in CommandsFor(p, f) : c.frame <= LeaveFrame /\ c.frame = f
    BY <1>3 DEF CommandsFor, Command
  <2>4. QED
    BY <2>1, <2>2, <2>3, RingLengths
<1>14. Executed'
  <2> SUFFICES ASSUME NEW f \in Kept PROVE KeptFaithful(f)'
    BY <1>1, <1>6 DEF IInv, Executed
  <2>1. KeptFaithful(f) /\ f \in Within
    BY <1>2 DEF IInv, Executed
  <2>2. managers \subseteq Players
    BY DEF IInv, Shape
  <2>3. \A q \in managers \ {p} : Slot(q, f)' = Slot(q, f)
    BY <1>8, <2>1, <2>2
  <2>4. FrameCommandList(f)' = FrameCommandList(f)
    BY <1>1, <1>13, <2>3 DEF FrameCommandList
  <2>5. \A q \in managers' : CountedIn(q, f)' => FrameReady(Slot(q, f))'
    BY <1>1, <2>1, <2>3 DEF KeptFaithful, CountedIn, IsQuitting, FrameReady, CommandCount
  <2>6. QED
    BY <1>1, <2>1, <2>4, <2>5 DEF KeptFaithful
<1>15. QED
  BY <1>5, <1>9, <1>10, <1>11, <1>12, <1>13, <1>14 DEF IInv

LEMMA InitInv == Init => IInv
<1> SUFFICES ASSUME Init PROVE IInv
  OBVIOUS
<1> USE DEF Init
<1> DEFINE zero == [list |-> {}, frameCommandCount |-> 0]
<1>1. FrameDataLength \in Nat \ {0} /\ InitialRunAhead \in Nat \ {0} /\ FramesToKeep \in Nat \ {0}
      /\ InitialRunAhead <= MaxRunAhead /\ MaxRunAhead \in Nat /\ MaxFrame \in Nat \ {0}
  BY RingLengths, RingAssumption
<1>2. zero \in SlotType /\ \A p \in Players : \A f : GoodSlot(zero, p, f)
  BY FS_EmptySet DEF SlotType, GoodSlot, CommandCount
<1>3. \A p \in Players : \A i \in 0 .. FrameDataLength - 1 :
        ring[p][i] = IF i \in 1 .. InitialRunAhead - 1 THEN zero ELSE EmptySlot(p)
  OBVIOUS
<1> HIDE DEF zero
<1>4. Shape
  <2>1. ring = [p \in Players |-> [i \in 0 .. FrameDataLength - 1 |->
                  IF i \in 1 .. InitialRunAhead - 1 THEN zero ELSE EmptySlot(p)]]
    BY DEF zero
  <2>2. ring \in [Players -> [0 .. FrameDataLength - 1 -> SlotType]]
    <3>1. \A p \in Players : EmptySlot(p) \in SlotType
      BY EmptySlotGood
    <3>2. zero \in SlotType
      BY <1>2
    <3>3. \A p \in Players : [i \in 0 .. FrameDataLength - 1 |->
              IF i \in 1 .. InitialRunAhead - 1 THEN zero ELSE EmptySlot(p)]
                \in [0 .. FrameDataLength - 1 -> SlotType]
      BY <3>1, <3>2
    <3>4. QED
      BY <2>1, <3>3, Zenon
  <2>3. logicFrame \in 1 .. MaxFrame
    BY <1>1
  <2>4. QED
    BY <2>2, <2>3 DEF Shape
<1>5. \A f \in Within : f \in Int /\ Index(f) \in 0 .. FrameDataLength - 1
  BY <1>4, WindowFacts
<1>6. Own
  BY <1>2, <1>3, <1>5, EmptySlotGood DEF Own, Slot
<1>7. BeforeTheGame
  <2> SUFFICES ASSUME NEW p \in Players, NEW f \in Within, f <= 0 PROVE Slot(p, f) = EmptySlot(p)
    BY DEF BeforeTheGame
  <2>1. f \in Int /\ f >= 1 - FramesToKeep
    BY <1>1, <1>5 DEF Within, Oldest
  <2>2. Index(f) \notin 1 .. InitialRunAhead - 1
    <3>1. ASSUME NEW i \in 0 .. InitialRunAhead - 1, f < i PROVE Index(f) # i
      <4>1. i < f + FrameDataLength /\ i \in 0 .. FrameDataLength - 1
        BY <1>1, <2>1, RingLengths
      <4>2. f % FrameDataLength # i % FrameDataLength
        <5>1. \A n \in Nat \ {0} : \A a, b \in Int : a < b /\ b < a + n => a % n # b % n
          BY RemaindersDiffer
        <5>2. i \in Int
          BY <1>1
        <5>3. QED
          BY <1>1, <2>1, <3>1, <4>1, <5>1, <5>2
      <4>3. i % FrameDataLength = i
        BY <1>1, <4>1, SmallRemainder
      <4>4. QED
        BY <4>2, <4>3 DEF Index
    <3>2. QED
      BY <1>1, <2>1, <3>1
  <2>3. QED
    BY <1>3, <1>5, <2>2 DEF Slot
<1>8. Gone
  BY DEF Gone
<1>9. Quit
  BY DEF Quit, IsQuitting
<1>10. Executed
  <2>1. Kept = {}
    BY <1>1 DEF Kept, Oldest
  <2>2. QED
    BY <2>1 DEF Executed
<1>11. QED
  BY <1>4, <1>6, <1>7, <1>8, <1>9, <1>10 DEF IInv

\* Whatever happens is a frame step, the execution of a frame, or a deletion.
LEMMA StepKinds ==
    ASSUME IInv, Next
    PROVE  (\E f \in Within : FrameStep(f)) \/ ExecuteFrame \/ \E p \in Players : DeleteFrameData(p)
<1>1. \A f : FrameStep(f) => f \in Within
  BY DEF FrameStep
<1>2. CASE \E c \in Command : c.frame \in Reach /\ ReceiveCommand(c)
  BY <1>1, <1>2, ReceiveCommandStep
<1>3. CASE \E c \in Command : /\ c.frame \in logicFrame + 1 .. logicFrame + MaxRunAhead
                              /\ SendLocalCommand(c)
  BY <1>1, <1>3, SendLocalStep
<1>4. CASE \E p \in Players, f \in Reach : \E n \in Counts(p, f) : ReceiveFrameInfo(p, f, n)
  BY <1>1, <1>4, ReceiveFrameInfoStep
<1>5. CASE FrameNotReady
  BY <1>1, <1>5, FrameNotReadyStep
<1>6. QED
  BY <1>2, <1>3, <1>4, <1>5 DEF Next

LEMMA StutterInv == ASSUME IInv, UNCHANGED vars PROVE IInv'
<1>1. UNCHANGED <<logicFrame, managers, ring, quitFrame, executed>>
  BY DEF vars
<1>2. Shape' /\ Within' = Within /\ Kept' = Kept
  BY <1>1 DEF IInv, Shape, Within, Kept, Oldest
<1>3. \A p, f : Slot(p, f)' = Slot(p, f)
  BY <1>1 DEF Slot, Index
<1>4. Own' /\ BeforeTheGame'
  BY <1>2, <1>3 DEF IInv, Own, GoodSlot, CommandCount, BeforeTheGame, EmptySlot
<1>5. Gone' /\ Quit'
  BY <1>1 DEF IInv, Gone, Quit, IsQuitting, EmptySlot, QuitFrame
<1>6. Executed'
  <2> SUFFICES ASSUME NEW f \in Kept PROVE KeptFaithful(f)'
    BY <1>1, <1>2 DEF IInv, Executed
  <2>1. QED
    BY <1>1, <1>3 DEF IInv, Executed, KeptFaithful, FrameCommandList, CountedIn, IsQuitting,
                      FrameReady, CommandCount
<1>7. QED
  BY <1>2, <1>4, <1>5, <1>6 DEF IInv

LEMMA NextInv == IInv /\ [Next]_vars => IInv'
BY StepKinds, FrameStepInv, ExecuteFrameInv, DeleteFrameDataInv, StutterInv

\* The inductive invariant holds in every reachable state.
THEOREM RingInvariance == Spec => []IInv
BY InitInv, NextInv, PTL DEF Spec

--------------------------------------------------------------------------------
\* Type correctness: a frame has at most two commands of a player, and one of the local
\* player, so the counts stay small.
THEOREM TypeCorrect == Spec => []TypeOK
<1>1. IInv => TypeOK
  <2> SUFFICES ASSUME IInv PROVE TypeOK
    OBVIOUS
  <2>1. Shape /\ Own
    BY DEF IInv
  <2>2. ASSUME NEW p \in Players, NEW i \in 0 .. FrameDataLength - 1
        PROVE  ring[p][i] \in
                 [list : SUBSET {c \in Command : c.player = p},
                  frameCommandCount : IF p = Local THEN 0 .. 1 ELSE {Unset} \cup 0 .. 2]
    <3>1. PICK f \in Within : Index(f) = i
      BY <2>1, WindowFacts
    <3>2. ring[p][i] \in SlotType /\ GoodSlot(ring[p][i], p, f)
      BY <2>1, <3>1 DEF Shape, Own, Slot
    <3>3. ring[p][i].list \subseteq CommandsFor(p, f)
      BY <3>2 DEF GoodSlot
    <3>4. p = Local => Cardinality(ring[p][i].list) \in 0 .. 1
      BY <3>3, FewCommands, RingLengths
    <3>5. ring[p][i].frameCommandCount \in IF p = Local THEN 0 .. 1 ELSE {Unset} \cup 0 .. 2
      BY <3>2, <3>4 DEF GoodSlot, CommandCount
    <3>6. QED
      BY <3>2, <3>3, <3>5 DEF SlotType, CommandsFor
  <2>3. DOMAIN executed \subseteq 1 .. MaxFrame
    <3>1. logicFrame \in Nat /\ logicFrame <= MaxFrame /\ Oldest \in Int /\ MaxFrame \in Nat
      BY <2>1, WindowFacts, RingAssumption DEF Shape
    <3>2. QED
      BY <3>1 DEF IInv, Executed, Kept
  <2>4. \A f \in DOMAIN executed : executed[f] \subseteq Command
    <3> SUFFICES ASSUME NEW f \in Kept PROVE FrameCommandList(f) \subseteq Command
      BY DEF IInv, Executed, KeptFaithful
    <3>1. f \in Within /\ managers \subseteq Players
      BY <2>1, WindowFacts DEF Shape
    <3>2. \A p \in managers : Slot(p, f).list \subseteq Command
      BY <2>1, <3>1 DEF Own, GoodSlot, CommandsFor
    <3>3. QED
      BY <3>2 DEF FrameCommandList
  <2>5. \A p \in Players : ring[p] \in [0 .. FrameDataLength - 1 ->
           [list : SUBSET {c \in Command : c.player = p},
            frameCommandCount : IF p = Local THEN 0 .. 1 ELSE {Unset} \cup 0 .. 2]]
    <3> TAKE p \in Players
    <3>1. ring[p] \in [0 .. FrameDataLength - 1 -> SlotType]
      BY <2>1 DEF Shape
    <3>2. QED
      BY <2>2, <3>1
  <2>6. QED
    BY <2>1, <2>3, <2>4, <2>5 DEF TypeOK, Shape
<1>2. QED
  BY <1>1, RingInvariance, PTL

\* What is sent of a frame to a machine that is behind is what was executed in it, with the
\* counts that let the other machine execute it too.
THEOREM CatchUpFaithfulHolds == Spec => []CatchUpFaithful
<1>1. IInv => CatchUpFaithful
  BY DEF IInv, Executed, KeptFaithful, CatchUpFaithful
<1>2. QED
  BY <1>1, RingInvariance, PTL

--------------------------------------------------------------------------------
\* The entries that the ring stands for.
Entries == [p \in Players |-> [f \in Within |->
                [list |-> Slot(p, f).list, count |-> Slot(p, f).frameCommandCount]]]

\* A good slot is an entry of its frame.
LEMMA GoodSlotIsEntry ==
    ASSUME NEW p \in Players, NEW f, NEW s \in SlotType, GoodSlot(s, p, f),
           NEW e, e = [list |-> s.list, count |-> s.frameCommandCount]
    PROVE  e \in Store!Entry /\ Store!BelongsTo(e, f)
BY DEF Store!Entry, Store!BelongsTo, SlotType, GoodSlot, CommandsFor

LEMMA FrameStepUpdates ==
    ASSUME IInv, NEW f \in Within, FrameStep(f)
    PROVE  Store!UpdateFrame(f)
<1>1. PICK slots \in [Players -> SlotType] :
         OnlyFrame(f, slots) /\ \A p \in Players : GoodSlot(slots[p], p, f)
  BY DEF FrameStep
<1>2. /\ Within' = Within /\ Oldest' = Oldest
      /\ \A p \in Players : Slot(p, f)' = slots[p]
      /\ \A p \in Players : \A g \in Within \ {f} : Slot(p, g)' = Slot(p, g)
  BY <1>1, OneFrameFacts DEF IInv, Oldest, OnlyFrame
<1>3. ASSUME NEW p \in Players
      PROVE  /\ Entries'[p][f] = [list |-> slots[p].list, count |-> slots[p].frameCommandCount]
             /\ \A g \in Within \ {f} : Entries'[p][g] = Entries[p][g]
  BY <1>2 DEF Entries
<1>4. \A p \in Players : Entries'[p][f] \in Store!Entry /\ Store!BelongsTo(Entries'[p][f], f)
  BY <1>1, <1>3, GoodSlotIsEntry
<1>5. QED
  BY <1>2, <1>3, <1>4 DEF Store!UpdateFrame, Store!Frames, Entries, Within

LEMMA ExecuteFrameAdvances == ASSUME IInv, ExecuteFrame PROVE Store!Advance
<1> DEFINE new == Oldest + FrameDataLength
<1>1. /\ Oldest' = Oldest + 1
      /\ Within' = (Within \ {Oldest}) \cup {new} /\ new \notin Within
      /\ \A p \in Players : \A f \in {new} : Slot(p, f)' = EmptySlot(p)
      /\ \A p \in Players : \A f \in Within \ {Oldest} : Slot(p, f)' = Slot(p, f)
  BY WindowMoves
<1>2. \A p \in Players : EmptySlot(p).list = {}
  BY DEF EmptySlot
<1> HIDE DEF new
<1>3. ASSUME NEW p \in Players
      PROVE  /\ Entries'[p][new] = [list |-> {}, count |-> EmptySlot(p).frameCommandCount]
             /\ \A g \in Within \ {Oldest} : Entries'[p][g] = Entries[p][g]
  <2>1. Entries'[p] = [f \in Within' |->
                 [list |-> Slot(p, f)'.list, count |-> Slot(p, f)'.frameCommandCount]]
    BY DEF Entries
  <2>2. \A f \in Within' : Entries'[p][f] =
                 [list |-> Slot(p, f)'.list, count |-> Slot(p, f)'.frameCommandCount]
    BY <2>1
  <2>3. \A f \in {new} : f \in Within' /\ Entries'[p][f] = [list |-> {}, count |-> EmptySlot(p).frameCommandCount]
    BY <1>1, <1>2, <2>2
  <2>4. \A g \in Within \ {Oldest} : g \in Within' /\ Entries'[p][g] = Entries[p][g]
    BY <1>1, <2>2 DEF Entries
  <2>5. QED
    BY <2>3, <2>4
<1>4. QED
  BY <1>1, <1>3 DEF Store!Advance, Store!Frames, Entries, Within, new

LEMMA DeleteDrops ==
    ASSUME IInv, NEW p \in Players, DeleteFrameData(p)
    PROVE  Store!Drop(p)
<1>1. /\ ring' = [ring EXCEPT ![p] = [i \in 0 .. FrameDataLength - 1 |-> EmptySlot(p)]]
      /\ logicFrame' = logicFrame
      /\ ring \in [Players -> [0 .. FrameDataLength - 1 -> SlotType]]
  BY DEF DeleteFrameData, IInv, Shape
<1>2. \A f \in Within : Index(f) \in 0 .. FrameDataLength - 1
  BY WindowFacts DEF IInv
<1>3. Within' = Within /\ Oldest' = Oldest
  BY <1>1 DEF Within, Oldest
<1>4. \A f \in Within : Slot(p, f)' = EmptySlot(p)
  BY <1>1, <1>2 DEF Slot, Index
<1>5. \A q \in Players \ {p} : \A f \in Within : Slot(q, f)' = Slot(q, f)
  BY <1>1 DEF Slot, Index
<1>6. \A f \in Within : Entries'[p][f] = [list |-> {}, count |-> EmptySlot(p).frameCommandCount]
  BY <1>3, <1>4 DEF Entries, EmptySlot
<1>7. \A q \in Players \ {p} : Entries'[q] = Entries[q]
  BY <1>3, <1>5 DEF Entries
<1>8. QED
  BY <1>3, <1>6, <1>7 DEF Store!Drop, Store!Frames, Entries, Within

\* The ring of slots implements one entry per frame: each step works on one frame, moves the
\* window on, or drops the entries of a player who left.
THEOREM RingRefinesFrameStore == Spec => ImplementsFrameStore
<1>1. Init => Store!Init
  <2> SUFFICES ASSUME Init PROVE Store!Init
    OBVIOUS
  <2>1. IInv
    BY InitInv
  <2>2. Oldest \in Int /\ \A f \in Within : Index(f) \in 0 .. FrameDataLength - 1
    BY <2>1, WindowFacts DEF IInv
  <2>3. ASSUME NEW p \in Players, NEW f \in Within
        PROVE  Entries[p][f] \in Store!Entry /\ Entries[p][f].list = {}
    <3>1. Slot(p, f) \in SlotType /\ GoodSlot(Slot(p, f), p, f)
      BY <2>1, <2>2 DEF IInv, Shape, Own, Slot
    <3>2. Slot(p, f).list = {}
      BY <2>2 DEF Init, Slot, EmptySlot
    <3>3. Entries[p][f] = [list |-> Slot(p, f).list, count |-> Slot(p, f).frameCommandCount]
      BY DEF Entries
    <3>4. QED
      BY <3>1, <3>2, <3>3, GoodSlotIsEntry
  <2>4. QED
    BY <2>2, <2>3 DEF Store!Init, Store!Frames, Entries, Within
<1>2. IInv /\ [Next]_vars => [Store!Next]_(Store!vars)
  <2> SUFFICES ASSUME IInv, [Next]_vars PROVE [Store!Next]_(Store!vars)
    OBVIOUS
  <2>1. CASE \E f \in Within : FrameStep(f)
    BY <2>1, FrameStepUpdates DEF Store!Next, Store!Frames, Within
  <2>2. CASE ExecuteFrame
    BY <2>2, ExecuteFrameAdvances DEF Store!Next
  <2>3. CASE \E p \in Players : DeleteFrameData(p)
    BY <2>3, DeleteDrops DEF Store!Next
  <2>4. CASE UNCHANGED vars
    BY <2>4 DEF vars, Store!vars, Within, Oldest, Slot, Index
  <2>5. QED
    BY <2>1, <2>2, <2>3, <2>4, StepKinds
<1>3. QED
  BY <1>1, <1>2, RingInvariance, PTL DEF Spec, ImplementsFrameStore, Store!Spec
=============================================================================
