------------------------- MODULE NetCommandListProofs -------------------------
(***************************************************************************)
(* Proofs about NetCommandList, for all lists, commands and lengths.       *)
(*                                                                         *)
(* The argument: wherever the cursor is, addMessage inserts at a position  *)
(* that has only older commands before it and none that are older from it  *)
(* on, so a sorted list stays sorted.  If no two commands tie, the command *)
(* can only be in the list already at that position, which is the only one *)
(* that is looked at.  A strictly sorted list is determined by what is in  *)
(* it, and so two lists with the same commands are the same.               *)
(***************************************************************************)
EXTENDS NetCommandList, Stepwise, SequenceTheorems

--------------------------------------------------------------------------------
\* The sequence r is q with c inserted at i, or without what it had there.
IsInsertion(r, q, i, c) ==
    /\ r \in Seq(Commands) /\ Len(r) = Len(q) + 1
    /\ \A k \in 1 .. Len(q) + 1 : r[k] = IF k < i THEN q[k] ELSE IF k = i THEN c ELSE q[k - 1]
IsRemoval(r, q, i) ==
    /\ r \in Seq(Commands) /\ Len(r) = Len(q) - 1
    /\ \A k \in 1 .. Len(q) - 1 : r[k] = IF k < i THEN q[k] ELSE q[k + 1]

(* What a sequence is after an insertion. *)
LEMMA InsertAtFacts ==
  ASSUME NEW q \in Seq(Commands), NEW i \in 1 .. Len(q) + 1, NEW c \in Commands
  PROVE  IsInsertion(InsertAt(q, i, c), q, i, c)
<1> DEFINE before == SubSeq(q, 1, i - 1)
           after == SubSeq(q, i, Len(q))
           one == <<c>>
           start == before \o one
<1>1. Len(q) \in Nat /\ \A k \in 1 .. Len(q) : q[k] \in Commands
  BY LenProperties, ElementOfSeq
<1>2. /\ before \in Seq(Commands) /\ Len(before) = i - 1
      /\ \A k \in 1 .. i - 1 : before[k] = q[k]
  BY <1>1, SubSeqProperties
<1>3. /\ after \in Seq(Commands) /\ Len(after) = Len(q) + 1 - i
      /\ \A k \in 1 .. Len(q) + 1 - i : after[k] = q[i + k - 1]
  BY <1>1, SubSeqProperties
<1>4. one \in Seq(Commands) /\ Len(one) = 1 /\ one[1] = c OBVIOUS
<1> HIDE DEF before, after, one
<1>5. /\ start \in Seq(Commands) /\ Len(start) = i
      /\ \A k \in 1 .. i : start[k] = IF k < i THEN q[k] ELSE c
  <2>1. start \in Seq(Commands) /\ Len(start) = i
    <3>1. start \in Seq(Commands) /\ Len(start) = Len(before) + Len(one)
      BY <1>2, <1>4, ConcatProperties
    <3> QED BY <1>1, <1>2, <1>4, <3>1
  <2>2. \A k \in 1 .. i : start[k] = IF k <= i - 1 THEN before[k] ELSE one[k - (i - 1)]
    <3>1. \A k \in 1 .. Len(before) + Len(one) :
            start[k] = IF k <= Len(before) THEN before[k] ELSE one[k - Len(before)]
      BY <1>2, <1>4, ConcatProperties
    <3>2. Len(before) + Len(one) = i BY <1>1, <1>2, <1>4
    <3> QED BY <1>2, <3>1, <3>2
  <2> QED BY <2>1, <2>2, <1>2, <1>4
<1> HIDE DEF start
<1>6. /\ start \o after \in Seq(Commands) /\ Len(start \o after) = Len(q) + 1
      /\ \A k \in 1 .. Len(q) + 1 :
           (start \o after)[k] = IF k <= i THEN start[k] ELSE after[k - i]
  <2>1. start \in Seq(Commands) /\ after \in Seq(Commands) BY <1>3, <1>5
  <2>2. /\ start \o after \in Seq(Commands)
        /\ Len(start \o after) = Len(start) + Len(after)
        /\ \A k \in 1 .. Len(start) + Len(after) : (start \o after)[k] =
             IF k <= Len(start) THEN start[k] ELSE after[k - Len(start)]
    BY <2>1, ConcatProperties
  <2>3. Len(start) = i /\ Len(start) + Len(after) = Len(q) + 1 BY <1>1, <1>3, <1>5
  <2> QED BY <2>2, <2>3
<1>7. InsertAt(q, i, c) = start \o after BY DEF InsertAt, start, before, one, after
<1>8. ASSUME NEW k \in 1 .. Len(q) + 1, k > i PROVE after[k - i] = q[k - 1]
  <2>1. k - i \in 1 .. Len(q) + 1 - i BY <1>1, <1>8
  <2>2. i + (k - i) - 1 = k - 1 BY <1>1
  <2> QED BY <1>3, <2>1, <2>2
<1>9. \A k \in 1 .. Len(q) + 1 :
        (start \o after)[k] = IF k < i THEN q[k] ELSE IF k = i THEN c ELSE q[k - 1]
  BY <1>1, <1>5, <1>6, <1>8
<1> QED BY <1>6, <1>7, <1>9 DEF IsInsertion

(* What a sequence is after a removal. *)
LEMMA RemoveAtFacts ==
  ASSUME NEW q \in Seq(Commands), NEW i \in 1 .. Len(q)
  PROVE  IsRemoval(RemoveAt(q, i), q, i)
<1> DEFINE before == SubSeq(q, 1, i - 1)
           after == SubSeq(q, i + 1, Len(q))
<1>1. Len(q) \in Nat /\ \A k \in 1 .. Len(q) : q[k] \in Commands
  BY LenProperties, ElementOfSeq
<1>2. /\ before \in Seq(Commands) /\ Len(before) = i - 1
      /\ \A k \in 1 .. i - 1 : before[k] = q[k]
  BY <1>1, SubSeqProperties
<1>3. /\ after \in Seq(Commands) /\ Len(after) = Len(q) - i
      /\ \A k \in 1 .. Len(q) - i : after[k] = q[i + 1 + k - 1]
  BY <1>1, SubSeqProperties
<1> HIDE DEF before, after
<1>4. /\ before \o after \in Seq(Commands) /\ Len(before \o after) = Len(q) - 1
      /\ \A k \in 1 .. Len(q) - 1 :
           (before \o after)[k] = IF k <= i - 1 THEN before[k] ELSE after[k - (i - 1)]
  <2>1. /\ before \o after \in Seq(Commands)
        /\ Len(before \o after) = Len(before) + Len(after)
        /\ \A k \in 1 .. Len(before) + Len(after) : (before \o after)[k] =
             IF k <= Len(before) THEN before[k] ELSE after[k - Len(before)]
    BY <1>2, <1>3, ConcatProperties
  <2>2. Len(before) + Len(after) = Len(q) - 1 BY <1>1, <1>2, <1>3
  <2> QED BY <1>2, <2>1, <2>2
<1>5. RemoveAt(q, i) = before \o after BY DEF RemoveAt, before, after
<1>6. ASSUME NEW k \in 1 .. Len(q) - 1, k >= i PROVE after[k - (i - 1)] = q[k + 1]
  <2>1. k - (i - 1) \in 1 .. Len(q) - i BY <1>1, <1>6
  <2>2. i + 1 + (k - (i - 1)) - 1 = k + 1 BY <1>1
  <2> QED BY <1>3, <2>1, <2>2
<1>7. \A k \in 1 .. Len(q) - 1 :
        (before \o after)[k] = IF k < i THEN q[k] ELSE q[k + 1]
  BY <1>1, <1>2, <1>4, <1>6
<1> QED BY <1>4, <1>5, <1>7 DEF IsRemoval

--------------------------------------------------------------------------------
SortedQueue(q) == \A i, j \in DOMAIN q : i < j => ~IsCommandNewer(q[i], q[j])

\* No two commands of the list tie.
StrictQueue(q) == \A i, j \in DOMAIN q : i < j => IsCommandNewer(q[j], q[i])

\* The lists of the code: the cursor is null or in the list, and the list is in order.
SortedLists ==
    {s \in [queue : Seq(Commands), cursor : Nat] :
        s.cursor <= Len(s.queue) /\ SortedQueue(s.queue)}

StrictLists == {s \in SortedLists : StrictQueue(s.queue)}

(* What commands are sorted by are numbers. *)
LEMMA FieldFacts ==
  \A a \in Commands : a.type \in Int /\ a.player \in Int /\ a.number \in Int
<1>1. \A a \in Command :
        a.type \in 0 .. 30 /\ a.player \in 0 .. 7 /\ a.number \in 0 .. 2 ^ 16 - 1
  BY DEF Command
<1>2. \A m, n : m .. n \subseteq Int OBVIOUS
<1>3. \A a \in Command : a.type \in Int /\ a.player \in Int /\ a.number \in Int
  BY <1>1, <1>2, Zenon
<1> QED BY <1>3, ListAssumption

(* Being newer is a strict order in which what is not comparable ties. *)
LEMMA NewerFacts ==
  /\ \A a \in Commands : ~IsCommandNewer(a, a)
  /\ \A a, b \in Commands : IsCommandNewer(a, b) => ~IsCommandNewer(b, a)
  /\ \A a, b, c \in Commands :
       ~IsCommandNewer(a, b) /\ ~IsCommandNewer(b, c) => ~IsCommandNewer(a, c)
  /\ \A a, b, c \in Commands :
       IsCommandNewer(a, b) /\ ~IsCommandNewer(c, b) => IsCommandNewer(a, c)
  /\ \A a, b, c \in Commands :
       IsCommandNewer(a, b) /\ IsCommandNewer(b, c) => IsCommandNewer(a, c)
BY FieldFacts, SMTT(30) DEF IsCommandNewer

(* The walk over a list stops at the first position that it does not pass. *)
LEMMA SkipWhileFacts ==
  ASSUME NEW q \in Seq(Commands), NEW a \in 1 .. Len(q) + 1, NEW T
  PROVE  /\ SkipWhile(q, a, T) \in a .. Len(q) + 1
         /\ \A k \in a .. SkipWhile(q, a, T) - 1 : k \in T
         /\ SkipWhile(q, a, T) <= Len(q) => SkipWhile(q, a, T) \notin T
<1>1. Len(q) \in Nat BY LenProperties
<1>2. \E j \in a .. Len(q) + 1 :
        (\A k \in a .. j - 1 : k \in T) /\ (j <= Len(q) => j \notin T)
  <2>1. CASE \A j \in a .. Len(q) : j \in T BY <1>1, <2>1
  <2>2. CASE \E j \in a .. Len(q) : j \notin T
    <3>1. PICK x \in a .. Len(q) : x \notin T BY <2>2
    <3>2. a \in Nat /\ Len(q) \in Nat BY <1>1
    <3>3. PICK j \in a .. Len(q) : j \notin T /\ \A k \in a .. j - 1 : k \in T
      BY <3>1, <3>2, LeastOutside
    <3> QED BY <1>1, <3>3
  <2> QED BY <2>1, <2>2
<1> QED BY <1>2, Zenon DEF SkipWhile

(* The scan finds the place of the command: what is before it is older, and from  *)
(* it on nothing is.                                                              *)
LEMMA PositionFacts ==
  ASSUME NEW q \in Seq(Commands), q # <<>>, SortedQueue(q), NEW c \in Commands
  PROVE  /\ Position(q, c) \in 1 .. Len(q) + 1
         /\ \A k \in 1 .. Position(q, c) - 1 : IsCommandNewer(c, q[k])
         /\ \A k \in Position(q, c) .. Len(q) : ~IsCommandNewer(c, q[k])
<1>1. Len(q) \in Nat /\ Len(q) > 0 /\ DOMAIN q = 1 .. Len(q)
  BY EmptySeq, LenProperties
<1>2. \A k \in 1 .. Len(q) : q[k] \in Commands
  BY ElementOfSeq
<1>3. \A a \in Commands : a.type \in Int /\ a.player \in Int /\ a.number \in Int
  BY FieldFacts
<1>4. CASE c.type > Last(q).type
  <2>1. Position(q, c) = Len(q) + 1 BY <1>4 DEF Position
  <2>2. IsCommandNewer(c, q[Len(q)]) BY <1>4 DEF IsCommandNewer, Last
  <2>3. ASSUME NEW k \in 1 .. Len(q) PROVE IsCommandNewer(c, q[k])
    <3>1. k = Len(q) \/ ~IsCommandNewer(q[k], q[Len(q)])
      <4>1. \A i, j \in 1 .. Len(q) : i < j => ~IsCommandNewer(q[i], q[j])
        BY <1>1 DEF SortedQueue
      <4>2. Len(q) \in 1 .. Len(q) BY <1>1
      <4>3. k = Len(q) \/ k < Len(q)
        <5>1. Len(q) \in Nat /\ k \in Nat /\ k <= Len(q) BY <1>1
        <5> QED BY <5>1
      <4> QED BY <4>1, <4>2, <4>3, Zenon
    <3>2. q[k] \in Commands /\ q[Len(q)] \in Commands BY <1>1, <1>2
    <3> QED BY <2>2, <3>1, <3>2, NewerFacts, Zenon
  <2> QED BY <1>1, <2>1, <2>3
<1>5. CASE ~ (c.type > Last(q).type)
  <2> DEFINE lowerType == {k \in DOMAIN q : c.type > q[k].type}
             lowerPlayer == {k \in DOMAIN q : c.type = q[k].type /\ c.player > q[k].player}
             older == {k \in DOMAIN q : IsCommandNewerInSamePlayerGroup(c, q[k])}
             typeStart == SkipWhile(q, 1, lowerType)
             playerStart == SkipWhile(q, typeStart, lowerPlayer)
             i == SkipWhile(q, playerStart, older)
  <2>1. Position(q, c) = i BY <1>5 DEF Position
  <2>2. /\ typeStart \in 1 .. Len(q) + 1
        /\ \A k \in 1 .. typeStart - 1 : k \in lowerType
        /\ typeStart <= Len(q) => typeStart \notin lowerType
    <3> HIDE DEF lowerType
    <3> QED BY <1>1, SkipWhileFacts
  <2>3. /\ playerStart \in typeStart .. Len(q) + 1
        /\ \A k \in typeStart .. playerStart - 1 : k \in lowerPlayer
        /\ playerStart <= Len(q) => playerStart \notin lowerPlayer
    <3> HIDE DEF lowerPlayer, typeStart
    <3> QED BY <2>2, SkipWhileFacts
  <2>4. /\ i \in playerStart .. Len(q) + 1
        /\ \A k \in playerStart .. i - 1 : k \in older
        /\ i <= Len(q) => i \notin older
    <3> HIDE DEF older, playerStart, typeStart
    <3>1. playerStart \in 1 .. Len(q) + 1 BY <1>1, <2>2, <2>3
    <3> QED BY <3>1, SkipWhileFacts
  <2> HIDE DEF i, playerStart, typeStart
  <2>5. i \in 1 .. Len(q) + 1 BY <1>1, <2>2, <2>3, <2>4
  <2>6. ASSUME NEW k \in 1 .. i - 1 PROVE IsCommandNewer(c, q[k])
    <3>1. k \in lowerType \/ k \in lowerPlayer \/ k \in older
      BY <1>1, <2>2, <2>3, <2>4, <2>5
    <3> QED BY <3>1 DEF IsCommandNewer, IsCommandNewerInSamePlayerGroup, SamePlayerGroup
  <2>7. ASSUME NEW k \in typeStart .. Len(q) PROVE q[k].type >= c.type
    <3>1. q[typeStart].type >= c.type BY <1>1, <1>2, <1>3, <2>2
    <3>2. k = typeStart \/ ~IsCommandNewer(q[typeStart], q[k]) BY <1>1, <2>2 DEF SortedQueue
    <3> QED BY <1>1, <1>2, <1>3, <2>2, <3>1, <3>2 DEF IsCommandNewer
  <2>8. ASSUME NEW k \in playerStart .. Len(q), q[k].type = c.type PROVE q[k].player >= c.player
    <3> DEFINE s == q[playerStart]
    <3>1. playerStart \in typeStart .. Len(q) /\ playerStart \in 1 .. Len(q) /\ k \in 1 .. Len(q)
      BY <1>1, <2>2, <2>3
    <3>2. s.type >= c.type BY <2>7, <3>1
    <3>3. ~ (c.type = s.type /\ c.player > s.player) BY <1>1, <2>3, <3>1
    <3>4. k = playerStart \/ ~IsCommandNewer(s, q[k]) BY <1>1, <3>1 DEF SortedQueue
    <3>5. s \in Commands /\ q[k] \in Commands BY <1>2, <3>1
    <3> HIDE DEF s
    <3>6. k = playerStart => q[k] = s BY DEF s
    <3> QED BY <1>3, <2>8, <3>2, <3>3, <3>4, <3>5, <3>6 DEF IsCommandNewer
  <2>9. ASSUME NEW k \in i .. Len(q) PROVE ~IsCommandNewer(c, q[k])
    <3> DEFINE s == q[i]
    <3>1. /\ i \in playerStart .. Len(q) /\ i \in typeStart .. Len(q) /\ i \in 1 .. Len(q)
          /\ k \in 1 .. Len(q)
      BY <1>1, <2>2, <2>3, <2>4
    <3>2. s.type >= c.type /\ (s.type = c.type => s.player >= c.player) BY <2>7, <2>8, <3>1
    <3>3. ~IsCommandNewerInSamePlayerGroup(c, s) BY <1>1, <2>4, <3>1
    <3>4. k = i \/ ~IsCommandNewer(s, q[k]) BY <1>1, <3>1 DEF SortedQueue
    <3>5. s \in Commands /\ q[k] \in Commands BY <1>2, <3>1
    <3> HIDE DEF s
    <3>6. ~IsCommandNewer(c, s)
      BY <1>3, <3>2, <3>3, <3>5
      DEF IsCommandNewer, IsCommandNewerInSamePlayerGroup, SamePlayerGroup
    <3>7. k = i => q[k] = s BY DEF s
    <3> QED BY <3>4, <3>5, <3>6, <3>7, NewerFacts
  <2> QED BY <2>1, <2>5, <2>6, <2>9
<1> QED BY <1>4, <1>5

--------------------------------------------------------------------------------
(* Adding a command inserts it where only older ones are before it and no older   *)
(* one is after it, or finds one that is the same and leaves the list alone.      *)
LEMMA AddMessageFacts ==
  ASSUME NEW s \in SortedLists, NEW c \in Commands
  PROVE  \E i \in 1 .. Len(s.queue) + 1 :
           /\ \A k \in 1 .. i - 1 : IsCommandNewer(c, s.queue[k])
           /\ \A k \in i .. Len(s.queue) : ~IsCommandNewer(c, s.queue[k])
           /\ \/ /\ AddMessage(s, c) = [queue |-> InsertAt(s.queue, i, c), cursor |-> i]
                 /\ i <= Len(s.queue) =>
                      \/ ~IsEqualCommandMsg(s.queue[i], c)
                      \/ IsCommandNewer(s.queue[i], c)
              \/ /\ AddMessage(s, c) = s
                 /\ \E n \in 1 .. Len(s.queue) : IsEqualCommandMsg(s.queue[n], c)
<1> DEFINE q == s.queue
           Fits(i) == /\ \A k \in 1 .. i - 1 : IsCommandNewer(c, q[k])
                      /\ \A k \in i .. Len(q) : ~IsCommandNewer(c, q[k])
<1>1. /\ q \in Seq(Commands) /\ s.cursor \in Nat /\ s.cursor <= Len(q) /\ SortedQueue(q)
      /\ Len(q) \in Nat /\ DOMAIN q = 1 .. Len(q)
  BY LenProperties DEF SortedLists
<1>2. \A k \in 1 .. Len(q) : q[k] \in Commands
  BY <1>1, ElementOfSeq
<1>3. \A i, j \in 1 .. Len(q) : i < j => ~IsCommandNewer(q[i], q[j])
  BY <1>1 DEF SortedQueue
<1>4. CASE q = <<>>
  <2>1. AddMessage(s, c) = [queue |-> <<c>>, cursor |-> 1] BY <1>4 DEF AddMessage
  <2>2. Len(q) = 0 BY <1>4
  <2>3. InsertAt(q, 1, c) = <<c>>
    <3>1. /\ InsertAt(q, 1, c) \in Seq(Commands) /\ Len(InsertAt(q, 1, c)) = 1
          /\ InsertAt(q, 1, c)[1] = c
      <4>1. 1 \in 1 .. Len(q) + 1 BY <2>2
      <4> HIDE DEF q
      <4>2. /\ InsertAt(q, 1, c) \in Seq(Commands) /\ Len(InsertAt(q, 1, c)) = Len(q) + 1
            /\ \A k \in 1 .. Len(q) + 1 : InsertAt(q, 1, c)[k] =
                 IF k < 1 THEN q[k] ELSE IF k = 1 THEN c ELSE q[k - 1]
        BY <1>1, <4>1, InsertAtFacts DEF IsInsertion
      <4> QED BY <2>2, <4>1, <4>2
    <3> QED BY <3>1, SeqEqual
  <2> QED BY <2>1, <2>2, <2>3
<1>5. CASE q # <<>> /\ CanInsertAfterLast(s, c)
  <2> DEFINE n == s.cursor
  <2>1. /\ n \in 1 .. Len(q) /\ IsCommandNewer(c, q[n])
        /\ n < Len(q) => IsCommandNewer(q[n + 1], c)
    BY <1>1, <1>5 DEF CanInsertAfterLast, IsCommandNewer, IsCommandNewerInSamePlayerGroup, SamePlayerGroup
  <2>2. AddMessage(s, c) = IF IsEqualCommandMsg(q[n], c) THEN s
                           ELSE [queue |-> InsertAt(q, n + 1, c), cursor |-> n + 1]
    BY <1>5 DEF AddMessage, InsertUnlessSame
  <2> HIDE DEF n
  <2>3. ASSUME NEW k \in 1 .. n PROVE IsCommandNewer(c, q[k])
    <3>1. k = n \/ ~IsCommandNewer(q[k], q[n])
      <4>1. k \in 1 .. Len(q) /\ n \in 1 .. Len(q) /\ (k = n \/ k < n) BY <1>1, <2>1
      <4> QED BY <1>3, <4>1, Zenon
    <3>2. q[k] \in Commands /\ q[n] \in Commands BY <1>1, <1>2, <2>1
    <3> QED BY <2>1, <3>1, <3>2, NewerFacts
  <2>4. ASSUME NEW k \in n + 1 .. Len(q) PROVE ~IsCommandNewer(c, q[k])
    <3>1. n + 1 \in 1 .. Len(q) /\ k \in 1 .. Len(q) BY <1>1, <2>1
    <3>2. IsCommandNewer(q[n + 1], c) BY <1>1, <2>1
    <3>3. k = n + 1 \/ ~IsCommandNewer(q[n + 1], q[k]) BY <1>3, <3>1
    <3>4. q[k] \in Commands /\ q[n + 1] \in Commands BY <1>2, <3>1
    <3> QED BY <3>2, <3>3, <3>4, NewerFacts
  <2>5. n + 1 \in 1 .. Len(q) + 1 /\ Fits(n + 1) BY <1>1, <2>1, <2>3, <2>4
  <2>6. n + 1 <= Len(q) => IsCommandNewer(q[n + 1], c) BY <1>1, <2>1
  <2> QED BY <2>1, <2>2, <2>5, <2>6
<1>6. CASE q # <<>> /\ ~CanInsertAfterLast(s, c)
  <2> DEFINE i == Position(q, c)
             neighbour == IF i > Len(q) THEN Len(q) ELSE i
  <2>1. AddMessage(s, c) = IF IsEqualCommandMsg(q[neighbour], c) THEN s
                           ELSE [queue |-> InsertAt(q, i, c), cursor |-> i]
    BY <1>6 DEF AddMessage, InsertUnlessSame
  <2>2. i \in 1 .. Len(q) + 1 /\ Fits(i) BY <1>1, <1>6, PositionFacts
  <2>3. neighbour \in 1 .. Len(q) /\ (i <= Len(q) => neighbour = i)
    <3>1. Len(q) > 0 BY <1>1, <1>6, EmptySeq
    <3> HIDE DEF i
    <3> QED BY <1>1, <2>2, <3>1
  <2> HIDE DEF i, neighbour
  <2> QED BY <2>1, <2>2, <2>3
<1> QED BY <1>4, <1>5, <1>6

(* A sorted list stays one, whatever is added. *)
LEMMA AddMessageSorted ==
  ASSUME NEW s \in SortedLists, NEW c \in Commands
  PROVE  AddMessage(s, c) \in SortedLists
<1> DEFINE q == s.queue
<1>1. /\ q \in Seq(Commands) /\ Len(q) \in Nat /\ DOMAIN q = 1 .. Len(q)
      /\ \A i, j \in 1 .. Len(q) : i < j => ~IsCommandNewer(q[i], q[j])
      /\ \A k \in 1 .. Len(q) : q[k] \in Commands
  BY LenProperties, ElementOfSeq DEF SortedLists, SortedQueue
<1>2. PICK i \in 1 .. Len(q) + 1 :
        /\ \A k \in 1 .. i - 1 : IsCommandNewer(c, q[k])
        /\ \A k \in i .. Len(q) : ~IsCommandNewer(c, q[k])
        /\ \/ AddMessage(s, c) = s
           \/ AddMessage(s, c) = [queue |-> InsertAt(q, i, c), cursor |-> i]
  BY AddMessageFacts
<1>3. CASE AddMessage(s, c) = s BY <1>3
<1>4. CASE AddMessage(s, c) = [queue |-> InsertAt(q, i, c), cursor |-> i]
  <2> DEFINE r == InsertAt(q, i, c)
  <2> HIDE DEF q
  <2>1. /\ r \in Seq(Commands) /\ Len(r) = Len(q) + 1
        /\ \A k \in 1 .. Len(q) + 1 : r[k] = IF k < i THEN q[k] ELSE IF k = i THEN c ELSE q[k - 1]
    <3>1. q \in Seq(Commands) /\ i \in 1 .. Len(q) + 1 /\ c \in Commands BY <1>1
    <3>2. IsInsertion(r, q, i, c) BY <3>1, InsertAtFacts
    <3> QED BY <3>2 DEF IsInsertion
  <2>2. DOMAIN r = 1 .. Len(q) + 1 BY <2>1, LenProperties
  <2> HIDE DEF r
  <2>3. ASSUME NEW j \in 1 .. Len(q) + 1, NEW k \in 1 .. Len(q) + 1, j < k
        PROVE  ~IsCommandNewer(r[j], r[k])
    <3>1. CASE k < i
      <4>1. r[j] = q[j] /\ r[k] = q[k] /\ j \in 1 .. Len(q) /\ k \in 1 .. Len(q)
        BY <1>1, <2>1, <2>3, <3>1
      <4> QED BY <1>1, <2>3, <4>1
    <3>2. CASE k = i
      <4>1. r[j] = q[j] /\ r[k] = c /\ j \in 1 .. i - 1 /\ j \in 1 .. Len(q)
        BY <1>1, <2>1, <2>3, <3>2
      <4>2. IsCommandNewer(c, q[j]) /\ q[j] \in Commands BY <1>1, <1>2, <4>1
      <4> QED BY <4>1, <4>2, NewerFacts
    <3>3. CASE k > i /\ j = i
      <4>1. r[j] = c /\ r[k] = q[k - 1] /\ k - 1 \in i .. Len(q)
        BY <1>1, <2>1, <2>3, <3>3
      <4> QED BY <1>2, <4>1
    <3>4. CASE k > i /\ j < i
      <4>1. r[j] = q[j] /\ r[k] = q[k - 1] /\ j \in 1 .. Len(q) /\ k - 1 \in 1 .. Len(q) /\ j <= k - 1
        BY <1>1, <2>1, <2>3, <3>4
      <4>2. CASE j < k - 1 BY <1>1, <4>1, <4>2
      <4>3. CASE j = k - 1
        <5>1. r[j] = r[k] /\ r[j] \in Commands BY <1>1, <4>1, <4>3
        <5> QED BY <5>1, NewerFacts
      <4> QED BY <1>1, <4>1, <4>2, <4>3
    <3>5. CASE j > i
      <4>1. /\ r[j] = q[j - 1] /\ r[k] = q[k - 1] /\ j - 1 \in 1 .. Len(q) /\ k - 1 \in 1 .. Len(q)
            /\ j - 1 < k - 1
        BY <1>1, <2>1, <2>3, <3>5
      <4> QED BY <1>1, <4>1
    <3> QED BY <1>1, <3>1, <3>2, <3>3, <3>4, <3>5
  <2>4. SortedQueue(r) BY <2>2, <2>3 DEF SortedQueue
  <2>5. AddMessage(s, c) = [queue |-> r, cursor |-> i] BY <1>4 DEF r
  <2> QED BY <1>1, <2>1, <2>4, <2>5 DEF SortedLists
<1> QED BY <1>2, <1>3, <1>4

(* If no two commands tie, adding one adds it, unless it is there. *)
LEMMA AddMessageExact ==
  ASSUME DistinctCommands, NEW s \in StrictLists, NEW c \in Commands
  PROVE  /\ AddMessage(s, c) \in StrictLists
         /\ ToSet(AddMessage(s, c).queue) = ToSet(s.queue) \cup {c}
<1> DEFINE q == s.queue
<1>1. s \in SortedLists BY DEF StrictLists
<1>2. /\ q \in Seq(Commands) /\ Len(q) \in Nat /\ DOMAIN q = 1 .. Len(q)
      /\ \A i, j \in 1 .. Len(q) : i < j => IsCommandNewer(q[j], q[i])
      /\ \A k \in 1 .. Len(q) : q[k] \in Commands
  BY <1>1, LenProperties, ElementOfSeq DEF SortedLists, StrictLists, StrictQueue
<1>3. PICK i \in 1 .. Len(q) + 1 :
        /\ \A k \in 1 .. i - 1 : IsCommandNewer(c, q[k])
        /\ \A k \in i .. Len(q) : ~IsCommandNewer(c, q[k])
        /\ \/ /\ AddMessage(s, c) = [queue |-> InsertAt(q, i, c), cursor |-> i]
              /\ i <= Len(q) => ~IsEqualCommandMsg(q[i], c) \/ IsCommandNewer(q[i], c)
           \/ /\ AddMessage(s, c) = s
              /\ \E n \in 1 .. Len(q) : IsEqualCommandMsg(q[n], c)
  BY <1>1, AddMessageFacts
<1>4. AddMessage(s, c) \in SortedLists BY <1>1, AddMessageSorted
<1>5. CASE AddMessage(s, c) = s /\ \E n \in 1 .. Len(q) : IsEqualCommandMsg(q[n], c)
  <2>1. PICK n \in 1 .. Len(q) : IsEqualCommandMsg(q[n], c) BY <1>5
  <2>2. q[n] = c BY <1>2, <2>1 DEF DistinctCommands
  <2> QED BY <1>2, <1>5, <2>2 DEF ToSet
<1>6. CASE /\ AddMessage(s, c) = [queue |-> InsertAt(q, i, c), cursor |-> i]
           /\ i <= Len(q) => ~IsEqualCommandMsg(q[i], c) \/ IsCommandNewer(q[i], c)
  <2> DEFINE r == InsertAt(q, i, c)
  <2> HIDE DEF q
  <2>1. /\ r \in Seq(Commands) /\ Len(r) = Len(q) + 1
        /\ \A k \in 1 .. Len(q) + 1 : r[k] = IF k < i THEN q[k] ELSE IF k = i THEN c ELSE q[k - 1]
    <3>1. q \in Seq(Commands) /\ i \in 1 .. Len(q) + 1 /\ c \in Commands BY <1>2
    <3>2. IsInsertion(r, q, i, c) BY <3>1, InsertAtFacts
    <3> QED BY <3>2 DEF IsInsertion
  <2>2. DOMAIN r = 1 .. Len(q) + 1 BY <2>1, LenProperties
  <2>3. AddMessage(s, c).queue = r BY <1>6
  <2> HIDE DEF r
  <2>4. ASSUME NEW k \in i .. Len(q) PROVE IsCommandNewer(q[k], c)
    <3>1. i \in 1 .. Len(q) /\ k \in 1 .. Len(q) /\ (k = i \/ i < k) BY <1>2
    <3>2. q[i] \in Commands /\ q[k] \in Commands BY <1>2, <3>1
    <3>3. ~IsEqualCommandMsg(q[i], c) \/ IsCommandNewer(q[i], c) BY <1>2, <1>6, <3>1
    <3>4. q[i] # c BY <3>2, <3>3, NewerFacts DEF DistinctCommands
    <3>5. ~IsCommandNewer(c, q[i]) BY <1>2, <1>3, <3>1
    <3>6. IsCommandNewer(q[i], c) BY <3>2, <3>4, <3>5 DEF DistinctCommands
    <3>7. k = i \/ IsCommandNewer(q[k], q[i]) BY <1>2, <3>1
    <3> QED BY <3>2, <3>6, <3>7, NewerFacts
  <2>5. ASSUME NEW j \in 1 .. Len(q) + 1, NEW k \in 1 .. Len(q) + 1, j < k
        PROVE  IsCommandNewer(r[k], r[j])
    <3>1. CASE k < i
      <4>1. r[j] = q[j] /\ r[k] = q[k] /\ j \in 1 .. Len(q) /\ k \in 1 .. Len(q)
        BY <1>2, <2>1, <2>5, <3>1
      <4> QED BY <1>2, <2>5, <4>1
    <3>2. CASE k = i
      <4>1. r[j] = q[j] /\ r[k] = c /\ j \in 1 .. i - 1 BY <1>2, <2>1, <2>5, <3>2
      <4> QED BY <1>3, <4>1
    <3>3. CASE k > i /\ j = i
      <4>1. r[j] = c /\ r[k] = q[k - 1] /\ k - 1 \in i .. Len(q) BY <1>2, <2>1, <2>5, <3>3
      <4> QED BY <2>4, <4>1
    <3>4. CASE k > i /\ j < i
      <4>1. r[j] = q[j] /\ r[k] = q[k - 1] /\ j \in 1 .. i - 1 /\ k - 1 \in i .. Len(q)
        BY <1>2, <2>1, <2>5, <3>4
      <4>2. IsCommandNewer(c, q[j]) /\ IsCommandNewer(q[k - 1], c) BY <1>3, <2>4, <4>1
      <4>3. q[j] \in Commands /\ q[k - 1] \in Commands BY <1>2, <4>1
      <4> QED BY <4>1, <4>2, <4>3, NewerFacts
    <3>5. CASE j > i
      <4>1. /\ r[j] = q[j - 1] /\ r[k] = q[k - 1] /\ j - 1 \in 1 .. Len(q) /\ k - 1 \in 1 .. Len(q)
            /\ j - 1 < k - 1
        BY <1>2, <2>1, <2>5, <3>5
      <4> QED BY <1>2, <4>1
    <3> QED BY <1>2, <3>1, <3>2, <3>3, <3>4, <3>5
  <2>6. StrictQueue(r) BY <2>2, <2>5 DEF StrictQueue
  <2>7. \A d \in ToSet(r) : d \in ToSet(q) \cup {c}
    <3> SUFFICES ASSUME NEW k \in 1 .. Len(q) + 1, r[k] # c PROVE \E j \in 1 .. Len(q) : r[k] = q[j]
      BY <1>2, <2>2 DEF ToSet
    <3>1. CASE k < i BY <1>2, <2>1, <3>1
    <3>2. CASE k > i
      <4>1. r[k] = q[k - 1] /\ k - 1 \in 1 .. Len(q) BY <1>2, <2>1, <3>2
      <4> QED BY <4>1
    <3>3. k # i BY <2>1
    <3> QED BY <3>1, <3>2, <3>3
  <2>8. \A d \in ToSet(q) \cup {c} : d \in ToSet(r)
    <3>1. c = r[i] /\ i \in DOMAIN r BY <2>1, <2>2
    <3>2. ASSUME NEW j \in 1 .. Len(q) PROVE \E k \in 1 .. Len(q) + 1 : r[k] = q[j]
      <4>1. CASE j < i
        <5>1. j \in 1 .. Len(q) + 1 /\ r[j] = q[j] BY <1>2, <2>1, <4>1
        <5> QED BY <5>1
      <4>2. CASE j >= i
        <5>1. j + 1 \in 1 .. Len(q) + 1 /\ r[j + 1] = q[j]
          <6>1. j + 1 \in 1 .. Len(q) + 1 /\ ~ (j + 1 < i) /\ j + 1 # i /\ (j + 1) - 1 = j
            BY <1>2, <4>2
          <6> QED BY <2>1, <6>1
        <5> QED BY <5>1
      <4> QED BY <1>2, <4>1, <4>2
    <3> QED BY <1>2, <2>2, <3>1, <3>2 DEF ToSet
  <2>9. ToSet(r) = ToSet(q) \cup {c} BY <2>7, <2>8
  <2> QED BY <1>4, <2>3, <2>6, <2>9 DEF StrictLists, q
<1> QED BY <1>3, <1>5, <1>6

(* A removal leaves the rest in its order, and the cursor in the list or null. *)
LEMMA RemoveMessageFacts ==
  ASSUME NEW s \in SortedLists, NEW i \in 1 .. Len(s.queue)
  PROVE  /\ RemoveMessage(s, i) \in SortedLists
         /\ RemoveMessage(s, i).queue = RemoveAt(s.queue, i)
         /\ s \in StrictLists =>
              /\ RemoveMessage(s, i) \in StrictLists
              /\ ToSet(RemoveMessage(s, i).queue) = ToSet(s.queue) \ {s.queue[i]}
<1> DEFINE q == s.queue
           r == RemoveAt(q, i)
           cursor == RemoveMessage(s, i).cursor
<1>1. /\ q \in Seq(Commands) /\ Len(q) \in Nat /\ DOMAIN q = 1 .. Len(q)
      /\ \A j, k \in 1 .. Len(q) : j < k => ~IsCommandNewer(q[j], q[k])
      /\ \A k \in 1 .. Len(q) : q[k] \in Commands
      /\ s.cursor \in Nat /\ s.cursor <= Len(q)
  BY LenProperties, ElementOfSeq DEF SortedLists, SortedQueue
<1>2. /\ r \in Seq(Commands) /\ Len(r) = Len(q) - 1
      /\ \A k \in 1 .. Len(q) - 1 : r[k] = IF k < i THEN q[k] ELSE q[k + 1]
  <2>1. q \in Seq(Commands) /\ i \in 1 .. Len(q) BY <1>1
  <2> HIDE DEF q
  <2>2. IsRemoval(r, q, i) BY <2>1, RemoveAtFacts
  <2> QED BY <2>2 DEF IsRemoval
<1>3. DOMAIN r = 1 .. Len(q) - 1 BY <1>2, LenProperties
<1>4. /\ RemoveMessage(s, i) = [queue |-> r, cursor |-> cursor]
      /\ cursor \in Nat /\ cursor <= Len(q) - 1
  <2>1. RemoveMessage(s, i) =
          [queue |-> r,
           cursor |-> IF s.cursor > i THEN s.cursor - 1
                      ELSE IF s.cursor = i /\ i > Len(r) THEN 0 ELSE s.cursor]
    BY DEF RemoveMessage
  <2> HIDE DEF q, r
  <2> QED BY <1>1, <1>2, <2>1 DEF q
<1> HIDE DEF r, cursor
<1> DEFINE From(k) == IF k < i THEN k ELSE k + 1
<1>5. \A k \in 1 .. Len(q) - 1 : From(k) \in 1 .. Len(q) /\ r[k] = q[From(k)]
  <2> HIDE DEF q
  <2> QED BY <1>1, <1>2 DEF q
<1>6. \A j, k \in 1 .. Len(q) - 1 : j < k => From(j) < From(k)
  BY <1>1
<1> HIDE DEF From
<1>7. SortedQueue(r) BY <1>1, <1>3, <1>5, <1>6, Zenon DEF SortedQueue
<1>8. RemoveMessage(s, i) \in SortedLists
  BY <1>1, <1>2, <1>4, <1>7 DEF SortedLists
<1>9. ASSUME s \in StrictLists PROVE RemoveMessage(s, i) \in StrictLists
  <2>1. \A j, k \in 1 .. Len(q) : j < k => IsCommandNewer(q[k], q[j])
    BY <1>1, <1>9 DEF StrictLists, StrictQueue
  <2>2. StrictQueue(r) BY <1>3, <1>5, <1>6, <2>1, Zenon DEF StrictQueue
  <2> QED BY <1>4, <1>8, <2>2 DEF StrictLists
<1>10. ASSUME s \in StrictLists PROVE ToSet(r) = ToSet(q) \ {q[i]}
  <2>1. \A j, k \in 1 .. Len(q) : j < k => IsCommandNewer(q[k], q[j])
    BY <1>1, <1>10 DEF StrictLists, StrictQueue
  <2>2. ASSUME NEW j \in 1 .. Len(q), j # i PROVE q[j] # q[i]
    <3> HIDE DEF q
    <3>1. i \in 1 .. Len(q) BY DEF q
    <3>2. IsCommandNewer(q[j], q[i]) \/ IsCommandNewer(q[i], q[j])
      <4>1. i < j \/ j < i BY <1>1, <2>2, <3>1
      <4> QED BY <2>1, <3>1, <4>1
    <3> QED BY <1>1, <3>1, <3>2, NewerFacts
  <2>3. ASSUME NEW k \in 1 .. Len(q) - 1 PROVE r[k] \in ToSet(q) /\ r[k] # q[i]
    <3>1. From(k) # i BY <1>1 DEF From
    <3> QED BY <1>1, <1>5, <2>2, <3>1 DEF ToSet
  <2>4. ASSUME NEW j \in 1 .. Len(q), j # i PROVE \E k \in 1 .. Len(q) - 1 : r[k] = q[j]
    <3>1. CASE j < i
      <4>1. j \in 1 .. Len(q) - 1 /\ From(j) = j BY <1>1, <3>1 DEF From
      <4> QED BY <1>5, <4>1
    <3>2. CASE j > i
      <4>1. j - 1 \in 1 .. Len(q) - 1 /\ From(j - 1) = j BY <1>1, <3>2 DEF From
      <4> QED BY <1>5, <4>1
    <3> QED BY <1>1, <2>4, <3>1, <3>2
  <2>5. \A d \in ToSet(r) : d \in ToSet(q) \ {q[i]} BY <1>3, <2>3 DEF ToSet
  <2>6. \A d \in ToSet(q) \ {q[i]} : d \in ToSet(r)
    <3> SUFFICES ASSUME NEW j \in 1 .. Len(q), q[j] # q[i] PROVE q[j] \in ToSet(r)
      BY <1>1 DEF ToSet
    <3>1. PICK k \in 1 .. Len(q) - 1 : r[k] = q[j] BY <2>4
    <3> QED BY <1>3, <3>1 DEF ToSet
  <2> QED BY <2>5, <2>6
<1> QED BY <1>4, <1>8, <1>9, <1>10 DEF r

(* Appending a list adds its commands one after the other. *)
LEMMA AppendListFacts ==
  ASSUME NEW s \in SortedLists, NEW t \in SortedLists
  PROVE  /\ AppendList(s, t) \in SortedLists
         /\ DistinctCommands /\ s \in StrictLists =>
              /\ AppendList(s, t) \in StrictLists
              /\ ToSet(AppendList(s, t).queue) = ToSet(s.queue) \cup ToSet(t.queue)
<1> DEFINE n == Len(t.queue)
           d(i) == t.queue[i]
           Appends(g) ==
             g = [i \in 0 .. n |-> IF i = 0 THEN s ELSE AddMessage(g[i - 1], d(i))]
           appended == CHOOSE g : Appends(g)
<1>1. n \in Nat /\ DOMAIN t.queue = 1 .. n /\ \A i \in 1 .. n : d(i) \in Commands
  BY LenProperties, ElementOfSeq DEF SortedLists
<1>2. AppendList(s, t) = appended[n]
  BY DEF AppendList
<1> HIDE DEF n, d
<1>3. \E g : Appends(g)
  <2> DEFINE F == [i \in 1 .. n |-> [x \in SortedLists |-> AddMessage(x, d(i))]]
  <2>1. F \in StepFunctions(n, SortedLists)
    BY <1>1, AddMessageSorted DEF StepFunctions
  <2>2. \A i \in 1 .. n : \A x \in SortedLists : F[i][x] = AddMessage(x, d(i)) OBVIOUS
  <2> HIDE DEF F
  <2>3. PICK g \in [0 .. n -> SortedLists] : g[0] = s /\ \A i \in 1 .. n : g[i] = F[i][g[i - 1]]
    <3>1. n \in Nat BY <1>1
    <3>2. Sequels(n, SortedLists, s, F) # {} BY <2>1, <3>1, StepsExist
    <3> QED BY <3>2 DEF Sequels
  <2>4. ASSUME NEW i \in 1 .. n PROVE F[i][g[i - 1]] = AddMessage(g[i - 1], d(i))
    BY <1>1, <2>2
  <2>5. Appends(g) BY <1>1, <2>3, <2>4
  <2> QED BY <2>5
<1>4. Appends(appended) BY <1>3
<1> HIDE DEF appended
<1>5. appended[0] = s /\ \A i \in 1 .. n : appended[i] = AddMessage(appended[i - 1], d(i))
  BY <1>1, <1>4
<1>6. \A i \in 0 .. n : appended[i] \in SortedLists
  <2> DEFINE T == {i \in 0 .. n : appended[i] \in SortedLists}
  <2>1. 0 \in T BY <1>1, <1>5
  <2>2. \A i \in 1 .. n : i - 1 \in T => i \in T BY <1>1, <1>5, AddMessageSorted
  <2> HIDE DEF T
  <2>3. \A i \in 0 .. n : i \in T BY <1>1, <2>1, <2>2, UpTo
  <2> QED BY <2>3 DEF T
<1>7. ASSUME DistinctCommands, s \in StrictLists
      PROVE  \A i \in 0 .. n :
               /\ appended[i] \in StrictLists
               /\ ToSet(appended[i].queue) = ToSet(s.queue) \cup {d(j) : j \in 1 .. i}
  <2> DEFINE Exact(i) == /\ appended[i] \in StrictLists
                         /\ ToSet(appended[i].queue) = ToSet(s.queue) \cup {d(j) : j \in 1 .. i}
             T == {i \in 0 .. n : Exact(i)}
  <2>1. 0 \in T BY <1>1, <1>5, <1>7
  <2>2. ASSUME NEW i \in 1 .. n, Exact(i - 1) PROVE Exact(i)
    <3>1. appended[i] \in StrictLists /\ ToSet(appended[i].queue) = ToSet(appended[i - 1].queue) \cup {d(i)}
      BY <1>1, <1>5, <1>7, <2>2, AddMessageExact
    <3>2. {d(j) : j \in 1 .. i} = {d(j) : j \in 1 .. i - 1} \cup {d(i)} BY <1>1
    <3> QED BY <2>2, <3>1, <3>2
  <2> HIDE DEF Exact
  <2>3. \A i \in 1 .. n : i - 1 \in T => i \in T BY <2>2
  <2> HIDE DEF T
  <2>4. \A i \in 0 .. n : i \in T BY <1>1, <2>1, <2>3, UpTo
  <2> QED BY <2>4 DEF T, Exact
<1>8. ToSet(t.queue) = {d(j) : j \in 1 .. n} BY <1>1 DEF ToSet, d
<1> QED BY <1>1, <1>2, <1>6, <1>7, <1>8

(* Clearing goes through the list once and leaves the player's commands. *)
LEMMA RemoveExceptFromFacts ==
  ASSUME NEW s \in SortedLists, NEW p
  PROVE  /\ RemoveExceptFrom(s, p) \in SortedLists
         /\ s \in StrictLists =>
              /\ RemoveExceptFrom(s, p) \in StrictLists
              /\ ToSet(RemoveExceptFrom(s, p).queue) = {c \in ToSet(s.queue) : c.player = p}
<1> DEFINE n == Len(s.queue)
           Kept(w) == w.rest.queue[w.at].player = p
           Step(w) == IF Kept(w) THEN [w EXCEPT !.at = @ + 1]
                      ELSE [w EXCEPT !.rest = RemoveMessage(@, w.at)]
           Start == [rest |-> s, at |-> 1]
           Sweeps(g) == g = [i \in 0 .. n |-> IF i = 0 THEN Start ELSE Step(g[i - 1])]
           swept == CHOOSE g : Sweeps(g)
           State == [rest : SortedLists, at : Nat]
           Within(w) == w.at \in 1 .. Len(w.rest.queue)
           Left(w, i) == w.at >= 1 /\ Len(w.rest.queue) + 1 - w.at = n - i
<1>1. n \in Nat /\ \A x \in SortedLists : Len(x.queue) \in Nat
  BY LenProperties DEF SortedLists
<1>2. RemoveExceptFrom(s, p) = swept[n].rest
  BY DEF RemoveExceptFrom
<1>3. Start \in State /\ Left(Start, 0) BY <1>1
<1> HIDE DEF n, Start
<1>4. ASSUME NEW w \in State, Within(w)
      PROVE  /\ Step(w) \in State
             /\ Kept(w) => Step(w).rest = w.rest /\ Step(w).at = w.at + 1
             /\ ~Kept(w) => Step(w).rest = RemoveMessage(w.rest, w.at) /\ Step(w).at = w.at
             /\ \A i \in 1 .. n : Left(w, i - 1) => Left(Step(w), i)
  <2>1. w.rest \in SortedLists /\ w.at \in Nat BY <1>4
  <2>2. CASE Kept(w)
    <3>1. Step(w) = [w EXCEPT !.at = @ + 1] BY <2>2
    <3>2. Step(w).rest = w.rest /\ Step(w).at = w.at + 1 /\ Step(w) \in State
      BY <2>1, <3>1
    <3> HIDE DEF Step, Kept, State
    <3>3. Len(w.rest.queue) \in Nat BY <1>1, <2>1
    <3>4. ASSUME NEW i \in 1 .. n, Left(w, i - 1) PROVE Left(Step(w), i)
      <4>1. w.at \in Nat /\ w.at >= 1 /\ Len(w.rest.queue) + 1 - w.at = n - (i - 1)
        BY <2>1, <3>4
      <4>2. Step(w).at = w.at + 1 /\ Len(Step(w).rest.queue) = Len(w.rest.queue) BY <3>2
      <4>3. n \in Nat /\ i \in Nat BY <1>1
      <4>4. \A m, a \in Nat : m + 1 - a = n - (i - 1) => m + 1 - (a + 1) = n - i BY <4>3
      <4>5. Len(w.rest.queue) + 1 - (w.at + 1) = n - i BY <3>3, <4>1, <4>4
      <4> QED BY <4>1, <4>2, <4>5
    <3> QED BY <2>2, <3>2, <3>4
  <2>3. CASE ~Kept(w)
    <3>1. Step(w) = [w EXCEPT !.rest = RemoveMessage(@, w.at)] BY <2>3
    <3>2. /\ RemoveMessage(w.rest, w.at) \in SortedLists
          /\ Len(RemoveMessage(w.rest, w.at).queue) = Len(w.rest.queue) - 1
      <4> DEFINE t == w.rest
      <4>1. t \in SortedLists /\ t.queue \in Seq(Commands) /\ w.at \in 1 .. Len(t.queue)
        BY <1>4, <2>1 DEF SortedLists
      <4> HIDE DEF t
      <4>2. /\ RemoveMessage(t, w.at) \in SortedLists
            /\ RemoveMessage(t, w.at).queue = RemoveAt(t.queue, w.at)
        BY <4>1, RemoveMessageFacts
      <4>3. IsRemoval(RemoveAt(t.queue, w.at), t.queue, w.at) BY <4>1, RemoveAtFacts
      <4> QED BY <4>2, <4>3 DEF IsRemoval, t
    <3>3. Step(w).rest = RemoveMessage(w.rest, w.at) /\ Step(w).at = w.at /\ Step(w) \in State
      BY <2>1, <3>1, <3>2
    <3> HIDE DEF Step, Kept, State
    <3>4. \A i \in 1 .. n : Left(w, i - 1) => Left(Step(w), i)
      BY <1>1, <2>1, <3>2, <3>3
    <3> QED BY <2>3, <3>3, <3>4
  <2> QED BY <2>2, <2>3
<1>5. ASSUME NEW i \in 1 .. n, NEW w \in State, Left(w, i - 1) PROVE Within(w)
  <2>1. Len(w.rest.queue) \in Nat /\ w.at \in Nat BY <1>1
  <2> QED BY <1>1, <1>5, <2>1
<1> HIDE DEF State, Step, Kept, Within, Left
<1>6. \E g : Sweeps(g)
  <2> DEFINE F == [i \in 1 .. n |-> [w \in State |-> IF Within(w) THEN Step(w) ELSE w]]
  <2>1. F \in StepFunctions(n, State) BY <1>4 DEF StepFunctions
  <2>2. \A i \in 1 .. n : \A w \in State : Within(w) => F[i][w] = Step(w) OBVIOUS
  <2> HIDE DEF F
  <2>3. PICK g \in [0 .. n -> State] : g[0] = Start /\ \A i \in 1 .. n : g[i] = F[i][g[i - 1]]
    <3>1. Sequels(n, State, Start, F) # {} BY <1>1, <1>3, <2>1, StepsExist
    <3> QED BY <3>1 DEF Sequels
  <2> DEFINE T == {i \in 0 .. n : Left(g[i], i)}
  <2>4. 0 \in T BY <1>1, <1>3, <2>3
  <2>5. ASSUME NEW i \in 1 .. n, i - 1 \in T PROVE g[i] = Step(g[i - 1]) /\ i \in T
    <3>1. g[i - 1] \in State /\ Left(g[i - 1], i - 1) BY <1>1, <2>5
    <3>2. Within(g[i - 1]) BY <1>5, <3>1
    <3>3. g[i] = Step(g[i - 1]) BY <2>2, <2>3, <3>1, <3>2
    <3> QED BY <1>4, <3>1, <3>2, <3>3
  <2>6. \A i \in 0 .. n : i \in T
    <3> HIDE DEF T
    <3> QED BY <1>1, <2>4, <2>5, UpTo
  <2>7. ASSUME NEW i \in 1 .. n PROVE g[i] = Step(g[i - 1])
    <3>1. i - 1 \in 0 .. n BY <1>1
    <3> QED BY <2>5, <2>6, <3>1
  <2>8. Sweeps(g) BY <1>1, <2>3, <2>7
  <2> QED BY <2>8
<1>7. Sweeps(swept) BY <1>6
<1> HIDE DEF swept
<1>8. swept[0] = Start /\ \A i \in 1 .. n : swept[i] = Step(swept[i - 1])
  BY <1>1, <1>7
<1> HIDE DEF Sweeps
<1>9. \A i \in 0 .. n : swept[i] \in State /\ Left(swept[i], i)
  <2> DEFINE T == {i \in 0 .. n : swept[i] \in State /\ Left(swept[i], i)}
  <2>1. 0 \in T BY <1>1, <1>3, <1>8
  <2>2. ASSUME NEW i \in 1 .. n, i - 1 \in T PROVE i \in T
    <3>1. swept[i - 1] \in State /\ Left(swept[i - 1], i - 1) BY <2>2
    <3>2. Within(swept[i - 1]) BY <1>5, <3>1
    <3> QED BY <1>1, <1>4, <1>8, <3>1, <3>2
  <2> HIDE DEF T
  <2>3. \A i \in 0 .. n : i \in T BY <1>1, <2>1, <2>2, UpTo
  <2> QED BY <2>3 DEF T
<1>10. ASSUME s \in StrictLists
       PROVE  /\ swept[n].rest \in StrictLists
              /\ ToSet(swept[n].rest.queue) = {c \in ToSet(s.queue) : c.player = p}
  <2> DEFINE Exact(w) ==
               /\ w.rest \in StrictLists
               /\ \A j \in 1 .. w.at - 1 : w.rest.queue[j].player = p
               /\ ToSet(w.rest.queue) \subseteq ToSet(s.queue)
               /\ \A c \in ToSet(s.queue) : c.player = p => c \in ToSet(w.rest.queue)
             T == {i \in 0 .. n : Exact(swept[i])}
  <2>1. 0 \in T BY <1>1, <1>8, <1>10 DEF Start
  <2>2. ASSUME NEW i \in 1 .. n, Exact(swept[i - 1]) PROVE Exact(swept[i])
    <3> DEFINE w == swept[i - 1]
    <3>1. w \in State /\ Left(w, i - 1) BY <1>1, <1>9
    <3>2. Within(w) BY <1>5, <3>1
    <3>3. swept[i] = Step(w) BY <1>8
    <3>4. w.at \in 1 .. Len(w.rest.queue) /\ w.at \in Nat /\ w.rest \in SortedLists
      BY <3>1, <3>2 DEF Within, State
    <3>5. Exact(w) BY <2>2
    <3> HIDE DEF w
    <3>6. CASE Kept(w)
      <4>1. Step(w).rest = w.rest /\ Step(w).at = w.at + 1 BY <1>4, <3>1, <3>2, <3>6
      <4>2. \A j \in 1 .. w.at : w.rest.queue[j].player = p BY <3>4, <3>5, <3>6 DEF Kept
      <4>3. (w.at + 1) - 1 = w.at BY <3>4
      <4> QED BY <3>3, <3>5, <4>1, <4>2, <4>3
    <3>7. CASE ~Kept(w)
      <4>1. Step(w).rest = RemoveMessage(w.rest, w.at) /\ Step(w).at = w.at
        BY <1>4, <3>1, <3>2, <3>7
      <4> DEFINE r == RemoveMessage(w.rest, w.at)
      <4>2. /\ r \in StrictLists /\ r.queue = RemoveAt(w.rest.queue, w.at)
            /\ ToSet(r.queue) = ToSet(w.rest.queue) \ {w.rest.queue[w.at]}
        BY <3>4, <3>5, RemoveMessageFacts
      <4>3. ASSUME NEW j \in 1 .. w.at - 1 PROVE r.queue[j].player = p
        <5>1. w.rest.queue \in Seq(Commands) /\ Len(w.rest.queue) \in Nat
          BY <3>4, LenProperties DEF SortedLists
        <5>2. j \in 1 .. Len(w.rest.queue) - 1 /\ j < w.at BY <3>4, <5>1
        <5>3. IsRemoval(RemoveAt(w.rest.queue, w.at), w.rest.queue, w.at)
          BY <3>4, <5>1, RemoveAtFacts
        <5>4. r.queue[j] = w.rest.queue[j] BY <4>2, <5>2, <5>3 DEF IsRemoval
        <5> QED BY <3>5, <5>4
      <4>4. w.rest.queue[w.at].player # p BY <3>7 DEF Kept
      <4>5. Step(w).rest = r /\ Step(w).at = w.at BY <4>1
      <4> HIDE DEF r
      <4> QED BY <3>3, <3>5, <4>2, <4>3, <4>4, <4>5
    <3> QED BY <3>6, <3>7
  <2> HIDE DEF Exact
  <2>3. \A i \in 1 .. n : i - 1 \in T => i \in T BY <2>2
  <2> HIDE DEF T
  <2>4. \A i \in 0 .. n : i \in T BY <1>1, <2>1, <2>3, UpTo
  <2>5. Exact(swept[n]) /\ swept[n] \in State /\ Left(swept[n], n)
    <3>1. n \in 0 .. n BY <1>1
    <3> QED BY <1>9, <2>4, <3>1 DEF T
  <2> DEFINE w == swept[n]
  <2> HIDE DEF w
  <2>6. /\ w.rest \in SortedLists /\ Len(w.rest.queue) \in Nat /\ w.at \in Nat
        /\ DOMAIN w.rest.queue = 1 .. Len(w.rest.queue)
    BY <2>5, LenProperties DEF w, State, SortedLists
  <2>7. w.at - 1 = Len(w.rest.queue) BY <1>1, <2>5, <2>6 DEF w, Left
  <2>8. \A j \in DOMAIN w.rest.queue : w.rest.queue[j].player = p
    BY <2>5, <2>6, <2>7 DEF Exact, w
  <2>9. \A c \in ToSet(w.rest.queue) : c.player = p BY <2>8 DEF ToSet
  <2> QED BY <2>5, <2>9 DEF Exact, w
<1>11. swept[n].rest \in SortedLists
  <2>1. n \in 0 .. n BY <1>1
  <2> QED BY <1>9, <2>1 DEF State
<1> QED BY <1>2, <1>10, <1>11

--------------------------------------------------------------------------------
(* A strictly sorted list agrees with any other that has the same in it. *)
LEMMA StrictIsPrefix ==
  ASSUME NEW q \in Seq(Commands), NEW r \in Seq(Commands),
         StrictQueue(q), StrictQueue(r), ToSet(q) = ToSet(r)
  PROVE  \A k \in 1 .. Len(q) : k <= Len(r) /\ q[k] = r[k]
<1> DEFINE T == {k \in 1 .. Len(q) : k <= Len(r) /\ q[k] = r[k]}
<1>1. /\ Len(q) \in Nat /\ DOMAIN q = 1 .. Len(q) /\ \A k \in 1 .. Len(q) : q[k] \in Commands
      /\ Len(r) \in Nat /\ DOMAIN r = 1 .. Len(r) /\ \A k \in 1 .. Len(r) : r[k] \in Commands
  BY LenProperties, ElementOfSeq
<1>2. /\ \A j, k \in 1 .. Len(q) : j < k => IsCommandNewer(q[k], q[j])
      /\ \A j, k \in 1 .. Len(r) : j < k => IsCommandNewer(r[k], r[j])
  BY <1>1 DEF StrictQueue
<1>3. /\ \A k \in 1 .. Len(q) : \E m \in 1 .. Len(r) : q[k] = r[m]
      /\ \A k \in 1 .. Len(r) : \E m \in 1 .. Len(q) : r[k] = q[m]
  BY <1>1 DEF ToSet
<1> SUFFICES ASSUME NEW x \in 1 .. Len(q), x \notin T PROVE FALSE
  OBVIOUS
<1>4. PICK k \in 1 .. Len(q) : k \notin T /\ \A j \in 1 .. k - 1 : j \in T
  <2> HIDE DEF T
  <2>1. 1 \in Nat OBVIOUS
  <2> QED BY <1>1, <2>1, LeastOutside
<1>5. \A j \in 1 .. k - 1 : j <= Len(r) /\ q[j] = r[j] BY <1>4
<1>6. PICK m \in 1 .. Len(r) : q[k] = r[m] BY <1>3
<1>7. ~ (m < k)
  <2> SUFFICES ASSUME m < k PROVE FALSE OBVIOUS
  <2>1. m \in 1 .. k - 1 /\ m \in 1 .. Len(q) BY <1>1
  <2>2. q[m] = q[k] BY <1>5, <1>6, <2>1
  <2>3. IsCommandNewer(q[k], q[m]) BY <1>2, <2>1
  <2> QED BY <1>1, <2>2, <2>3, NewerFacts
<1>8. k < m /\ k \in 1 .. Len(r)
  <2>1. k <= Len(r) BY <1>1, <1>7
  <2>2. q[k] # r[k] BY <1>4, <2>1
  <2>3. m # k BY <1>6, <2>2
  <2> QED BY <1>1, <1>7, <2>1, <2>3
<1>9. PICK h \in 1 .. Len(q) : r[k] = q[h] BY <1>3, <1>8
<1>10. CASE h < k
  <2>1. h \in 1 .. k - 1 /\ h \in 1 .. Len(r) BY <1>1, <1>8, <1>10
  <2>2. r[h] = r[k] BY <1>5, <1>9, <2>1
  <2>3. IsCommandNewer(r[k], r[h]) BY <1>2, <1>8, <1>10, <2>1
  <2> QED BY <1>1, <1>8, <2>2, <2>3, NewerFacts
<1>11. CASE h = k BY <1>1, <1>4, <1>8, <1>9, <1>11
<1>12. CASE h > k
  <2>1. IsCommandNewer(q[h], q[k]) BY <1>2, <1>12
  <2>2. IsCommandNewer(r[m], r[k]) BY <1>2, <1>8
  <2>3. q[h] \in Commands /\ q[k] \in Commands BY <1>1
  <2> QED BY <1>6, <1>9, <2>1, <2>2, <2>3, NewerFacts
<1> QED BY <1>1, <1>10, <1>11, <1>12

(* There is one strictly sorted list of a set of commands. *)
LEMMA StrictUnique ==
  ASSUME NEW q \in Seq(Commands), NEW r \in Seq(Commands),
         StrictQueue(q), StrictQueue(r), ToSet(q) = ToSet(r)
  PROVE  q = r
<1>1. Len(q) \in Nat /\ Len(r) \in Nat BY LenProperties
<1>2. \A k \in 1 .. Len(q) : k <= Len(r) /\ q[k] = r[k] BY StrictIsPrefix
<1>3. \A k \in 1 .. Len(r) : k <= Len(q) BY StrictIsPrefix
<1>4. Len(q) <= Len(r)
  <2>1. CASE Len(q) = 0 BY <1>1, <2>1
  <2>2. CASE Len(q) > 0
    <3>1. Len(q) \in 1 .. Len(q) BY <1>1, <2>2
    <3> QED BY <1>2, <3>1
  <2> QED BY <1>1, <2>1, <2>2
<1>5. Len(r) <= Len(q)
  <2>1. CASE Len(r) = 0 BY <1>1, <2>1
  <2>2. CASE Len(r) > 0
    <3>1. Len(r) \in 1 .. Len(r) BY <1>1, <2>2
    <3> QED BY <1>3, <3>1
  <2> QED BY <1>1, <2>1, <2>2
<1>6. Len(q) = Len(r) BY <1>1, <1>4, <1>5
<1> QED BY <1>2, <1>6, SeqEqual

--------------------------------------------------------------------------------
(* Whatever the commands are, every list is in order. *)
IInv ==
    /\ list \in [Lists -> SortedLists]
    /\ given \in [Lists -> SUBSET Commands]

(* If no two commands tie, a list is exactly what was put in and not taken out. *)
Exact ==
    \A l \in Lists : list[l] \in StrictLists /\ ToSet(list[l].queue) = given[l]

LEMMA EmptyFacts == Empty \in StrictLists /\ ToSet(Empty.queue) = {}
<1>1. <<>> \in Seq(Commands) /\ Len(<<>>) = 0 /\ DOMAIN <<>> = {}
  BY EmptySeq
<1> QED BY <1>1 DEF Empty, StrictLists, SortedLists, SortedQueue, StrictQueue, ToSet

(* Every step leaves the lists in order. *)
THEOREM Invariance == Spec => []IInv
<1>1. Init => IInv
  BY EmptyFacts DEF Init, IInv, StrictLists
<1>2. IInv /\ [Next]_vars => IInv'
  <2> SUFFICES ASSUME IInv, [Next]_vars PROVE IInv' OBVIOUS
  <2> USE DEF IInv
  <2>1. ASSUME NEW l \in Lists, NEW c \in Commands, SendNetCommandMsg(l, c) PROVE IInv'
    <3>1. AddMessage(list[l], c) \in SortedLists BY AddMessageSorted
    <3> QED BY <2>1, <3>1 DEF SendNetCommandMsg
  <2>2. ASSUME NEW l \in Lists, NEW c \in Commands, AddCommand(l, c) PROVE IInv'
    <3>1. AddMessage(list[l], c) \in SortedLists BY AddMessageSorted
    <3> QED BY <2>2, <3>1 DEF AddCommand
  <2>3. ASSUME NEW l \in Lists, NEW i \in DOMAIN list[l].queue, RemoveOne(l, i) PROVE IInv'
    <3>1. i \in 1 .. Len(list[l].queue) BY LenProperties DEF SortedLists
    <3>2. RemoveMessage(list[l], i) \in SortedLists BY <3>1, RemoveMessageFacts
    <3> QED BY <2>3, <3>2 DEF RemoveOne
  <2>4. ASSUME NEW l \in Lists, NEW p, ClearCommandsExceptFrom(l, p) PROVE IInv'
    <3>1. RemoveExceptFrom(list[l], p) \in SortedLists BY RemoveExceptFromFacts
    <3> QED BY <2>4, <3>1 DEF ClearCommandsExceptFrom
  <2>5. ASSUME NEW l \in Lists, NEW m \in Lists, CollectFrom(l, m) PROVE IInv'
    <3>1. AppendList(list[l], list[m]) \in SortedLists BY AppendListFacts
    <3> QED BY <2>5, <3>1 DEF CollectFrom
  <2>6. ASSUME NEW l \in Lists, Reset(l) PROVE IInv'
    <3>1. Empty \in SortedLists BY EmptyFacts DEF StrictLists
    <3> QED BY <2>6, <3>1 DEF Reset
  <2>7. CASE UNCHANGED vars BY <2>7 DEF vars
  <2> QED BY <2>1, <2>2, <2>3, <2>4, <2>5, <2>6, <2>7 DEF Next
<1> QED BY <1>1, <1>2, PTL DEF Spec

(* Every list is a sequence of commands with the cursor in it or null, whatever   *)
(* commands there are.                                                            *)
THEOREM TypeCorrect == Spec => []TypeOK
<1>1. IInv => TypeOK
  BY DEF IInv, TypeOK, SortedLists
<1> QED BY <1>1, Invariance, PTL

(* No command ever stands before one it is newer than, whatever commands there    *)
(* are, those that tie included.                                                  *)
THEOREM SortedHolds == Spec => []Sorted
<1>1. IInv => Sorted
  BY DEF IInv, Sorted, SortedLists, SortedQueue
<1> QED BY <1>1, Invariance, PTL

(* If no two commands tie, nothing is lost, kept twice or let through. *)
THEOREM ExactInvariance ==
  ASSUME DistinctCommands
  PROVE  Spec => []Exact
<1>1. Init => Exact
  BY EmptyFacts DEF Init, Exact
<1>2. IInv /\ Exact /\ [Next]_vars => Exact'
  <2> SUFFICES ASSUME IInv, Exact, [Next]_vars PROVE Exact' OBVIOUS
  <2>0. \A l \in Lists : list[l] \in StrictLists /\ list[l] \in SortedLists /\ ToSet(list[l].queue) = given[l]
    BY DEF Exact, StrictLists
  <2>l. list \in [Lists -> SortedLists] /\ given \in [Lists -> SUBSET Commands]
    BY DEF IInv
  <2>1. ASSUME NEW l \in Lists, NEW s \in StrictLists,
               list' = [list EXCEPT ![l] = s], given' = [given EXCEPT ![l] = ToSet(s.queue)]
        PROVE  Exact'
    BY <2>0, <2>l, <2>1 DEF Exact
  <2>2. ASSUME NEW l \in Lists, NEW c \in Commands, SendNetCommandMsg(l, c) PROVE Exact'
    <3> DEFINE s == AddMessage(list[l], c)
    <3>1. s \in StrictLists /\ ToSet(s.queue) = given[l] \cup {c}
      BY <2>0, AddMessageExact
    <3>2. list' = [list EXCEPT ![l] = s] /\ given' = [given EXCEPT ![l] = given[l] \cup {c}]
      BY <2>2 DEF SendNetCommandMsg
    <3> HIDE DEF s
    <3> QED BY <2>1, <3>1, <3>2
  <2>3. ASSUME NEW l \in Lists, NEW c \in Commands, AddCommand(l, c) PROVE Exact'
    <3> DEFINE s == IF FindMessage(list[l], c) THEN list[l] ELSE AddMessage(list[l], c)
    <3>1. s \in StrictLists /\ ToSet(s.queue) = given[l] \cup {c}
      <4>1. CASE FindMessage(list[l], c)
        <5>1. PICK i \in DOMAIN list[l].queue : IsEqualCommandMsg(list[l].queue[i], c)
          BY <4>1 DEF FindMessage
        <5>2. list[l].queue[i] \in given[l] BY <2>0 DEF ToSet
        <5>3. list[l].queue[i] \in Commands BY <2>l, <5>2
        <5>4. list[l].queue[i] = c BY <5>1, <5>3 DEF DistinctCommands
        <5> QED BY <2>0, <4>1, <5>2, <5>4
      <4>2. CASE ~FindMessage(list[l], c) BY <2>0, <4>2, AddMessageExact
      <4> QED BY <4>1, <4>2
    <3>2. list' = [list EXCEPT ![l] = s] /\ given' = [given EXCEPT ![l] = given[l] \cup {c}]
      BY <2>3 DEF AddCommand
    <3> HIDE DEF s
    <3> QED BY <2>1, <3>1, <3>2
  <2>4. ASSUME NEW l \in Lists, NEW i \in DOMAIN list[l].queue, RemoveOne(l, i) PROVE Exact'
    <3> DEFINE s == RemoveMessage(list[l], i)
    <3>1. i \in 1 .. Len(list[l].queue) BY <2>0, LenProperties DEF SortedLists
    <3>2. s \in StrictLists /\ ToSet(s.queue) = given[l] \ {list[l].queue[i]}
      BY <2>0, <3>1, RemoveMessageFacts
    <3>3. /\ list' = [list EXCEPT ![l] = s]
          /\ given' = [given EXCEPT ![l] = given[l] \ {list[l].queue[i]}]
      BY <2>4 DEF RemoveOne
    <3> HIDE DEF s
    <3> QED BY <2>1, <3>2, <3>3
  <2>5. ASSUME NEW l \in Lists, NEW p, ClearCommandsExceptFrom(l, p) PROVE Exact'
    <3> DEFINE s == RemoveExceptFrom(list[l], p)
    <3>1. s \in StrictLists /\ ToSet(s.queue) = {c \in given[l] : c.player = p}
      BY <2>0, RemoveExceptFromFacts
    <3>2. /\ list' = [list EXCEPT ![l] = s]
          /\ given' = [given EXCEPT ![l] = {c \in given[l] : c.player = p}]
      BY <2>5 DEF ClearCommandsExceptFrom
    <3> HIDE DEF s
    <3> QED BY <2>1, <3>1, <3>2
  <2>6. ASSUME NEW l \in Lists, NEW m \in Lists, CollectFrom(l, m) PROVE Exact'
    <3> DEFINE s == AppendList(list[l], list[m])
    <3>1. s \in StrictLists /\ ToSet(s.queue) = given[l] \cup given[m]
      <4>1. /\ list[l] \in SortedLists /\ list[m] \in SortedLists /\ list[l] \in StrictLists
            /\ ToSet(list[l].queue) = given[l] /\ ToSet(list[m].queue) = given[m]
        BY <2>0
      <4>2. s \in StrictLists /\ ToSet(s.queue) = ToSet(list[l].queue) \cup ToSet(list[m].queue)
        BY <4>1, AppendListFacts
      <4> QED BY <4>1, <4>2, Zenon
    <3>2. /\ list' = [list EXCEPT ![l] = s]
          /\ given' = [given EXCEPT ![l] = given[l] \cup given[m]]
      BY <2>6 DEF CollectFrom
    <3> HIDE DEF s
    <3> QED BY <2>1, <3>1, <3>2
  <2>7. ASSUME NEW l \in Lists, Reset(l) PROVE Exact'
    BY <2>1, <2>7, EmptyFacts DEF Reset
  <2>8. CASE UNCHANGED vars BY <2>8 DEF vars, Exact
  <2> QED BY <2>2, <2>3, <2>4, <2>5, <2>6, <2>7, <2>8 DEF Next
<1> QED BY <1>1, <1>2, Invariance, PTL DEF Spec

(* If no two commands tie, a list holds exactly what was added and not removed. *)
THEOREM ContentsExactHolds ==
  ASSUME DistinctCommands
  PROVE  Spec => []ContentsExact
<1>1. Exact => ContentsExact BY DEF Exact, ContentsExact
<1> QED BY <1>1, ExactInvariance, PTL

(* If no two commands tie, two lists with the same commands are the same list,    *)
(* so that two machines execute what they have for a frame in the same order.     *)
THEOREM SameOrderHolds ==
  ASSUME DistinctCommands
  PROVE  Spec => []SameOrder
<1>1. Exact => SameOrder
  <2> SUFFICES ASSUME Exact, NEW l \in Lists, NEW m \in Lists, given[l] = given[m]
               PROVE  list[l].queue = list[m].queue
    BY DEF SameOrder
  <2>1. /\ list[l].queue \in Seq(Commands) /\ StrictQueue(list[l].queue)
        /\ list[m].queue \in Seq(Commands) /\ StrictQueue(list[m].queue)
        /\ ToSet(list[l].queue) = ToSet(list[m].queue)
    BY DEF Exact, StrictLists, SortedLists
  <2> QED BY <2>1, StrictUnique
<1> QED BY <1>1, ExactInvariance, PTL
===============================================================================
