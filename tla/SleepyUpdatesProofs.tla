-------------------------- MODULE SleepyUpdatesProofs --------------------------
(***************************************************************************)
(* Proofs about SleepyUpdates, for any number of modules and objects, any  *)
(* phases and any delays.                                                  *)
(*                                                                         *)
(* The argument: while the heap is being restored only the edges at one    *)
(* node are out of order, and the node above it is to be called no later   *)
(* than the nodes below it; so whichever way the node goes the order       *)
(* comes back.  The node whose update is running cannot be overtaken: what *)
(* it wakes up is to be called in a later frame, and what it creates is    *)
(* called now at the earliest, in a phase that is not before its own.  In  *)
(* a heap that is in order the root is called first, so a root that sleeps *)
(* means that all sleep.                                                   *)
(***************************************************************************)
EXTENDS SleepyUpdates, SequenceTheorems, WellFoundedInduction, TLAPS

\* Where something is being restored, and what goes on then.
Control ==
    /\ low > 1 => pass = "child" /\ stage = "commands"
    /\ pass # "none" => at \in 1 .. Size
    /\ pass = "child" => low <= at
    /\ leaving # {} => stage = "deleting"
    /\ current # None => stage = "updates"

\* Modules are in the heap, about to join it, or not yet created.
Membership ==
    /\ \A m \in joining : ~Listed(m) /\ ObjectOf[m] \notin unborn
    /\ \A m \in leaving : Listed(m)
    /\ \A m \in Modules : ObjectOf[m] \in unborn => ~Listed(m)

InOrder(i) == Priority(heap[Parent(i)]) <= Priority(heap[i])

\* The edges, each named by its lower node, that are being restored.
Unsettled(i) ==
    \/ pass \in {"push", "both"} /\ i = at
    \/ pass \in {"both", "child"} /\ Parent(i) = at

\* All other edges are in order.
Order == \A i \in 2 .. Size : Parent(i) >= low /\ ~Unsettled(i) => InOrder(i)

\* The node above the one being restored is called no later than those below it.
Bridge ==
    pass # "none" /\ at >= 2 /\ Parent(at) >= low =>
        \A c \in 2 .. Size :
            Parent(c) = at => Priority(heap[Parent(at)]) <= Priority(heap[c])

\* Nothing that is on its way up comes before the module whose update is running.
Running ==
    current # None =>
        /\ Size > 0 /\ heap[1] = current
        /\ wake[current] <= now
        /\ pass # "none" => at >= 2 /\ Priority(heap[at]) >= Priority(current)
        /\ \A m \in joining : Priority(m) >= Priority(current)

\* What is still to be called in this frame is not of an earlier phase than the last.
ToCome(m) == wake[m] > now \/ (wake[m] = now /\ Phase[m] >= lastPhase)

Phases ==
    /\ stage = "commands" => lastPhase = 0
    /\ stage = "updates" /\ lastPhase > 0 =>
         \A m \in Modules : Listed(m) \/ m \in joining => ToCome(m)
    /\ current # None /\ lastPhase > 0 => lastPhase = Phase[current]
    
IInv ==
    /\ TypeOK /\ IndexInLogic /\ Control /\ Membership
    /\ Order /\ Bridge /\ Running /\ Phases

--------------------------------------------------------------------------------
\* The tree: a node has one node above it.
LEMMA ParentFacts ==
    ASSUME NEW i \in Nat, i >= 2
    PROVE  Parent(i) \in 1 .. i - 1 /\ \A p \in Nat : Parent(i) = p <=> i \in {2 * p, 2 * p + 1}
BY DEF Parent

LEMMA NodeFacts ==
    ASSUME NEW n \in Nat, NEW i \in 2 .. n
    PROVE  Parent(i) \in Nat /\ Parent(i) \in 1 .. n /\ Parent(i) < i
<1>1. i \in Nat /\ i >= 2
  OBVIOUS
<1>2. Parent(i) \in 1 .. i - 1
  BY <1>1, ParentFacts
<1>3. QED
  BY <1>1, <1>2

\* The values of the heap.
LEMMA HeapFacts ==
    ASSUME TypeOK
    PROVE  /\ Size \in Nat /\ \A i \in 1 .. Size : heap[i] \in Modules
           /\ \A m \in Modules : Priority(m) \in Nat
<1>1. Size \in Nat /\ \A i \in 1 .. Size : heap[i] \in Modules
  <2>1. heap \in Seq(Modules)
    BY DEF TypeOK
  <2>2. QED
    BY <2>1, ElementOfSeq, LenProperties DEF Size
<1>2. \A m \in Modules : wake[m] \in Nat /\ Phase[m] \in Nat
  <2>1. 0 .. Forever \subseteq Nat /\ 0 .. 3 \subseteq Nat
    BY SleepyAssumption
  <2>2. Phase \in [Modules -> 0 .. 3]
    BY SleepyAssumption
  <2>3. QED
    BY <2>1, <2>2 DEF TypeOK
<1>3. QED
  BY <1>1, <1>2 DEF Priority

\* Two elements of a sequence change places.
LEMMA SwapInSeq ==
    ASSUME NEW S, NEW s \in Seq(S), NEW i \in 1 .. Len(s), NEW j \in 1 .. Len(s),
           NEW t, t = [s EXCEPT ![i] = s[j], ![j] = s[i]]
    PROVE  /\ t \in Seq(S) /\ Len(t) = Len(s)
           /\ \A k \in 1 .. Len(s) : t[k] = IF k = j THEN s[i] ELSE IF k = i THEN s[j] ELSE s[k]
<1> DEFINE h == [s EXCEPT ![i] = s[j]]
<1>1. s[i] \in S /\ s[j] \in S
  BY ElementOfSeq
<1>2. /\ h \in Seq(S) /\ Len(h) = Len(s)
      /\ \A k \in 1 .. Len(s) : h[k] = IF k = i THEN s[j] ELSE s[k]
  BY <1>1, ExceptSeq
<1>3. t = [h EXCEPT ![j] = s[i]]
  OBVIOUS
<1> HIDE DEF h
<1>4. /\ t \in Seq(S) /\ Len(t) = Len(s)
      /\ \A k \in 1 .. Len(s) : t[k] = IF k = j THEN s[i] ELSE h[k]
  <2>1. j \in 1 .. Len(h)
    BY <1>2
  <2>2. /\ t \in Seq(S) /\ Len(t) = Len(h)
        /\ \A k \in 1 .. Len(h) : t[k] = IF k = j THEN s[i] ELSE h[k]
    BY <1>1, <1>2, <1>3, <2>1, ExceptSeq
  <2>3. QED
    BY <1>2, <2>2
<1>5. QED
  BY <1>2, <1>4

\* Two modules change places, and both know it.
LEMMA SwapFacts ==
    ASSUME TypeOK, IndexInLogic, NEW i \in 1 .. Size, NEW j \in 1 .. Size, i # j, Swap(i, j)
    PROVE  /\ heap' \in Seq(Modules) /\ Size' = Size
           /\ \A k \in 1 .. Size :
                heap'[k] = IF k = j THEN heap[i] ELSE IF k = i THEN heap[j] ELSE heap[k]
           /\ index' \in [Modules -> Nat]
           /\ \A m \in Modules : Listed(m)' = Listed(m)
           /\ IndexInLogic'
<1> USE HeapFacts
<1>1. heap \in Seq(Modules) /\ heap[i] \in Modules /\ heap[j] \in Modules /\ heap[i] # heap[j]
  BY DEF TypeOK, IndexInLogic
<1>4. /\ heap' \in Seq(Modules) /\ Size' = Size
      /\ \A k \in 1 .. Size :
           heap'[k] = IF k = j THEN heap[i] ELSE IF k = i THEN heap[j] ELSE heap[k]
  <2>1. heap' = [heap EXCEPT ![i] = heap[j], ![j] = heap[i]]
    BY DEF Swap
  <2>2. QED
    BY <1>1, <2>1, SwapInSeq DEF Size
<1>5. index' = [index EXCEPT ![heap[i]] = j, ![heap[j]] = i]
  BY DEF Swap, IndexAfterSwap
<1>6. \A m \in Modules : index'[m] = IF m = heap[i] THEN j ELSE IF m = heap[j] THEN i ELSE index[m]
  BY <1>1, <1>5 DEF TypeOK
<1>7. index[heap[i]] = i /\ index[heap[j]] = j
  BY DEF IndexInLogic
<1>8. \A m \in Modules : index[m] \in Nat
  BY DEF TypeOK, Modules
<1>9. \A m \in Modules : Listed(m)' = Listed(m)
  BY <1>1, <1>6, <1>7, <1>8 DEF Listed
<1>10. IndexInLogic'
  <2>1. \A k \in 1 .. Size : heap[k] \in Modules /\ index[heap[k]] = k
    BY DEF IndexInLogic
  <2>2. \A m \in Modules : index[m] # 0 => index[m] \in 1 .. Size /\ heap[index[m]] = m
    BY <1>8 DEF IndexInLogic, Listed
  <2>3. \A k \in 1 .. Size : index'[heap'[k]] = k
    <3> SUFFICES ASSUME NEW k \in 1 .. Size PROVE index'[heap'[k]] = k
      OBVIOUS
    <3>1. CASE k = i
      BY <1>1, <1>4, <1>6, <3>1
    <3>2. CASE k = j
      BY <1>1, <1>4, <1>6, <3>2
    <3>3. CASE k # i /\ k # j
      <4>1. heap'[k] = heap[k] /\ heap[k] \in Modules /\ index[heap[k]] = k
        BY <1>4, <2>1, <3>3
      <4>2. heap[k] # heap[i] /\ heap[k] # heap[j]
        BY <1>7, <3>3, <4>1
      <4>3. QED
        BY <1>6, <4>1, <4>2
    <3>4. QED
      BY <3>1, <3>2, <3>3
  <2>4. \A m \in Modules : index'[m] # 0 => index'[m] <= Size /\ heap'[index'[m]] = m
    <3> SUFFICES ASSUME NEW m \in Modules, index'[m] # 0
                 PROVE  index'[m] <= Size /\ heap'[index'[m]] = m
      OBVIOUS
    <3>1. CASE m = heap[i]
      <4>1. index'[m] = j
        BY <1>6, <3>1
      <4>2. QED
        BY <1>4, <3>1, <4>1
    <3>2. CASE m = heap[j]
      <4>1. index'[m] = i
        BY <1>1, <1>6, <3>2
      <4>2. QED
        BY <1>4, <3>2, <4>1
    <3>3. CASE m # heap[i] /\ m # heap[j]
      <4>1. index'[m] = index[m] /\ index[m] \in 1 .. Size /\ heap[index[m]] = m
        BY <1>6, <2>2, <3>3
      <4>2. index[m] # i /\ index[m] # j
        BY <3>3, <4>1
      <4>3. QED
        BY <1>4, <4>1, <4>2
    <3>4. QED
      BY <3>1, <3>2, <3>3
  <2>5. QED
    BY <1>4, <2>3, <2>4 DEF IndexInLogic, Listed
<1>11. index' \in [Modules -> Nat]
  BY <1>1, <1>5, <1>7 DEF TypeOK
<1>12. QED
  BY <1>4, <1>9, <1>10, <1>11

--------------------------------------------------------------------------------
\* The order of the nodes of a tree, P before a change and Q after it.

\* The node a and the one above it change places.
LEMMA RiseInTree ==
    ASSUME NEW n \in Nat, NEW P \in [1 .. n -> Int], NEW Q \in [1 .. n -> Int],
           NEW a \in 2 .. n, NEW p, p = Parent(a),
           \A k \in 1 .. n : Q[k] = IF k = p THEN P[a] ELSE IF k = a THEN P[p] ELSE P[k],
           P[p] > P[a],
           \A i \in 2 .. n : i # a /\ Parent(i) # a => P[Parent(i)] <= P[i],
           \A c \in 2 .. n : Parent(c) = a => P[p] <= P[c]
    PROVE  /\ \A i \in 2 .. n : i # p => Q[Parent(i)] <= Q[i]
           /\ p >= 2 => \A c \in 2 .. n : Parent(c) = p => Q[Parent(p)] <= Q[c]
<1>0. \A k \in 1 .. n : P[k] \in Int /\ Q[k] \in Int
  OBVIOUS
<1>1. p \in Nat /\ p \in 1 .. n /\ p < a /\ a \in 1 .. n
  BY NodeFacts
<1>2. \A i \in 2 .. n : Parent(i) \in Nat /\ Parent(i) \in 1 .. n /\ Parent(i) < i
  BY NodeFacts
<1>3. Q[p] = P[a] /\ Q[a] = P[p] /\ \A k \in 1 .. n : k # p /\ k # a => Q[k] = P[k]
  BY <1>1
<1>4. P[p] \in Int /\ P[a] \in Int
  BY <1>1
<1>5. ASSUME NEW i \in 2 .. n, i # p PROVE Q[Parent(i)] <= Q[i]
  <2>1. CASE i = a
    BY <1>3, <1>4, <2>1
  <2>2. CASE i # a /\ Parent(i) = a
    <3>1. P[p] <= P[i] /\ Q[i] = P[i] /\ Q[a] = P[p]
      BY <1>3, <1>5, <2>2
    <3>2. QED
      BY <2>2, <3>1
  <2>3. CASE i # a /\ Parent(i) = p
    <3>1. P[p] <= P[i] /\ Q[i] = P[i] /\ Q[p] = P[a] /\ P[i] \in Int
      BY <1>0, <1>1, <1>3, <1>5, <2>3
    <3>2. QED
      BY <1>4, <2>3, <3>1
  <2>4. CASE i # a /\ Parent(i) # a /\ Parent(i) # p
    <3>1. P[Parent(i)] <= P[i] /\ Q[i] = P[i]
      BY <1>3, <1>5, <2>4
    <3>2. Q[Parent(i)] = P[Parent(i)]
      BY <1>2, <1>3, <2>4
    <3>3. QED
      BY <3>1, <3>2
  <2>5. QED
    BY <2>1, <2>2, <2>3, <2>4
<1>6. ASSUME p >= 2, NEW c \in 2 .. n, Parent(c) = p PROVE Q[Parent(p)] <= Q[c]
  <2>1. p \in 2 .. n /\ p # a
    BY <1>1, <1>6
  <2>2. Parent(p) \in 1 .. n /\ Parent(p) # p /\ Parent(p) # a
    <3>1. Parent(p) \in Nat /\ Parent(p) \in 1 .. n /\ Parent(p) < p
      BY <2>1, NodeFacts
    <3>2. QED
      BY <1>1, <3>1
  <2>3. Q[Parent(p)] = P[Parent(p)] /\ P[Parent(p)] <= P[p] /\ P[Parent(p)] \in Int
    BY <1>0, <1>3, <2>1, <2>2
  <2>4. c # p /\ P[p] <= Q[c] /\ Q[c] \in Int
    <3>1. CASE c = a
      BY <1>1, <1>3, <1>4, <3>1
    <3>2. CASE c # a
      <4>1. c # p /\ Parent(c) # a
        <5>1. Parent(c) < c /\ c \in Nat
          BY <1>2
        <5>2. QED
          BY <1>1, <1>6, <5>1
      <4>2. P[Parent(c)] <= P[c]
        BY <3>2, <4>1
      <4>3. QED
        BY <1>0, <1>3, <1>6, <3>2, <4>1, <4>2
    <3>3. QED
      BY <3>1, <3>2
  <2>5. QED
    BY <1>4, <2>3, <2>4
<1>7. QED
  BY <1>5, <1>6

\* The node a gets another value; the tree may also lose its last node.
LEMMA ChangeInTree ==
    ASSUME NEW n \in Nat, NEW P \in [1 .. n -> Int], NEW m \in 0 .. n, NEW Q \in [1 .. m -> Int],
           NEW a \in 1 .. n,
           \A k \in 1 .. m : k # a => Q[k] = P[k],
           \A i \in 2 .. n : P[Parent(i)] <= P[i]
    PROVE  /\ \A i \in 2 .. m : i # a /\ Parent(i) # a => Q[Parent(i)] <= Q[i]
           /\ a >= 2 => \A c \in 2 .. m : Parent(c) = a => Q[Parent(a)] <= Q[c]
<1>1. \A i \in 2 .. n : Parent(i) \in Nat /\ Parent(i) \in 1 .. n /\ Parent(i) < i
  BY NodeFacts
<1>2. ASSUME NEW i \in 2 .. m, i # a, Parent(i) # a PROVE Q[Parent(i)] <= Q[i]
  <2>1. i \in 2 .. n /\ Parent(i) \in 1 .. m
    BY <1>1
  <2>2. QED
    BY <1>2, <2>1
<1>3. ASSUME a >= 2, NEW c \in 2 .. m, Parent(c) = a PROVE Q[Parent(a)] <= Q[c]
  <2>1. c \in 2 .. n /\ a < c /\ Parent(a) \in 1 .. a - 1
    BY <1>1, <1>3
  <2>2. P[Parent(a)] <= P[a] /\ P[a] <= P[c]
    <3>1. a \in 2 .. n
      BY <1>3
    <3>2. P[Parent(a)] <= P[a] /\ P[Parent(c)] <= P[c]
      BY <2>1, <3>1
    <3>3. QED
      BY <1>3, <3>2
  <2>3. Q[c] = P[c] /\ Q[Parent(a)] = P[Parent(a)]
    BY <2>1
  <2>4. P[a] \in Int /\ P[c] \in Int /\ P[Parent(a)] \in Int
    BY <2>1
  <2>5. QED
    BY <2>2, <2>3, <2>4
<1>4. QED
  BY <1>2, <1>3

--------------------------------------------------------------------------------
\* Each step preserves the invariant.

\* Facts that a restoring step leaves alone.
LEMMA RestoreKeeps ==
    ASSUME IInv, UNCHANGED <<wake, joining, leaving, unborn, current, now, stage, lastPhase>>,
           \A m \in Modules : Listed(m)' = Listed(m)
    PROVE  Membership' /\ Phases' /\ \A m \in Modules : Priority(m)' = Priority(m)
<1>1. joining \subseteq Modules /\ leaving \subseteq Modules
  BY DEF IInv, TypeOK
<1>2. Membership'
  BY <1>1 DEF IInv, Membership, Listed
<1>3. Phases'
  BY <1>1 DEF IInv, Phases, Listed, ToCome
<1>4. QED
  BY <1>2, <1>3 DEF Priority

LEMMA RiseStep == ASSUME IInv, Rise PROVE IInv'
<1> DEFINE p == Parent(at)
           P == [k \in 1 .. Size |-> Priority(heap[k])]
           Q == [k \in 1 .. Size |-> Priority(heap'[k])]
<1>1. TypeOK /\ IndexInLogic /\ Control /\ Membership /\ Order /\ Bridge /\ Running /\ Phases
  BY DEF IInv
<1>2. Size \in Nat /\ (\A i \in 1 .. Size : heap[i] \in Modules) /\ \A m \in Modules : Priority(m) \in Nat
  BY <1>1, HeapFacts
<1>3. at \in 2 .. Size /\ pass \in {"push", "both"} /\ low = 1 /\ Swap(at, p) /\ at' = p
      /\ UNCHANGED <<wake, pass, low, joining, leaving, unborn, dying, current, now, stage, lastPhase>>
  BY <1>1 DEF Rise, MustRise, Control, TypeOK, world, clock
<1>4. p \in Nat /\ p \in 1 .. Size /\ p < at /\ Priority(heap[p]) > Priority(heap[at])
  BY <1>2, <1>3, NodeFacts DEF Rise, MustRise
<1>5. /\ heap' \in Seq(Modules) /\ Size' = Size
      /\ \A k \in 1 .. Size :
           heap'[k] = IF k = p THEN heap[at] ELSE IF k = at THEN heap[p] ELSE heap[k]
      /\ index' \in [Modules -> Nat]
      /\ \A m \in Modules : Listed(m)' = Listed(m)
      /\ IndexInLogic'
  BY <1>1, <1>3, <1>4, SwapFacts
<1>6. Membership' /\ Phases' /\ \A m \in Modules : Priority(m)' = Priority(m)
  BY <1>3, <1>5, RestoreKeeps
<1>7. TypeOK'
  BY <1>1, <1>3, <1>4, <1>5 DEF TypeOK
<1>8. Control'
  BY <1>1, <1>3, <1>4, <1>5 DEF Control
<1>9. Order' /\ Bridge'
  <2>1. P \in [1 .. Size -> Int]
    BY <1>2
  <2>2. \A k \in 1 .. Size : Q[k] = IF k = p THEN P[at] ELSE IF k = at THEN P[p] ELSE P[k]
    BY <1>2, <1>3, <1>4, <1>5
  <2>3. Q \in [1 .. Size -> Int]
    <3>1. \A k \in 1 .. Size : heap'[k] \in Modules
      BY <1>5, ElementOfSeq DEF Size
    <3>2. QED
      BY <1>2, <3>1
  <2>4. \A i \in 2 .. Size : i # at /\ Parent(i) # at => P[Parent(i)] <= P[i]
    BY <1>1, <1>2, <1>3, NodeFacts DEF Order, InOrder, Unsettled
  <2>5. \A c \in 2 .. Size : Parent(c) = at => P[p] <= P[c]
    BY <1>1, <1>2, <1>3, <1>4, NodeFacts DEF Bridge
  <2>6. P[p] > P[at]
    BY <1>3, <1>4
  <2> HIDE DEF P, Q, p
  <2>7. /\ \A i \in 2 .. Size : i # p => Q[Parent(i)] <= Q[i]
        /\ p >= 2 => \A c \in 2 .. Size : Parent(c) = p => Q[Parent(p)] <= Q[c]
    BY <1>2, <1>3, <2>1, <2>2, <2>3, <2>4, <2>5, <2>6, RiseInTree DEF p
  <2>8. \A k \in 1 .. Size : Priority(heap[k])' = Q[k]
    BY <1>3 DEF Priority, Q
  <2>9. \A i \in 2 .. Size : Parent(i) \in 1 .. Size /\ i \in 1 .. Size
    BY <1>2, NodeFacts
  <2>10. Order'
    <3> SUFFICES ASSUME NEW i \in 2 .. Size, i # p PROVE InOrder(i)'
      BY <1>3, <1>5 DEF Order, Unsettled
    <3>1. QED
      BY <2>7, <2>8, <2>9 DEF InOrder
  <2>11. Bridge'
    <3>1. ASSUME p >= 2, NEW c \in 2 .. Size, Parent(c) = p
          PROVE  Priority(heap'[Parent(p)]) <= Priority(heap'[c])
      <4>1. Parent(p) \in 1 .. Size /\ c \in 1 .. Size
        BY <1>4, <2>9, <3>1
      <4>2. Q[Parent(p)] <= Q[c]
        BY <2>7, <3>1
      <4>3. QED
        BY <4>1, <4>2 DEF Q
    <3>2. QED
      BY <1>3, <1>5, <3>1 DEF Bridge, Priority
  <2>12. QED
    BY <2>10, <2>11
<1>10. Running'
  <2> SUFFICES ASSUME current # None PROVE Running'
    BY <1>3 DEF Running
  <2>1. Size > 0 /\ heap[1] = current /\ wake[current] <= now
        /\ Priority(heap[at]) >= Priority(current)
        /\ \A m \in joining : Priority(m) >= Priority(current)
    BY <1>1, <1>3 DEF Running
  <2>2. p # 1
    BY <1>2, <1>3, <1>4, <2>1
  <2>3. heap'[1] = heap[1] /\ heap'[p] = heap[at]
    BY <1>2, <1>3, <1>4, <1>5, <2>2
  <2>4. current \in Modules /\ joining \subseteq Modules /\ heap[at] \in Modules
    BY <1>1, <1>2, <1>3 DEF TypeOK
  <2>5. QED
    BY <1>3, <1>4, <1>5, <1>6, <2>1, <2>2, <2>3, <2>4 DEF Running
<1>11. QED
  BY <1>5, <1>6, <1>7, <1>8, <1>9, <1>10 DEF IInv

LEMMA RiseNoMoreStep == ASSUME IInv, RiseNoMore PROVE IInv'
<1>1. TypeOK /\ IndexInLogic /\ Control /\ Membership /\ Order /\ Bridge /\ Running /\ Phases
  BY DEF IInv
<1>2. Size \in Nat /\ at \in 1 .. Size /\ pass \in {"push", "both"} /\ low = 1 /\ at' = at
      /\ pass' = (IF pass = "push" THEN "none" ELSE "child")
      /\ UNCHANGED <<heap, index, wake, low, joining, leaving, unborn, dying, current, now, stage, lastPhase>>
  BY <1>1, HeapFacts DEF RiseNoMore, Control, TypeOK, tree, world, clock
<1>3. Membership' /\ Phases' /\ \A m \in Modules : Priority(m)' = Priority(m)
  BY <1>2, RestoreKeeps DEF Listed
<1>4. TypeOK' /\ IndexInLogic'
  BY <1>1, <1>2 DEF TypeOK, IndexInLogic, Size, Listed
<1>5. Control' /\ Running'
  BY <1>1, <1>2 DEF Control, Running, Size, Priority
<1>6. Order'
  <2> SUFFICES ASSUME NEW i \in 2 .. Size, ~Unsettled(i)' PROVE InOrder(i)
    BY <1>2 DEF Order, InOrder, Size, Priority
  <2>1. CASE i = at
    <3>1. i > 1 /\ Priority(heap[i]) \in Nat /\ Priority(heap[Parent(i)]) \in Nat
      BY <1>1, <1>2, HeapFacts, NodeFacts
    <3>2. ~(Priority(heap[Parent(i)]) > Priority(heap[i]))
      BY <2>1, <3>1 DEF RiseNoMore, MustRise
    <3>3. QED
      BY <3>1, <3>2 DEF InOrder
  <2>2. CASE i # at
    BY <1>1, <1>2, <2>2, NodeFacts DEF Order, Unsettled
  <2>3. QED
    BY <2>1, <2>2
<1>7. Bridge'
  BY <1>1, <1>2 DEF Bridge, Size, Priority
<1>8. QED
  BY <1>3, <1>4, <1>5, <1>6, <1>7 DEF IInv

\* The child that is called first is a child, and is called first.
LEMMA FirstChildFacts ==
    ASSUME TypeOK, NEW a \in 1 .. Size, 2 * a <= Size
    PROVE  /\ FirstChild(a) \in 2 .. Size /\ Parent(FirstChild(a)) = a
           /\ \A d \in 2 .. Size :
                Parent(d) = a => Priority(heap[FirstChild(a)]) <= Priority(heap[d])
<1>1. Size \in Nat /\ (\A i \in 1 .. Size : heap[i] \in Modules) /\ \A m \in Modules : Priority(m) \in Nat
  BY HeapFacts
<1>2. \A i \in 1 .. Size : Priority(heap[i]) \in Nat
  BY <1>1
<1>3. FirstChild(a) \in 2 .. Size /\ FirstChild(a) \in {2 * a, 2 * a + 1}
  BY <1>1 DEF FirstChild
<1>4. Parent(FirstChild(a)) = a
  BY <1>1, <1>3, ParentFacts
<1>5. ASSUME NEW d \in 2 .. Size, Parent(d) = a
      PROVE  Priority(heap[FirstChild(a)]) <= Priority(heap[d])
  <2>1. d \in {2 * a, 2 * a + 1} /\ 2 * a \in 1 .. Size
    BY <1>1, <1>5, ParentFacts
  <2>2. CASE d = 2 * a
    BY <1>1, <1>2, <2>1, <2>2 DEF FirstChild
  <2>3. CASE d = 2 * a + 1
    BY <1>1, <1>2, <2>1, <2>3 DEF FirstChild
  <2>4. QED
    BY <2>1, <2>2, <2>3
<1>6. QED
  BY <1>3, <1>4, <1>5

\* Without a child, or with the first child called no earlier, nothing is out of order.
LEMMA SinkNoMoreStep == ASSUME IInv, SinkNoMore PROVE IInv'
<1>1. TypeOK /\ IndexInLogic /\ Control /\ Membership /\ Order /\ Bridge /\ Running /\ Phases
  BY DEF IInv
<1>2. /\ Size \in Nat /\ at \in 1 .. Size /\ pass = "child" /\ low \in Nat /\ 1 <= low /\ low <= at
      /\ UNCHANGED <<heap, index, wake, joining, leaving, unborn, dying, current, now, stage, lastPhase>>
  BY <1>1, HeapFacts DEF SinkNoMore, Control, TypeOK, tree, world, clock
<1>3. Membership' /\ Phases' /\ \A m \in Modules : Priority(m)' = Priority(m)
  BY <1>2, RestoreKeeps DEF Listed
<1>4. \/ low = 1 /\ pass' = "none" /\ low' = 1 /\ at' = at
      \/ low > 1 /\ pass' = "child" /\ low' = low - 1 /\ at' = low - 1
  BY <1>2 DEF SinkNoMore
<1>5. TypeOK' /\ IndexInLogic'
  <2>1. UNCHANGED <<heap, index, Size>> /\ \A m \in Modules : Listed(m)' = Listed(m)
    BY <1>2 DEF Size, Listed
  <2>2. IndexInLogic'
    BY <1>1, <2>1 DEF IndexInLogic
  <2>3. pass' \in {"none", "push", "both", "child"} /\ at' \in Nat /\ low' \in Nat \ {0}
    BY <1>2, <1>4
  <2>4. TypeOK'
    BY <1>1, <1>2, <2>3 DEF TypeOK
  <2>5. QED
    BY <2>2, <2>4
<1>6. Control'
  BY <1>1, <1>2, <1>4 DEF Control, Size
<1>7. Running'
  BY <1>1, <1>2, <1>4 DEF Control, Running, Size, Priority
<1>8. ASSUME NEW i \in 2 .. Size, Parent(i) >= low PROVE InOrder(i)
  <2>1. CASE Parent(i) = at
    <3>1. 2 * at <= Size
      <4>1. i \in {2 * at, 2 * at + 1}
        BY <1>2, <2>1, ParentFacts
      <4>2. QED
        BY <1>2, <4>1
    <3>2. /\ FirstChild(at) \in 2 .. Size
          /\ Priority(heap[FirstChild(at)]) <= Priority(heap[i])
      BY <1>1, <1>2, <2>1, <3>1, FirstChildFacts
    <3>3. ~(Priority(heap[at]) > Priority(heap[FirstChild(at)]))
      BY <3>1 DEF SinkNoMore, MustSink
    <3>4. /\ Priority(heap[at]) \in Nat /\ Priority(heap[i]) \in Nat
          /\ Priority(heap[FirstChild(at)]) \in Nat
      BY <1>1, <1>2, <3>2, HeapFacts
    <3>5. QED
      BY <2>1, <3>2, <3>3, <3>4 DEF InOrder
  <2>2. CASE Parent(i) # at
    BY <1>1, <1>2, <1>8, <2>2 DEF Order, Unsettled
  <2>3. QED
    BY <2>1, <2>2
<1>9. Order'
  <2> SUFFICES ASSUME NEW i \in 2 .. Size, Parent(i) >= low', ~Unsettled(i)' PROVE InOrder(i)
    BY <1>2 DEF Order, InOrder, Size, Priority
  <2>1. Parent(i) \in Nat
    BY <1>2, NodeFacts
  <2>2. Parent(i) >= low
    BY <1>2, <1>4, <2>1 DEF Unsettled
  <2>3. QED
    BY <1>8, <2>2
<1>10. Bridge'
  <2>1. CASE low = 1
    BY <1>4, <2>1 DEF Bridge
  <2>2. CASE low > 1
    <3>1. at' >= 2 => Parent(at') < low'
      BY <1>2, <1>4, <2>2, NodeFacts
    <3>2. at' >= 2 => Parent(at') \in Nat /\ low' \in Nat
      BY <1>2, <1>4, <2>2, NodeFacts
    <3>3. QED
      BY <3>1, <3>2 DEF Bridge
  <2>3. QED
    BY <1>2, <2>1, <2>2
<1>11. QED
  BY <1>3, <1>5, <1>6, <1>7, <1>9, <1>10 DEF IInv

LEMMA SinkStep == ASSUME IInv, Sink PROVE IInv'
<1> DEFINE c == FirstChild(at)
           P == [k \in 1 .. Size |-> Priority(heap[k])]
           Q == [k \in 1 .. Size |-> Priority(heap'[k])]
<1>1. TypeOK /\ IndexInLogic /\ Control /\ Membership /\ Order /\ Bridge /\ Running /\ Phases
  BY DEF IInv
<1>2. Size \in Nat /\ (\A i \in 1 .. Size : heap[i] \in Modules) /\ \A m \in Modules : Priority(m) \in Nat
  BY <1>1, HeapFacts
<1>3. at \in 1 .. Size /\ 2 * at <= Size /\ pass = "child" /\ low \in 1 .. at /\ Swap(at, c) /\ at' = c
      /\ UNCHANGED <<wake, pass, low, joining, leaving, unborn, dying, current, now, stage, lastPhase>>
  BY <1>1, <1>2 DEF Sink, MustSink, Control, TypeOK, world, clock
<1>4. /\ c \in 2 .. Size /\ Parent(c) = at /\ c \in 1 .. Size
      /\ \A d \in 2 .. Size : Parent(d) = at => Priority(heap[c]) <= Priority(heap[d])
  BY <1>1, <1>3, FirstChildFacts
<1> HIDE DEF c
<1>5. c # at /\ at < c /\ Priority(heap[at]) > Priority(heap[c])
  BY <1>2, <1>4, NodeFacts DEF Sink, MustSink, c
<1>6. /\ heap' \in Seq(Modules) /\ Size' = Size
      /\ \A k \in 1 .. Size :
           heap'[k] = IF k = c THEN heap[at] ELSE IF k = at THEN heap[c] ELSE heap[k]
      /\ index' \in [Modules -> Nat]
      /\ \A m \in Modules : Listed(m)' = Listed(m)
      /\ IndexInLogic'
  BY <1>1, <1>3, <1>4, <1>5, SwapFacts
<1>7. Membership' /\ Phases' /\ \A m \in Modules : Priority(m)' = Priority(m)
  BY <1>3, <1>6, RestoreKeeps
<1>8. TypeOK'
  BY <1>1, <1>3, <1>4, <1>6 DEF TypeOK
<1>9. Control'
  BY <1>1, <1>3, <1>4, <1>5, <1>6 DEF Control
<1>10. Order' /\ Bridge'
  <2>1. P \in [1 .. Size -> Int]
    BY <1>2
  <2>2. \A k \in 1 .. Size : Q[k] = IF k = c THEN P[at] ELSE IF k = at THEN P[c] ELSE P[k]
    BY <1>2, <1>3, <1>4, <1>6
  <2>3. Q \in [1 .. Size -> Int]
    <3>1. \A k \in 1 .. Size : heap'[k] \in Modules
      BY <1>2, <1>3, <1>4, <1>6
    <3>2. QED
      BY <1>2, <3>1
  <2>4. \A i \in 2 .. Size : Parent(i) >= low /\ Parent(i) # at => P[Parent(i)] <= P[i]
    BY <1>1, <1>2, <1>3, NodeFacts DEF Order, InOrder, Unsettled
  <2>5. at >= 2 /\ Parent(at) >= low => \A d \in 2 .. Size : Parent(d) = at => P[Parent(at)] <= P[d]
    BY <1>1, <1>2, <1>3, NodeFacts DEF Bridge
  <2>6. P[at] > P[c] /\ \A d \in 2 .. Size : Parent(d) = at => P[c] <= P[d]
    BY <1>3, <1>4, <1>5
  <2> HIDE DEF P, Q
  <2>7. /\ \A i \in 2 .. Size : Parent(i) >= low /\ Parent(i) # c => Q[Parent(i)] <= Q[i]
        /\ \A d \in 2 .. Size : Parent(d) = c => Q[at] <= Q[d]
    <3>0. (\A k \in 1 .. Size : P[k] \in Int /\ Q[k] \in Int) /\ at \in 1 .. Size
      BY <1>3, <2>1, <2>3
    <3>1. \A i \in 2 .. Size : Parent(i) \in Nat /\ Parent(i) \in 1 .. Size /\ Parent(i) < i
      BY <1>2, NodeFacts
    <3>2. Q[c] = P[at] /\ Q[at] = P[c] /\ \A k \in 1 .. Size : k # c /\ k # at => Q[k] = P[k]
      BY <1>4, <1>5, <2>2, <3>0
    <3>3. ASSUME NEW i \in 2 .. Size, Parent(i) >= low, Parent(i) # c PROVE Q[Parent(i)] <= Q[i]
      <4>1. CASE i = c
        <5>1. P[c] \in Int /\ P[at] \in Int
          BY <1>4, <3>0
        <5>2. QED
          BY <1>4, <2>6, <3>2, <4>1, <5>1
      <4>2. CASE i = at
        <5>1. Parent(at) \in 1 .. Size /\ Parent(at) < at /\ at < c /\ at >= 2
          BY <1>3, <1>5, <3>1, <4>2
        <5>2. P[Parent(at)] <= P[c]
          BY <1>4, <2>5, <3>3, <4>2, <5>1
        <5>3. Q[Parent(at)] = P[Parent(at)]
          BY <3>2, <3>3, <4>2, <5>1
        <5>4. QED
          BY <3>2, <4>2, <5>2, <5>3
      <4>3. CASE i # c /\ i # at /\ Parent(i) = at
        <5>1. i \in 1 .. Size /\ P[c] <= P[i]
          BY <1>2, <2>6, <4>3
        <5>2. QED
          BY <3>2, <4>3, <5>1
      <4>4. CASE i # c /\ i # at /\ Parent(i) # at
        <5>1. P[Parent(i)] <= P[i]
          BY <2>4, <3>3, <4>4
        <5>2. Parent(i) \in 1 .. Size /\ i \in 1 .. Size
          BY <1>2, <3>1
        <5>3. Q[Parent(i)] = P[Parent(i)] /\ Q[i] = P[i]
          BY <3>2, <3>3, <4>4, <5>2
        <5>4. QED
          BY <5>1, <5>3
      <4>5. QED
        BY <4>1, <4>2, <4>3, <4>4
    <3>4. ASSUME NEW d \in 2 .. Size, Parent(d) = c PROVE Q[at] <= Q[d]
      <4>1. Parent(d) >= low /\ Parent(d) # at
        BY <1>3, <1>4, <1>5, <3>4
      <4>2. P[c] <= P[d]
        BY <2>4, <3>4, <4>1
      <4>3. d \in 1 .. Size /\ d # c /\ d # at
        BY <1>2, <1>3, <1>4, <1>5, <3>1, <3>4
      <4>4. QED
        BY <3>2, <4>2, <4>3
    <3>5. QED
      BY <3>3, <3>4
  <2>8. \A k \in 1 .. Size : Priority(heap[k])' = Q[k]
    BY <1>3 DEF Priority, Q
  <2>9. \A i \in 2 .. Size : Parent(i) \in 1 .. Size /\ i \in 1 .. Size
    BY <1>2, NodeFacts
  <2>10. Order'
    <3> SUFFICES ASSUME NEW i \in 2 .. Size, Parent(i) >= low, Parent(i) # c PROVE InOrder(i)'
      BY <1>3, <1>6 DEF Order, Unsettled
    <3>1. QED
      BY <2>7, <2>8, <2>9 DEF InOrder
  <2>11. Bridge'
    <3>1. ASSUME NEW d \in 2 .. Size, Parent(d) = c
          PROVE  Priority(heap'[at]) <= Priority(heap'[d])
      <4>1. d \in 1 .. Size /\ Q[at] <= Q[d]
        BY <2>7, <2>9, <3>1
      <4>2. QED
        BY <1>3, <4>1 DEF Q
    <3>2. QED
      BY <1>3, <1>4, <1>6, <3>1 DEF Bridge, Priority
  <2>12. QED
    BY <2>10, <2>11
<1>11. Running'
  <2> SUFFICES ASSUME current # None PROVE Running'
    BY <1>3 DEF Running
  <2>1. /\ Size > 0 /\ heap[1] = current /\ wake[current] <= now /\ at >= 2
        /\ Priority(heap[at]) >= Priority(current)
        /\ \A m \in joining : Priority(m) >= Priority(current)
    BY <1>1, <1>3 DEF Running
  <2>2. heap'[1] = heap[1] /\ heap'[c] = heap[at] /\ c >= 2
    BY <1>2, <1>3, <1>4, <1>6, <2>1
  <2>3. current \in Modules /\ joining \subseteq Modules /\ heap[at] \in Modules
    BY <1>1, <1>2, <1>3 DEF TypeOK
  <2>4. QED
    BY <1>3, <1>6, <1>7, <2>1, <2>2, <2>3 DEF Running
<1>12. QED
  BY <1>6, <1>7, <1>8, <1>9, <1>10, <1>11 DEF IInv

LEMMA PushStep == ASSUME IInv, NEW m \in Modules, PushSleepyUpdate(m) PROVE IInv'
<1>1. TypeOK /\ IndexInLogic /\ Control /\ Membership /\ Order /\ Bridge /\ Running /\ Phases
  BY DEF IInv
<1>2. Size \in Nat /\ (\A i \in 1 .. Size : heap[i] \in Modules) /\ \A n \in Modules : Priority(n) \in Nat
  BY <1>1, HeapFacts
<1>3. /\ pass = "none" /\ low = 1 /\ m \in joining /\ ~Listed(m) /\ ObjectOf[m] \notin unborn
      /\ joining \subseteq Modules /\ heap \in Seq(Modules)
      /\ pass' = "push" /\ at' = Size + 1 /\ joining' = joining \ {m}
      /\ UNCHANGED <<wake, low, leaving, unborn, dying, current, now, stage, lastPhase>>
  BY <1>1, <1>2 DEF PushSleepyUpdate, Control, Membership, TypeOK, world, clock
<1>4. /\ heap' \in Seq(Modules) /\ Size' = Size + 1
      /\ (\A k \in 1 .. Size : heap'[k] = heap[k]) /\ heap'[Size + 1] = m
  BY <1>3, AppendProperties DEF PushSleepyUpdate, Size
<1>5. \A n \in Modules : index[n] \in Nat /\ index'[n] = IF n = m THEN Size + 1 ELSE index[n]
  BY <1>1 DEF PushSleepyUpdate, TypeOK
<1>6. \A n \in Modules : Listed(n)' = (n = m \/ Listed(n))
  BY <1>2, <1>5 DEF Listed
<1>7. IndexInLogic'
  <2>1. \A k \in 1 .. Size : heap[k] # m /\ index[heap[k]] = k
    BY <1>1, <1>2, <1>3 DEF IndexInLogic, Listed
  <2>2. \A k \in 1 .. Size : index'[heap'[k]] = k
    BY <1>2, <1>4, <1>5, <2>1
  <2>3. index'[heap'[Size + 1]] = Size + 1
    BY <1>4, <1>5
  <2>4. ASSUME NEW n \in Modules, Listed(n)' PROVE index'[n] <= Size' /\ heap'[index'[n]] = n
    <3>1. CASE n = m
      BY <1>2, <1>4, <1>5, <3>1
    <3>2. CASE n # m
      <4>1. index[n] \in 1 .. Size /\ heap[index[n]] = n /\ index'[n] = index[n]
        BY <1>1, <1>2, <1>5, <1>6, <2>4, <3>2 DEF IndexInLogic, Listed
      <4>2. QED
        BY <1>2, <1>4, <4>1
    <3>3. QED
      BY <3>1, <3>2
  <2>5. \A k \in 1 .. Size + 1 : k \in 1 .. Size \/ k = Size + 1
    BY <1>2
  <2>6. QED
    BY <1>4, <2>2, <2>3, <2>4, <2>5 DEF IndexInLogic
<1>8. TypeOK'
  <2>1. index' \in [Modules -> Nat]
    BY <1>1, <1>2 DEF TypeOK, PushSleepyUpdate
  <2>2. at' \in Nat /\ joining' \subseteq Modules /\ pass' \in {"none", "push", "both", "child"}
    BY <1>2, <1>3
  <2>3. QED
    BY <1>1, <1>3, <1>4, <2>1, <2>2 DEF TypeOK
<1>9. Control'
  BY <1>1, <1>2, <1>3, <1>4 DEF Control
<1>10. Membership'
  BY <1>1, <1>3, <1>6 DEF Membership, TypeOK
<1>11. Order' /\ Bridge'
  <2>1. \A k \in 1 .. Size : Priority(heap[k])' = Priority(heap[k])
    BY <1>3, <1>4 DEF Priority
  <2>2. ASSUME NEW i \in 2 .. Size + 1, i # Size + 1 PROVE InOrder(i)'
    <3>1. i \in 2 .. Size /\ i \in 1 .. Size /\ Parent(i) \in 1 .. Size /\ Parent(i) >= 1
      BY <1>2, <2>2, NodeFacts
    <3>2. InOrder(i)
      BY <1>1, <1>3, <3>1 DEF Order, Unsettled
    <3>3. QED
      BY <2>1, <3>1, <3>2 DEF InOrder
  <2>3. Order'
    BY <1>2, <1>3, <1>4, <2>2 DEF Order, Unsettled
  <2>4. \A c \in 2 .. Size + 1 : Parent(c) # Size + 1
    <3> SUFFICES ASSUME NEW c \in 2 .. Size + 1 PROVE Parent(c) # Size + 1
      OBVIOUS
    <3>1. Parent(c) < c /\ Parent(c) \in Nat
      BY <1>2, NodeFacts
    <3>2. QED
      BY <1>2, <3>1
  <2>5. Bridge'
    BY <1>3, <1>4, <2>4 DEF Bridge
  <2>6. QED
    BY <2>3, <2>5
<1>12. Running'
  <2> SUFFICES ASSUME current # None PROVE Running'
    BY <1>3 DEF Running
  <2>1. /\ Size > 0 /\ heap[1] = current /\ wake[current] <= now
        /\ \A n \in joining : Priority(n) >= Priority(current)
    BY <1>1 DEF Running
  <2>2. \A n \in Modules : Priority(n)' = Priority(n)
    BY <1>3 DEF Priority
  <2>3. heap'[1] = current /\ heap'[at'] = m /\ at' >= 2 /\ current \in Modules
    BY <1>1, <1>2, <1>3, <1>4, <2>1
  <2>4. QED
    BY <1>2, <1>3, <1>4, <2>1, <2>2, <2>3 DEF Running, Priority
<1>13. Phases'
  BY <1>1, <1>3, <1>6 DEF Phases, ToCome
<1>14. QED
  BY <1>7, <1>8, <1>9, <1>10, <1>11, <1>12, <1>13 DEF IInv

\* The last module takes the place of the one that is taken out.
LEMMA EraseStep == ASSUME IInv, NEW m \in Modules, EraseSleepyUpdate(m) PROVE IInv'
<1> DEFINE i == index[m]
           P == [k \in 1 .. Size |-> Priority(heap[k])]
           Q == [k \in 1 .. Size - 1 |-> Priority(heap'[k])]
<1>1. TypeOK /\ IndexInLogic /\ Control /\ Membership /\ Order /\ Bridge /\ Running /\ Phases
  BY DEF IInv
<1>2. Size \in Nat /\ (\A k \in 1 .. Size : heap[k] \in Modules) /\ \A n \in Modules : Priority(n) \in Nat
  BY <1>1, HeapFacts
<1>3. /\ pass = "none" /\ low = 1 /\ m \in leaving /\ leaving \subseteq Modules /\ stage = "deleting"
      /\ heap \in Seq(Modules) /\ i \in 1 .. Size /\ heap[i] = m /\ Size > 0
      /\ pass' = (IF i < Size THEN "both" ELSE "none") /\ at' = i /\ leaving' = leaving \ {m}
      /\ UNCHANGED <<wake, low, joining, unborn, dying, current, now, stage, lastPhase>>
  <2>1. Listed(m) /\ index[m] \in Nat
    BY <1>1 DEF EraseSleepyUpdate, Membership, TypeOK
  <2>2. i \in 1 .. Size /\ heap[i] = m
    BY <1>1, <1>2, <2>1 DEF IndexInLogic, Listed
  <2>3. QED
    BY <1>1, <1>2, <2>2 DEF EraseSleepyUpdate, PassAfterErase, Control, TypeOK, world, clock
<1>4. /\ heap' \in Seq(Modules) /\ Size' = Size - 1
      /\ \A k \in 1 .. Size - 1 : heap'[k] = IF k = i THEN heap[Size] ELSE heap[k]
  <2> DEFINE h == [heap EXCEPT ![i] = heap[Size]]
  <2>1. heap[Size] \in Modules /\ i \in 1 .. Len(heap)
    BY <1>2, <1>3 DEF Size
  <2>2. /\ h \in Seq(Modules) /\ Len(h) = Size
        /\ \A k \in 1 .. Size : h[k] = IF k = i THEN heap[Size] ELSE heap[k]
    BY <1>3, <2>1, ExceptSeq DEF Size
  <2>3. heap' = SubSeq(h, 1, Size - 1)
    BY DEF EraseSleepyUpdate
  <2> HIDE DEF h
  <2>4. \A k \in 1 .. Size - 1 : h[k] \in Modules
    BY <1>2, <2>1, <2>2
  <2>5. /\ heap' \in Seq(Modules) /\ Len(heap') = Size - 1
        /\ \A k \in 1 .. Size - 1 : heap'[k] = h[k]
    BY <1>2, <1>3, <2>3, <2>4, SubSeqProperties
  <2>6. Size' = Size - 1
    BY <2>5 DEF Size
  <2>7. \A k \in 1 .. Size - 1 : k \in 1 .. Size
    BY <1>2
  <2>8. QED
    BY <2>2, <2>5, <2>6, <2>7
<1>5. \A n \in Modules : index[n] \in Nat
                          /\ index'[n] = IF n = m THEN 0 ELSE IF n = heap[Size] THEN i ELSE index[n]
  BY <1>1, <1>2, <1>3 DEF EraseSleepyUpdate, TypeOK
<1>6. \A n \in Modules : Listed(n)' = (n # m /\ Listed(n))
  <2>1. Listed(heap[Size]) /\ Listed(m) /\ heap[Size] \in Modules
    BY <1>1, <1>2, <1>3 DEF Listed, IndexInLogic
  <2>2. QED
    BY <1>3, <1>5, <2>1 DEF Listed
<1>7. IndexInLogic'
  <2>1. \A k \in 1 .. Size : index[heap[k]] = k
    BY <1>1 DEF IndexInLogic
  <2>2. ASSUME NEW k \in 1 .. Size - 1 PROVE index'[heap'[k]] = k
    <3>1. CASE k = i
      <4>1. heap'[k] = heap[Size] /\ heap[Size] \in Modules /\ index[heap[Size]] = Size /\ k # Size
        BY <1>2, <1>3, <1>4, <2>1, <3>1
      <4>2. heap[Size] # m
        BY <3>1, <4>1
      <4>3. QED
        BY <1>5, <3>1, <4>1, <4>2
    <3>2. CASE k # i
      <4>1. heap'[k] = heap[k] /\ heap[k] \in Modules /\ index[heap[k]] = k
        BY <1>2, <1>4, <2>1, <3>2
      <4>2. heap[k] # m /\ heap[k] # heap[Size]
        BY <1>2, <1>3, <2>1, <3>2, <4>1
      <4>3. QED
        BY <1>5, <4>1, <4>2
    <3>3. QED
      BY <3>1, <3>2
  <2>3. ASSUME NEW n \in Modules, Listed(n)' PROVE index'[n] <= Size - 1 /\ heap'[index'[n]] = n
    <3>1. n # m /\ index[n] \in 1 .. Size /\ heap[index[n]] = n
      BY <1>1, <1>2, <1>5, <1>6, <2>3 DEF IndexInLogic, Listed
    <3>2. CASE n = heap[Size]
      <4>1. index'[n] = i /\ i # Size
        BY <1>3, <1>5, <3>1, <3>2
      <4>2. i \in 1 .. Size - 1
        BY <1>2, <1>3, <4>1
      <4>3. QED
        BY <1>4, <3>2, <4>1, <4>2
    <3>3. CASE n # heap[Size]
      <4>1. index'[n] = index[n] /\ index[n] # Size /\ index[n] # i
        BY <1>3, <1>5, <3>1, <3>3
      <4>2. index[n] \in 1 .. Size - 1
        BY <1>2, <3>1, <4>1
      <4>3. QED
        BY <1>4, <3>1, <4>1, <4>2
    <3>4. QED
      BY <3>2, <3>3
  <2>4. QED
    BY <1>4, <2>2, <2>3 DEF IndexInLogic
<1>8. TypeOK'
  <2>1. index' \in [Modules -> Nat]
    BY <1>1, <1>2, <1>3 DEF TypeOK, EraseSleepyUpdate
  <2>2. at' \in Nat /\ leaving' \subseteq Modules /\ pass' \in {"none", "push", "both", "child"}
    BY <1>2, <1>3
  <2>3. QED
    BY <1>1, <1>3, <1>4, <2>1, <2>2 DEF TypeOK
<1>9. Control'
  BY <1>1, <1>2, <1>3, <1>4 DEF Control
<1>10. Membership'
  BY <1>1, <1>3, <1>6 DEF Membership, TypeOK
<1>11. Order' /\ Bridge'
  <2>1. P \in [1 .. Size -> Int] /\ Q \in [1 .. Size - 1 -> Int]
    <3>1. \A k \in 1 .. Size - 1 : heap'[k] \in Modules
      BY <1>4, ElementOfSeq DEF Size
    <3>2. QED
      BY <1>2, <3>1
  <2>2. \A k \in 1 .. Size - 1 : k # i => Q[k] = P[k]
    BY <1>2, <1>4
  <2>3. \A k \in 2 .. Size : P[Parent(k)] <= P[k]
    BY <1>1, <1>2, <1>3, NodeFacts DEF Order, InOrder, Unsettled
  <2>4. Size - 1 \in 0 .. Size
    BY <1>2, <1>3
  <2> HIDE DEF P, Q, i
  <2>5. /\ \A k \in 2 .. Size - 1 : k # i /\ Parent(k) # i => Q[Parent(k)] <= Q[k]
        /\ i >= 2 => \A c \in 2 .. Size - 1 : Parent(c) = i => Q[Parent(i)] <= Q[c]
    BY <1>2, <1>3, <2>1, <2>2, <2>3, <2>4, ChangeInTree
  <2>6. \A k \in 1 .. Size - 1 : Priority(heap[k])' = Q[k]
    BY <1>3 DEF Priority, Q
  <2>7. \A k \in 2 .. Size - 1 :
          Parent(k) \in 1 .. Size - 1 /\ k \in 1 .. Size - 1 /\ Parent(k) < k /\ Parent(k) \in Nat
    BY <1>2, <1>3, <2>4, NodeFacts
  <2>8. Order'
    <3> SUFFICES ASSUME NEW k \in 2 .. Size - 1, ~Unsettled(k)' PROVE InOrder(k)'
      BY <1>3, <1>4 DEF Order
    <3>1. k # i /\ Parent(k) # i
      BY <1>2, <1>3, <2>7 DEF Unsettled
    <3>2. QED
      BY <2>5, <2>6, <2>7, <3>1 DEF InOrder
  <2>9. Bridge'
    <3>1. ASSUME i >= 2, NEW c \in 2 .. Size - 1, Parent(c) = i
          PROVE  Priority(heap'[Parent(i)]) <= Priority(heap'[c])
      <4>1. Parent(i) \in 1 .. Size - 1 /\ c \in 1 .. Size - 1
        BY <2>7, <3>1
      <4>2. Q[Parent(i)] <= Q[c]
        BY <2>5, <3>1
      <4>3. QED
        BY <4>1, <4>2 DEF Q
    <3>2. QED
      BY <1>3, <1>4, <3>1 DEF Bridge, Priority
  <2>10. QED
    BY <2>8, <2>9
<1>12. Running'
  BY <1>1, <1>3 DEF Running, Control
<1>13. Phases'
  BY <1>1, <1>3, <1>6 DEF Phases, ToCome
<1>14. QED
  BY <1>7, <1>8, <1>9, <1>10, <1>11, <1>12, <1>13 DEF IInv

\* The next call of one module is put off or brought forward.
LEMMA ChangeFacts ==
    ASSUME IInv, NEW m \in Modules, Listed(m), pass = "none",
           \A n \in Modules : n # m => wake'[n] = wake[n],
           \A n \in Modules : wake'[n] \in Nat,
           UNCHANGED <<heap, index, low>>, pass' = "both", at' = index[m]
    PROVE  /\ Order' /\ Bridge' /\ IndexInLogic'
           /\ index[m] \in 1 .. Size /\ heap[index[m]] = m /\ Size' = Size
<1> DEFINE i == index[m]
           P == [k \in 1 .. Size |-> Priority(heap[k])]
           Q == [k \in 1 .. Size |-> Priority(heap[k])']
<1>1. TypeOK /\ IndexInLogic /\ Control /\ Order
  BY DEF IInv
<1>2. Size \in Nat /\ (\A k \in 1 .. Size : heap[k] \in Modules) /\ \A n \in Modules : Priority(n) \in Nat
  BY <1>1, HeapFacts
<1>3. low = 1 /\ i \in 1 .. Size /\ heap[i] = m
  <2>1. index[m] \in Nat
    BY <1>1 DEF TypeOK
  <2>2. QED
    BY <1>1, <1>2, <2>1 DEF IndexInLogic, Listed, Control, TypeOK
<1>4. Size' = Size /\ IndexInLogic'
  BY <1>1 DEF Size, IndexInLogic, Listed
<1>5. \A k \in 1 .. Size : Priority(heap[k])' \in Nat
  <2>1. \A n \in Modules : Phase[n] \in Nat
    <3>1. 0 .. 3 \subseteq Nat
      OBVIOUS
    <3>2. QED
      BY <3>1, SleepyAssumption
  <2>2. QED
    BY <1>2, <2>1 DEF Priority
<1>6. P \in [1 .. Size -> Int] /\ Q \in [1 .. Size -> Int]
  BY <1>2, <1>5
<1>7. \A k \in 1 .. Size : k # i => Q[k] = P[k]
  <2>1. \A k \in 1 .. Size : k # i => heap[k] # m
    BY <1>1 DEF IndexInLogic
  <2>2. QED
    BY <1>2, <2>1 DEF Priority
<1>8. \A k \in 2 .. Size : P[Parent(k)] <= P[k]
  BY <1>1, <1>2, <1>3, NodeFacts DEF Order, InOrder, Unsettled
<1>9. Size \in 0 .. Size
  BY <1>2
<1> HIDE DEF P, Q, i
<1>10. /\ \A k \in 2 .. Size : k # i /\ Parent(k) # i => Q[Parent(k)] <= Q[k]
       /\ i >= 2 => \A c \in 2 .. Size : Parent(c) = i => Q[Parent(i)] <= Q[c]
  BY <1>2, <1>3, <1>6, <1>7, <1>8, <1>9, ChangeInTree
<1>11. \A k \in 1 .. Size : Priority(heap[k])' = Q[k]
  BY DEF Q
<1>12. \A k \in 2 .. Size : Parent(k) \in 1 .. Size /\ k \in 1 .. Size
  BY <1>2, NodeFacts
<1>13. Order'
  <2> SUFFICES ASSUME NEW k \in 2 .. Size, ~Unsettled(k)' PROVE InOrder(k)'
    BY <1>4 DEF Order
  <2>1. k # i /\ Parent(k) # i
    BY DEF Unsettled, i
  <2>2. QED
    BY <1>10, <1>11, <1>12, <2>1 DEF InOrder
<1>14. Bridge'
  <2> SUFFICES ASSUME at' >= 2, NEW j, j = Parent(at'), NEW c \in 2 .. Size, Parent(c) = at'
               PROVE  Priority(heap[j])' <= Priority(heap[c])'
    BY <1>4 DEF Bridge
  <2>1. j \in 1 .. Size /\ c \in 1 .. Size /\ Q[j] <= Q[c]
    BY <1>3, <1>10, <1>12 DEF i
  <2>2. QED
    BY <1>11, <2>1
<1>15. QED
  BY <1>3, <1>4, <1>13, <1>14 DEF i

\* A call that is put off is put off to a later frame.
LEMMA CallFrameFacts ==
    ASSUME TypeOK, NEW d \in Nat \ {0}
    PROVE  CallFrame(now + d) \in 0 .. Forever /\ CallFrame(now + d) > now
BY SleepyAssumption DEF TypeOK, CallFrame

\* A module that is called in a later frame comes after the one that is running.
LEMMA LaterIsAfter ==
    ASSUME TypeOK, NEW m \in Modules, NEW f \in Nat, f > now,
           current \in Modules, wake[current] <= now
    PROVE  4 * f + Phase[m] >= Priority(current)
<1>1. Phase[m] \in 0 .. 3 /\ Phase[current] \in 0 .. 3 /\ now \in Nat /\ wake[current] \in Nat
  <2>1. 0 .. Forever \subseteq Nat /\ 0 .. MaxFrame \subseteq Nat /\ Phase \in [Modules -> 0 .. 3]
    BY SleepyAssumption
  <2>2. QED
    BY <2>1 DEF TypeOK
<1>2. QED
  BY <1>1 DEF Priority

LEMMA AwakenStep ==
    ASSUME IInv, NEW m \in Modules, NEW d \in WakeDelays, AwakenUpdateModule(m, d)
    PROVE  IInv'
<1>1. TypeOK /\ IndexInLogic /\ Control /\ Membership /\ Order /\ Bridge /\ Running /\ Phases
  BY DEF IInv
<1>2. /\ pass = "none" /\ joining = {} /\ leaving = {} /\ Listed(m) /\ m # current
      /\ wake' = [wake EXCEPT ![m] = CallFrame(now + d)] /\ pass' = "both" /\ at' = index[m]
      /\ UNCHANGED <<heap, index, low, joining, leaving, unborn, dying, current, now, stage, lastPhase>>
  BY DEF AwakenUpdateModule, MayAct, Restored, tree, world, clock
<1>3. CallFrame(now + d) \in 0 .. Forever /\ CallFrame(now + d) > now /\ CallFrame(now + d) \in Nat
  <2>1. d \in Nat \ {0}
    BY SleepyAssumption
  <2>2. CallFrame(now + d) \in 0 .. Forever /\ CallFrame(now + d) > now
    BY <1>1, <2>1, CallFrameFacts
  <2>3. QED
    BY <2>2, SleepyAssumption
<1>4. wake' \in [Modules -> 0 .. Forever]
      /\ \A n \in Modules : wake'[n] = IF n = m THEN CallFrame(now + d) ELSE wake[n]
  BY <1>1, <1>2, <1>3 DEF TypeOK
<1>5. \A n \in Modules : wake'[n] \in Nat
  BY <1>4, SleepyAssumption
<1>6. /\ Order' /\ Bridge' /\ IndexInLogic'
      /\ index[m] \in 1 .. Size /\ heap[index[m]] = m /\ Size' = Size
  BY <1>1, <1>2, <1>4, <1>5, ChangeFacts
<1>7. TypeOK'
  BY <1>1, <1>2, <1>4, <1>6 DEF TypeOK
<1>8. Control'
  BY <1>1, <1>2, <1>6 DEF Control
<1>9. Membership'
  BY <1>1, <1>2 DEF Membership, Listed
<1>10. Running'
  <2> SUFFICES ASSUME current # None PROVE Running'
    BY <1>2 DEF Running
  <2>1. Size > 0 /\ heap[1] = current /\ wake[current] <= now /\ current \in Modules
    BY <1>1 DEF Running, TypeOK
  <2>2. index[m] >= 2
    BY <1>1, <1>2, <1>6, <2>1, HeapFacts
  <2>3. Priority(m)' = 4 * CallFrame(now + d) + Phase[m] /\ Priority(current)' = Priority(current)
    BY <1>2, <1>4, <2>1 DEF Priority
  <2>4. Priority(m)' >= Priority(current)'
    BY <1>1, <1>3, <2>1, <2>3, LaterIsAfter
  <2>5. Priority(heap[at])' = Priority(m)'
    BY <1>2, <1>6 DEF Priority
  <2>6. wake'[current] = wake[current]
    BY <1>2, <1>4, <2>1
  <2>7. QED
    BY <1>2, <1>6, <2>1, <2>2, <2>4, <2>5, <2>6 DEF Running
<1>11. Phases'
  BY <1>1, <1>2, <1>3, <1>4 DEF Phases, ToCome, Listed
<1>12. QED
  BY <1>6, <1>7, <1>8, <1>9, <1>10, <1>11 DEF IInv

LEMMA ReturnStep ==
    ASSUME IInv, NEW s \in {0} \cup Delays, ReturnFromUpdate(s)
    PROVE  IInv'
<1> DEFINE f == CallFrame(now + SleepLength(s))
<1>1. TypeOK /\ IndexInLogic /\ Control /\ Membership /\ Order /\ Bridge /\ Running /\ Phases
  BY DEF IInv
<1>2. /\ pass = "none" /\ joining = {} /\ leaving = {} /\ current # None /\ current \in Modules
      /\ wake' = [wake EXCEPT ![current] = f] /\ pass' = "both" /\ at' = 1 /\ current' = None
      /\ UNCHANGED <<heap, index, low, joining, leaving, unborn, dying, now, stage, lastPhase>>
  BY <1>1 DEF ReturnFromUpdate, Restored, tree, world, TypeOK
<1>3. f \in 0 .. Forever /\ f > now
  <2>1. SleepLength(s) \in Nat \ {0}
    BY SleepyAssumption DEF SleepLength
  <2>2. QED
    BY <1>1, <2>1, CallFrameFacts
<1> HIDE DEF f
<1>4. wake' \in [Modules -> 0 .. Forever]
      /\ \A n \in Modules : wake'[n] = IF n = current THEN f ELSE wake[n]
  BY <1>1, <1>2, <1>3 DEF TypeOK
<1>5. \A n \in Modules : wake'[n] \in Nat
  BY <1>4, SleepyAssumption
<1>6. Size > 0 /\ heap[1] = current /\ index[current] = 1 /\ Listed(current)
  BY <1>1, <1>2, HeapFacts DEF Running, IndexInLogic, Listed
<1>7. /\ Order' /\ Bridge' /\ IndexInLogic' /\ Size' = Size
  <2>1. at' = index[current]
    BY <1>2, <1>6
  <2>2. QED
    BY <1>1, <1>2, <1>4, <1>5, <1>6, <2>1, ChangeFacts
<1>8. TypeOK'
  BY <1>1, <1>2, <1>4 DEF TypeOK
<1>9. Control'
  BY <1>1, <1>2, <1>6, <1>7, HeapFacts DEF Control
<1>10. Membership'
  BY <1>1, <1>2 DEF Membership, Listed
<1>11. Running'
  BY <1>2 DEF Running
<1>12. Phases'
  BY <1>1, <1>2, <1>3, <1>4 DEF Phases, ToCome, Listed
<1>13. QED
  BY <1>7, <1>8, <1>9, <1>10, <1>11, <1>12 DEF IInv

\* In a heap that is in order no module is called before the one at the root.
LEMMA RootIsFirst ==
    ASSUME TypeOK, \A i \in 2 .. Size : InOrder(i)
    PROVE  \A i \in 1 .. Size : Priority(heap[1]) <= Priority(heap[i])
<1> DEFINE T == {i \in 1 .. Size : Priority(heap[i]) < Priority(heap[1])}
<1>1. Size \in Nat /\ \A i \in 1 .. Size : Priority(heap[i]) \in Nat
  BY HeapFacts
<1>2. SUFFICES ASSUME T # {} PROVE FALSE
  <2> SUFFICES ASSUME NEW i \in 1 .. Size, ~(Priority(heap[1]) <= Priority(heap[i])) PROVE FALSE
    OBVIOUS
  <2>1. 1 \in 1 .. Size
    BY <1>1
  <2>2. i \in T
    BY <1>1, <2>1
  <2>3. QED
    BY <1>2, <2>2
<1>3. T \subseteq Nat
  BY <1>1
<1> HIDE DEF T
<1>4. PICK x \in T : \A y \in T : ~(<<y, x>> \in OpToRel(<, Nat))
  BY <1>2, <1>3, NatLessThanWellFounded, WFMin, Zenon
<1>5. x \in 1 .. Size /\ Priority(heap[x]) < Priority(heap[1]) /\ x # 1
  <2>1. x \in 1 .. Size /\ Priority(heap[x]) < Priority(heap[1])
    BY DEF T
  <2>2. QED
    BY <1>1, <2>1
<1>6. x \in 2 .. Size /\ Parent(x) \in 1 .. Size /\ Parent(x) \in Nat /\ Parent(x) < x
  BY <1>1, <1>5, NodeFacts
<1>7. Priority(heap[Parent(x)]) <= Priority(heap[x])
  BY <1>6 DEF InOrder
<1>8. Parent(x) \in T
  <2>1. 1 \in 1 .. Size
    BY <1>1, <1>5
  <2>2. QED
    BY <1>1, <1>5, <1>6, <1>7, <2>1 DEF T
<1>9. <<Parent(x), x>> \in OpToRel(<, Nat)
  <2>1. x \in Nat
    BY <1>3
  <2>2. Parent(x) < x /\ Parent(x) \in Nat
    BY <1>6
  <2>3. QED
    BY <2>1, <2>2, Zenon DEF OpToRel
<1>10. QED
  BY <1>4, <1>8, <1>9

\* When nothing is being restored, the root is called no later than any listed module.
LEMMA RootBeforeListed ==
    ASSUME IInv, pass = "none", NEW m \in Modules, Listed(m)
    PROVE  Size > 0 /\ heap[1] \in Modules /\ Priority(heap[1]) <= Priority(m)
<1>1. TypeOK /\ IndexInLogic /\ Control /\ Order
  BY DEF IInv
<1>2. Size \in Nat /\ (\A i \in 1 .. Size : heap[i] \in Modules) /\ low = 1
  BY <1>1, HeapFacts DEF Control, TypeOK
<1>3. \A i \in 2 .. Size : InOrder(i)
  BY <1>1, <1>2, NodeFacts DEF Order, Unsettled
<1>4. index[m] \in 1 .. Size /\ heap[index[m]] = m
  <2>1. index[m] \in Nat
    BY <1>1 DEF TypeOK
  <2>2. QED
    BY <1>1, <1>2, <2>1 DEF IndexInLogic, Listed
<1>5. Priority(heap[1]) <= Priority(heap[index[m]])
  BY <1>1, <1>3, <1>4, RootIsFirst
<1>6. QED
  BY <1>2, <1>4, <1>5

\* What is created while an update runs does not come before it.
LEMMA RegisterStep == ASSUME IInv, NEW o \in Objects, RegisterObject(o) PROVE IInv'
<1>1. TypeOK /\ IndexInLogic /\ Control /\ Membership /\ Order /\ Bridge /\ Running /\ Phases
  BY DEF IInv
<1>2. /\ pass = "none" /\ joining = {} /\ leaving = {} /\ o \in unborn
      /\ (stage = "updates" => current # None)
      /\ (current # None => Phase[current] # PHASE_FINAL)
      /\ unborn' = unborn \ {o} /\ joining' = ModulesOf(o)
      /\ UNCHANGED <<heap, index, pass, at, low, leaving, dying, current, now, stage, lastPhase>>
  BY DEF RegisterObject, MayAct, Restored, tree, clock
<1>3. PICK fs \in [ModulesOf(o) -> now .. Forever] :
        /\ \A m \in ModulesOf(o) : FirstCall(m, fs[m])
        /\ wake' = [m \in Modules |-> IF ObjectOf[m] = o THEN fs[m] ELSE wake[m]]
  BY DEF RegisterObject
<1>4. now \in Nat /\ Forever \in Nat /\ ModulesOf(o) \subseteq Modules /\ PHASE_NORMAL = 2 /\ PHASE_FINAL = 3
  BY <1>1, SleepyAssumption DEF TypeOK, ModulesOf, PHASE_NORMAL, PHASE_FINAL
<1>5. \A m \in Modules : wake'[m] = IF ObjectOf[m] = o THEN fs[m] ELSE wake[m]
  BY <1>3
<1>6. \A m \in ModulesOf(o) :
        /\ ObjectOf[m] = o /\ wake'[m] = fs[m] /\ fs[m] \in Nat /\ fs[m] \in 0 .. Forever /\ fs[m] >= now
        /\ fs[m] > now \/ (fs[m] = now /\ Phase[m] = 2)
  <2> SUFFICES ASSUME NEW m \in ModulesOf(o)
               PROVE  /\ ObjectOf[m] = o /\ wake'[m] = fs[m] /\ fs[m] \in Nat
                      /\ fs[m] \in 0 .. Forever /\ fs[m] >= now
                      /\ fs[m] > now \/ (fs[m] = now /\ Phase[m] = 2)
    OBVIOUS
  <2>1. ObjectOf[m] = o /\ m \in Modules /\ fs[m] \in now .. Forever
    BY <1>3 DEF ModulesOf
  <2>2. FirstCall(m, fs[m])
    BY <1>3
  <2>3. ASSUME NEW d \in Delays, fs[m] = CallFrame(now + d) PROVE fs[m] > now
    <3>1. d \in Nat \ {0}
      BY SleepyAssumption
    <3>2. QED
      BY <1>1, <2>3, <3>1, CallFrameFacts
  <2>4. ASSUME Phase[m] = PHASE_NORMAL, fs[m] = IF now = 0 THEN 1 ELSE now
        PROVE  fs[m] > now \/ (fs[m] = now /\ Phase[m] = 2)
    BY <1>4, <2>4
  <2>5. QED
    BY <1>4, <1>5, <2>1, <2>2, <2>3, <2>4 DEF FirstCall
<1>7. \A m \in Modules : Listed(m) => wake'[m] = wake[m] /\ ObjectOf[m] # o
  BY <1>1, <1>2, <1>5 DEF Membership
<1>8. Size' = Size /\ Size \in Nat /\ \A k \in 1 .. Size : heap[k] \in Modules /\ wake'[heap[k]] = wake[heap[k]]
  <2>1. Size' = Size /\ Size \in Nat /\ \A k \in 1 .. Size : heap[k] \in Modules
    BY <1>1, <1>2, HeapFacts DEF Size
  <2>2. \A k \in 1 .. Size : Listed(heap[k])
    BY <1>1, <2>1 DEF IndexInLogic, Listed
  <2>3. QED
    BY <1>7, <2>1, <2>2
<1>9. IndexInLogic'
  BY <1>1, <1>2 DEF IndexInLogic, Listed, Size
<1>10. TypeOK'
  <2>1. wake' \in [Modules -> 0 .. Forever]
    <3>1. \A m \in Modules : wake'[m] \in 0 .. Forever
      BY <1>1, <1>5, <1>6 DEF TypeOK, ModulesOf
    <3>2. QED
      BY <1>3, <3>1
  <2>2. QED
    BY <1>1, <1>2, <1>4, <2>1 DEF TypeOK
<1>11. Control'
  BY <1>1, <1>2, <1>8 DEF Control
<1>12. Membership'
  BY <1>1, <1>2, <1>6 DEF Membership, Listed, ModulesOf, TypeOK
<1>13. Order' /\ Bridge'
  <2>1. \A k \in 1 .. Size : Priority(heap[k])' = Priority(heap[k])
    BY <1>2, <1>8 DEF Priority
  <2>2. \A i \in 2 .. Size : i \in 1 .. Size /\ Parent(i) \in 1 .. Size
    BY <1>8, NodeFacts
  <2>3. \A i \in 2 .. Size : InOrder(i) => InOrder(i)'
    BY <1>2, <2>1, <2>2 DEF InOrder
  <2>4. Order'
    BY <1>1, <1>2, <1>8, <2>3 DEF Order, Unsettled
  <2>5. Bridge'
    BY <1>2 DEF Bridge
  <2>6. QED
    BY <2>4, <2>5
<1>14. Running'
  <2> SUFFICES ASSUME current # None PROVE Running'
    BY <1>2 DEF Running
  <2>1. Size > 0 /\ heap[1] = current /\ wake[current] <= now /\ current \in Modules
    BY <1>1 DEF Running, TypeOK
  <2>2. wake'[current] = wake[current]
    BY <1>8, <2>1
  <2>3. ASSUME NEW m \in ModulesOf(o) PROVE 4 * fs[m] + Phase[m] >= Priority(current)
    <3>1. CASE fs[m] > now
      BY <1>1, <1>4, <1>6, <2>1, <3>1, LaterIsAfter
    <3>2. CASE fs[m] = now /\ Phase[m] = 2
      <4>1. Phase[current] \in 0 .. 2 /\ wake[current] \in Nat
        <5>1. Phase[current] \in 0 .. 3 /\ 0 .. Forever \subseteq Nat
          BY <2>1, SleepyAssumption
        <5>2. QED
          BY <1>1, <1>2, <1>4, <2>1, <5>1 DEF TypeOK
      <4>2. QED
        BY <1>4, <2>1, <3>2, <4>1 DEF Priority
    <3>3. QED
      BY <1>6, <3>1, <3>2
  <2>4. \A m \in ModulesOf(o) : Priority(m)' = 4 * fs[m] + Phase[m]
    BY <1>6 DEF Priority
  <2>5. Priority(current)' = Priority(current)
    BY <1>2, <2>2 DEF Priority
  <2>6. QED
    BY <1>2, <1>8, <2>1, <2>2, <2>3, <2>4, <2>5 DEF Running
<1>15. Phases'
  <2>1. ASSUME stage = "updates", lastPhase > 0, NEW m \in Modules, Listed(m) \/ m \in ModulesOf(o)
        PROVE  ToCome(m)'
    <3>1. CASE Listed(m)
      BY <1>1, <1>2, <1>7, <2>1, <3>1 DEF Phases, ToCome
    <3>2. CASE m \in ModulesOf(o)
      <4>1. current # None /\ lastPhase = Phase[current] /\ current \in Modules
        BY <1>1, <1>2, <2>1 DEF Phases, TypeOK
      <4>2. Phase[current] \in 0 .. 3
        BY <4>1, SleepyAssumption
      <4>3. lastPhase <= 2
        BY <1>2, <1>4, <4>1, <4>2
      <4>4. QED
        BY <1>2, <1>6, <3>2, <4>3 DEF ToCome
    <3>3. QED
      BY <2>1, <3>1, <3>2
  <2>2. QED
    BY <1>1, <1>2, <2>1 DEF Phases, Listed
<1>16. QED
  BY <1>9, <1>10, <1>11, <1>12, <1>13, <1>14, <1>15 DEF IInv

LEMMA CallStep == ASSUME IInv, CallUpdate PROVE IInv'
<1> DEFINE m == heap[1]
<1>1. TypeOK /\ IndexInLogic /\ Control /\ Membership /\ Order /\ Bridge /\ Running /\ Phases
  BY DEF IInv
<1>2. /\ pass = "none" /\ joining = {} /\ leaving = {} /\ stage = "updates" /\ current = None
      /\ Size > 0 /\ wake[m] <= now /\ current' = m
      /\ lastPhase' = (IF wake[m] = now THEN Phase[m] ELSE lastPhase)
      /\ UNCHANGED <<heap, index, wake, pass, at, low, joining, leaving, unborn, dying, now, stage>>
  BY DEF CallUpdate, Restored, tree, work, world
<1>3. m \in Modules /\ Listed(m) /\ Phase[m] \in 0 .. 3 /\ wake[m] \in Nat /\ now \in Nat
  <2>1. m \in Modules /\ 1 \in 1 .. Size
    BY <1>1, <1>2, HeapFacts
  <2>2. Listed(m)
    BY <1>1, <2>1 DEF IndexInLogic, Listed
  <2>3. 0 .. Forever \subseteq Nat /\ 0 .. MaxFrame \subseteq Nat
    BY SleepyAssumption
  <2>4. QED
    BY <1>1, <2>1, <2>2, <2>3, SleepyAssumption DEF TypeOK
<1> HIDE DEF m
<1>4. TypeOK' /\ IndexInLogic'
  BY <1>1, <1>2, <1>3 DEF TypeOK, IndexInLogic, Listed, Size
<1>5. Control' /\ Membership'
  BY <1>1, <1>2 DEF Control, Membership, Listed, Size
<1>6. Order' /\ Bridge'
  BY <1>1, <1>2 DEF Order, Bridge, InOrder, Unsettled, Size, Priority
<1>7. Running'
  BY <1>2, <1>3 DEF Running, Size, Priority, m
<1>8. Phases'
  <2>1. ASSUME wake[m] = now, NEW n \in Modules, Listed(n)
        PROVE  wake[n] > now \/ (wake[n] = now /\ Phase[n] >= Phase[m])
    <3>1. Priority(m) <= Priority(n)
      BY <1>2, <2>1, RootBeforeListed DEF IInv, m
    <3>2. wake[n] \in Nat /\ Phase[n] \in 0 .. 3
      <4>1. 0 .. Forever \subseteq Nat
        BY SleepyAssumption
      <4>2. QED
        BY <1>1, <4>1, SleepyAssumption DEF TypeOK
    <3>3. QED
      BY <1>3, <2>1, <3>1, <3>2 DEF Priority
  <2>2. CASE wake[m] = now
    BY <1>2, <2>1, <2>2 DEF Phases, ToCome, Listed
  <2>3. CASE wake[m] # now
    <3>1. ~(lastPhase > 0)
      BY <1>1, <1>2, <1>3, <2>3 DEF Phases, ToCome
    <3>2. QED
      BY <1>2, <2>3, <3>1 DEF Phases
  <2>4. QED
    BY <2>2, <2>3
<1>9. QED
  BY <1>4, <1>5, <1>6, <1>7, <1>8 DEF IInv

\* The steps that leave the heap and the modules alone.
LEMMA StageStep ==
    ASSUME IInv,
           BeginUpdates \/ EndUpdates \/ EndDestroyList \/ NextFrame
             \/ \E o \in Objects : DestroyObject(o) \/ DeleteObject(o)
    PROVE  IInv'
<1>1. TypeOK /\ IndexInLogic /\ Control /\ Membership /\ Order /\ Bridge /\ Running /\ Phases
  BY DEF IInv
<1>2. /\ pass = "none" /\ joining = {} /\ leaving = {} /\ low = 1
      /\ UNCHANGED <<heap, index, wake, pass, at, low, joining, unborn, current>>
  BY <1>1 DEF BeginUpdates, EndUpdates, EndDestroyList, NextFrame, DestroyObject, DeleteObject,
              MayAct, Restored, Control, TypeOK, tree, work, world, clock
<1>3. IndexInLogic' /\ Order' /\ Bridge' /\ Size' = Size
  BY <1>1, <1>2 DEF IndexInLogic, Order, Bridge, InOrder, Unsettled, Size, Priority, Listed
<1>4. CASE BeginUpdates \/ EndUpdates \/ EndDestroyList
  <2>1. /\ stage' \in {"updates", "deleting", "late"} /\ (stage' = "updates" => stage = "commands")
        /\ (stage' # "updates" => current = None)
        /\ UNCHANGED <<leaving, dying, now, lastPhase>>
    BY <1>1, <1>4 DEF BeginUpdates, EndUpdates, EndDestroyList, Control, work, world
  <2>2. TypeOK' /\ Control' /\ Membership'
    BY <1>1, <1>2, <1>3, <2>1 DEF TypeOK, Control, Membership, Listed
  <2>3. Running' /\ Phases'
    BY <1>1, <1>2, <1>3, <2>1 DEF Control, Running, Phases, Priority
  <2>4. QED
    BY <1>3, <2>2, <2>3 DEF IInv
<1>5. CASE NextFrame
  <2>1. /\ stage' = "commands" /\ lastPhase' = 0 /\ now' = now + 1 /\ now < MaxFrame /\ current = None
        /\ UNCHANGED <<leaving, dying>>
    BY <1>1, <1>5 DEF NextFrame, Control, work, world
  <2>2. now' \in 0 .. MaxFrame
    BY <1>1, <2>1, SleepyAssumption DEF TypeOK
  <2>3. TypeOK' /\ Control' /\ Membership' /\ Running' /\ Phases'
    BY <1>1, <1>2, <1>3, <2>1, <2>2 DEF TypeOK, Control, Membership, Listed, Running, Phases
  <2>4. QED
    BY <1>3, <2>3 DEF IInv
<1>6. ASSUME NEW o \in Objects, DestroyObject(o) \/ DeleteObject(o) PROVE IInv'
  <2>1. /\ dying' \subseteq Objects /\ leaving' \subseteq Modules
        /\ (leaving' # {} => stage = "deleting") /\ (\A m \in leaving' : Listed(m))
        /\ UNCHANGED <<now, stage, lastPhase>>
    BY <1>1, <1>2, <1>6 DEF DestroyObject, DeleteObject, TypeOK, ModulesOf, clock, work
  <2>2. TypeOK' /\ Control' /\ Membership'
    BY <1>1, <1>2, <1>3, <2>1 DEF TypeOK, Control, Membership, Listed
  <2>3. Running' /\ Phases'
    BY <1>1, <1>2, <1>3, <2>1 DEF Running, Phases, Priority, ToCome, Listed
  <2>4. QED
    BY <1>3, <2>2, <2>3 DEF IInv
<1>7. QED
  BY <1>4, <1>5, <1>6

LEMMA StutterStep == ASSUME IInv, UNCHANGED vars PROVE IInv'
<1>1. UNCHANGED <<heap, index, wake, pass, at, low, joining, leaving, unborn, dying,
                  now, stage, current, lastPhase>>
  BY DEF vars, tree, work, world, clock
<1>2. TypeOK' /\ IndexInLogic' /\ Control' /\ Membership'
  BY <1>1 DEF IInv, TypeOK, IndexInLogic, Control, Membership, Listed, Size
<1>3. Order' /\ Bridge' /\ Running' /\ Phases'
  BY <1>1 DEF IInv, Order, Bridge, InOrder, Unsettled, Running, Phases, ToCome, Listed, Size, Priority
<1>4. QED
  BY <1>2, <1>3 DEF IInv

\* Nothing of the heap of a loaded game is in order yet, but it has no node below the first
\* that is to be restored.
LEMMA InitInv == Init => IInv
<1> SUFFICES ASSUME Init PROVE IInv
  OBVIOUS
<1>1. NumModules \in Nat /\ NumSaved \in Nat /\ NumSaved <= NumModules /\ Modules = 1 .. NumModules
  BY SleepyAssumption DEF Modules
<1>2. /\ heap \in Seq(Modules) /\ Size = NumSaved
      /\ \A i \in 1 .. NumSaved : heap[i] = i
  <2>1. heap = [i \in 1 .. NumSaved |-> i] /\ heap \in [1 .. NumSaved -> Modules]
    BY <1>1 DEF Init
  <2>2. QED
    BY <1>1, <2>1 DEF Size
<1>3. /\ joining = {} /\ leaving = {} /\ dying = {} /\ stage = "commands" /\ current = None
      /\ lastPhase = 0 /\ at = low
      /\ pass = (IF NumSaved = 0 THEN "none" ELSE "child")
      /\ index = [m \in Modules |-> IF m <= NumSaved THEN m ELSE 0]
      /\ unborn = {o \in Objects : \A m \in ModulesOf(o) : m > NumSaved}
      /\ now = (IF NumSaved = 0 THEN 0 ELSE 2)
  BY DEF Init, SavedFrame
<1>4. /\ low \in Nat \ {0} /\ (NumSaved = 0 => low = 1) /\ (NumSaved > 0 => low <= NumSaved)
      /\ 2 * low > NumSaved
  BY <1>1 DEF Init
<1>5. wake \in [Modules -> 0 .. Forever]
  <2>1. PICK fs \in [1 .. NumSaved -> 1 .. Forever] :
          wake = [m \in Modules |-> IF m <= NumSaved THEN fs[m] ELSE 0]
    BY DEF Init
  <2>2. \A m \in 1 .. NumSaved : fs[m] \in 0 .. Forever
    BY <2>1, SleepyAssumption
  <2>3. \A m \in Modules : m <= NumSaved => m \in 1 .. NumSaved
    BY <1>1
  <2>4. \A m \in Modules : wake[m] \in 0 .. Forever
    BY <2>1, <2>2, <2>3, SleepyAssumption
  <2>5. QED
    BY <2>1, <2>4
<1>6. TypeOK
  <2>1. index \in [Modules -> Nat]
    BY <1>1, <1>3
  <2>2. now \in 0 .. MaxFrame /\ 0 \in 0 .. 3 /\ unborn \subseteq Objects
    BY <1>3, SleepyAssumption
  <2>3. QED
    BY <1>2, <1>3, <1>4, <1>5, <2>1, <2>2 DEF TypeOK
<1>7. IndexInLogic
  <2>1. \A m \in Modules : index[m] = IF m <= NumSaved THEN m ELSE 0
    BY <1>3
  <2>2. \A i \in 1 .. NumSaved : i \in Modules /\ index[i] = i
    BY <1>1, <2>1
  <2>3. \A m \in Modules : index[m] # 0 => m \in 1 .. NumSaved /\ index[m] = m
    BY <1>1, <2>1
  <2>4. QED
    BY <1>1, <1>2, <2>2, <2>3 DEF IndexInLogic, Listed
<1>8. Control
  BY <1>1, <1>2, <1>3, <1>4 DEF Control, None
<1>9. Membership
  <2>1. \A m \in Modules : m \in ModulesOf(ObjectOf[m]) /\ m \in Nat
    BY <1>1 DEF ModulesOf
  <2>2. QED
    BY <1>1, <1>3, <2>1 DEF Membership, Listed
<1>10. Order /\ Bridge
  <2>1. ASSUME NEW i \in 2 .. NumSaved PROVE Parent(i) < low
    <3>1. Parent(i) \in Nat /\ i \in {2 * Parent(i), 2 * Parent(i) + 1}
      <4>1. i \in Nat /\ i >= 2
        BY <1>1
      <4>2. Parent(i) \in Nat
        BY <1>1, NodeFacts
      <4>3. QED
        BY <4>1, <4>2, ParentFacts
    <3>2. QED
      BY <1>1, <1>4, <3>1
  <2>2. \A i \in 2 .. NumSaved : Parent(i) \in Nat /\ ~(Parent(i) >= low)
    BY <1>1, <1>4, <2>1, NodeFacts
  <2>3. at >= 2 /\ pass # "none" => at \in 2 .. NumSaved
    BY <1>1, <1>3, <1>4
  <2>4. QED
    BY <1>2, <2>2, <2>3 DEF Order, Bridge
<1>11. Running /\ Phases
  BY <1>3 DEF Running, Phases
<1>12. QED
  BY <1>6, <1>7, <1>8, <1>9, <1>10, <1>11 DEF IInv

LEMMA NextInv == IInv /\ [Next]_vars => IInv'
<1> SUFFICES ASSUME IInv, [Next]_vars PROVE IInv'
  OBVIOUS
<1>1. CASE Restore
  BY <1>1, RiseStep, RiseNoMoreStep, SinkStep, SinkNoMoreStep, PushStep, EraseStep DEF Restore
<1>2. CASE Act
  BY <1>2, RegisterStep, AwakenStep, StageStep DEF Act
<1>3. CASE Advance
  BY <1>3, StageStep, CallStep, ReturnStep DEF Advance
<1>4. CASE UNCHANGED vars
  BY <1>4, StutterStep
<1>5. QED
  BY <1>1, <1>2, <1>3, <1>4 DEF Next

LEMMA Invariance == Spec => []IInv
<1>1. QED
  BY InitInv, NextInv, PTL DEF Spec

--------------------------------------------------------------------------------
(* Every variable has the values the code can give it. *)
THEOREM TypeCorrect == Spec => []TypeOK
<1>1. IInv => TypeOK
  BY DEF IInv
<1>2. QED
  BY <1>1, Invariance, PTL

(* A module's index in the heap is where it is, so that waking it up or deleting *)
(* its object (friend_awakenUpdateModule, processDestroyList) finds it.          *)
THEOREM IndexCorrect == Spec => []IndexInLogic
<1>1. IInv => IndexInLogic
  BY DEF IInv
<1>2. QED
  BY <1>1, Invariance, PTL

(* Pushing, waking up, calling and erasing modules leave the heap in order, of    *)
(* whatever size it is, and so does loading a game.                               *)
THEOREM HeapCorrect == Spec => []HeapOrdered
<1>1. IInv => HeapOrdered
  <2> SUFFICES ASSUME IInv, pass = "none", NEW i \in 2 .. Size PROVE InOrder(i)
    BY DEF HeapOrdered, InOrder
  <2>1. TypeOK /\ Control /\ Order
    BY DEF IInv
  <2>2. low = 1 /\ Size \in Nat
    BY <2>1, HeapFacts DEF Control, TypeOK
  <2>3. QED
    BY <2>1, <2>2, NodeFacts DEF Order, Unsettled
<1>2. QED
  BY <1>1, Invariance, PTL

(* Whatever an update does, its module is still at the root when it returns.      *)
THEOREM CurrentFirst == Spec => []CurrentStaysFirst
<1>1. IInv => CurrentStaysFirst
  BY DEF IInv, Running, CurrentStaysFirst
<1>2. QED
  BY <1>1, Invariance, PTL

(* When the updates of a frame are done, every module whose frame has come has    *)
(* been called.                                                                   *)
THEOREM NobodySleepsTooLong == Spec => NobodyOversleeps
<1>1. ASSUME IInv, [Next]_vars, stage = "updates", stage' = "deleting", NEW m \in Modules, Listed(m)
      PROVE  wake[m] > now
  <2>1. EndUpdates
    BY <1>1 DEF Next, Restore, Rise, RiseNoMore, Sink, SinkNoMore, PushSleepyUpdate,
       EraseSleepyUpdate, Act, RegisterObject, DestroyObject, AwakenUpdateModule, Advance,
       BeginUpdates, CallUpdate, EndDestroyList, NextFrame, ReturnFromUpdate, DeleteObject,
       vars, clock
  <2>2. pass = "none" /\ (Size > 0 => wake[heap[1]] > now)
    BY <2>1 DEF EndUpdates, Restored
  <2>3. wake[heap[1]] > now /\ heap[1] \in Modules /\ Priority(heap[1]) <= Priority(m)
    BY <1>1, <2>2, RootBeforeListed
  <2>4. \A n \in Modules : wake[n] \in Nat /\ Phase[n] \in 0 .. 3
    <3>1. 0 .. Forever \subseteq Nat
      BY SleepyAssumption
    <3>2. QED
      BY <1>1, <3>1, SleepyAssumption DEF IInv, TypeOK
  <2>5. now \in Nat
    BY <1>1, SleepyAssumption DEF IInv, TypeOK
  <2>6. QED
    BY <2>3, <2>4, <2>5 DEF Priority
<1>2. IInv /\ [Next]_vars =>
        [stage = "updates" /\ stage' = "deleting" => \A m \in Modules : Listed(m) => wake[m] > now]_vars
  BY <1>1
<1>3. QED
  BY <1>2, Invariance, PTL DEF Spec, NobodyOversleeps

(* The modules called for a frame are called in the order of their phases.        *)
THEOREM InOrderOfPhases == Spec => PhasesInOrder
<1>1. ASSUME IInv, [Next]_vars, current' \notin {None, current}, wake[current'] = now
      PROVE  Phase[current'] >= lastPhase
  <2>1. CallUpdate
    BY <1>1 DEF Next, Restore, Rise, RiseNoMore, Sink, SinkNoMore, PushSleepyUpdate,
       EraseSleepyUpdate, Act, RegisterObject, DestroyObject, AwakenUpdateModule, Advance,
       BeginUpdates, EndUpdates, EndDestroyList, NextFrame, ReturnFromUpdate, DeleteObject,
       vars, clock
  <2>2. stage = "updates" /\ current' = heap[1] /\ Size > 0
    BY <2>1 DEF CallUpdate
  <2>3. current' \in Modules /\ Listed(current')
    <3>1. heap[1] \in Modules /\ 1 \in 1 .. Size
      BY <1>1, <2>2, HeapFacts DEF IInv
    <3>2. QED
      BY <1>1, <2>2, <3>1 DEF IInv, IndexInLogic, Listed
  <2>4. Phase[current'] \in 0 .. 3 /\ lastPhase \in 0 .. 3 /\ now \in Nat
    BY <1>1, <2>3, SleepyAssumption DEF IInv, TypeOK
  <2>5. CASE lastPhase > 0
    BY <1>1, <2>2, <2>3, <2>4, <2>5 DEF IInv, Phases, ToCome
  <2>6. CASE ~(lastPhase > 0)
    BY <2>4, <2>6
  <2>7. QED
    BY <2>5, <2>6
<1>2. IInv /\ [Next]_vars =>
        [current' \notin {None, current} /\ wake[current'] = now => Phase[current'] >= lastPhase]_vars
  BY <1>1
<1>3. QED
  BY <1>2, Invariance, PTL DEF Spec, PhasesInOrder
================================================================================
