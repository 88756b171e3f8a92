----------------------------- MODULE SleepyUpdates -----------------------------
(***************************************************************************)
(* When the game logic calls the update modules of the objects.  Each      *)
(* module says how many frames it sleeps; the logic keeps all modules in   *)
(* an array that is a binary heap on the frame of the next call and, in    *)
(* one frame, the phase.  Each module knows its index, so that it can be   *)
(* woken up or taken out wherever it is.  While a module's update runs it  *)
(* stays in the heap, at the root, and whatever it does may wake up other  *)
(* modules, create objects and destroy them.                               *)
(*                                                                         *)
(* Indices are one higher than in the code, and 0 stands for -1.  A loop   *)
(* that restores the heap takes a step per round; nothing else happens in  *)
(* between.                                                                *)
(***************************************************************************)
EXTENDS Integers, Sequences

CONSTANTS
    NumModules,   \* update modules 1 .. NumModules
    NumSaved,     \* the modules of the saved game that is loaded, 1 .. NumSaved; 0: a new game
    Objects,      \* the objects
    ObjectOf,     \* of each module: its object
    Phase,        \* of each module: PHASE_INITIAL, _PHYSICS, _NORMAL or _FINAL, 0 .. 3
    Delays,       \* for how many frames a module may go to sleep
    WakeDelays,   \* in how many frames another module may be woken up
    Forever,      \* UPDATE_SLEEP_FOREVER
    MaxFrame      \* bound on the frames of a game

Modules == 1 .. NumModules
None == 0

PHASE_NORMAL == 2
PHASE_FINAL == 3

ASSUME SleepyAssumption ==
    /\ NumModules \in Nat /\ NumSaved \in 0 .. NumModules
    /\ ObjectOf \in [Modules -> Objects]
    /\ \A m, n \in Modules : m <= NumSaved /\ n > NumSaved => ObjectOf[m] # ObjectOf[n]
    /\ Phase \in [Modules -> 0 .. 3]
    /\ Delays \subseteq Nat \ {0} /\ WakeDelays \subseteq Nat \ {0}
    /\ Forever \in Nat /\ MaxFrame \in Nat /\ MaxFrame < Forever
    /\ NumSaved > 0 => MaxFrame >= 2

VARIABLES
    heap,        \* m_sleepyUpdates
    index,       \* of each module: its index in the heap, m_indexInLogic
    wake,        \* of each module: the frame of its next call
    pass,        \* what is being restored: "none", "push", "both" or "child"
    at,          \* where
    low,         \* the heap is in order from this node's children on
    joining,     \* the modules of a new object that are not in the heap yet
    leaving,     \* the modules of a deleted object that are still in the heap
    unborn,      \* the objects that are not created yet
    dying,       \* m_objectsToDestroy
    now,         \* m_frame
    stage,       \* of a frame: "commands", "updates", "deleting", "late"
    current,     \* m_curUpdateModule
    lastPhase    \* history: the phase of the last module called for this frame

tree == <<heap, index>>
work == <<pass, at, low, joining, leaving>>
world == <<unborn, dying>>
clock == <<now, stage, current, lastPhase>>
vars == <<tree, wake, work, world, clock>>

--------------------------------------------------------------------------------
Size == Len(heap)
Listed(m) == index[m] # 0
ModulesOf(o) == {m \in Modules : ObjectOf[m] = o}

\* UpdateModule::friend_getPriority: the next frame and, below it, the phase.
Priority(m) == 4 * wake[m] + Phase[m]

\* Mutant: what lies beyond UPDATE_SLEEP_FOREVER is kept as it is.
CallFrame_Any(f) == f

\* UpdateModule::friend_setNextCallFrame
CallFrame(f) == IF f > Forever THEN Forever ELSE f

\* The frame a game is saved in: the first one that a module may be late for.
SavedFrame == 2

\* The frame a saved module is to be called in.  One of PHASE_NORMAL that was created after
\* the updates of the frame before was to be called in that frame, and is late.
SavedCall(m, f) ==
    \/ f = SavedFrame
    \/ \E d \in Delays : f = CallFrame(SavedFrame + d)
    \/ Phase[m] = PHASE_NORMAL /\ f = SavedFrame - 1

\* A loaded game has its modules in the order of the objects, to be put in order.
Init ==
    /\ heap = [i \in 1 .. NumSaved |-> i]
    /\ index = [m \in Modules |-> IF m <= NumSaved THEN m ELSE 0]
    /\ now = IF NumSaved = 0 THEN 0 ELSE SavedFrame
    /\ \E fs \in [1 .. NumSaved -> 1 .. Forever] :
         /\ \A m \in 1 .. NumSaved : SavedCall(m, fs[m])
         /\ wake = [m \in Modules |-> IF m <= NumSaved THEN fs[m] ELSE 0]
    /\ pass = IF NumSaved = 0 THEN "none" ELSE "child"
    /\ low = IF NumSaved = 0 THEN 1 ELSE NumSaved \div 2 + 1
    /\ at = low
    /\ joining = {} /\ leaving = {}
    /\ unborn = {o \in Objects : \A m \in ModulesOf(o) : m > NumSaved}
    /\ dying = {}
    /\ stage = "commands" /\ current = None /\ lastPhase = 0

--------------------------------------------------------------------------------
Parent(i) == i \div 2

\* Mutant: the modules change places, and only one of them is told.
IndexAfterSwap_Half(i, j) == [index EXCEPT ![heap[i]] = j]

IndexAfterSwap(i, j) == [index EXCEPT ![heap[i]] = j, ![heap[j]] = i]

Swap(i, j) ==
    /\ heap' = [heap EXCEPT ![i] = heap[j], ![j] = heap[i]]
    /\ index' = IndexAfterSwap(i, j)

\* GameLogic::rebalanceParentSleepyUpdate: a round of the loop, and its end.
MustRise(i) == i > 1 /\ Priority(heap[Parent(i)]) > Priority(heap[i])

Rise ==
    /\ pass \in {"push", "both"} /\ MustRise(at)
    /\ Swap(at, Parent(at))
    /\ at' = Parent(at)
    /\ UNCHANGED <<wake, pass, low, joining, leaving, world, clock>>

RiseNoMore ==
    /\ pass \in {"push", "both"} /\ ~MustRise(at)
    /\ pass' = IF pass = "push" THEN "none" ELSE "child"
    /\ UNCHANGED <<tree, wake, at, low, joining, leaving, world, clock>>

\* Mutant: the other child is not looked at.
FirstChild_Left(i) == 2 * i

\* The child that is called first.
FirstChild(i) ==
    IF 2 * i < Size /\ Priority(heap[2 * i]) > Priority(heap[2 * i + 1]) THEN 2 * i + 1 ELSE 2 * i

\* GameLogic::rebalanceChildSleepyUpdate: a round of the loop, and its end.
MustSink(i) == 2 * i <= Size /\ Priority(heap[i]) > Priority(heap[FirstChild(i)])

Sink ==
    /\ pass = "child" /\ MustSink(at)
    /\ Swap(at, FirstChild(at))
    /\ at' = FirstChild(at)
    /\ UNCHANGED <<wake, pass, low, joining, leaving, world, clock>>

\* GameLogic::remakeSleepyUpdate goes on with the node before.
SinkNoMore ==
    /\ pass = "child" /\ ~MustSink(at)
    /\ pass' = IF low = 1 THEN "none" ELSE "child"
    /\ low' = IF low = 1 THEN 1 ELSE low - 1
    /\ at' = IF low = 1 THEN at ELSE low - 1
    /\ UNCHANGED <<tree, wake, joining, leaving, world, clock>>

\* GameLogic::pushSleepyUpdate, of the modules of an object in their order.
PushSleepyUpdate(m) ==
    /\ pass = "none" /\ m \in joining /\ \A n \in joining : m <= n
    /\ heap' = Append(heap, m)
    /\ index' = [index EXCEPT ![m] = Size + 1]
    /\ pass' = "push" /\ at' = Size + 1
    /\ joining' = joining \ {m}
    /\ UNCHANGED <<wake, low, leaving, world, clock>>

\* Mutant: the module that fills the gap may only sink.
PassAfterErase_Child(i) == IF i < Size THEN "child" ELSE "none"

PassAfterErase(i) == IF i < Size THEN "both" ELSE "none"

\* GameLogic::eraseSleepyUpdate of one of the modules, the last taking its place.
EraseSleepyUpdate(m) ==
    LET i == index[m]
        last == heap[Size]
    IN  /\ pass = "none" /\ m \in leaving
        /\ heap' = SubSeq([heap EXCEPT ![i] = last], 1, Size - 1)
        /\ index' = [index EXCEPT ![last] = i, ![m] = 0]
        /\ pass' = PassAfterErase(i) /\ at' = i
        /\ leaving' = leaving \ {m}
        /\ UNCHANGED <<wake, low, joining, world, clock>>

Restore ==
    \/ Rise \/ RiseNoMore \/ Sink \/ SinkNoMore
    \/ \E m \in Modules : PushSleepyUpdate(m) \/ EraseSleepyUpdate(m)

Restored == pass = "none" /\ joining = {} /\ leaving = {}

--------------------------------------------------------------------------------
\* What commands, updates and the other parts of a frame do to objects and modules.
MayAct == Restored /\ (stage = "updates" => current # None)

\* Mutant: no constructor says when its module is to be called.
FirstCall_Now(m, f) == f = IF now = 0 THEN 1 ELSE now

\* The frame a new module is first called in: the constructors of the modules of other
\* phases than PHASE_NORMAL send them to sleep; others are called in the present frame.
FirstCall(m, f) ==
    \/ \E d \in Delays : f = CallFrame(now + d)
    \/ Phase[m] = PHASE_NORMAL /\ f = IF now = 0 THEN 1 ELSE now

\* GameLogic::registerObject; modules of PHASE_FINAL create no objects.
RegisterObject(o) ==
    /\ MayAct /\ o \in unborn
    /\ current # None => Phase[current] # PHASE_FINAL
    /\ \E fs \in [ModulesOf(o) -> now .. Forever] :
         /\ \A m \in ModulesOf(o) : FirstCall(m, fs[m])
         /\ wake' = [m \in Modules |-> IF ObjectOf[m] = o THEN fs[m] ELSE wake[m]]
    /\ unborn' = unborn \ {o}
    /\ joining' = ModulesOf(o)
    /\ UNCHANGED <<tree, pass, at, low, leaving, dying, clock>>

\* GameLogic::friend_awakenUpdateModule of a listed module, for d frames from now: not
\* of the one being updated, and not of one that is awake and is to be called at once.
AwakenUpdateModule(m, d) ==
    /\ MayAct /\ Listed(m) /\ m # current
    /\ wake[m] # now + d
    /\ ~(now > 0 /\ wake[m] = now /\ d = 1)
    /\ wake' = [wake EXCEPT ![m] = CallFrame(now + d)]
    /\ pass' = "both" /\ at' = index[m]
    /\ UNCHANGED <<tree, low, joining, leaving, world, clock>>

InWorld(o) == \E m \in ModulesOf(o) : Listed(m)

\* GameLogic::destroyObject
DestroyObject(o) ==
    /\ MayAct /\ InWorld(o) /\ o \notin dying
    /\ dying' = dying \cup {o}
    /\ UNCHANGED <<tree, wake, work, unborn, clock>>

Act ==
    \/ \E o \in Objects : RegisterObject(o) \/ DestroyObject(o)
    \/ \E m \in Modules, d \in WakeDelays : AwakenUpdateModule(m, d)

--------------------------------------------------------------------------------
\* GameLogic::update, in its order.
BeginUpdates ==
    /\ stage = "commands" /\ Restored
    /\ stage' = "updates"
    /\ UNCHANGED <<tree, wake, work, world, now, current, lastPhase>>

\* The module at the root is called if its frame has come.
CallUpdate ==
    /\ stage = "updates" /\ Restored /\ current = None
    /\ Size > 0 /\ wake[heap[1]] <= now
    /\ current' = heap[1]
    /\ lastPhase' = IF wake[heap[1]] = now THEN Phase[heap[1]] ELSE lastPhase
    /\ UNCHANGED <<tree, wake, work, world, now, stage>>

SleepLength(s) == IF s < 1 THEN 1 ELSE s

\* Its update has returned s.  (A disabled object's module is not called, and sleeps for
\* one frame: an update that does nothing and returns UPDATE_SLEEP_NONE.)
ReturnFromUpdate(s) ==
    /\ current # None /\ Restored
    /\ wake' = [wake EXCEPT ![current] = CallFrame(now + SleepLength(s))]
    /\ pass' = "both" /\ at' = 1
    /\ current' = None
    /\ UNCHANGED <<tree, low, joining, leaving, world, now, stage, lastPhase>>

EndUpdates ==
    /\ stage = "updates" /\ Restored /\ current = None
    /\ Size > 0 => wake[heap[1]] > now
    /\ stage' = "deleting"
    /\ UNCHANGED <<tree, wake, work, world, now, current, lastPhase>>

\* GameLogic::processDestroyList, of one object; its modules are taken out of the heap.
DeleteObject(o) ==
    /\ stage = "deleting" /\ Restored /\ o \in dying
    /\ dying' = dying \ {o}
    /\ leaving' = {m \in ModulesOf(o) : Listed(m)}
    /\ UNCHANGED <<tree, wake, pass, at, low, joining, unborn, clock>>

EndDestroyList ==
    /\ stage = "deleting" /\ Restored /\ dying = {}
    /\ stage' = "late"
    /\ UNCHANGED <<tree, wake, work, world, now, current, lastPhase>>

NextFrame ==
    /\ stage = "late" /\ Restored /\ now < MaxFrame
    /\ now' = now + 1
    /\ stage' = "commands" /\ lastPhase' = 0
    /\ UNCHANGED <<tree, wake, work, world, current>>

Advance ==
    \/ BeginUpdates \/ CallUpdate \/ EndUpdates \/ EndDestroyList \/ NextFrame
    \/ \E s \in {0} \cup Delays : ReturnFromUpdate(s)
    \/ \E o \in Objects : DeleteObject(o)

Next == Restore \/ Act \/ Advance

Spec == Init /\ [][Next]_vars

--------------------------------------------------------------------------------
\* Every variable has the values the code can give it.
TypeOK ==
    /\ heap \in Seq(Modules)
    /\ index \in [Modules -> Nat]
    /\ wake \in [Modules -> 0 .. Forever]
    /\ pass \in {"none", "push", "both", "child"}
    /\ at \in Nat /\ low \in Nat \ {0}
    /\ joining \subseteq Modules /\ leaving \subseteq Modules
    /\ unborn \subseteq Objects /\ dying \subseteq Objects
    /\ now \in 0 .. MaxFrame
    /\ stage \in {"commands", "updates", "deleting", "late"}
    /\ current \in Modules \cup {None}
    /\ lastPhase \in 0 .. 3

(* A module's index is where it is, and no module is in the heap twice: otherwise *)
(* waking it or deleting its object would disturb another one ("fatal error!      *)
(* sleepy update module index mismatch").                                         *)
IndexInLogic ==
    /\ \A i \in 1 .. Size : index[heap[i]] = i
    /\ \A m \in Modules : Listed(m) => index[m] <= Size /\ heap[index[m]] = m

(* When nothing is being restored no module is to be called before the one above  *)
(* it, whichever modules were pushed, woken up, called and erased                 *)
(* (GameLogic::validateSleepyUpdate: "sleepyUpdates are munged").                 *)
HeapOrdered ==
    pass = "none" => \A i \in 2 .. Size : Priority(heap[Parent(i)]) <= Priority(heap[i])

(* Whatever an update does, its module is still at the root when it returns: the  *)
(* game logic restores the heap from the root, not from where the module is.      *)
CurrentStaysFirst == current # None => Size > 0 /\ heap[1] = current

(* No module sleeps too long: when the updates of a frame are done, every module  *)
(* whose frame has come has been called.                                          *)
NobodyOversleeps ==
    [][stage = "updates" /\ stage' = "deleting" =>
         \A m \in Modules : Listed(m) => wake[m] > now]_vars

(* In a frame, the modules called for it are called in the order of their phases, *)
(* although updates wake up modules and create new ones ("all phase 0 are called  *)
(* before all phase 1 within a given frame").  A module that was created after    *)
(* the updates of a frame is called in the next, before all others.               *)
PhasesInOrder ==
    [][current' \notin {None, current} /\ wake[current'] = now =>
         Phase[current'] >= lastPhase]_vars
================================================================================
