------------------------------ MODULE FrameStore ------------------------------
(***************************************************************************)
(* What a machine's frame data promises: one entry for each player and     *)
(* each frame from the oldest one kept on, where nothing that happens to   *)
(* one frame touches the entry of another, and a frame that comes within   *)
(* reach starts out empty.                                                 *)
(***************************************************************************)
EXTENDS Integers

CONSTANTS
    Players, Command,
    Span,   \* how many frames are within reach
    Fresh   \* the entry of each player for a frame nothing is known of

VARIABLES
    first,  \* the oldest frame kept
    store   \* the entry of each player and each of the Span frames from there on

vars == <<first, store>>

Frames == first .. first + Span - 1
Entry == [list : SUBSET Command, count : Int]
BelongsTo(e, f) == \A c \in e.list : c.frame = f

Init ==
    /\ first \in Int
    /\ \A p \in Players : \A f \in Frames : store[p][f] \in Entry /\ store[p][f].list = {}

\* Commands and counts of one frame change, and only commands of that frame are in it.
UpdateFrame(f) ==
    /\ UNCHANGED first
    /\ \A p \in Players :
         /\ store'[p][f] \in Entry
         /\ BelongsTo(store'[p][f], f)
         /\ \A g \in Frames \ {f} : store'[p][g] = store[p][g]

\* The oldest frame is forgotten and a new one comes within reach.
Advance ==
    /\ first' = first + 1
    /\ \A p \in Players :
         /\ store'[p][first + Span] = Fresh[p]
         /\ \A g \in Frames \ {first} : store'[p][g] = store[p][g]

\* The entries of a player who is gone are dropped.
Drop(p) ==
    /\ UNCHANGED first
    /\ \A f \in Frames : store'[p][f] = Fresh[p]
    /\ \A q \in Players \ {p} : store'[q] = store[q]

Next ==
    \/ \E f \in Frames : UpdateFrame(f)
    \/ Advance
    \/ \E p \in Players : Drop(p)

Spec == Init /\ [][Next]_vars
=============================================================================
