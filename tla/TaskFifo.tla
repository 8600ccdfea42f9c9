------------------------------ MODULE TaskFifo ------------------------------
(***************************************************************************)
(* What a task queue promises to the task manager, with no ring, no atomic *)
(* and no thread: pushes are numbered in the order they claimed a place,   *)
(* a push becomes visible some time after it claimed its place, and takers *)
(* receive the pushes in the order of their numbers, each of them once.    *)
(***************************************************************************)
EXTENDS Naturals, Sequences

VARIABLES
    claimed,    \* how many pushes have claimed a place
    stored,     \* the numbers of the pushes whose task is visible
    delivered   \* the numbers handed out, in the order they were

fifoVars == <<claimed, stored, delivered>>

FifoInit ==
    /\ claimed = 0
    /\ stored = {}
    /\ delivered = <<>>

Claim ==
    /\ claimed' = claimed + 1
    /\ UNCHANGED <<stored, delivered>>

Store ==
    /\ \E p \in (0 .. claimed - 1) \ stored : stored' = stored \cup {p}
    /\ UNCHANGED <<claimed, delivered>>

\* The oldest push not yet handed out, once it is visible.
Take ==
    /\ Len(delivered) \in stored
    /\ delivered' = Append(delivered, Len(delivered))
    /\ UNCHANGED <<claimed, stored>>

FifoNext == Claim \/ Store \/ Take

FifoSpec == FifoInit /\ [][FifoNext]_fifoVars
=============================================================================
