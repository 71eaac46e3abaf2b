------------------------------ MODULE DataTransfer ------------------------------
(***************************************************************************)
(* What one call of data_connection::send or recv, and the question of     *)
(* client.cpp after it, promise: how much has arrived at the other end,    *)
(* and what the client makes of it.                                        *)
(***************************************************************************)
EXTENDS Naturals

VARIABLES
    size, moved,    \* what there is to transfer, what has been
    outcome,        \* the client goes on moving, or what it does next
    cut             \* history: the loop ended because is_cancelled() said so

transfer == <<size, moved, outcome, cut>>

TransferInit == size \in Nat /\ moved = 0 /\ outcome = "moving" /\ cut = FALSE

Move(n) ==
    /\ outcome = "moving" /\ n <= size - moved
    /\ moved' = moved + n
    /\ UNCHANGED <<size, outcome, cut>>

BreakOff ==
    /\ outcome = "moving"
    /\ cut' = TRUE
    /\ UNCHANGED <<size, moved, outcome>>

\* All has been moved; or not, when the callback that broke the transfer off
\* no longer says that it is cancelled.
Complete ==
    /\ outcome = "moving" /\ (moved = size \/ cut)
    /\ outcome' = "complete"
    /\ UNCHANGED <<size, moved, cut>>

\* Also when all has been moved before is_cancelled() became true.
Abort ==
    /\ outcome = "moving" /\ (moved = size \/ cut)
    /\ outcome' = "aborted"
    /\ UNCHANGED <<size, moved, cut>>

Fail ==
    /\ outcome = "moving"
    /\ outcome' = "thrown"
    /\ UNCHANGED <<size, moved, cut>>

TransferNext == (\E n \in 1 .. size : Move(n)) \/ BreakOff \/ Complete \/ Abort \/ Fail

TransferSpec == TransferInit /\ [][TransferNext]_transfer
================================================================================
