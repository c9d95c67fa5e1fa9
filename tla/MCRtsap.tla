------------------------------ MODULE MCRtsap ------------------------------
(***************************************************************************)
(* Instances of Rtsap for TLC.  A run is a set of modes, with the number   *)
(* of transfers that each end of such an association asks for.             *)
(***************************************************************************)
EXTENDS RtsapProperties, TLC

\* The data at hand, checkpoints.
Plain(twa, window) == [twa |-> twa, ckpoint |-> TRUE, window |-> window,
                       uptrans |-> FALSE, downtrans |-> FALSE]

\* Monologue: a second transfer by the same end; callbacks at both ends.
\* Two-way alternate: a transfer by each end and the turn between them; a
\* window of one; data supplied by a callback; no checkpoints.
AllTransfers ==
    Plain(FALSE, 2) :> 2 @@
    [Plain(FALSE, 1) EXCEPT !.uptrans = TRUE, !.downtrans = TRUE] :> 1 @@
    Plain(TRUE, 1) :> 1 @@
    [Plain(TRUE, 1) EXCEPT !.downtrans = TRUE] :> 1 @@
    [Plain(TRUE, 1) EXCEPT !.ckpoint = FALSE] :> 1
AllModes == DOMAIN AllTransfers
AllFaults == Fault

\* A receiver that runs out of memory during a transfer with a time limit.
SmallTransfers == Plain(FALSE, 1) :> 1
SmallModes == DOMAIN SmallTransfers
RefuseAndTimer == {"refuse", "timer"}
=============================================================================
