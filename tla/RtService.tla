----------------------------- MODULE RtService -----------------------------
(***************************************************************************)
(* What the reliable transfer service promises its two users, apart from   *)
(* how rtsap/ and the session beneath it bring it about: the end that      *)
(* holds the turn asks for one transfer at a time; a transfer is handed to *)
(* the other user whole, at most once, before it is confirmed; a transfer  *)
(* that fails while the association lives was not handed over; when the    *)
(* association is lost the outcome of the transfer under way is unknown to *)
(* its sender, but not worse than that.                                    *)
(***************************************************************************)
EXTENDS Naturals, Sequences

CONSTANT Length    \* what is seen of the data of a transfer: its length

VARIABLES
    up,         \* does the user of each end still have the association
    turn,       \* the ends that hold the turn
    pending,    \* the transfer each end has asked for, << >> when none
    delivered,  \* the transfers handed to the user of each end
    confirmed   \* the transfers confirmed to the user of each end

rtvars == <<up, turn, pending, delivered, confirmed>>

End == {"init", "resp"}
Other(e) == IF e = "init" THEN "resp" ELSE "init"

\* Has the transfer that e asked for been handed over?
Handed(e) == delivered[Other(e)] # confirmed[e]

RtInit ==
    /\ up = [e \in End |-> TRUE]
    /\ \E e \in End : turn = {e}
    /\ pending = [e \in End |-> << >>]
    /\ delivered = [e \in End |-> << >>]
    /\ confirmed = [e \in End |-> << >>]

\* RT-TRANSFER.request
Request(e) ==
    /\ up[e] /\ e \in turn /\ pending[e] = << >>
    /\ \E n \in Length : pending' = [pending EXCEPT ![e] = <<n>>]
    /\ UNCHANGED <<up, turn, delivered, confirmed>>

\* RT-TRANSFER.indication; the sender may be gone by then.
Deliver(e) ==
    /\ up[Other(e)] /\ pending[e] # << >> /\ ~Handed(e)
    /\ delivered' = [delivered EXCEPT ![Other(e)] = @ \o pending[e]]
    /\ UNCHANGED <<up, turn, pending, confirmed>>

\* RT-TRANSFER.confirm
Confirm(e) ==
    /\ up[e] /\ pending[e] # << >> /\ Handed(e)
    /\ confirmed' = [confirmed EXCEPT ![e] = @ \o pending[e]]
    /\ pending' = [pending EXCEPT ![e] = << >>]
    /\ UNCHANGED <<up, turn, delivered>>

\* The transfer fails and the association goes on.
Fail(e) ==
    /\ up[e] /\ pending[e] # << >> /\ ~Handed(e)
    /\ pending' = [pending EXCEPT ![e] = << >>]
    /\ UNCHANGED <<up, turn, delivered, confirmed>>

\* RT-TURN-GIVE: the turn is nobody's while it is under way.
Give(e) ==
    /\ up[e] /\ e \in turn /\ pending[e] = << >>
    /\ turn' = turn \ {e}
    /\ UNCHANGED <<up, pending, delivered, confirmed>>

Take(e) ==
    /\ up[e] /\ turn = {}
    /\ turn' = {e}
    /\ UNCHANGED <<up, pending, delivered, confirmed>>

\* Release, abort or failure: e loses the association and the turn with it.
Gone(e) ==
    /\ up[e]
    /\ up' = [up EXCEPT ![e] = FALSE]
    /\ turn' = turn \ {e}
    /\ UNCHANGED <<pending, delivered, confirmed>>

RtNext ==
    \E e \in End : \/ Request(e) \/ Deliver(e) \/ Confirm(e) \/ Fail(e)
                   \/ Give(e) \/ Take(e) \/ Gone(e)

RtSpec == RtInit /\ [][RtNext]_rtvars

-----------------------------------------------------------------------------
(* What a user may rely on.                                                *)

\* Reliable: the transfers confirmed to one end are the first of those the
\* other end was handed, each once and in order, and at most the last one
\* handed over is unconfirmed.
Reliable ==
    \A e \in End : \/ delivered[Other(e)] = confirmed[e]
                   \/ /\ pending[e] # << >>
                      /\ delivered[Other(e)] = confirmed[e] \o pending[e]

\* The turn is never at both ends.
TurnExclusive == turn # End
=============================================================================
