-------------------------- MODULE RtsapProperties --------------------------
(***************************************************************************)
(* What the reliable transfer protocol machines of Rtsap promise their     *)
(* users, and what their own flags must say of the session beneath.        *)
(***************************************************************************)
EXTENDS Rtsap

-----------------------------------------------------------------------------
(* Types.                                                                  *)

\* Every field of struct assocblk and every thread stays in its range; the
\* chunk counter of rt2sstrans never runs below zero.
RtTypeOK ==
    /\ mode \in Mode
    /\ acb \in [Side -> assocblk]
    /\ rts \in [Side -> thread]
    /\ delivered \in [Side -> Seq(Nat)]
    /\ confirmed \in [Side -> Seq(Nat)]

-----------------------------------------------------------------------------
(* The service.                                                            *)

\* The abstract service, seen through the two association blocks.
Service == INSTANCE RtServiceProofs WITH
             Length <- 0 .. MaxChunks,
             up <- [s \in Side |-> Has(s, "ACB_CONN")],
             turn <- {s \in Side : Has(s, "ACB_TURN")},
             pending <- [s \in Side |-> rts[s].whole]

\* The two RTPMs implement RtService: RtTransferRequest returns OK only for
\* a transfer that the other user was handed whole, once and in order, and
\* returns an error with the association alive only for one he was not.
ServiceKept == Service!RtSpec

-----------------------------------------------------------------------------
(* The RTPM and its session.                                               *)

Under(s, code) == Cardinality({i \in DOMAIN net[s] : net[s][i].code = code})

\* The checkpoint window: the points that the receiver has still to read,
\* has still to confirm or whose confirmation is under way are never more
\* than acb_window, although sender and receiver each count on their own.
WindowKept ==
    \A s \in Side : Sending(s) =>
      Under(Peer(s), "MIP") + Under(s, "MIA") +
      (IF Due(Peer(s), "minor") THEN 1 ELSE 0) <= mode.window

\* Confirmations never run ahead of the points: SMinSyncResponse takes any
\* serial number from V_A on, so it is the RTPM that must confirm no point
\* it was not shown, or acb_ssn - acb_ack becomes negative at the sender.
PointsOrdered ==
    \A s \in Side : /\ sb[s].sb_V_A <= sb[s].sb_V_M
                    /\ acb[s].acb_ack <= acb[s].acb_ssn

\* ACB_TURN says what the session says: the end that believes to have the
\* turn has every token, the other has none, also after an activity was
\* discarded or interrupted (which moves tokens in the session alone).
TurnIsTokens ==
    \A s \in Side : Has(s, "ACB_CONN") =>
      sb[s].sb_owned = (IF Has(s, "ACB_TURN") THEN Tokens ELSE {})

InTransfer(s) ==
    rts[s].call \in {"first", "next", "window", "bad", "end", "ack"}

\* The turn and the activity belong to the transfer under way: a thread in
\* rt2sstrans keeps ACB_TURN until it returns, whatever it reads meanwhile,
\* and it leaves no activity of its own behind when it has returned.
TransferOwned ==
    \A s \in Side :
      /\ InTransfer(s) => Has(s, "ACB_TURN") /\ rts[s].whole # << >>
      /\ rts[s].call = "idle" => ~Sending(s)

\* An RTPM gives the association up (rtpktlose, or a primitive the session
\* refuses) only if the transport has gone, the receiver has reported an
\* exception, a downtrans callback takes part, or its user asks for the turn
\* back before the session has seen the GTC acknowledged: crossing turns,
\* timeouts, discards and confirmations never lead there.
LosesWithCause ==
    [][\A s \in Side :
         (outcome[s] = "none" /\ outcome'[s] = "uabort") =>
           \/ Under(s, "TDISC") > 0
           \/ \E t \in Side : "SB_ED" \in sb[t].sb_flags
           \/ \E t \in Side : outcome[t] # "none"
           \/ "SB_GTC" \in sb[s].sb_flags
           \/ mode.downtrans]_vars

-----------------------------------------------------------------------------
(* Liveness, under FairSpec.                                               *)

\* RtTransferRequest and RtEndRequest return, unless the receiver reports an
\* exception: every wait of the window loop and of the last loop ends, by a
\* confirmation or by the loss of the association.
TransferReturns ==
    \A s \in Side :
      (rts[s].call # "idle")
        ~> \/ rts[s].call = "idle"
           \/ \E t \in Side : "SB_ED" \in sb[t].sb_flags

\* A transfer that was given a time limit returns.
TimedTransferReturns ==
    \A s \in Side : (rts[s].call # "idle" /\ rts[s].secs) ~> (rts[s].call = "idle")
=============================================================================
