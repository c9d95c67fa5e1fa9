-------------------------- MODULE RtServiceProofs --------------------------
(***************************************************************************)
(* What a user of the reliable transfer service may conclude from          *)
(* RtService alone, whatever the data and however long the association     *)
(* lives.  Reliable is inductive once the domains are known: a transfer is *)
(* handed over only when its sender has nothing else unconfirmed, and is   *)
(* given up only when it was not handed over.                              *)
(***************************************************************************)
EXTENDS RtService, TLAPS

Shape ==
    /\ up \in [End -> BOOLEAN] /\ turn \subseteq End
    /\ DOMAIN pending = End /\ DOMAIN delivered = End /\ DOMAIN confirmed = End

ServiceInv == Shape /\ Reliable /\ TurnExclusive

LEMMA Ends ==
    ASSUME NEW e \in End
    PROVE  /\ Other(e) \in End /\ Other(e) # e /\ Other(Other(e)) = e
           /\ \A f \in End : f = e \/ f = Other(e)
  BY DEF End, Other

LEMMA InitService == RtInit => ServiceInv
  BY Ends DEF RtInit, ServiceInv, Shape, Reliable, TurnExclusive, End

LEMMA NextService == ServiceInv /\ [RtNext]_rtvars => ServiceInv'
  <1> SUFFICES ASSUME ServiceInv, [RtNext]_rtvars PROVE ServiceInv'
    OBVIOUS
  <1> USE DEF ServiceInv, Shape
  <1>1. ASSUME NEW e \in End, Request(e) PROVE ServiceInv'
    BY <1>1, Ends DEF Request, Reliable, TurnExclusive
  <1>2. ASSUME NEW e \in End, Deliver(e) PROVE ServiceInv'
    BY <1>2, Ends DEF Deliver, Handed, Reliable, TurnExclusive
  <1>3. ASSUME NEW e \in End, Confirm(e) PROVE ServiceInv'
    BY <1>3, Ends DEF Confirm, Handed, Reliable, TurnExclusive
  <1>4. ASSUME NEW e \in End, Fail(e) PROVE ServiceInv'
    BY <1>4, Ends DEF Fail, Handed, Reliable, TurnExclusive
  <1>5. ASSUME NEW e \in End, Give(e) \/ Take(e) \/ Gone(e) PROVE ServiceInv'
    BY <1>5, Ends DEF Give, Take, Gone, Reliable, TurnExclusive, End
  <1>6. CASE UNCHANGED rtvars
    BY <1>6 DEF rtvars, Reliable, TurnExclusive
  <1> QED
    BY <1>1, <1>2, <1>3, <1>4, <1>5, <1>6 DEF RtNext

\* The transfers confirmed to one end are those the other was handed, each
\* once and in order, but for the last one handed over while its sender
\* still waits or has lost the association.
THEOREM ReliableService == RtSpec => []Reliable
  <1>1. ServiceInv => Reliable
    BY DEF ServiceInv
  <1> QED
    BY <1>1, InitService, NextService, PTL DEF RtSpec

\* RT-TURN-GIVE and the loss of an end never leave the turn at both ends.
THEOREM OneTurn == RtSpec => []TurnExclusive
  <1>1. ServiceInv => TurnExclusive
    BY DEF ServiceInv
  <1> QED
    BY <1>1, InitService, NextService, PTL DEF RtSpec
=============================================================================
