------------------------------- MODULE Rtsap -------------------------------
(***************************************************************************)
(* The reliable transfer protocol machine of ISODE over the session        *)
(* service, rtsap/rt2ss.c, of an association that RT-BEGIN has set up: two *)
(* RTPMs, each the single thread of its user, over the two session         *)
(* protocol machines of Ssap.  Every step is at most one session primitive *)
(* (or one SPDU read by SReadRequest) with what the RTPM does around it.   *)
(* rt2sstrans, which calls many primitives and waits between them, is a    *)
(* program counter; an indication whose handler calls a primitive leaves   *)
(* that call in "do", and the thread does nothing else until it is made.   *)
(*                                                                         *)
(* The data of a transfer is its number of chunks (ckpoint units).  A      *)
(* session connection of the RTPM asks neither for the expedited           *)
(* functional unit nor for extended QoS, so the transport carries no       *)
(* expedited data.  S-ACTIVITY-RESUME is never requested by this program.  *)
(***************************************************************************)
EXTENDS SPkt

CONSTANTS
    Modes,         \* the kinds of association: see Mode
    Faults,        \* what may go wrong: see Fault
    MaxChunks,     \* bound on the chunks of a transfer
    MaxTransfers,  \* bound on the transfers an end asks for, by mode
    MaxPlease      \* bound on RT-TURN-PLEASE requests under way

\* "refuse": the receiver has no memory or its uptrans returns NOTOK;
\* "downtrans": the sender's downtrans returns NOTOK; "timer": the time a
\* transfer was given runs out; "transport": the transport disconnects.
Fault == {"refuse", "downtrans", "timer", "transport"}

\* Two-way alternate (ACB_TWA) or monologue; acb_ckpoint # 0; acb_window;
\* have the users set acb_uptrans and acb_downtrans.
Mode == [twa : BOOLEAN, ckpoint : BOOLEAN, window : Nat \ {0},
         uptrans : BOOLEAN, downtrans : BOOLEAN]

ASSUME ModesAssumption == Modes \subseteq Mode
ASSUME FaultsAssumption == Faults \subseteq Fault
ASSUME RtBoundsAssumption ==
    /\ MaxChunks \in Nat \ {0} /\ MaxPlease \in Nat
    /\ MaxTransfers \in [Modes -> Nat]

VARIABLES
    mode,       \* what RT-BEGIN agreed on and the users have set
    acb,        \* struct assocblk of each end
    rts,        \* where the thread of each end's user is
    delivered,  \* chunks of each transfer handed to each end's user
    confirmed,  \* chunks of each transfer for which RtTransferRequest gave OK
    sb, inRelease, outcome, net    \* the session: see Ssap

rtsvars == <<mode, acb, rts, delivered, confirmed>>
session == <<sb, inRelease, outcome, net>>
vars == <<rtsvars, session>>

-----------------------------------------------------------------------------
(* The session beneath.                                                    *)

RTS_MYREQUIRE == {"EXCEPTIONS", "ACTIVITY", "HALFDUPLEX", "MINORSYNC"}

\* The session primitives of rt2ss.c and rt2ssreleas?.c.
Calls ==
    {"SPTokenRequest", "SGControlRequest", "SActStartRequest", "SDataRequest",
     "SMinSyncRequest", "SMinSyncResponse", "SActEndRequest",
     "SMajSyncResponse", "SActDiscRequest", "SActDiscResponse",
     "SActIntrRequest", "SActIntrResponse", "SUReportRequest", "SRelRequest",
     "SRelResponse", "SUAbortRequest"} \cup
    (IF "transport" \in Faults THEN {"TransportFails"} ELSE {})

\* The bounds of the session are beyond what a transfer brings about: they
\* never disable a primitive here.  SsapProofs is Ssap with what is proved
\* of it for every profile and bound.
S == INSTANCE SsapProofs WITH
       Profiles <- {RTS_MYREQUIRE}, Expd <- FALSE,
       Requests <- [req \in {RTS_MYREQUIRE} |-> Calls],
       ResyncSettings <- {}, Isn <- {0},
       MaxSsn <- MaxChunks + 3, MaxQueue <- 4 * MaxChunks + 8

Tokens == Available(RTS_MYREQUIRE)

-----------------------------------------------------------------------------
(* State.                                                                  *)

AcbFlag == {"ACB_CONN", "ACB_FINN", "ACB_TURN", "ACB_ACT", "ACB_PLEASE",
            "ACB_TIMER"}

assocblk == [acb_flags : SUBSET AcbFlag, acb_len : Nat, acb_ssn : Nat,
             acb_ack : Nat, acb_actno : Nat]

\* Where a thread is: idle is the user's own code or RtWaitRequest; the
\* others are rt2sstrans ("first" and "next" before a chunk, "window" in
\* the window loop, "bad" at bad_trans, "end" at done, "ack" in the last
\* loop) and RtEndRequestAux ("release").
Call == {"idle", "first", "next", "window", "bad", "end", "ack", "release"}

\* The primitive an indication handler is about to call.
Do == {"none", "report", "minor", "intr_resp", "disc_resp", "end_resp",
       "discard", "interrupt", "lose"}

thread == [call : Call, do : Do, ssn : Nat,
           left : Nat,           \* chunks still to send
           whole : Seq(Nat),     \* the transfer asked for, << >> when none
           secs : BOOLEAN]       \* was the transfer given a time limit

newacblk == [acb_flags |-> {}, acb_len |-> 0, acb_ssn |-> 0, acb_ack |-> 0,
             acb_actno |-> 1]

Idle == [call |-> "idle", do |-> "none", ssn |-> 0, left |-> 0,
         whole |-> << >>, secs |-> FALSE]

\* RtBeginRequestAux and RtInit refuse a session in which one end does not
\* have every token.
Init ==
    /\ S!Init
    /\ mode \in Modes
    /\ \E s \in Side : sb[s].sb_owned = Tokens
    /\ acb = [s \in Side |->
                [newacblk EXCEPT !.acb_flags =
                   {"ACB_CONN"} \cup
                   (IF sb[s].sb_owned = {} THEN {} ELSE {"ACB_TURN"})]]
    /\ rts = [s \in Side |-> Idle]
    /\ delivered = [s \in Side |-> << >>]
    /\ confirmed = [s \in Side |-> << >>]

Has(s, flag) == flag \in acb[s].acb_flags

\* The thread of s is at the given place and no handler's call is due.
At(s, call) == rts[s].call = call /\ rts[s].do = "none"

\* The two ways in which rt2sstrans or a handler goes on.
Goes(s, a, r) ==
    /\ acb' = [acb EXCEPT ![s] = a]
    /\ rts' = [rts EXCEPT ![s] = r]
    /\ UNCHANGED <<mode, delivered, confirmed>>

\* freeacblk(): whatever the thread was in returns NOTOK.  The transfer that
\* was asked for is remembered: its outcome is unknown to the user.
freeacblk(s) == Goes(s, newacblk, [Idle EXCEPT !.whole = rts[s].whole])

With(a, flags) == [a EXCEPT !.acb_flags = @ \cup flags]
Without(a, flags) == [a EXCEPT !.acb_flags = @ \ flags]

-----------------------------------------------------------------------------
(* Requests: the user's thread must be idle and pass rtsapPsig.            *)

rtsapPsig(s) == At(s, "idle") /\ Has(s, "ACB_CONN") /\ ~Has(s, "ACB_FINN")

\* What rt2sspturn, rt2ssgturn, rt2sstrans and RtEndRequestAux ask for
\* before they call the session.
MayPlease(s) == rtsapPsig(s) /\ mode.twa /\ ~Has(s, "ACB_TURN")
MayGive(s) == /\ rtsapPsig(s) /\ mode.twa
              /\ Has(s, "ACB_TURN") /\ ~Has(s, "ACB_ACT")
MayTransfer(s) == rtsapPsig(s) /\ Has(s, "ACB_TURN") /\ ~Has(s, "ACB_ACT")
MayEnd(s) == /\ rtsapPsig(s) /\ (mode.twa => s = "init") /\ Has(s, "ACB_TURN")
             /\ {"ACB_ACT", "ACB_PLEASE"} \cap acb[s].acb_flags = {}

\* RT-TURN-PLEASE.  Bound: MaxPlease PT SPDUs on the way to the peer.
rt2sspturn(s) ==
    /\ MayPlease(s)
    /\ Cardinality({i \in DOMAIN net[Peer(s)] : net[Peer(s)][i].code = "PT"})
         < MaxPlease
    /\ S!SPTokenRequest(s, {"DAT"})
    /\ UNCHANGED rtsvars

\* Mutant of rt2ssgturn: the flags are left as they were.
rt2ssgturnKeeps(s) == MayGive(s) /\ S!SGControlRequest(s) /\ UNCHANGED rtsvars

\* RT-TURN-GIVE
rt2ssgturn(s) ==
    /\ MayGive(s)
    /\ S!SGControlRequest(s)
    /\ Goes(s, Without(acb[s], {"ACB_TURN", "ACB_PLEASE"}), rts[s])

\* The session refuses what the RTPM has let pass: the association goes.
Refused(s) ==
    /\ \/ MayPlease(s) /\ ~ENABLED S!SPTokenRequest(s, {"DAT"})
       \/ MayGive(s) /\ ~ENABLED S!SGControlRequest(s)
       \/ MayTransfer(s) /\ ~ENABLED S!SActStartRequest(s)
       \/ MayEnd(s) /\ ~ENABLED S!SRelRequest(s)
    /\ S!SUAbortRequest(s)
    /\ freeacblk(s)

-----------------------------------------------------------------------------
(* rt2sstrans.  The user's downtrans is asked for a chunk when the one     *)
(* before has been sent, so its answer is part of the step before.         *)

Fails(fault) == IF fault \in Faults THEN {"bad"} ELSE {}

\* Where downtrans or the data at hand lead, with left chunks to come.
AfterStart(left) ==
    {IF left = 0 THEN "end" ELSE "first"} \cup
    (IF mode.downtrans THEN Fails("downtrans") ELSE {})

\* Mutant of AfterData: the chunk just sent is not counted.
AfterDataUncounted(left) == {IF left + 1 = 0 THEN "end" ELSE "next"}

AfterData(left) ==
    {IF left = 0 THEN "end" ELSE "next"} \cup
    (IF mode.downtrans /\ mode.ckpoint THEN Fails("downtrans") ELSE {})

\* Without downtrans there is data; without checkpoints it is one chunk.
Sizes == (IF mode.downtrans THEN 0 ELSE 1) .. (IF mode.ckpoint THEN MaxChunks ELSE 1)

TimeLimits == {b \in BOOLEAN : b => "timer" \in Faults}

\* Bound: MaxTransfers[mode].
TransStart(s) ==
    /\ MayTransfer(s)
    /\ acb[s].acb_actno <= MaxTransfers[mode]
    /\ S!SActStartRequest(s)
    /\ \E n \in Sizes, secs \in TimeLimits :
         \E call \in AfterStart(n) :
           Goes(s, With(IF mode.ckpoint
                        THEN [acb[s] EXCEPT !.acb_ssn = 0, !.acb_ack = 0]
                        ELSE acb[s], {"ACB_ACT"}),
                [rts[s] EXCEPT !.call = call, !.left = n, !.whole = <<n>>,
                               !.secs = secs])

SendChunk(s) ==
    /\ S!SDataRequest(s)
    /\ \E call \in AfterData(rts[s].left - 1) :
         Goes(s, acb[s], [rts[s] EXCEPT !.call = call, !.left = @ - 1])

TransFirst(s) == At(s, "first") /\ SendChunk(s)

\* A chunk other than the first goes behind a minor synchronization point.
TransSync(s) ==
    /\ At(s, "next")
    /\ S!SMinSyncRequest(s)
    /\ Goes(s, [acb[s] EXCEPT !.acb_ssn = sb[s].sb_V_M],
            [rts[s] EXCEPT !.call = "window"])

\* Mutant of TransTimer: it goes to done with result still OK, as bad_trans
\* does.
TransTimerFallsThrough(s) ==
    /\ At(s, "next") /\ rts[s].secs
    /\ S!SActDiscRequest(s)
    /\ Goes(s, With(acb[s], {"ACB_TIMER"}), [rts[s] EXCEPT !.call = "end"])

\* limit < clock
TransTimer(s) ==
    /\ At(s, "next") /\ rts[s].secs
    /\ S!SActDiscRequest(s)
    /\ Goes(s, With(acb[s], {"ACB_TIMER"}), [rts[s] EXCEPT !.call = "ack"])

\* Mutant of WindowFull: one point more may be outstanding.
WindowFullLate(s) == acb[s].acb_ssn > acb[s].acb_ack + mode.window

WindowFull(s) == acb[s].acb_ssn >= acb[s].acb_ack + mode.window

TransNext(s) == At(s, "window") /\ ~WindowFull(s) /\ SendChunk(s)

\* bad_trans goes to done with result still OK.
TransBad(s) ==
    /\ At(s, "bad")
    /\ S!SActDiscRequest(s)
    /\ Goes(s, acb[s], [rts[s] EXCEPT !.call = "end"])

TransEnd(s) ==
    /\ At(s, "end")
    /\ S!SActEndRequest(s)
    /\ Goes(s, [acb[s] EXCEPT !.acb_ssn = sb[s].sb_V_M],
            [rts[s] EXCEPT !.call = "ack"])

\* Mutant of Ended: the activity is still noted when the loop is left.
EndedKeeps(s, a) ==
    IF rts[s].call # "ack" THEN Goes(s, Without(a, {"ACB_ACT"}), rts[s])
    ELSE /\ acb' = [acb EXCEPT ![s] =
                      [Without(a, {"ACB_TIMER"}) EXCEPT !.acb_actno = @ + 1]]
         /\ rts' = [rts EXCEPT ![s] = Idle]
         /\ confirmed' = IF Has(s, "ACB_TIMER") THEN confirmed
                         ELSE [confirmed EXCEPT ![s] = @ \o rts[s].whole]
         /\ UNCHANGED <<mode, delivered>>

\* The last loop of rt2sstrans ends when a handler clears ACB_ACT; result is
\* NOTOK only after a timeout.  In the window loop that goes unnoticed.
Ended(s, a) ==
    IF rts[s].call # "ack" THEN Goes(s, Without(a, {"ACB_ACT"}), rts[s])
    ELSE /\ acb' = [acb EXCEPT ![s] =
                      [Without(a, {"ACB_ACT", "ACB_TIMER"}) EXCEPT !.acb_actno = @ + 1]]
         /\ rts' = [rts EXCEPT ![s] = Idle]
         /\ confirmed' = IF Has(s, "ACB_TIMER") THEN confirmed
                         ELSE [confirmed EXCEPT ![s] = @ \o rts[s].whole]
         /\ UNCHANGED <<mode, delivered>>

-----------------------------------------------------------------------------
(* rt2sswait: SReadRequest and the handler of what it returns.  trans is   *)
(* the argument with which rt2sstrans calls RtWaitRequestAux.              *)

trans(s) == rts[s].call \in {"window", "ack"}

Waits(s) == \/ At(s, "idle") \/ At(s, "ack")
            \/ At(s, "window") /\ WindowFull(s)

\* The SPDU at the head of the queue is read; session handles it so.
Reads(s, code) == /\ Waits(s) /\ net[s] # << >> /\ Head(net[s]).code = code

\* The handler is about to call a primitive, or gives up with rtpktlose.
Owes(s, do) == Goes(s, acb[s], [rts[s] EXCEPT !.do = do])

MayRefuse(s) == "refuse" \in Faults

Receiving(s) == Has(s, "ACB_ACT") /\ ~Has(s, "ACB_TURN")
Sending(s) == Has(s, "ACB_ACT") /\ Has(s, "ACB_TURN")

\* What SReadRequest deals with itself.
ReadOnly(s) ==
    /\ Waits(s)
    /\ S!ReadSpin(s) \/ S!ReadGTA(s)
    /\ UNCHANGED rtsvars

\* doSSdata.  Data can be refused by uptrans, or when it is to be joined with
\* what came before; whether qb2str had memory for the first is not looked at.
doSSdata(s) ==
    /\ Reads(s, "DT") /\ S!ReadDT(s)
    /\ IF Receiving(s)
       THEN \/ Goes(s, [acb[s] EXCEPT !.acb_len = @ + 1], rts[s])
            \/ /\ MayRefuse(s) /\ (mode.uptrans \/ acb[s].acb_len > 0)
               /\ Owes(s, "report")
       ELSE Owes(s, "lose")

\* doSStoken, ST_CONTROL
doSScontrol(s) ==
    /\ Reads(s, "GTC") /\ S!ReadGTC(s)
    /\ IF mode.twa /\ ~Has(s, "ACB_ACT") THEN Goes(s, With(acb[s], {"ACB_TURN"}), rts[s])
       ELSE Owes(s, "lose")

\* doSStoken, ST_PLEASE: outside a transfer the user is told at once.
doSSplease(s) ==
    /\ Reads(s, "PT") /\ S!ReadDT(s)
    /\ IF ~mode.twa THEN Owes(s, "lose")
       ELSE IF ~trans(s) THEN UNCHANGED rtsvars
       ELSE IF mode.downtrans
       THEN \/ UNCHANGED rtsvars
            \/ "downtrans" \in Faults /\ Owes(s, "interrupt")
       ELSE Goes(s, With(acb[s], {"ACB_PLEASE"}), rts[s])

\* RtWaitRequestAux hands over what doSStoken kept back.
RtWaitPlease(s) ==
    /\ rtsapPsig(s) /\ Has(s, "ACB_PLEASE")
    /\ Goes(s, Without(acb[s], {"ACB_PLEASE"}), rts[s])
    /\ UNCHANGED session

\* doSSsync, SN_MINORIND
doSSminorind(s) ==
    /\ Reads(s, "MIP") /\ S!ReadMIP(s)
    /\ IF "SB_ED" \in sb[s].sb_flags THEN UNCHANGED rtsvars    \* goto spin
       ELSE IF Receiving(s)
       THEN \/ Goes(s, acb[s], [rts[s] EXCEPT !.do = "minor",
                                              !.ssn = Head(net[s]).serial])
            \/ mode.uptrans /\ MayRefuse(s) /\ Owes(s, "report")
       ELSE Owes(s, "lose")

\* Mutant of doSSminorcnf: the confirmation is not noted.
doSSminorcnfIgnored(s) ==
    /\ Reads(s, "MIA") /\ S!ReadMIA(s)
    /\ IF Sending(s) THEN UNCHANGED rtsvars ELSE Owes(s, "lose")

\* doSSsync, SN_MINORCNF
doSSminorcnf(s) ==
    /\ Reads(s, "MIA") /\ S!ReadMIA(s)
    /\ IF Sending(s)
       THEN Goes(s, [acb[s] EXCEPT !.acb_ack = Head(net[s]).serial], rts[s])
       ELSE Owes(s, "lose")

\* doSSactivity, SV_START: a transfer refused here does not set ACB_ACT.
doSSstart(s) ==
    /\ Reads(s, "AS") /\ S!ReadAS(s)
    /\ IF {"ACB_ACT", "ACB_TURN"} \cap acb[s].acb_flags = {}
       THEN \/ Goes(s, With(acb[s], {"ACB_ACT"}), rts[s])
            \/ mode.uptrans /\ MayRefuse(s) /\ Owes(s, "report")
       ELSE Owes(s, "lose")

\* doSSactivity, SV_INTRIND and SV_DISCIND
doSSdiscind(s) ==
    \E code \in {"AI", "AD"} :
      /\ Reads(s, code) /\ S!ReadAI(s)
      /\ Owes(s, IF ~Receiving(s) THEN "lose"
                 ELSE IF code = "AI" THEN "intr_resp" ELSE "disc_resp")

\* doSSactivity, SV_INTRCNF and SV_DISCCNF
doSSdisccnf(s) ==
    \E code \in {"AIA", "ADA"} :
      /\ Reads(s, code) /\ S!ReadAIA(s)
      /\ IF Sending(s) THEN Ended(s, acb[s]) ELSE Owes(s, "lose")

\* doSSactivity, SV_ENDIND: ssdu2pe needs data.
doSSendind(s) ==
    /\ Reads(s, "AE") /\ S!ReadAE(s)
    /\ IF Receiving(s) /\ (mode.uptrans \/ acb[s].acb_len > 0)
       THEN \/ Owes(s, "end_resp")
            \/ MayRefuse(s) /\ Owes(s, "report")
       ELSE Owes(s, "lose")

\* doSSactivity, SV_ENDCNF
doSSendcnf(s) ==
    /\ Reads(s, "MAA") /\ S!ReadMAA(s)
    /\ IF Sending(s) THEN Ended(s, acb[s]) ELSE Owes(s, "lose")

\* doSSreport: everything is treated as severe.
doSSreport(s) ==
    /\ Reads(s, "ED") /\ S!ReadED(s)
    /\ Owes(s, IF Sending(s) THEN "discard" ELSE "lose")

\* doSSfinish
doSSfinish(s) ==
    /\ Reads(s, "FN") /\ S!ReadFN(s)
    /\ IF (s = "init" /\ mode.twa) \/ Has(s, "ACB_TURN") \/ Has(s, "ACB_ACT")
       THEN Owes(s, "lose")
       ELSE Goes(s, With(acb[s], {"ACB_FINN"}), rts[s])

\* ss2rtsabort: the peer aborts, or the transport is gone.
doSSabort(s) ==
    /\ Waits(s)
    /\ S!ReadAB(s) \/ S!TDiscRead(s)
    /\ freeacblk(s)

-----------------------------------------------------------------------------
(* The primitive that a handler calls, and the rest of the handler.        *)

Due(s, do) == rts[s].do = do

Done(s, a) == Goes(s, a, [rts[s] EXCEPT !.do = "none"])

\* FREEACB: the chunks received so far go.
ReportSent(s) == /\ Due(s, "report") /\ S!SUReportRequest(s)
                 /\ Done(s, [acb[s] EXCEPT !.acb_len = 0])

\* Mutant of MinorConfirmed: the number of the point to come is confirmed.
MinorConfirmedNext(s) ==
    /\ Due(s, "minor") /\ S!SMinSyncResponse(s, rts[s].ssn + 1)
    /\ Done(s, acb[s])

MinorConfirmed(s) == /\ Due(s, "minor") /\ S!SMinSyncResponse(s, rts[s].ssn)
                     /\ Done(s, acb[s])

\* Mutant of ActivityDropped: the chunks received so far are kept.
ActivityDroppedKeeps(s) ==
    /\ \/ Due(s, "intr_resp") /\ S!SActIntrResponse(s)
       \/ Due(s, "disc_resp") /\ S!SActDiscResponse(s)
    /\ Done(s, Without(acb[s], {"ACB_ACT"}))

ActivityDropped(s) ==
    /\ \/ Due(s, "intr_resp") /\ S!SActIntrResponse(s)
       \/ Due(s, "disc_resp") /\ S!SActDiscResponse(s)
    /\ Done(s, [Without(acb[s], {"ACB_ACT"}) EXCEPT !.acb_len = 0])

\* RTI_TRANSFER
Delivered(s) ==
    /\ Due(s, "end_resp") /\ S!SMajSyncResponseAux(s)
    /\ acb' = [acb EXCEPT ![s] = [Without(@, {"ACB_ACT"}) EXCEPT !.acb_len = 0]]
    /\ rts' = [rts EXCEPT ![s].do = "none"]
    /\ delivered' = [delivered EXCEPT ![s] = Append(@, acb[s].acb_len)]
    /\ UNCHANGED <<mode, confirmed>>

Discarding(s) == Due(s, "discard") /\ S!SActDiscRequest(s) /\ Done(s, acb[s])
Interrupting(s) == Due(s, "interrupt") /\ S!SActIntrRequest(s) /\ Done(s, acb[s])

\* The primitive the thread of s is about to call.
SessionCall(s) ==
    \/ At(s, "first") /\ S!SDataRequest(s)
    \/ At(s, "next") /\ S!SMinSyncRequest(s)
    \/ At(s, "window") /\ S!SDataRequest(s)
    \/ At(s, "bad") /\ S!SActDiscRequest(s)
    \/ At(s, "end") /\ S!SActEndRequest(s)
    \/ Due(s, "report") /\ S!SUReportRequest(s)
    \/ Due(s, "minor") /\ S!SMinSyncResponse(s, rts[s].ssn)
    \/ Due(s, "intr_resp") /\ S!SActIntrResponse(s)
    \/ Due(s, "disc_resp") /\ S!SActDiscResponse(s)
    \/ Due(s, "end_resp") /\ S!SMajSyncResponseAux(s)
    \/ Due(s, "discard") /\ S!SActDiscRequest(s)
    \/ Due(s, "interrupt") /\ S!SActIntrRequest(s)

\* The session refuses the primitive, or the handler has called rtpktlose:
\* the association is aborted.
Lose(s) ==
    /\ rts[s].call # "release"
    /\ ~Waits(s)
    /\ ~ENABLED SessionCall(s)
    /\ S!SUAbortRequest(s)
    /\ freeacblk(s)

-----------------------------------------------------------------------------
(* Release, X.410 CLOSE.                                                   *)

RtEndRequest(s) ==
    /\ MayEnd(s)
    /\ S!SRelRequest(s)
    /\ Goes(s, acb[s], [rts[s] EXCEPT !.call = "release"])

\* SRelRequest returns; there is no negotiated release.
RtEndReturns(s) ==
    /\ At(s, "release")
    /\ S!RelDN(s) \/ S!RelAB(s) \/ S!RelMangled(s) \/ S!TDiscRead(s)
    /\ freeacblk(s)

RtEndResponse(s) ==
    /\ At(s, "idle") /\ Has(s, "ACB_FINN")
    /\ S!SRelAccept(s) \/ S!SRelResponseFails(s)
    /\ freeacblk(s)

\* The transport disconnects both ends.
TransportFails == S!TransportFails /\ UNCHANGED rtsvars

-----------------------------------------------------------------------------
(* Next-state relation, by who takes the step.                             *)

\* The user of s asks for something.
Requesting(s) ==
    \/ rt2sspturn(s) \/ rt2ssgturn(s) \/ TransStart(s) \/ RtEndRequest(s)
    \/ Refused(s)

\* A user's thread inside the library, or waiting for an indication.
Working(s) ==
    \/ TransFirst(s) \/ TransSync(s) \/ TransNext(s) \/ TransBad(s)
    \/ TransEnd(s)
    \/ ReadOnly(s) \/ doSSdata(s) \/ doSScontrol(s) \/ doSSplease(s)
    \/ RtWaitPlease(s) \/ doSSminorind(s) \/ doSSminorcnf(s) \/ doSSstart(s)
    \/ doSSdiscind(s) \/ doSSdisccnf(s) \/ doSSendind(s) \/ doSSendcnf(s)
    \/ doSSreport(s) \/ doSSfinish(s) \/ doSSabort(s)
    \/ ReportSent(s) \/ MinorConfirmed(s) \/ ActivityDropped(s)
    \/ Delivered(s) \/ Discarding(s) \/ Interrupting(s) \/ Lose(s)
    \/ RtEndReturns(s) \/ RtEndResponse(s)

Next ==
    \/ \E s \in Side : Requesting(s) \/ Working(s) \/ TransTimer(s)
    \/ TransportFails

Spec == Init /\ [][Next]_vars

\* A thread inside the library goes on; an idle user waits for indications
\* and answers them.  Nothing is assumed of requests, of the clock or of
\* the transport.
FairSpec == Spec /\ \A s \in Side : WF_vars(Working(s))
=============================================================================
