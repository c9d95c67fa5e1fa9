-------------------------------- MODULE Ssap --------------------------------
(***************************************************************************)
(* The session protocol machine (SPM) of ISODE, ssap/, after S-CONNECT:    *)
(* two SPMs joined by one transport connection.  One action per service    *)
(* primitive that an SS-user calls (each with the checks of its ssap?sig   *)
(* macro and of its Aux routine), one per kind of SPDU that SReadRequest   *)
(* handles, and the wait loop of S-RELEASE.                                *)
(*                                                                         *)
(* A primitive refused by the SPM returns NOTOK and leaves the block as it *)
(* is, so it is a disabled action.  User data is left out: an SPDU carries *)
(* only the parameters the protocol machine itself reads.  The category 0  *)
(* SPDU that the sender concatenates in front of most others is empty and  *)
(* is freed by sb2spkt, so a TSDU is one SPDU.  SB_ERACK needs an ER SPDU, *)
(* which this implementation never generates.                              *)
(***************************************************************************)
EXTENDS SPkt, SequencesExt

CONSTANTS
    Profiles,        \* the sets of functional units a connection may have
    Expd,            \* does the transport connection carry expedited data
    Requests,        \* the primitives the users of each profile call
    ResyncSettings,  \* the token settings a resynchronizing user proposes
    Isn,             \* the initial serial numbers S-CONNECT may agree on
    MaxSsn,          \* bound on the serial numbers users bring about
    MaxQueue         \* bound on SPDUs under way to a side when a user calls

\* The calls, and the failures, that an instance may leave out.
Primitive ==
    {"SDataRequest", "STypedRequest", "SExpdRequest", "SGTokenRequest",
     "SPTokenRequest", "SGControlRequest", "SCapdRequest", "SCapdResponse",
     "SUReportRequest", "SMinSyncRequest", "SMinSyncResponse",
     "SMajSyncRequest", "SMajSyncResponse", "SReSyncRequest",
     "SReSyncResponse", "SActStartRequest", "SActResumeRequest",
     "SActIntrRequest", "SActIntrResponse", "SActDiscRequest",
     "SActDiscResponse", "SActEndRequest", "SRelRequest", "SRelResponse",
     "SRelReject", "SUAbortRequest", "SRelTimeout", "TransportFails"}

ASSUME ProfilesAssumption == Profiles \subseteq SUBSET FunctionalUnits
ASSUME ExpdAssumption ==
    Expd \in BOOLEAN /\ (~Expd => \A req \in Profiles : "EXPEDITED" \notin req)
ASSUME RequestsAssumption == Requests \in [Profiles -> SUBSET Primitive]
ASSUME SettingsAssumption == ResyncSettings \subseteq Settings
ASSUME IsnAssumption == Isn \subseteq Nat
ASSUME BoundsAssumption == MaxSsn \in Nat /\ MaxQueue \in Nat \ {0}

VARIABLES
    sb,         \* struct ssapblk of each side
    inRelease,  \* is the side's user inside SRelRetryRequestAux
    outcome,    \* how the session ended for the side's user
    net         \* SPDUs under way to each side

vars == <<sb, inRelease, outcome, net>>

-----------------------------------------------------------------------------
(* State.                                                                  *)

Flag == {"SB_CONN", "SB_FINN", "SB_CD", "SB_CDA", "SB_GTC", "SB_MAP",
         "SB_MAA", "SB_AE", "SB_RS", "SB_RA", "SB_AI", "SB_AIA", "SB_ED",
         "SB_EDACK", "SB_Vact", "SB_Vsc", "SB_Vnextact", "SB_RELEASE"}

ssapblk == [sb_flags : SUBSET Flag, sb_owned : SUBSET Token,
            sb_requirements : SUBSET FunctionalUnits,
            sb_V_A : Nat, sb_V_M : Nat, sb_V_R : Nat,
            sb_rs : SyncOp, sb_rsn : Nat, sb_rsettings : Settings,
            sb_pr : Prepare, sb_xspdu : BOOLEAN, sb_spdu : Seq(Spdu)]

Outcome == {"none", "released", "uabort", "abort", "disc", "protocol",
            "congest", "badconv"}

\* newsblk(): calloc() and sb_pr = SPDU_PR.
newsblk ==
    [sb_flags |-> {}, sb_owned |-> {}, sb_requirements |-> {},
     sb_V_A |-> 0, sb_V_M |-> 0, sb_V_R |-> 0, sb_rs |-> "RESTART",
     sb_rsn |-> 0, sb_rsettings |-> NoSettings, sb_pr |-> "PR",
     sb_xspdu |-> FALSE, sb_spdu |-> << >>]

\* Both ends after S-CONNECT: the same functional units, the available
\* tokens shared out, the same next serial number.
ConnectedBlock(req, owned, isn) ==
    [newsblk EXCEPT !.sb_flags = {"SB_CONN"}, !.sb_owned = owned,
                    !.sb_requirements = req, !.sb_V_A = isn, !.sb_V_M = isn]

Init ==
    /\ \E req \in Profiles, isn \in Isn :
         \E mine \in SUBSET Available(req) :
           sb = [s \in Side |->
                   ConnectedBlock(req, IF s = "init" THEN mine
                                       ELSE Available(req) \ mine, isn)]
    /\ inRelease = [s \in Side |-> FALSE]
    /\ outcome = [s \in Side |-> "none"]
    /\ net = [s \in Side |-> << >>]

Connected(s) == "SB_CONN" \in sb[s].sb_flags

-----------------------------------------------------------------------------
(* Transport.  TDataRequest keeps order; TExpdRequest may overtake normal  *)
(* data but never other expedited data; T-DISCONNECT may destroy whatever  *)
(* is still under way.  What is sent to a freed block disappears.          *)

Deliver(s, q) == IF Connected(s) THEN net[s] \o q ELSE << >>

TDISC == newspkt("TDISC")

\* The positions in a queue from which TReadRequest may be served.
Arrivals(q) ==
    {i \in 1 .. Len(q) :
       \/ i = 1 \/ q[i].code = "TDISC"
       \/ q[i].expd /\ \A j \in 1 .. (i - 1) : ~q[j].expd}

\* Side s replaces its block and sends q.
Update(s, b, q) ==
    /\ sb' = [sb EXCEPT ![s] = b]
    /\ net' = [net EXCEPT ![Peer(s)] = Deliver(Peer(s), q)]

\* freesblk(): the block goes, and with it the transport connection.
freesblk(s, why, q) ==
    /\ sb' = [sb EXCEPT ![s] = newsblk]
    /\ net' = [net EXCEPT ![s] = << >>,
                          ![Peer(s)] = Deliver(Peer(s), Append(q, TDISC))]
    /\ outcome' = [outcome EXCEPT ![s] = why]
    /\ inRelease' = [inRelease EXCEPT ![s] = FALSE]

\* spkt2sd of an AB SPDU, on the expedited flow when there is one.
AB == [newspkt("AB") EXCEPT !.expd = Expd]

\* SWriteRequestAux: the SPDU, behind a PR SPDU where one is called for.
PrepareType(code) ==
    CASE code = "MAA" -> "MAA"
      [] code \in {"AI", "AD", "RS"} -> "RS"
      [] code \in {"AIA", "ADA", "RA"} -> "RA"
      [] OTHER -> "PR"

SWriteRequestAux(p) ==
    IF Expd /\ PrepareType(p.code) # "PR"
    THEN <<[newspkt("PR") EXCEPT !.expd = TRUE, !.type = PrepareType(p.code)], p>>
    ELSE <<p>>

-----------------------------------------------------------------------------
(* The checks that open a request.                                         *)

Clear(b, flags) == "SB_CONN" \in b.sb_flags /\ b.sb_flags \cap flags = {}

ssapPsig(b) == Clear(b, {"SB_FINN", "SB_RELEASE", "SB_MAP", "SB_RS", "SB_RA",
                         "SB_AI", "SB_AIA", "SB_ED", "SB_EDACK"})

ssapXsig(b) == Clear(b, {"SB_FINN", "SB_RELEASE", "SB_RS", "SB_RA", "SB_AI",
                         "SB_AIA", "SB_ED"})

\* Mutant of ssapRsig: SB_RA is refused too, as the other macros do.
ssapRsigRA(b) == Clear(b, {"SB_FINN", "SB_RELEASE", "SB_RS", "SB_RA", "SB_AI",
                           "SB_AIA", "SB_AE", "SB_ED"})

ssapRsig(b) == Clear(b, {"SB_FINN", "SB_RELEASE", "SB_RS", "SB_AI", "SB_AIA",
                         "SB_AE", "SB_ED"})

\* Mutant of ssapAsig: SB_AIA is refused too, as the other macros do.
ssapAsigAIA(b) == Clear(b, {"SB_FINN", "SB_RELEASE", "SB_MAA", "SB_RS", "SB_AI",
                            "SB_AIA", "SB_ED", "SB_EDACK"})

ssapAsig(b) == Clear(b, {"SB_FINN", "SB_RELEASE", "SB_MAA", "SB_RS", "SB_AI",
                         "SB_ED", "SB_EDACK"})

\* Mutant of ssapFsig: SB_FINN is not asked for.
ssapFsigAny(b) == Clear(b, {"SB_RELEASE", "SB_MAA", "SB_RS", "SB_RA", "SB_AI",
                            "SB_AIA", "SB_ED", "SB_EDACK"})

ssapFsig(b) == /\ Clear(b, {"SB_RELEASE", "SB_MAA", "SB_RS", "SB_RA", "SB_AI",
                            "SB_AIA", "SB_ED", "SB_EDACK"})
               /\ "SB_FINN" \in b.sb_flags

Owns(b, t) == t \in Available(b.sb_requirements) => t \in b.sb_owned
InActivity(b) == "ACTIVITY" \in b.sb_requirements => "SB_Vact" \in b.sb_flags

\* SDoActivityAux(sb, si, act, rls).
SDoActivityAux(b, act, rls) ==
    /\ IF act THEN /\ "ACTIVITY" \in b.sb_requirements
                   /\ "SB_Vact" \notin b.sb_flags
       ELSE b.sb_requirements \cap {"MAJORSYNC", "ACTIVITY"} # {}
    /\ Owns(b, "DAT") /\ Owns(b, "MIN") /\ "MAJ" \in b.sb_owned
    /\ rls => Owns(b, "RLS")

\* Is the primitive one that the users of this connection call?
Uses(s, primitive) ==
    Connected(s) /\ primitive \in Requests[sb[s].sb_requirements]

\* A user calls one primitive at a time.  Once the transport has gone the
\* write fails and the block is freed, which is what reading the
\* T-DISCONNECT does; see TDiscRead.
Responds(s, primitive) ==
    /\ Uses(s, primitive) /\ ~inRelease[s]
    /\ \A i \in DOMAIN net[s] : net[s][i].code # "TDISC"

\* Bound: nothing is started while MaxQueue SPDUs are on the way to the peer.
Calls(s, primitive) == Responds(s, primitive) /\ Len(net[Peer(s)]) < MaxQueue

\* A request that changes nothing but the block and sends one SPDU.
Request(s, b, p) ==
    /\ Update(s, b, SWriteRequestAux(p))
    /\ UNCHANGED <<inRelease, outcome>>

-----------------------------------------------------------------------------
(* Data and tokens.                                                        *)

SDataRequest(s) ==
    /\ Calls(s, "SDataRequest")
    /\ ssapPsig(sb[s]) /\ Owns(sb[s], "DAT")
    /\ Request(s, sb[s], newspkt("DT"))

STypedRequest(s) ==
    /\ Calls(s, "STypedRequest")
    /\ ssapPsig(sb[s]) /\ "TYPEDATA" \in sb[s].sb_requirements
    /\ Request(s, sb[s], newspkt("TD"))

SExpdRequest(s) ==
    /\ Calls(s, "SExpdRequest")
    /\ ssapPsig(sb[s]) /\ "EXPEDITED" \in sb[s].sb_requirements
    /\ Request(s, sb[s], [newspkt("EX") EXCEPT !.expd = TRUE])

SGTokenRequest(s, tokens) ==
    LET b == sb[s] IN
    /\ Calls(s, "SGTokenRequest")
    /\ ssapXsig(b)
    /\ tokens # {} /\ tokens \subseteq b.sb_owned
    /\ "SB_GTC" \notin b.sb_flags
    /\ "DAT" \in tokens \/ "SB_EDACK" \notin b.sb_flags
    /\ Request(s, [b EXCEPT !.sb_owned = @ \ tokens,
                            !.sb_flags = @ \ {"SB_EDACK"}],
               [newspkt("GT") EXCEPT !.tokens = tokens])

SPTokenRequest(s, tokens) ==
    LET b == sb[s] IN
    /\ Calls(s, "SPTokenRequest")
    /\ ssapPsig(b)
    /\ tokens # {}
    /\ tokens \subseteq Available(b.sb_requirements) \ b.sb_owned
    /\ "SB_GTC" \notin b.sb_flags
    /\ Request(s, b, [newspkt("PT") EXCEPT !.tokens = tokens])

SGControlRequest(s) ==
    LET b == sb[s] IN
    /\ Calls(s, "SGControlRequest")
    /\ ssapPsig(b) /\ SDoActivityAux(b, TRUE, TRUE)
    /\ "SB_GTC" \notin b.sb_flags
    /\ Request(s, [b EXCEPT !.sb_owned = {}, !.sb_flags = @ \cup {"SB_GTC"}],
               newspkt("GTC"))

SCapdRequest(s) ==
    LET b == sb[s] IN
    /\ Calls(s, "SCapdRequest")
    /\ ssapPsig(b) /\ "CAPABILITY" \in b.sb_requirements
    /\ SDoActivityAux(b, TRUE, FALSE)
    /\ "SB_CD" \notin b.sb_flags
    /\ Request(s, [b EXCEPT !.sb_flags = @ \cup {"SB_CD"}], newspkt("CD"))

SCapdResponse(s) ==
    LET b == sb[s] IN
    /\ Responds(s, "SCapdResponse")
    /\ ssapPsig(b) /\ "CAPABILITY" \in b.sb_requirements
    /\ "SB_CDA" \in b.sb_flags
    /\ Request(s, [b EXCEPT !.sb_flags = @ \ {"SB_CDA"}], newspkt("CDA"))

SUReportRequest(s) ==
    LET b == sb[s] IN
    /\ Calls(s, "SUReportRequest")
    /\ ssapPsig(b)
    /\ {"EXCEPTIONS", "HALFDUPLEX"} \subseteq b.sb_requirements
    /\ "DAT" \notin b.sb_owned
    /\ InActivity(b)
    /\ Request(s, [b EXCEPT !.sb_flags = @ \cup {"SB_ED"}], newspkt("ED"))

-----------------------------------------------------------------------------
(* Synchronization points.                                                 *)

\* A sync point is issued with serial V_M; the first one issued after the
\* peer's moves V_A up.
IssuePoint(b) ==
    [b EXCEPT !.sb_V_A = IF "SB_Vsc" \in b.sb_flags THEN b.sb_V_M ELSE @,
              !.sb_V_M = @ + 1, !.sb_flags = @ \ {"SB_Vsc"}]

SMinSyncRequest(s) ==
    LET b == sb[s] IN
    /\ Calls(s, "SMinSyncRequest") /\ b.sb_V_M < MaxSsn
    /\ ssapPsig(b) /\ "MINORSYNC" \in b.sb_requirements
    /\ Owns(b, "DAT") /\ "MIN" \in b.sb_owned
    /\ InActivity(b) /\ "SB_MAA" \notin b.sb_flags
    /\ Request(s, IssuePoint(b), [newspkt("MIP") EXCEPT !.serial = b.sb_V_M])

SMinSyncResponse(s, ssn) ==
    LET b == sb[s] IN
    /\ Calls(s, "SMinSyncResponse")
    /\ ssapPsig(b) /\ "MINORSYNC" \in b.sb_requirements
    /\ "SB_Vsc" \in b.sb_flags
    /\ ssn >= b.sb_V_A
    /\ Request(s, [b EXCEPT !.sb_V_A = ssn + 1],
               [newspkt("MIA") EXCEPT !.serial = ssn])

\* SMajSyncRequest, and SActEndRequest (which omits MAP_SYNC_NOEND).
SMajSyncRequestAux(s, noend) ==
    LET b == sb[s]
        f == (b.sb_flags \cup {"SB_MAP"}) \ {"SB_Vsc"} IN
    /\ b.sb_V_M < MaxSsn
    /\ ssapPsig(b) /\ SDoActivityAux(b, FALSE, FALSE)
    /\ InActivity(b) /\ "SB_MAA" \notin b.sb_flags
    /\ Request(s,
         [IssuePoint(b) EXCEPT !.sb_flags =
            IF ~noend THEN (f \cup {"SB_AE"}) \ {"SB_Vnextact"}
            ELSE IF "ACTIVITY" \in b.sb_requirements
                 THEN f \cup {"SB_Vnextact"} ELSE f],
         [newspkt(IF noend THEN "MAP" ELSE "AE") EXCEPT !.serial = b.sb_V_M])

SMajSyncRequest(s) ==
    Calls(s, "SMajSyncRequest") /\ SMajSyncRequestAux(s, TRUE)
SActEndRequest(s) ==
    Calls(s, "SActEndRequest") /\ SMajSyncRequestAux(s, FALSE)

\* Vact becomes what the confirmed MAP said it would be.
NextAct(b) ==
    IF "ACTIVITY" \notin b.sb_requirements THEN b.sb_flags
    ELSE IF "SB_Vnextact" \in b.sb_flags THEN b.sb_flags \cup {"SB_Vact"}
    ELSE b.sb_flags \ {"SB_Vact"}

MajorResponder(b) == /\ ssapPsig(b) /\ "SB_MAA" \in b.sb_flags
                     /\ \/ b.sb_requirements \cap {"MAJORSYNC", "ACTIVITY"} # {}
                        \/ "SB_Vact" \in b.sb_flags

\* Mutant of SMajSyncResponseAux: the serial number is not checked.
SMajSyncResponseUnchecked(s) ==
    LET b == sb[s] IN
    /\ Responds(s, "SMajSyncResponse") /\ MajorResponder(b)
    /\ Request(s, [b EXCEPT !.sb_V_A = b.sb_V_M, !.sb_V_R = b.sb_V_M,
                            !.sb_flags = NextAct(b) \ {"SB_MAA", "SB_AE"}],
               [newspkt("MAA") EXCEPT !.serial = b.sb_V_M - 1])

\* SMajSyncResponse and SActEndResponse are the same routine.
SMajSyncResponseAux(s) ==
    LET b == sb[s] IN
    /\ Responds(s, "SMajSyncResponse")
    /\ MajorResponder(b) /\ b.sb_V_M > 0
    /\ Request(s, [b EXCEPT !.sb_V_A = b.sb_V_M, !.sb_V_R = b.sb_V_M,
                            !.sb_flags = NextAct(b) \ {"SB_MAA", "SB_AE"}],
               [newspkt("MAA") EXCEPT !.serial = b.sb_V_M - 1])

\* V_M - 1 does not fit the SPDU: long2u32 fails and the block is freed.
SMajSyncResponseBadConv(s) ==
    /\ Responds(s, "SMajSyncResponse")
    /\ MajorResponder(sb[s]) /\ sb[s].sb_V_M = 0
    /\ freesblk(s, "badconv",
                IF Expd THEN <<[newspkt("PR") EXCEPT !.expd = TRUE, !.type = "MAA"]>>
                ELSE << >>)

SReSyncRequest(s, type, ssn, settings) ==
    LET b == sb[s] IN
    /\ Calls(s, "SReSyncRequest")
    /\ ssapRsig(b) /\ "RESYNC" \in b.sb_requirements /\ InActivity(b)
    /\ "SB_RA" \in b.sb_flags =>
         SDoCollideAux(s = "init", type, ssn, b.sb_rs, b.sb_rsn)
    /\ type = "RESTART" => b.sb_V_R <= ssn /\ ssn <= b.sb_V_M
    /\ type = "ABANDON" => ssn = b.sb_V_M
    /\ Request(s, [b EXCEPT !.sb_rs = type, !.sb_rsn = ssn,
                     !.sb_rsettings = settings,
                     !.sb_flags = (@ \cup {"SB_RS"}) \ {"SB_RA", "SB_EDACK"}],
               [newspkt("RS") EXCEPT !.serial = ssn, !.type = type,
                                     !.settings = settings])

\* The settings a responder may return: the proposal, CALL decided.
Answers(b) ==
    {x \in [Token -> {"INIT", "RESP"}] :
       \A t \in Token :
         IF t \in Available(b.sb_requirements)
         THEN b.sb_rsettings[t] \in {"CALL", x[t]} ELSE x[t] = "INIT"}

\* Both ends of a completed resynchronization.
Resynced(s, b, ssn, settings) ==
    [b EXCEPT !.sb_V_A = ssn, !.sb_V_M = ssn,
              !.sb_V_R = IF b.sb_rs = "RESTART" THEN @ ELSE 0,
              !.sb_owned = OwnedUnder(s, b.sb_requirements, settings, @)]

SReSyncResponse(s, ssn, settings) ==
    LET b == sb[s] IN
    /\ Responds(s, "SReSyncResponse")
    /\ ssapRsig(b) /\ "RESYNC" \in b.sb_requirements
    /\ "SB_RA" \in b.sb_flags
    /\ b.sb_rs = "RESTART" => ssn = b.sb_rsn
    /\ b.sb_rs = "ABANDON" => ssn = b.sb_V_A
    /\ Request(s, [Resynced(s, b, ssn, settings) EXCEPT !.sb_flags = @ \ {"SB_RA"}],
               [newspkt("RA") EXCEPT !.serial = ssn, !.settings = settings])

-----------------------------------------------------------------------------
(* Activities.                                                             *)

Started(b, next) ==
    [b EXCEPT !.sb_V_A = next, !.sb_V_M = next, !.sb_V_R = 1,
              !.sb_flags = @ \cup {"SB_Vact"}]

SActStartRequest(s) ==
    /\ Calls(s, "SActStartRequest")
    /\ ssapPsig(sb[s]) /\ SDoActivityAux(sb[s], TRUE, FALSE)
    /\ Request(s, Started(sb[s], 1), newspkt("AS"))

SActResumeRequest(s, ssn) ==
    /\ Calls(s, "SActResumeRequest")
    /\ ssapPsig(sb[s]) /\ SDoActivityAux(sb[s], TRUE, FALSE)
    /\ Request(s, Started(sb[s], ssn + 1),
               [newspkt("AR") EXCEPT !.serial = ssn])

\* SActIntrRequest and SActDiscRequest share SActIntrRequestAux, whose
\* collision check needs SB_RA, which ssapXsig has refused by then.
SActIntrRequestAux(s, code, op) ==
    LET b == sb[s] IN
    /\ ssapXsig(b) /\ "SB_MAP" \notin b.sb_flags
    /\ "ACTIVITY" \in b.sb_requirements /\ "MAJ" \in b.sb_owned
    /\ "SB_Vact" \in b.sb_flags
    /\ Request(s, [b EXCEPT !.sb_rs = op,
                     !.sb_flags = (@ \cup {"SB_AI"}) \ {"SB_EDACK"}],
               newspkt(code))

SActIntrRequest(s) ==
    Calls(s, "SActIntrRequest") /\ SActIntrRequestAux(s, "AI", "INTR")
SActDiscRequest(s) ==
    Calls(s, "SActDiscRequest") /\ SActIntrRequestAux(s, "AD", "DISC")

\* Mutant of SActIntrResponseAux: the activity goes on.
SActIntrResponseOn(s, code) ==
    LET b == sb[s] IN
    /\ ssapAsig(b) /\ "ACTIVITY" \in b.sb_requirements
    /\ {"SB_Vact", "SB_AIA"} \subseteq b.sb_flags
    /\ Request(s, [b EXCEPT !.sb_owned = {}, !.sb_flags = @ \ {"SB_AIA"}],
               newspkt(code))

SActIntrResponseAux(s, code) ==
    LET b == sb[s] IN
    /\ ssapAsig(b) /\ "ACTIVITY" \in b.sb_requirements
    /\ {"SB_Vact", "SB_AIA"} \subseteq b.sb_flags
    /\ Request(s, [b EXCEPT !.sb_owned = {},
                            !.sb_flags = @ \ {"SB_AIA", "SB_Vact"}],
               newspkt(code))

SActIntrResponse(s) ==
    Responds(s, "SActIntrResponse") /\ SActIntrResponseAux(s, "AIA")
SActDiscResponse(s) ==
    Responds(s, "SActDiscResponse") /\ SActIntrResponseAux(s, "ADA")

-----------------------------------------------------------------------------
(* Reading: what sb2spkt returns, and the tests SReadRequestAux makes      *)
(* before its main switch.                                                 *)

\* sb2spkt(): an XSDU kept during preparation, else the SPDU put back by
\* the release loop, else the next TSDU.  b is the block without what was
\* taken from it, q the rest of the queue.
sb2spkt(s) ==
    LET b == sb[s] IN
    IF b.sb_pr = "PR" /\ b.sb_xspdu
    THEN {[p |-> [newspkt("EX") EXCEPT !.expd = TRUE],
           b |-> [b EXCEPT !.sb_xspdu = FALSE], q |-> net[s]]}
    ELSE IF b.sb_spdu # << >>
    THEN {[p |-> b.sb_spdu[1], b |-> [b EXCEPT !.sb_spdu = << >>],
           q |-> net[s]]}
    ELSE {[p |-> net[s][i], b |-> b, q |-> RemoveAt(net[s], i)] :
            i \in Arrivals(net[s])}

\* The normal-flow SPDUs that each preparation lets through, and those
\* that end it.
Passes(pr) ==
    CASE pr = "RS" -> {"AB", "AI", "AD", "RS"}
      [] pr = "RA" -> {"AB", "AI", "AIA", "ADA", "RA"}
      [] pr = "AB" -> {"AB", "AI"}
      [] OTHER -> SpduCode

Ends(pr) ==
    CASE pr = "MAA" -> {"MAA"}
      [] pr = "RS" -> {"AI", "AD", "RS"}
      [] pr = "RA" -> {"AIA", "ADA", "RA"}
      [] pr = "AB" -> {"AB", "AI"}
      [] OTHER -> {}

\* Mutant of Prepared: sb_pr is not reset by the RS it was set for.
PreparedForever(b, p) ==
    IF ~p.expd /\ p.code \in Ends(b.sb_pr) \ {"RS"}
    THEN [b EXCEPT !.sb_pr = "PR"] ELSE b

Prepared(b, p) ==
    IF ~p.expd /\ p.code \in Ends(b.sb_pr) THEN [b EXCEPT !.sb_pr = "PR"]
    ELSE b

\* Discarded while our RS, AI or AD is outstanding: the loser of a collision.
LosesCollision(s, b, p) ==
    LET Wins(op) == SDoCollideAux(s = "init", b.sb_rs, b.sb_rsn, op, p.serial) IN
    /\ b.sb_flags \cap {"SB_RS", "SB_AI"} # {}
    /\ \/ p.code = "PR" /\ p.type \notin {"RS", "RA"}
       \/ p.code = "RS" /\ Wins(p.type)
       \/ p.code = "AD" /\ Wins("DISC")
       \/ p.code = "AI" /\ Wins("INTR")

\* Discarded while our exception report is outstanding.
InException(b, p) ==
    /\ "SB_ED" \in b.sb_flags
    /\ p.code \notin {"AB", "AI", "MAP", "AE", "MIP"}
    /\ ~(p.code = "PR" /\ p.type = "RS")
    /\ ~(p.code = "GT" /\ "DAT" \in p.tokens)

PrAfterPr(b, p) == p.code = "PR" /\ b.sb_pr # "PR"

Discarded(s, b, p) ==
    \/ ~p.expd /\ p.code \notin Passes(b.sb_pr)
    \/ /\ ~PrAfterPr(b, p)
       /\ LosesCollision(s, b, p) \/ InException(b, p)

\* The functional units one of which an SPDU needs.
Needs(code) ==
    CASE code \in {"GTC", "GTA", "PT"} ->
           {"NEGOTIATED", "MAJORSYNC", "ACTIVITY", "MINORSYNC", "HALFDUPLEX"}
      [] code = "TD" -> {"TYPEDATA"}
      [] code = "EX" -> {"EXPEDITED"}
      [] code \in {"CD", "CDA"} -> {"CAPABILITY"}
      [] code \in {"MAP", "AE", "MAA"} -> {"MAJORSYNC", "ACTIVITY"}
      [] code \in {"MIP", "MIA"} -> {"MINORSYNC"}
      [] code \in {"RS", "RA"} -> {"RESYNC"}
      [] code = "ED" -> {"EXCEPTIONS"}
      [] code \in {"AS", "AR", "AD", "ADA"} -> {"ACTIVITY"}
      [] OTHER -> FunctionalUnits

\* SC_PROTOCOL: the peer is held to have broken the protocol.
Mangled(b, p) ==
    \/ PrAfterPr(b, p)
    \/ p.code \in {"DN", "NF"}
    \/ Needs(p.code) # FunctionalUnits /\ b.sb_requirements \cap Needs(p.code) = {}

\* Mutant of Ignored: V_R is not looked at when a restart arrives.
IgnoredNoWindow(b, p) ==
    LET f == b.sb_flags IN
    \/ p.code \in {"PT", "GT"} /\ "SB_GTC" \in f
    \/ p.code = "GTA" /\ "SB_GTC" \notin f
    \/ p.code \in {"MAP", "AE"} /\ b.sb_V_M # p.serial
    \/ p.code = "MAA" /\ b.sb_V_M # p.serial + 1
    \/ p.code = "MIA" /\ \/ "SB_Vsc" \in f
                         \/ b.sb_V_A > p.serial \/ p.serial >= b.sb_V_M

\* SPDUs the main switch frees without a trace.
Ignored(b, p) ==
    LET f == b.sb_flags IN
    \/ p.code \in {"PT", "GT"} /\ "SB_GTC" \in f
    \/ p.code = "GTA" /\ "SB_GTC" \notin f
    \/ p.code \in {"GTC", "AS", "AR"} /\ "SB_Vact" \in f
    \/ p.code \in {"AD", "AI", "ADA", "AIA"} /\ "SB_Vact" \notin f
    \/ p.code \in {"MAP", "AE"} /\ b.sb_V_M # p.serial
    \/ p.code = "MAA" /\ b.sb_V_M # p.serial + 1
    \/ p.code = "MIA" /\ \/ "SB_Vsc" \in f
                         \/ b.sb_V_A > p.serial \/ p.serial >= b.sb_V_M
    \/ p.code = "RS" /\ p.type = "RESTART" /\ b.sb_V_R > p.serial

\* SReadRequest refuses only a finishing block.
Reads(s) == /\ ~inRelease[s] /\ Connected(s)
            /\ "SB_FINN" \notin sb[s].sb_flags

\* SPDUs of the given codes that reach their case of the main switch.
Received(s, codes) ==
    {[in EXCEPT !.b = Prepared(in.b, in.p)] :
       in \in {i \in sb2spkt(s) :
                 /\ i.p.code \in codes
                 /\ ~Discarded(s, i.b, i.p) /\ ~Mangled(i.b, i.p)
                 /\ ~Ignored(i.b, i.p)}}

\* The end of a case: the new block, what is left to read, a reply.
Accept(s, in, b, reply) ==
    /\ sb' = [sb EXCEPT ![s] = b]
    /\ net' = [net EXCEPT ![s] = in.q, ![Peer(s)] = Deliver(Peer(s), reply)]
    /\ UNCHANGED <<inRelease, outcome>>

AcceptFlags(s, in, gone, come) ==
    Accept(s, in, [in.b EXCEPT !.sb_flags = (@ \ gone) \cup come], << >>)

-----------------------------------------------------------------------------
(* SReadRequestAux, by SPDU.                                               *)

\* goto drop_it, or freespkt and goto spin.
ReadSpin(s) ==
    /\ Reads(s)
    /\ \E in \in sb2spkt(s) :
         /\ in.p.code # "TDISC"
         /\ \/ Discarded(s, in.b, in.p)
            \/ ~Mangled(in.b, in.p) /\ Ignored(in.b, in.p)
         /\ Accept(s, in, Prepared(in.b, in.p), << >>)

\* spktlose with SC_PROTOCOL sends a provider abort; then freesblk.
ReadMangled(s) ==
    /\ Reads(s)
    /\ \E in \in sb2spkt(s) :
         /\ ~Discarded(s, in.b, in.p) /\ Mangled(in.b, in.p)
         /\ freesblk(s, "protocol", <<AB>>)

ReadAB(s) ==
    /\ Reads(s) /\ Received(s, {"AB"}) # {}
    /\ freesblk(s, "abort", << >>)

\* TReadRequest fails: the transport connection is gone.
TDiscRead(s) ==
    /\ Connected(s) /\ "SB_FINN" \notin sb[s].sb_flags
    /\ \E in \in sb2spkt(s) : in.p.code = "TDISC"
    /\ freesblk(s, "disc", << >>)

\* Data, typed data and S-TOKEN-PLEASE are handed to the user.
ReadDT(s) ==
    /\ Reads(s)
    /\ \E in \in Received(s, {"DT", "TD", "PT"}) : Accept(s, in, in.b, << >>)

ReadEX(s) ==
    /\ Reads(s)
    /\ \E in \in Received(s, {"EX"}) :
         /\ in.b.sb_pr # "PR" => ~in.b.sb_xspdu
         /\ Accept(s, in, [in.b EXCEPT !.sb_xspdu = (in.b.sb_pr # "PR")], << >>)

\* "unable to buffer second XSDU"
ReadEXCongest(s) ==
    /\ Reads(s)
    /\ \E in \in Received(s, {"EX"}) : in.b.sb_pr # "PR" /\ in.b.sb_xspdu
    /\ freesblk(s, "congest", <<AB>>)

\* Mutant of ReadGT: the data token does not end the exception.
ReadGTOnly(s) ==
    /\ Reads(s)
    /\ \E in \in Received(s, {"GT"}) :
         Accept(s, in,
           [in.b EXCEPT
              !.sb_owned = @ \cup (in.p.tokens \cap Available(in.b.sb_requirements))],
           << >>)

ReadGT(s) ==
    /\ Reads(s)
    /\ \E in \in Received(s, {"GT"}) :
         Accept(s, in,
           [in.b EXCEPT
              !.sb_owned = @ \cup (in.p.tokens \cap Available(in.b.sb_requirements)),
              !.sb_flags = IF "DAT" \in in.p.tokens THEN @ \ {"SB_ED"} ELSE @],
           << >>)

\* Mutant of ReadGTC: no GTA is returned.
ReadGTCNoAck(s) ==
    /\ Reads(s)
    /\ \E in \in Received(s, {"GTC"}) :
         Accept(s, in, [in.b EXCEPT !.sb_owned = Available(in.b.sb_requirements)],
                << >>)

ReadGTC(s) ==
    /\ Reads(s)
    /\ \E in \in Received(s, {"GTC"}) :
         Accept(s, in, [in.b EXCEPT !.sb_owned = Available(in.b.sb_requirements)],
                <<newspkt("GTA")>>)

ReadGTA(s) ==
    /\ Reads(s)
    /\ \E in \in Received(s, {"GTA"}) : AcceptFlags(s, in, {"SB_GTC"}, {})

ReadCD(s) ==
    /\ Reads(s)
    /\ \E in \in Received(s, {"CD"}) : AcceptFlags(s, in, {}, {"SB_CDA"})

ReadCDA(s) ==
    /\ Reads(s)
    /\ \E in \in Received(s, {"CDA"}) : AcceptFlags(s, in, {"SB_CD"}, {})

\* Mutant of CountPoint: the increment is taken into the condition.
CountPointOnce(b) ==
    IF "SB_Vsc" \in b.sb_flags THEN b
    ELSE [b EXCEPT !.sb_V_A = b.sb_V_M, !.sb_V_M = @ + 1]

\* The block once the peer's sync point has been counted.
CountPoint(b) ==
    [b EXCEPT !.sb_V_A = IF "SB_Vsc" \in b.sb_flags THEN @ ELSE b.sb_V_M,
              !.sb_V_M = @ + 1]

\* During an exception the point is counted and no indication is given.
ReadMAP(s) ==
    /\ Reads(s)
    /\ \E in \in Received(s, {"MAP"}) :
         Accept(s, in,
           [CountPoint(in.b) EXCEPT !.sb_flags =
              IF "SB_ED" \in in.b.sb_flags THEN @
              ELSE @ \cup {"SB_MAA"} \cup
                   (IF "ACTIVITY" \in in.b.sb_requirements
                    THEN {"SB_Vnextact"} ELSE {})],
           << >>)

ReadAE(s) ==
    /\ Reads(s)
    /\ \E in \in Received(s, {"AE"}) :
         Accept(s, in,
           [CountPoint(in.b) EXCEPT
              !.sb_flags = (@ \ {"SB_Vnextact"}) \cup {"SB_MAA", "SB_AE"}],
           << >>)

\* Mutant of ReadMAA: the request stays in progress.
ReadMAAPending(s) ==
    /\ Reads(s)
    /\ \E in \in Received(s, {"MAA"}) :
         Accept(s, in, [in.b EXCEPT !.sb_V_A = in.b.sb_V_M, !.sb_V_R = in.b.sb_V_M],
                << >>)

ReadMAA(s) ==
    /\ Reads(s)
    /\ \E in \in Received(s, {"MAA"}) :
         Accept(s, in,
           [in.b EXCEPT !.sb_V_A = in.b.sb_V_M, !.sb_V_R = in.b.sb_V_M,
                        !.sb_flags = NextAct(in.b) \ {"SB_MAP", "SB_AE"}],
           << >>)

ReadMIP(s) ==
    /\ Reads(s)
    /\ \E in \in Received(s, {"MIP"}) :
         Accept(s, in,
           [CountPoint(in.b) EXCEPT !.sb_flags = @ \cup {"SB_Vsc"}], << >>)

ReadMIA(s) ==
    /\ Reads(s)
    /\ \E in \in Received(s, {"MIA"}) :
         Accept(s, in, [in.b EXCEPT !.sb_V_A = in.p.serial], << >>)

ReadRS(s) ==
    /\ Reads(s)
    /\ \E in \in Received(s, {"RS"}) :
         Accept(s, in,
           [in.b EXCEPT !.sb_flags = (@ \ {"SB_RS"}) \cup {"SB_RA"},
                        !.sb_rs = in.p.type, !.sb_rsn = in.p.serial,
                        !.sb_rsettings = in.p.settings],
           << >>)

\* Mutant of ReadRA: the proposed serial number is kept although the
\* responder chose another.
ReadRAProposed(s) ==
    /\ Reads(s)
    /\ \E in \in Received(s, {"RA"}) :
         Accept(s, in,
           [Resynced(s, in.b, in.b.sb_rsn, in.p.settings) EXCEPT
              !.sb_flags = @ \ {"SB_RS"}, !.sb_rsettings = in.p.settings],
           << >>)

ReadRA(s) ==
    /\ Reads(s)
    /\ \E in \in Received(s, {"RA"}) :
         Accept(s, in,
           [Resynced(s, in.b, in.p.serial, in.p.settings) EXCEPT
              !.sb_flags = @ \ {"SB_RS"}, !.sb_rsettings = in.p.settings],
           << >>)

ReadPR(s) ==
    /\ Reads(s)
    /\ \E in \in Received(s, {"PR"}) :
         Accept(s, in,
           [in.b EXCEPT !.sb_pr = in.p.type,
              !.sb_flags = IF in.p.type = "RS" THEN @ \ {"SB_ED"} ELSE @],
           << >>)

ReadED(s) ==
    /\ Reads(s)
    /\ \E in \in Received(s, {"ED"}) :
         AcceptFlags(s, in, {},
                     IF "DAT" \in in.b.sb_owned THEN {"SB_EDACK"} ELSE {})

ReadAS(s) ==
    /\ Reads(s)
    /\ \E in \in Received(s, {"AS"}) : Accept(s, in, Started(in.b, 1), << >>)

ReadAR(s) ==
    /\ Reads(s)
    /\ \E in \in Received(s, {"AR"}) :
         Accept(s, in, Started(in.b, in.p.serial + 1), << >>)

ReadAI(s) ==
    /\ Reads(s)
    /\ \E in \in Received(s, {"AI", "AD"}) :
         Accept(s, in,
           [in.b EXCEPT !.sb_flags = (@ \ {"SB_RS", "SB_RA"}) \cup {"SB_AIA"},
                        !.sb_rs = "INTR"],
           << >>)

\* Mutant of ReadAIA: the tokens the peer gave up are not taken.
ReadAIAOnly(s) ==
    /\ Reads(s)
    /\ \E in \in Received(s, {"AIA", "ADA"}) :
         AcceptFlags(s, in, {"SB_AI", "SB_Vact"}, {})

ReadAIA(s) ==
    /\ Reads(s)
    /\ \E in \in Received(s, {"AIA", "ADA"}) :
         Accept(s, in,
           [in.b EXCEPT !.sb_flags = @ \ {"SB_AI", "SB_Vact"},
                        !.sb_owned = Available(in.b.sb_requirements)],
           << >>)

ReadFN(s) ==
    /\ Reads(s)
    /\ \E in \in Received(s, {"FN"}) : AcceptFlags(s, in, {}, {"SB_FINN"})

-----------------------------------------------------------------------------
(* Orderly release.  SRelRequest blocks in SRelRetryRequestAux, which      *)
(* reads with sb2spkt directly: none of the tests above applies there.     *)

\* Mutant of SRelRequest: the tokens are not asked for.
SRelRequestAnyTokens(s) ==
    LET b == sb[s] IN
    /\ Calls(s, "SRelRequest")
    /\ ssapPsig(b)
    /\ b.sb_flags \cap {"SB_CD", "SB_CDA", "SB_GTC", "SB_MAA"} = {}
    /\ ~b.sb_xspdu /\ b.sb_spdu = << >>
    /\ Update(s, b, <<newspkt("FN")>>)
    /\ inRelease' = [inRelease EXCEPT ![s] = TRUE]
    /\ UNCHANGED outcome

SRelRequest(s) ==
    LET b == sb[s] IN
    /\ Calls(s, "SRelRequest")
    /\ ssapPsig(b)
    /\ Available(b.sb_requirements) \subseteq b.sb_owned
    /\ b.sb_flags \cap {"SB_CD", "SB_CDA", "SB_GTC", "SB_MAA"} = {}
    /\ ~b.sb_xspdu /\ b.sb_spdu = << >>
    /\ Update(s, b, <<newspkt("FN")>>)
    /\ inRelease' = [inRelease EXCEPT ![s] = TRUE]
    /\ UNCHANGED outcome

\* Mutant of SRelTimeout: the timer fires after the call has returned.
SRelTimeoutLate(s) ==
    /\ \E req \in Profiles : "SRelTimeout" \in Requests[req]
    /\ sb' = [sb EXCEPT ![s].sb_flags = @ \cup {"SB_RELEASE"}]
    /\ inRelease' = [inRelease EXCEPT ![s] = FALSE]
    /\ UNCHANGED <<outcome, net>>

\* The timer runs out: the call returns and SB_RELEASE stays behind.
SRelTimeout(s) ==
    /\ Uses(s, "SRelTimeout") /\ inRelease[s]
    /\ sb' = [sb EXCEPT ![s].sb_flags = @ \cup {"SB_RELEASE"}]
    /\ inRelease' = [inRelease EXCEPT ![s] = FALSE]
    /\ UNCHANGED <<outcome, net>>

SRelRetryRequest(s) ==
    /\ ~inRelease[s] /\ "SB_RELEASE" \in sb[s].sb_flags
    /\ inRelease' = [inRelease EXCEPT ![s] = TRUE]
    /\ UNCHANGED <<sb, outcome, net>>

\* What the release loop reads next.
Awaited(s, codes) == {in \in sb2spkt(s) : inRelease[s] /\ in.p.code \in codes}

\* The loop goes on, or the call returns with the connection still up.
Resume(s, in, b, reply, waiting) ==
    /\ sb' = [sb EXCEPT ![s] = b]
    /\ net' = [net EXCEPT ![s] = in.q, ![Peer(s)] = Deliver(Peer(s), reply)]
    /\ inRelease' = [inRelease EXCEPT ![s] = waiting]
    /\ UNCHANGED outcome

\* Release collision: both ends sent FN.
RelFN(s) == \E in \in Awaited(s, {"FN"}) :
              Resume(s, in, in.b, <<newspkt("DN")>>, TRUE)

RelDN(s) == /\ Awaited(s, {"DN"}) # {}
            /\ freesblk(s, "released", << >>)

MayBeRefused(b) == "NEGOTIATED" \in b.sb_requirements /\ "RLS" \in b.sb_owned

\* Mutant of RelNF: the loop goes on after a refusal.
RelNFWaits(s) == \E in \in Awaited(s, {"NF"}) :
                   MayBeRefused(in.b) /\ Resume(s, in, in.b, << >>, TRUE)

RelNF(s) == \E in \in Awaited(s, {"NF"}) :
              MayBeRefused(in.b) /\ Resume(s, in, in.b, << >>, FALSE)

\* SC_WAITING: the user has to read the RS that was put back.
RelRS(s) == \E in \in Awaited(s, {"RS"}) :
              Resume(s, in, [in.b EXCEPT !.sb_spdu = <<in.p>>], << >>, FALSE)

\* AI has the code of AB.
RelAB(s) == /\ Awaited(s, {"AB", "AI"}) # {}
            /\ freesblk(s, "abort", << >>)

RelMangled(s) ==
    /\ \E in \in Awaited(s, SpduCode \ {"FN", "DN", "RS", "AB", "AI", "TDISC"}) :
         in.p.code = "NF" => ~MayBeRefused(in.b)
    /\ freesblk(s, "protocol", <<AB>>)

SRelAccept(s) ==
    /\ Uses(s, "SRelResponse")
    /\ ssapFsig(sb[s])
    /\ freesblk(s, "released", <<newspkt("DN")>>)

SRelReject(s) ==
    /\ Responds(s, "SRelReject")
    /\ ssapFsig(sb[s])
    /\ "NEGOTIATED" \in sb[s].sb_requirements /\ "RLS" \notin sb[s].sb_owned
    /\ Request(s, [sb[s] EXCEPT !.sb_flags = @ \ {"SB_FINN"}], newspkt("NF"))

-----------------------------------------------------------------------------
(* Abort and transport failure.                                            *)

SUAbortRequest(s) ==
    /\ Uses(s, "SUAbortRequest") /\ ~inRelease[s]
    /\ freesblk(s, "uabort", <<AB>>)

\* With more than nine octets of user data the AB follows a PR SPDU.
SUAbortPrepared(s) ==
    /\ Uses(s, "SUAbortRequest") /\ ~inRelease[s]
    /\ Expd
    /\ freesblk(s, "uabort",
                <<[newspkt("PR") EXCEPT !.expd = TRUE, !.type = "AB"],
                  newspkt("AB")>>)

\* The network disconnects both ends.
TransportFails ==
    /\ \A s \in Side : /\ Uses(s, "TransportFails")
                       /\ \A i \in DOMAIN net[s] : net[s][i].code # "TDISC"
    /\ net' = [s \in Side |-> Append(net[s], TDISC)]
    /\ UNCHANGED <<sb, inRelease, outcome>>

\* A finishing user whose transport has gone finds out when he responds.
SRelResponseFails(s) ==
    /\ Uses(s, "SRelResponse")
    /\ "SB_FINN" \in sb[s].sb_flags
    /\ \E i \in DOMAIN net[s] : net[s][i].code = "TDISC"
    /\ freesblk(s, "disc", << >>)

-----------------------------------------------------------------------------
(* Next-state relation, by who takes the step.                             *)

\* The user of side s starts something.
Requesting(s) ==
    \/ SDataRequest(s) \/ STypedRequest(s) \/ SExpdRequest(s)
    \/ \E tokens \in SUBSET Token : SGTokenRequest(s, tokens)
    \/ \E tokens \in SUBSET Token : SPTokenRequest(s, tokens)
    \/ SGControlRequest(s) \/ SCapdRequest(s) \/ SUReportRequest(s)
    \/ SMinSyncRequest(s) \/ SMajSyncRequest(s)
    \/ \E type \in ResyncType, ssn \in 0 .. MaxSsn, settings \in ResyncSettings :
         SReSyncRequest(s, type, ssn, settings)
    \/ SActStartRequest(s) \/ SActEndRequest(s)
    \/ \E ssn \in 0 .. (MaxSsn - 1) : SActResumeRequest(s, ssn)
    \/ SActIntrRequest(s) \/ SActDiscRequest(s)
    \/ SRelRequest(s) \/ SUAbortRequest(s) \/ SUAbortPrepared(s)

\* The user of side s answers an indication.
Responding(s) ==
    \/ SCapdResponse(s)
    \/ SMajSyncResponseAux(s) \/ SMajSyncResponseBadConv(s)
    \/ \E ssn \in 0 .. MaxSsn, settings \in Answers(sb[s]) :
         SReSyncResponse(s, ssn, settings)
    \/ SActIntrResponse(s) \/ SActDiscResponse(s)
    \/ SRelAccept(s) \/ SRelReject(s) \/ SRelResponseFails(s)

\* SReadRequest, or the asynchronous TDATAser and TDISCser.
Reading(s) ==
    \/ ReadSpin(s) \/ ReadMangled(s) \/ ReadAB(s) \/ TDiscRead(s)
    \/ ReadDT(s) \/ ReadEX(s) \/ ReadEXCongest(s)
    \/ ReadGT(s) \/ ReadGTC(s) \/ ReadGTA(s) \/ ReadCD(s) \/ ReadCDA(s)
    \/ ReadMAP(s) \/ ReadAE(s) \/ ReadMAA(s) \/ ReadMIP(s) \/ ReadMIA(s)
    \/ ReadRS(s) \/ ReadRA(s) \/ ReadPR(s) \/ ReadED(s)
    \/ ReadAS(s) \/ ReadAR(s) \/ ReadAI(s) \/ ReadAIA(s) \/ ReadFN(s)

\* The release loop of side s; the user comes back after a timeout.
Releasing(s) ==
    \/ SRelRetryRequest(s)
    \/ RelFN(s) \/ RelDN(s) \/ RelNF(s) \/ RelRS(s) \/ RelAB(s)
    \/ RelMangled(s)

Next ==
    \/ \E s \in Side : \/ Requesting(s) \/ Responding(s) \/ Reading(s)
                       \/ Releasing(s) \/ SRelTimeout(s)
                       \/ \E ssn \in 0 .. MaxSsn : SMinSyncResponse(s, ssn)
    \/ TransportFails

Spec == Init /\ [][Next]_vars

\* Each side's user goes on reading, answers the indications that call for
\* an answer, and does not leave a release half done.  Nothing is assumed
\* of requests, timers or the transport, nor of minor synchronization
\* points, whose confirmation is optional.
Fairness ==
    \A s \in Side : /\ WF_vars(Reading(s))
                    /\ WF_vars(Responding(s))
                    /\ WF_vars(Releasing(s))

FairSpec == Spec /\ Fairness
=============================================================================
