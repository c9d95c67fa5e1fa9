----------------------------- MODULE SsapProofs -----------------------------
(***************************************************************************)
(* The session protocol machines of Ssap, for every set of profiles, of    *)
(* user calls and of serial numbers, and for queues of any length: the     *)
(* blocks and the SPDUs under way are well formed, and a freed block stays *)
(* freed.                                                                  *)
(*                                                                         *)
(* The two are proved together.  FreedIsGone is not inductive by itself: a *)
(* release loop takes its SPDUs with no test of the block, and only the    *)
(* types tell that what the loop puts back is the block it read from.      *)
(* Every action but four is one of four shapes (Request, Accept, Resume    *)
(* and freesblk), each of which has a lemma below; what is left to show of *)
(* an action is that the block it stores is well formed and still up.      *)
(***************************************************************************)
EXTENDS SsapProperties, TLAPS

Inv == TypeOK /\ FreedIsGone

\* A well formed block of an end whose session is up.
Up(b) == b \in ssapblk /\ "SB_CONN" \in b.sb_flags

-----------------------------------------------------------------------------
(* The vocabulary.                                                         *)

LEMMA PeerSide ==
    ASSUME NEW s \in Side
    PROVE  Peer(s) \in Side /\ Peer(s) # s
  BY DEF Peer, Side

LEMMA AvailableTokens ==
    ASSUME NEW req
    PROVE  Available(req) \subseteq Token
  BY DEF Available, Token

LEMMA NoSettingsType == NoSettings \in Settings
  BY DEF NoSettings, Settings, Setting

LEMMA NewspktType ==
    ASSUME NEW code \in SpduCode \ {"PR"}
    PROVE  newspkt(code) \in Spdu
  BY NoSettingsType DEF newspkt, Spdu, ResyncType

LEMMA NewsblkType == newsblk \in ssapblk /\ "SB_CONN" \notin newsblk.sb_flags
  BY NoSettingsType DEF newsblk, ssapblk, SyncOp, ResyncType, Prepare

LEMMA TdiscType == TDISC \in Spdu
  BY NewspktType DEF TDISC, SpduCode

LEMMA AbType == AB \in Spdu
  <1>1. newspkt("AB") \in Spdu
    BY NewspktType DEF SpduCode
  <1> QED
    BY <1>1, ExpdAssumption DEF AB, Spdu

LEMMA PrType ==
    ASSUME NEW type \in Prepare
    PROVE  [newspkt("PR") EXCEPT !.expd = TRUE, !.type = type] \in Spdu
  BY NoSettingsType DEF newspkt, Spdu, SpduCode

LEMMA PrepareTypeType ==
    ASSUME NEW code
    PROVE  PrepareType(code) \in Prepare
  BY DEF PrepareType, Prepare

LEMMA WriteType ==
    ASSUME NEW p \in Spdu
    PROVE  SWriteRequestAux(p) \in Seq(Spdu)
  <1> DEFINE pr == [newspkt("PR") EXCEPT !.expd = TRUE,
                                         !.type = PrepareType(p.code)]
  <1>1. pr \in Spdu
    BY PrepareTypeType, PrType
  <1>2. SWriteRequestAux(p) \in {<<pr, p>>, <<p>>}
    BY DEF SWriteRequestAux
  <1> HIDE DEF pr
  <1>3. <<p>> \in Seq(Spdu)
    OBVIOUS
  <1>4. <<pr, p>> \in Seq(Spdu)
    BY <1>1
  <1> QED
    BY <1>2, <1>3, <1>4

LEMMA DeliverType ==
    ASSUME TypeOK, NEW s \in Side, NEW q \in Seq(Spdu)
    PROVE  /\ Deliver(s, q) \in Seq(Spdu)
           /\ ~Connected(s) => Deliver(s, q) = << >>
  BY DEF Deliver, TypeOK

-----------------------------------------------------------------------------
(* The four shapes of a step.                                              *)

\* A step that leaves both ends as connected as they were.
LEMMA StepKeeps ==
    ASSUME Inv, NEW s \in Side, Connected(s),
           NEW b, Up(b), NEW mine \in Seq(Spdu), NEW out \in Seq(Spdu),
           NEW loop \in BOOLEAN,
           sb' = [sb EXCEPT ![s] = b],
           net' = [net EXCEPT ![s] = mine, ![Peer(s)] = Deliver(Peer(s), out)],
           inRelease' = [inRelease EXCEPT ![s] = loop],
           UNCHANGED outcome
    PROVE  Inv'
  <1> USE PeerSide
  <1>1. TypeOK'
    BY DeliverType DEF Inv, TypeOK, Up
  <1>2. ASSUME NEW r \in Side
        PROVE  /\ (outcome[r] = "none" <=> Connected(r))'
               /\ (~Connected(r) => sb[r] = newsblk /\ net[r] = << >>
                                    /\ ~inRelease[r])'
    <2>1. CASE r = s
      BY <2>1 DEF Inv, TypeOK, FreedIsGone, Connected, Up
    <2>2. CASE r # s
      <3>1. r = Peer(s)
        BY <2>2 DEF Side, Peer
      <3>2. /\ sb'[r] = sb[r] /\ inRelease'[r] = inRelease[r]
            /\ net'[r] = Deliver(r, out)
        BY <2>2, <3>1 DEF Inv, TypeOK
      <3>3. Connected(r)' <=> Connected(r)
        BY <3>2 DEF Connected
      <3> QED
        BY <3>2, <3>3, DeliverType DEF Inv, FreedIsGone
    <2> QED
      BY <2>1, <2>2
  <1> QED
    BY <1>1, <1>2 DEF Inv, FreedIsGone

LEMMA RequestKeeps ==
    ASSUME Inv, NEW s \in Side, Connected(s),
           NEW b, Up(b), NEW p \in Spdu, Request(s, b, p)
    PROVE  Inv'
  <1>1. net' = [net EXCEPT ![s] = net[s],
                  ![Peer(s)] = Deliver(Peer(s), SWriteRequestAux(p))]
    BY PeerSide DEF Inv, TypeOK, Request, Update
  <1>2. inRelease' = [inRelease EXCEPT ![s] = inRelease[s]]
    BY DEF Inv, TypeOK, Request
  <1>3. net[s] \in Seq(Spdu) /\ inRelease[s] \in BOOLEAN
    BY DEF Inv, TypeOK
  <1>4. SWriteRequestAux(p) \in Seq(Spdu)
    BY WriteType
  <1>5. sb' = [sb EXCEPT ![s] = b] /\ UNCHANGED outcome
    BY DEF Request, Update
  <1> QED
    BY <1>1, <1>2, <1>3, <1>4, <1>5, StepKeeps

LEMMA AcceptKeeps ==
    ASSUME Inv, NEW s \in Side, Connected(s), NEW in, in.q \in Seq(Spdu),
           NEW b, Up(b), NEW reply \in Seq(Spdu), Accept(s, in, b, reply)
    PROVE  Inv'
  <1>1. inRelease' = [inRelease EXCEPT ![s] = inRelease[s]]
        /\ inRelease[s] \in BOOLEAN
    BY DEF Inv, TypeOK, Accept
  <1> QED
    BY <1>1, StepKeeps DEF Accept

LEMMA ResumeKeeps ==
    ASSUME Inv, NEW s \in Side, Connected(s), NEW in, in.q \in Seq(Spdu),
           NEW b, Up(b), NEW reply \in Seq(Spdu), NEW waiting \in BOOLEAN,
           Resume(s, in, b, reply, waiting)
    PROVE  Inv'
  BY StepKeeps DEF Resume

LEMMA FreeKeeps ==
    ASSUME Inv, NEW s \in Side, NEW why \in Outcome \ {"none"},
           NEW q \in Seq(Spdu), freesblk(s, why, q)
    PROVE  Inv'
  <1> USE PeerSide
  <1>1. Append(q, TDISC) \in Seq(Spdu)
    BY TdiscType
  <1>2. TypeOK'
    <2>1. Deliver(Peer(s), Append(q, TDISC)) \in Seq(Spdu)
      BY <1>1, DeliverType DEF Inv
    <2>2. << >> \in Seq(Spdu) /\ why \in Outcome /\ newsblk \in ssapblk
      BY NewsblkType
    <2> QED
      BY <2>1, <2>2 DEF Inv, TypeOK, freesblk
  <1>3. ASSUME NEW r \in Side
        PROVE  /\ (outcome[r] = "none" <=> Connected(r))'
               /\ (~Connected(r) => sb[r] = newsblk /\ net[r] = << >>
                                    /\ ~inRelease[r])'
    <2>1. CASE r = s
      BY <2>1, NewsblkType DEF Inv, TypeOK, Connected, freesblk
    <2>2. CASE r # s
      <3>1. r = Peer(s)
        BY <2>2 DEF Side, Peer
      <3>2. /\ sb'[r] = sb[r] /\ inRelease'[r] = inRelease[r]
            /\ outcome'[r] = outcome[r]
            /\ net'[r] = Deliver(r, Append(q, TDISC))
        BY <2>2, <3>1 DEF Inv, TypeOK, freesblk
      <3>3. Connected(r)' <=> Connected(r)
        BY <3>2 DEF Connected
      <3> QED
        BY <1>1, <3>2, <3>3, DeliverType DEF Inv, FreedIsGone
    <2> QED
      BY <2>1, <2>2
  <1> QED
    BY <1>2, <1>3 DEF Inv, FreedIsGone

-----------------------------------------------------------------------------
(* What is read.                                                           *)

LEMMA RemoveAtType ==
    ASSUME NEW S, NEW q \in Seq(S), NEW i \in 1 .. Len(q)
    PROVE  RemoveAt(q, i) \in Seq(S)
  <1>1. SubSeq(q, 1, i - 1) \in Seq(S) /\ SubSeq(q, i + 1, Len(q)) \in Seq(S)
    OBVIOUS
  <1> QED
    BY <1>1 DEF RemoveAt

LEMMA ReadType ==
    ASSUME TypeOK, NEW s \in Side, Connected(s), NEW in \in sb2spkt(s)
    PROVE  in.p \in Spdu /\ Up(in.b) /\ in.q \in Seq(Spdu)
  <1>1. Up(sb[s]) /\ net[s] \in Seq(Spdu)
    BY DEF TypeOK, Connected, Up
  <1>2. CASE sb[s].sb_pr = "PR" /\ sb[s].sb_xspdu
    <2>1. [newspkt("EX") EXCEPT !.expd = TRUE] \in Spdu
      <3>1. newspkt("EX") \in Spdu
        BY NewspktType DEF SpduCode
      <3> QED
        BY <3>1 DEF Spdu
    <2>2. Up([sb[s] EXCEPT !.sb_xspdu = FALSE])
      BY <1>1 DEF Up, ssapblk
    <2>3. in = [p |-> [newspkt("EX") EXCEPT !.expd = TRUE],
                b |-> [sb[s] EXCEPT !.sb_xspdu = FALSE], q |-> net[s]]
      BY <1>2 DEF sb2spkt
    <2> QED
      BY <1>1, <2>1, <2>2, <2>3
  <1>3. CASE ~(sb[s].sb_pr = "PR" /\ sb[s].sb_xspdu) /\ sb[s].sb_spdu # << >>
    <2>1. sb[s].sb_spdu \in Seq(Spdu)
      BY <1>1 DEF Up, ssapblk
    <2>2. sb[s].sb_spdu[1] \in Spdu
      BY <1>3, <2>1
    <2>3. Up([sb[s] EXCEPT !.sb_spdu = << >>])
      <3>1. << >> \in Seq(Spdu)
        OBVIOUS
      <3> QED
        BY <1>1, <3>1 DEF Up, ssapblk
    <2>4. in = [p |-> sb[s].sb_spdu[1], b |-> [sb[s] EXCEPT !.sb_spdu = << >>],
                q |-> net[s]]
      BY <1>3 DEF sb2spkt
    <2> QED
      BY <1>1, <2>2, <2>3, <2>4
  <1>4. CASE ~(sb[s].sb_pr = "PR" /\ sb[s].sb_xspdu) /\ sb[s].sb_spdu = << >>
    <2>1. PICK i \in Arrivals(net[s]) :
            in = [p |-> net[s][i], b |-> sb[s], q |-> RemoveAt(net[s], i)]
      BY <1>4 DEF sb2spkt
    <2>2. i \in 1 .. Len(net[s])
      BY DEF Arrivals
    <2>3. net[s][i] \in Spdu /\ RemoveAt(net[s], i) \in Seq(Spdu)
      BY <1>1, <2>2, RemoveAtType
    <2> QED
      BY <1>1, <2>1, <2>3
  <1> QED
    BY <1>2, <1>3, <1>4

LEMMA PreparedUp ==
    ASSUME NEW b, Up(b), NEW p
    PROVE  Up(Prepared(b, p))
  BY DEF Prepared, Up, ssapblk, Prepare

LEMMA ReceivedType ==
    ASSUME TypeOK, NEW s \in Side, Connected(s), NEW codes,
           NEW in \in Received(s, codes)
    PROVE  in.p \in Spdu /\ Up(in.b) /\ in.q \in Seq(Spdu)
  <1>1. PICK i \in sb2spkt(s) : in = [i EXCEPT !.b = Prepared(i.b, i.p)]
    BY DEF Received
  <1>2. i.p \in Spdu /\ Up(i.b) /\ i.q \in Seq(Spdu)
    BY ReadType
  <1>3. "p" \in DOMAIN i /\ "b" \in DOMAIN i /\ "q" \in DOMAIN i
    BY DEF sb2spkt
  <1>4. in.p = i.p /\ in.b = Prepared(i.b, i.p) /\ in.q = i.q
    BY <1>1, <1>3
  <1> QED
    BY <1>2, <1>4, PreparedUp

LEMMA ReceivedCode ==
    ASSUME NEW s, NEW codes, NEW in \in Received(s, codes)
    PROVE  in.p.code \in codes
  <1>1. PICK i \in sb2spkt(s) : /\ in = [i EXCEPT !.b = Prepared(i.b, i.p)]
                                /\ i.p.code \in codes
    BY DEF Received
  <1>2. "p" \in DOMAIN i
    BY DEF sb2spkt
  <1> QED
    BY <1>1, <1>2

-----------------------------------------------------------------------------
(* What is stored.                                                         *)

\* SB_CONN is neither among the flags an action clears nor lost by @.
LEMMA FlagsUp ==
    ASSUME NEW b, Up(b), NEW gone, "SB_CONN" \notin gone, NEW come \in SUBSET Flag
    PROVE  Up([b EXCEPT !.sb_flags = (@ \ gone) \cup come])
  BY DEF Up, ssapblk

LEMMA IssuePointUp ==
    ASSUME NEW b, Up(b)
    PROVE  Up(IssuePoint(b)) /\ IssuePoint(b).sb_flags = b.sb_flags \ {"SB_Vsc"}
  <1>1. b \in ssapblk /\ "SB_CONN" \in b.sb_flags
    BY DEF Up
  <1>2. IssuePoint(b) \in ssapblk
    <2> DEFINE a == IF "SB_Vsc" \in b.sb_flags THEN b.sb_V_M ELSE b.sb_V_A
               m == b.sb_V_M + 1
               f == b.sb_flags \ {"SB_Vsc"}
    <2>1. a \in Nat /\ m \in Nat /\ f \in SUBSET Flag
      BY <1>1 DEF ssapblk
    <2>2. IssuePoint(b) = [b EXCEPT !.sb_V_A = a, !.sb_V_M = m, !.sb_flags = f]
      BY <1>1 DEF ssapblk, IssuePoint
    <2> HIDE DEF a, m, f
    <2> QED
      BY <1>1, <2>1, <2>2 DEF ssapblk
  <1>3. IssuePoint(b).sb_flags = b.sb_flags \ {"SB_Vsc"}
    BY <1>1 DEF ssapblk, IssuePoint
  <1> QED
    BY <1>1, <1>2, <1>3 DEF Up

LEMMA CountPointUp ==
    ASSUME NEW b, Up(b)
    PROVE  Up(CountPoint(b)) /\ CountPoint(b).sb_flags = b.sb_flags
  <1>1. b \in ssapblk /\ "SB_CONN" \in b.sb_flags
    BY DEF Up
  <1>2. CountPoint(b) \in ssapblk
    <2> DEFINE a == IF "SB_Vsc" \in b.sb_flags THEN b.sb_V_A ELSE b.sb_V_M
               m == b.sb_V_M + 1
               f == b.sb_flags
    <2>1. a \in Nat /\ m \in Nat /\ f \in SUBSET Flag
      BY <1>1 DEF ssapblk
    <2>2. CountPoint(b) = [b EXCEPT !.sb_V_A = a, !.sb_V_M = m, !.sb_flags = f]
      BY <1>1 DEF ssapblk, CountPoint
    <2> HIDE DEF a, m, f
    <2> QED
      BY <1>1, <2>1, <2>2 DEF ssapblk
  <1>3. CountPoint(b).sb_flags = b.sb_flags
    BY <1>1 DEF ssapblk, CountPoint
  <1> QED
    BY <1>1, <1>2, <1>3 DEF Up

LEMMA StartedUp ==
    ASSUME NEW b, Up(b), NEW n \in Nat
    PROVE  Up(Started(b, n))
  BY DEF Up, ssapblk, Started, Flag

LEMMA NextActFlags ==
    ASSUME NEW b, Up(b)
    PROVE  NextAct(b) \in SUBSET Flag /\ "SB_CONN" \in NextAct(b)
  BY DEF Up, ssapblk, NextAct, Flag

LEMMA ResyncedUp ==
    ASSUME NEW s \in Side, NEW b, Up(b), NEW n \in Nat, NEW settings
    PROVE  Up(Resynced(s, b, n, settings))
  <1>1. OwnedUnder(s, b.sb_requirements, settings, b.sb_owned) \subseteq Token
    BY AvailableTokens DEF OwnedUnder
  <1> QED
    BY <1>1 DEF Up, ssapblk, Resynced

\* The SPDUs that are written.
LEMMA TokensSpdu ==
    ASSUME NEW code \in SpduCode \ {"PR"}, NEW tokens \in SUBSET Token
    PROVE  [newspkt(code) EXCEPT !.tokens = tokens] \in Spdu
  BY NewspktType DEF Spdu

LEMMA SerialSpdu ==
    ASSUME NEW code \in SpduCode \ {"PR"}, NEW n \in Nat
    PROVE  [newspkt(code) EXCEPT !.serial = n] \in Spdu
  BY NewspktType DEF Spdu

LEMMA CallerUp ==
    ASSUME Inv, NEW s \in Side, NEW primitive, Uses(s, primitive)
    PROVE  Connected(s) /\ Up(sb[s])
  BY DEF Inv, TypeOK, Uses, Connected, Up

-----------------------------------------------------------------------------
(* The user starts something.                                              *)

LEMMA DataKeeps ==
    ASSUME Inv, NEW s \in Side,
           \/ SDataRequest(s) \/ STypedRequest(s) \/ SExpdRequest(s)
    PROVE  Inv'
  <1>1. Connected(s) /\ Up(sb[s])
    BY CallerUp DEF SDataRequest, STypedRequest, SExpdRequest, Calls, Responds
  <1>2. newspkt("DT") \in Spdu /\ newspkt("TD") \in Spdu /\ newspkt("EX") \in Spdu
    BY NewspktType DEF SpduCode
  <1>3. [newspkt("EX") EXCEPT !.expd = TRUE] \in Spdu
    BY <1>2 DEF Spdu
  <1> QED
    BY <1>1, <1>2, <1>3, RequestKeeps DEF SDataRequest, STypedRequest, SExpdRequest

LEMMA TokenKeeps ==
    ASSUME Inv, NEW s \in Side, NEW tokens \in SUBSET Token,
           SGTokenRequest(s, tokens) \/ SPTokenRequest(s, tokens)
    PROVE  Inv'
  <1>1. Connected(s) /\ Up(sb[s])
    BY CallerUp DEF SGTokenRequest, SPTokenRequest, Calls, Responds
  <1>2. /\ [newspkt("GT") EXCEPT !.tokens = tokens] \in Spdu
        /\ [newspkt("PT") EXCEPT !.tokens = tokens] \in Spdu
    BY TokensSpdu DEF SpduCode
  <1>3. Up([sb[s] EXCEPT !.sb_owned = @ \ tokens, !.sb_flags = @ \ {"SB_EDACK"}])
    BY <1>1 DEF Up, ssapblk
  <1> QED
    BY <1>1, <1>2, <1>3, RequestKeeps DEF SGTokenRequest, SPTokenRequest

LEMMA ControlKeeps ==
    ASSUME Inv, NEW s \in Side,
           SGControlRequest(s) \/ SCapdRequest(s) \/ SUReportRequest(s)
    PROVE  Inv'
  <1>1. Connected(s) /\ Up(sb[s])
    BY CallerUp
    DEF SGControlRequest, SCapdRequest, SUReportRequest, Calls, Responds
  <1>2. newspkt("GTC") \in Spdu /\ newspkt("CD") \in Spdu /\ newspkt("ED") \in Spdu
    BY NewspktType DEF SpduCode
  <1>3. /\ Up([sb[s] EXCEPT !.sb_owned = {}, !.sb_flags = @ \cup {"SB_GTC"}])
        /\ Up([sb[s] EXCEPT !.sb_flags = @ \cup {"SB_CD"}])
        /\ Up([sb[s] EXCEPT !.sb_flags = @ \cup {"SB_ED"}])
    BY <1>1 DEF Up, ssapblk, Flag
  <1>4. CASE SGControlRequest(s)
    BY <1>1, <1>2, <1>3, <1>4, RequestKeeps DEF SGControlRequest
  <1>5. CASE SCapdRequest(s)
    BY <1>1, <1>2, <1>3, <1>5, RequestKeeps DEF SCapdRequest
  <1>6. CASE SUReportRequest(s)
    BY <1>1, <1>2, <1>3, <1>6, RequestKeeps DEF SUReportRequest
  <1> QED
    BY <1>4, <1>5, <1>6

LEMMA SyncKeeps ==
    ASSUME Inv, NEW s \in Side,
           SMinSyncRequest(s) \/ SMajSyncRequest(s) \/ SActEndRequest(s)
    PROVE  Inv'
  <1>1. Connected(s) /\ Up(sb[s])
    BY CallerUp
    DEF SMinSyncRequest, SMajSyncRequest, SActEndRequest, Calls, Responds
  <1>2. sb[s].sb_V_M \in Nat
    BY <1>1 DEF Up, ssapblk
  <1>3. Up(IssuePoint(sb[s]))
    BY <1>1, IssuePointUp
  <1>4. CASE SMinSyncRequest(s)
    <2>1. [newspkt("MIP") EXCEPT !.serial = sb[s].sb_V_M] \in Spdu
      BY <1>2, SerialSpdu DEF SpduCode
    <2> QED
      BY <1>1, <1>3, <1>4, <2>1, RequestKeeps DEF SMinSyncRequest
  <1>5. ASSUME NEW noend \in BOOLEAN, SMajSyncRequestAux(s, noend)
        PROVE  Inv'
    <2> DEFINE b == sb[s]
               f == (b.sb_flags \cup {"SB_MAP"}) \ {"SB_Vsc"}
               g == IF ~noend THEN (f \cup {"SB_AE"}) \ {"SB_Vnextact"}
                    ELSE IF "ACTIVITY" \in b.sb_requirements
                         THEN f \cup {"SB_Vnextact"} ELSE f
               p == [newspkt(IF noend THEN "MAP" ELSE "AE")
                       EXCEPT !.serial = b.sb_V_M]
    <2>1. Request(s, [IssuePoint(b) EXCEPT !.sb_flags = g], p)
      BY <1>5 DEF SMajSyncRequestAux
    <2>2. g \in SUBSET Flag /\ "SB_CONN" \in g
      BY <1>1 DEF Up, ssapblk, Flag
    <2>3. p \in Spdu
      BY <1>2, SerialSpdu DEF SpduCode
    <2> HIDE DEF g, p
    <2>4. Up([IssuePoint(b) EXCEPT !.sb_flags = g])
      BY <1>3, <2>2 DEF Up, ssapblk
    <2> QED
      BY <1>1, <2>1, <2>3, <2>4, RequestKeeps
  <1> QED
    BY <1>4, <1>5 DEF SMajSyncRequest, SActEndRequest

LEMMA MinSyncResponseKeeps ==
    ASSUME Inv, NEW s \in Side, NEW ssn \in Nat, SMinSyncResponse(s, ssn)
    PROVE  Inv'
  <1>1. Connected(s) /\ Up(sb[s])
    BY CallerUp DEF SMinSyncResponse, Calls, Responds
  <1>2. Up([sb[s] EXCEPT !.sb_V_A = ssn + 1])
    BY <1>1 DEF Up, ssapblk
  <1>3. [newspkt("MIA") EXCEPT !.serial = ssn] \in Spdu
    BY SerialSpdu DEF SpduCode
  <1> QED
    BY <1>1, <1>2, <1>3, RequestKeeps DEF SMinSyncResponse

LEMMA ReSyncRequestKeeps ==
    ASSUME Inv, NEW s \in Side, NEW type \in ResyncType, NEW ssn \in Nat,
           NEW settings \in Settings, SReSyncRequest(s, type, ssn, settings)
    PROVE  Inv'
  <1>1. Connected(s) /\ Up(sb[s])
    BY CallerUp DEF SReSyncRequest, Calls, Responds
  <1>2. Up([sb[s] EXCEPT !.sb_rs = type, !.sb_rsn = ssn,
              !.sb_rsettings = settings,
              !.sb_flags = (@ \cup {"SB_RS"}) \ {"SB_RA", "SB_EDACK"}])
    BY <1>1 DEF Up, ssapblk, SyncOp, Flag
  <1>3. [newspkt("RS") EXCEPT !.serial = ssn, !.type = type,
                              !.settings = settings] \in Spdu
    BY DEF newspkt, Spdu, SpduCode
  <1> QED
    BY <1>1, <1>2, <1>3, RequestKeeps DEF SReSyncRequest

LEMMA ActivityKeeps ==
    ASSUME Inv, NEW s \in Side,
           \/ SActStartRequest(s) \/ SActIntrRequest(s) \/ SActDiscRequest(s)
           \/ \E ssn \in Nat : SActResumeRequest(s, ssn)
    PROVE  Inv'
  <1>1. Connected(s) /\ Up(sb[s])
    BY CallerUp DEF SActStartRequest, SActIntrRequest, SActDiscRequest,
                    SActResumeRequest, Calls, Responds
  <1>2. newspkt("AS") \in Spdu /\ newspkt("AI") \in Spdu /\ newspkt("AD") \in Spdu
    BY NewspktType DEF SpduCode
  <1>3. CASE SActStartRequest(s)
    <2>1. Up(Started(sb[s], 1))
      BY <1>1, StartedUp
    <2> QED
      BY <1>1, <1>2, <1>3, <2>1, RequestKeeps DEF SActStartRequest
  <1>4. ASSUME NEW ssn \in Nat, SActResumeRequest(s, ssn)
        PROVE  Inv'
    <2>1. ssn + 1 \in Nat
      OBVIOUS
    <2>2. Up(Started(sb[s], ssn + 1))
      BY <1>1, <2>1, StartedUp
    <2>3. [newspkt("AR") EXCEPT !.serial = ssn] \in Spdu
      BY SerialSpdu DEF SpduCode
    <2> QED
      BY <1>1, <1>4, <2>2, <2>3, RequestKeeps DEF SActResumeRequest
  <1>5. ASSUME NEW op \in SyncOp, NEW code \in {"AI", "AD"},
               SActIntrRequestAux(s, code, op)
        PROVE  Inv'
    <2>1. Up([sb[s] EXCEPT !.sb_rs = op,
                !.sb_flags = (@ \cup {"SB_AI"}) \ {"SB_EDACK"}])
      BY <1>1 DEF Up, ssapblk, Flag
    <2> QED
      BY <1>1, <1>2, <1>5, <2>1, RequestKeeps DEF SActIntrRequestAux
  <1>6. "INTR" \in SyncOp /\ "DISC" \in SyncOp
    BY DEF SyncOp
  <1> QED
    BY <1>3, <1>4, <1>5, <1>6 DEF SActIntrRequest, SActDiscRequest

LEMMA RelRequestKeeps ==
    ASSUME Inv, NEW s \in Side, SRelRequest(s)
    PROVE  Inv'
  <1>1. Connected(s) /\ Up(sb[s])
    BY CallerUp DEF SRelRequest, Calls, Responds
  <1>2. newspkt("FN") \in Spdu
    BY NewspktType DEF SpduCode
  <1>3. <<newspkt("FN")>> \in Seq(Spdu) /\ net[s] \in Seq(Spdu)
    BY <1>2 DEF Inv, TypeOK
  <1>4. net' = [net EXCEPT ![s] = net[s],
                  ![Peer(s)] = Deliver(Peer(s), <<newspkt("FN")>>)]
    BY PeerSide DEF Inv, TypeOK, SRelRequest, Update
  <1> QED
    BY <1>1, <1>3, <1>4, StepKeeps DEF SRelRequest, Update

\* Both forms of S-U-ABORT.
LEMMA AbortKeeps ==
    ASSUME Inv, NEW s \in Side, SUAbortRequest(s) \/ SUAbortPrepared(s)
    PROVE  Inv'
  <1> DEFINE pr == [newspkt("PR") EXCEPT !.expd = TRUE, !.type = "AB"]
             ab == newspkt("AB")
  <1>1. pr \in Spdu /\ ab \in Spdu
    BY PrType, NewspktType DEF Prepare, SpduCode
  <1>2. /\ SUAbortRequest(s) => freesblk(s, "uabort", <<AB>>)
        /\ SUAbortPrepared(s) => freesblk(s, "uabort", <<pr, ab>>)
    BY DEF SUAbortRequest, SUAbortPrepared
  <1>3. "uabort" \in Outcome \ {"none"}
    BY DEF Outcome
  <1> HIDE DEF pr, ab
  <1>4. <<AB>> \in Seq(Spdu)
    BY AbType
  <1>5. <<pr, ab>> \in Seq(Spdu)
    BY <1>1
  <1> QED
    BY <1>2, <1>3, <1>4, <1>5, FreeKeeps

LEMMA RequestingKeeps ==
    ASSUME Inv, NEW s \in Side, Requesting(s)
    PROVE  Inv'
  <1>1. \A n \in 0 .. MaxSsn : n \in Nat
    BY BoundsAssumption
  <1>2. \A n \in 0 .. (MaxSsn - 1) : n \in Nat
    BY BoundsAssumption
  <1>3. CASE \E type \in ResyncType, ssn \in 0 .. MaxSsn, settings \in ResyncSettings :
               SReSyncRequest(s, type, ssn, settings)
    BY <1>1, <1>3, SettingsAssumption, ReSyncRequestKeeps
  <1>4. CASE \E ssn \in 0 .. (MaxSsn - 1) : SActResumeRequest(s, ssn)
    BY <1>2, <1>4, ActivityKeeps
  <1>5. CASE \E tokens \in SUBSET Token :
               SGTokenRequest(s, tokens) \/ SPTokenRequest(s, tokens)
    BY <1>5, TokenKeeps
  <1> QED
    BY <1>3, <1>4, <1>5, DataKeeps, ControlKeeps, SyncKeeps, ActivityKeeps,
       RelRequestKeeps, AbortKeeps DEF Requesting

-----------------------------------------------------------------------------
(* The user answers.                                                       *)

LEMMA MajSyncResponseKeeps ==
    ASSUME Inv, NEW s \in Side,
           SMajSyncResponseAux(s) \/ SMajSyncResponseBadConv(s)
    PROVE  Inv'
  <1>1. Connected(s) /\ Up(sb[s])
    BY CallerUp DEF SMajSyncResponseAux, SMajSyncResponseBadConv, Responds
  <1>2. CASE SMajSyncResponseAux(s)
    <2> DEFINE b == sb[s]
               m == b.sb_V_M
               f == NextAct(b) \ {"SB_MAA", "SB_AE"}
    <2>1. m \in Nat /\ m - 1 \in Nat
      BY <1>1, <1>2 DEF SMajSyncResponseAux, Up, ssapblk
    <2>2. f \in SUBSET Flag /\ "SB_CONN" \in f
      BY <1>1, NextActFlags
    <2>3. Request(s, [b EXCEPT !.sb_V_A = m, !.sb_V_R = m, !.sb_flags = f],
                  [newspkt("MAA") EXCEPT !.serial = m - 1])
      BY <1>2 DEF SMajSyncResponseAux
    <2>4. [newspkt("MAA") EXCEPT !.serial = m - 1] \in Spdu
      BY <2>1, SerialSpdu DEF SpduCode
    <2> HIDE DEF m, f
    <2>5. Up([b EXCEPT !.sb_V_A = m, !.sb_V_R = m, !.sb_flags = f])
      BY <1>1, <2>1, <2>2 DEF Up, ssapblk
    <2> QED
      BY <1>1, <2>3, <2>4, <2>5, RequestKeeps
  <1>3. CASE SMajSyncResponseBadConv(s)
    <2> DEFINE pr == [newspkt("PR") EXCEPT !.expd = TRUE, !.type = "MAA"]
               q == IF Expd THEN <<pr>> ELSE << >>
    <2>1. pr \in Spdu
      BY PrType DEF Prepare
    <2>2. freesblk(s, "badconv", q)
      BY <1>3 DEF SMajSyncResponseBadConv
    <2> HIDE DEF pr
    <2>3. q \in Seq(Spdu)
      BY <2>1
    <2>4. "badconv" \in Outcome \ {"none"}
      BY DEF Outcome
    <2> HIDE DEF q
    <2> QED
      BY <2>2, <2>3, <2>4, FreeKeeps
  <1> QED
    BY <1>2, <1>3

LEMMA ReSyncResponseKeeps ==
    ASSUME Inv, NEW s \in Side, NEW ssn \in Nat, NEW settings \in Settings,
           SReSyncResponse(s, ssn, settings)
    PROVE  Inv'
  <1>1. Connected(s) /\ Up(sb[s])
    BY CallerUp DEF SReSyncResponse, Responds
  <1>2. Up(Resynced(s, sb[s], ssn, settings))
    BY <1>1, ResyncedUp
  <1>3. Up([Resynced(s, sb[s], ssn, settings) EXCEPT !.sb_flags = @ \ {"SB_RA"}])
    BY <1>2 DEF Up, ssapblk
  <1>4. [newspkt("RA") EXCEPT !.serial = ssn, !.settings = settings] \in Spdu
    <2>1. newspkt("RA") \in Spdu
      BY NewspktType DEF SpduCode
    <2> QED
      BY <2>1 DEF Spdu
  <1> QED
    BY <1>1, <1>3, <1>4, RequestKeeps DEF SReSyncResponse

\* The answers that only clear flags.
LEMMA AnswerKeeps ==
    ASSUME Inv, NEW s \in Side,
           \/ SCapdResponse(s) \/ SRelReject(s)
           \/ SActIntrResponse(s) \/ SActDiscResponse(s)
    PROVE  Inv'
  <1>1. Connected(s) /\ Up(sb[s])
    BY CallerUp DEF SCapdResponse, SRelReject, SActIntrResponse,
                    SActDiscResponse, Responds
  <1>2. /\ newspkt("CDA") \in Spdu /\ newspkt("NF") \in Spdu
        /\ newspkt("AIA") \in Spdu /\ newspkt("ADA") \in Spdu
    BY NewspktType DEF SpduCode
  <1>3. /\ Up([sb[s] EXCEPT !.sb_flags = @ \ {"SB_CDA"}])
        /\ Up([sb[s] EXCEPT !.sb_flags = @ \ {"SB_FINN"}])
        /\ Up([sb[s] EXCEPT !.sb_owned = {}, !.sb_flags = @ \ {"SB_AIA", "SB_Vact"}])
    BY <1>1 DEF Up, ssapblk
  <1>4. CASE SCapdResponse(s)
    BY <1>1, <1>2, <1>3, <1>4, RequestKeeps DEF SCapdResponse
  <1>5. CASE SRelReject(s)
    BY <1>1, <1>2, <1>3, <1>5, RequestKeeps DEF SRelReject
  <1>6. ASSUME NEW code \in {"AIA", "ADA"}, SActIntrResponseAux(s, code)
        PROVE  Inv'
    BY <1>1, <1>2, <1>3, <1>6, RequestKeeps DEF SActIntrResponseAux
  <1> QED
    BY <1>4, <1>5, <1>6 DEF SActIntrResponse, SActDiscResponse

\* S-RELEASE.response ends the session, one way or the other.
LEMMA RelResponseKeeps ==
    ASSUME Inv, NEW s \in Side, SRelAccept(s) \/ SRelResponseFails(s)
    PROVE  Inv'
  <1>1. "released" \in Outcome \ {"none"} /\ "disc" \in Outcome \ {"none"}
    BY DEF Outcome
  <1>2. newspkt("DN") \in Spdu
    BY NewspktType DEF SpduCode
  <1>3. <<newspkt("DN")>> \in Seq(Spdu)
    BY <1>2
  <1>4. << >> \in Seq(Spdu)
    OBVIOUS
  <1> QED
    BY <1>1, <1>3, <1>4, FreeKeeps DEF SRelAccept, SRelResponseFails

LEMMA RespondingKeeps ==
    ASSUME Inv, NEW s \in Side, Responding(s)
    PROVE  Inv'
  <1>1. \A n \in 0 .. MaxSsn : n \in Nat
    BY BoundsAssumption
  <1>2. Answers(sb[s]) \subseteq Settings
    BY DEF Answers, Settings, Setting
  <1>3. CASE \E ssn \in 0 .. MaxSsn, settings \in Answers(sb[s]) :
               SReSyncResponse(s, ssn, settings)
    BY <1>1, <1>2, <1>3, ReSyncResponseKeeps
  <1> QED
    BY <1>3, MajSyncResponseKeeps, AnswerKeeps, RelResponseKeeps DEF Responding

-----------------------------------------------------------------------------
(* The user reads.                                                         *)

LEMMA ReadingFrees ==
    ASSUME Inv, NEW s \in Side,
           \/ ReadMangled(s) \/ ReadAB(s) \/ TDiscRead(s) \/ ReadEXCongest(s)
    PROVE  Inv'
  <1>1. {"protocol", "abort", "disc", "congest"} \subseteq Outcome \ {"none"}
    BY DEF Outcome
  <1>2. <<AB>> \in Seq(Spdu)
    BY AbType
  <1>3. << >> \in Seq(Spdu)
    OBVIOUS
  <1> QED
    BY <1>1, <1>2, <1>3, FreeKeeps
    DEF ReadMangled, ReadAB, TDiscRead, ReadEXCongest

LEMMA AcceptFlagsKeeps ==
    ASSUME Inv, NEW s \in Side, Connected(s), NEW codes,
           NEW in \in Received(s, codes), NEW gone, "SB_CONN" \notin gone,
           NEW come \in SUBSET Flag, AcceptFlags(s, in, gone, come)
    PROVE  Inv'
  <1>1. Up(in.b) /\ in.q \in Seq(Spdu)
    BY ReceivedType DEF Inv
  <1>2. Up([in.b EXCEPT !.sb_flags = (@ \ gone) \cup come])
    BY <1>1, FlagsUp
  <1>3. << >> \in Seq(Spdu)
    OBVIOUS
  <1> QED
    BY <1>1, <1>2, <1>3, AcceptKeeps DEF AcceptFlags

LEMMA ReadFlagsKeeps ==
    ASSUME Inv, NEW s \in Side,
           \/ ReadGTA(s) \/ ReadCD(s) \/ ReadCDA(s) \/ ReadED(s) \/ ReadFN(s)
    PROVE  Inv'
  <1>1. Connected(s)
    BY DEF ReadGTA, ReadCD, ReadCDA, ReadED, ReadFN, Reads
  <1>2. {"SB_CDA", "SB_EDACK", "SB_FINN"} \subseteq Flag
    BY DEF Flag
  <1>3. CASE ReadGTA(s)
    BY <1>1, <1>3, AcceptFlagsKeeps DEF ReadGTA
  <1>4. CASE ReadCD(s)
    BY <1>1, <1>2, <1>4, AcceptFlagsKeeps DEF ReadCD
  <1>5. CASE ReadCDA(s)
    BY <1>1, <1>5, AcceptFlagsKeeps DEF ReadCDA
  <1>6. CASE ReadED(s)
    BY <1>1, <1>2, <1>6, AcceptFlagsKeeps DEF ReadED
  <1>7. CASE ReadFN(s)
    BY <1>1, <1>2, <1>7, AcceptFlagsKeeps DEF ReadFN
  <1> QED
    BY <1>3, <1>4, <1>5, <1>6, <1>7

\* A case of the main switch that sends no reply.
LEMMA ReadKeeps ==
    ASSUME Inv, NEW s \in Side, Connected(s), NEW codes,
           NEW in \in Received(s, codes), NEW b, Up(b), Accept(s, in, b, << >>)
    PROVE  Inv'
  <1>1. in.q \in Seq(Spdu)
    BY ReceivedType DEF Inv
  <1>2. << >> \in Seq(Spdu)
    OBVIOUS
  <1> QED
    BY <1>1, <1>2, AcceptKeeps

LEMMA ReadSpinKeeps ==
    ASSUME Inv, NEW s \in Side, ReadSpin(s)
    PROVE  Inv'
  <1>1. Connected(s)
    BY DEF ReadSpin, Reads
  <1>2. PICK in \in sb2spkt(s) : Accept(s, in, Prepared(in.b, in.p), << >>)
    BY DEF ReadSpin
  <1>3. Up(in.b) /\ in.q \in Seq(Spdu)
    BY <1>1, ReadType DEF Inv
  <1>4. Up(Prepared(in.b, in.p))
    BY <1>3, PreparedUp
  <1>5. << >> \in Seq(Spdu)
    OBVIOUS
  <1> QED
    BY <1>1, <1>2, <1>3, <1>4, <1>5, AcceptKeeps

LEMMA ReadDataKeeps ==
    ASSUME Inv, NEW s \in Side,
           \/ ReadDT(s) \/ ReadEX(s) \/ ReadGT(s) \/ ReadGTC(s) \/ ReadPR(s)
    PROVE  Inv'
  <1>1. Connected(s)
    BY DEF ReadDT, ReadEX, ReadGT, ReadGTC, ReadPR, Reads
  <1>2. ASSUME NEW codes, NEW in \in Received(s, codes)
        PROVE  in.p \in Spdu /\ Up(in.b) /\ in.q \in Seq(Spdu)
    BY <1>1, <1>2, ReceivedType DEF Inv
  <1>3. CASE ReadDT(s)
    BY <1>1, <1>2, <1>3, ReadKeeps DEF ReadDT
  <1>4. CASE ReadEX(s)
    <2>1. PICK in \in Received(s, {"EX"}) :
            Accept(s, in, [in.b EXCEPT !.sb_xspdu = (in.b.sb_pr # "PR")], << >>)
      BY <1>4 DEF ReadEX
    <2>2. ASSUME NEW x \in BOOLEAN
          PROVE  Up([in.b EXCEPT !.sb_xspdu = x])
      BY <1>2 DEF Up, ssapblk
    <2> QED
      BY <1>1, <2>1, <2>2, ReadKeeps
  <1>5. CASE ReadGT(s)
    <2> DEFINE o(in) == in.b.sb_owned \cup
                          (in.p.tokens \cap Available(in.b.sb_requirements))
               f(in) == IF "DAT" \in in.p.tokens THEN in.b.sb_flags \ {"SB_ED"}
                        ELSE in.b.sb_flags
    <2>1. PICK in \in Received(s, {"GT"}) :
            Accept(s, in, [in.b EXCEPT !.sb_owned = o(in), !.sb_flags = f(in)],
                   << >>)
      BY <1>5 DEF ReadGT
    <2>2. /\ o(in) \in SUBSET Token
          /\ f(in) \in SUBSET Flag /\ "SB_CONN" \in f(in)
      BY <1>2, AvailableTokens DEF Up, ssapblk
    <2> HIDE DEF o, f
    <2>3. Up([in.b EXCEPT !.sb_owned = o(in), !.sb_flags = f(in)])
      BY <1>2, <2>2 DEF Up, ssapblk
    <2> QED
      BY <1>1, <2>1, <2>3, ReadKeeps
  <1>6. CASE ReadGTC(s)
    <2>1. PICK in \in Received(s, {"GTC"}) :
            Accept(s, in,
              [in.b EXCEPT !.sb_owned = Available(in.b.sb_requirements)],
              <<newspkt("GTA")>>)
      BY <1>6 DEF ReadGTC
    <2>2. Up([in.b EXCEPT !.sb_owned = Available(in.b.sb_requirements)])
      BY <1>2, AvailableTokens DEF Up, ssapblk
    <2>3. newspkt("GTA") \in Spdu
      BY NewspktType DEF SpduCode
    <2>4. <<newspkt("GTA")>> \in Seq(Spdu)
      BY <2>3
    <2> QED
      BY <1>1, <1>2, <2>1, <2>2, <2>4, AcceptKeeps
  <1>7. CASE ReadPR(s)
    <2> DEFINE f(in) == IF in.p.type = "RS" THEN in.b.sb_flags \ {"SB_ED"}
                        ELSE in.b.sb_flags
    <2>1. PICK in \in Received(s, {"PR"}) :
            Accept(s, in, [in.b EXCEPT !.sb_pr = in.p.type, !.sb_flags = f(in)],
                   << >>)
      BY <1>7 DEF ReadPR
    <2>2. f(in) \in SUBSET Flag /\ "SB_CONN" \in f(in)
      BY <1>2 DEF Up, ssapblk
    <2>3. in.p.code = "PR"
      BY ReceivedCode
    <2>4. in.p.type \in Prepare
      BY <1>2, <2>3 DEF Spdu
    <2> HIDE DEF f
    <2>5. Up([in.b EXCEPT !.sb_pr = in.p.type, !.sb_flags = f(in)])
      BY <1>2, <2>2, <2>4 DEF Up, ssapblk
    <2> QED
      BY <1>1, <2>1, <2>5, ReadKeeps
  <1> QED
    BY <1>3, <1>4, <1>5, <1>6, <1>7

LEMMA ReadPointKeeps ==
    ASSUME Inv, NEW s \in Side,
           \/ ReadMAP(s) \/ ReadAE(s) \/ ReadMAA(s) \/ ReadMIP(s) \/ ReadMIA(s)
    PROVE  Inv'
  <1>1. Connected(s)
    BY DEF ReadMAP, ReadAE, ReadMAA, ReadMIP, ReadMIA, Reads
  <1>2. ASSUME NEW codes, NEW in \in Received(s, codes)
        PROVE  in.p \in Spdu /\ Up(in.b) /\ Up(CountPoint(in.b))
    BY <1>1, <1>2, ReceivedType, CountPointUp DEF Inv
  <1>3. CASE ReadMAP(s)
    <2> DEFINE f(in) == IF "SB_ED" \in in.b.sb_flags
                        THEN CountPoint(in.b).sb_flags
                        ELSE CountPoint(in.b).sb_flags \cup {"SB_MAA"} \cup
                             (IF "ACTIVITY" \in in.b.sb_requirements
                              THEN {"SB_Vnextact"} ELSE {})
    <2>1. PICK in \in Received(s, {"MAP"}) :
            Accept(s, in, [CountPoint(in.b) EXCEPT !.sb_flags = f(in)], << >>)
      BY <1>3 DEF ReadMAP
    <2>2. f(in) \in SUBSET Flag /\ "SB_CONN" \in f(in)
      BY <1>2 DEF Up, ssapblk, Flag
    <2> HIDE DEF f
    <2>3. Up([CountPoint(in.b) EXCEPT !.sb_flags = f(in)])
      BY <1>2, <2>2 DEF Up, ssapblk
    <2> QED
      BY <1>1, <2>1, <2>3, ReadKeeps
  <1>4. CASE ReadAE(s)
    <2>1. PICK in \in Received(s, {"AE"}) :
            Accept(s, in,
              [CountPoint(in.b) EXCEPT
                 !.sb_flags = (@ \ {"SB_Vnextact"}) \cup {"SB_MAA", "SB_AE"}],
              << >>)
      BY <1>4 DEF ReadAE
    <2>2. {"SB_MAA", "SB_AE"} \in SUBSET Flag /\ "SB_CONN" \notin {"SB_Vnextact"}
      BY DEF Flag
    <2>3. Up([CountPoint(in.b) EXCEPT
                !.sb_flags = (@ \ {"SB_Vnextact"}) \cup {"SB_MAA", "SB_AE"}])
      BY <1>2, <2>2, FlagsUp
    <2> QED
      BY <1>1, <2>1, <2>3, ReadKeeps
  <1>5. CASE ReadMAA(s)
    <2> DEFINE f(in) == NextAct(in.b) \ {"SB_MAP", "SB_AE"}
    <2>1. PICK in \in Received(s, {"MAA"}) :
            Accept(s, in,
              [in.b EXCEPT !.sb_V_A = in.b.sb_V_M, !.sb_V_R = in.b.sb_V_M,
                           !.sb_flags = f(in)],
              << >>)
      BY <1>5 DEF ReadMAA
    <2>2. f(in) \in SUBSET Flag /\ "SB_CONN" \in f(in)
      BY <1>2, NextActFlags
    <2> HIDE DEF f
    <2>3. Up([in.b EXCEPT !.sb_V_A = in.b.sb_V_M, !.sb_V_R = in.b.sb_V_M,
                          !.sb_flags = f(in)])
      BY <1>2, <2>2 DEF Up, ssapblk
    <2> QED
      BY <1>1, <2>1, <2>3, ReadKeeps
  <1>6. CASE ReadMIP(s)
    <2>1. PICK in \in Received(s, {"MIP"}) :
            Accept(s, in,
              [CountPoint(in.b) EXCEPT !.sb_flags = @ \cup {"SB_Vsc"}], << >>)
      BY <1>6 DEF ReadMIP
    <2>2. Up([CountPoint(in.b) EXCEPT !.sb_flags = @ \cup {"SB_Vsc"}])
      <3>1. "SB_Vsc" \in Flag
        BY DEF Flag
      <3> QED
        BY <1>2, <3>1 DEF Up, ssapblk
    <2> QED
      BY <1>1, <2>1, <2>2, ReadKeeps
  <1>7. CASE ReadMIA(s)
    <2>1. PICK in \in Received(s, {"MIA"}) :
            Accept(s, in, [in.b EXCEPT !.sb_V_A = in.p.serial], << >>)
      BY <1>7 DEF ReadMIA
    <2>2. in.p.serial \in Nat
      BY <1>2 DEF Spdu
    <2>3. Up([in.b EXCEPT !.sb_V_A = in.p.serial])
      BY <1>2, <2>2 DEF Up, ssapblk
    <2> QED
      BY <1>1, <2>1, <2>3, ReadKeeps
  <1> QED
    BY <1>3, <1>4, <1>5, <1>6, <1>7

LEMMA ReadResyncKeeps ==
    ASSUME Inv, NEW s \in Side,
           \/ ReadRS(s) \/ ReadRA(s) \/ ReadAS(s) \/ ReadAR(s) \/ ReadAI(s)
           \/ ReadAIA(s)
    PROVE  Inv'
  <1>1. Connected(s)
    BY DEF ReadRS, ReadRA, ReadAS, ReadAR, ReadAI, ReadAIA, Reads
  <1>2. ASSUME NEW codes, NEW in \in Received(s, codes)
        PROVE  /\ Up(in.b) /\ in.p.serial \in Nat /\ in.p.serial + 1 \in Nat
               /\ in.p.settings \in Settings
    <2>1. in.p \in Spdu /\ Up(in.b)
      BY <1>1, <1>2, ReceivedType DEF Inv
    <2> QED
      BY <2>1 DEF Spdu
  <1>3. CASE ReadRS(s)
    <2>1. PICK in \in Received(s, {"RS"}) :
            Accept(s, in,
              [in.b EXCEPT !.sb_flags = (@ \ {"SB_RS"}) \cup {"SB_RA"},
                           !.sb_rs = in.p.type, !.sb_rsn = in.p.serial,
                           !.sb_rsettings = in.p.settings],
              << >>)
      BY <1>3 DEF ReadRS
    <2>2. in.p.type \in SyncOp
      <3>1. in.p.code = "RS" /\ in.p \in Spdu
        BY <1>1, ReceivedCode, ReceivedType DEF Inv
      <3> QED
        BY <3>1 DEF Spdu, SyncOp
    <2>3. Up([in.b EXCEPT !.sb_flags = (@ \ {"SB_RS"}) \cup {"SB_RA"},
                          !.sb_rs = in.p.type, !.sb_rsn = in.p.serial,
                          !.sb_rsettings = in.p.settings])
      <3>1. "SB_RA" \in Flag
        BY DEF Flag
      <3> QED
        BY <1>2, <2>2, <3>1 DEF Up, ssapblk
    <2> QED
      BY <1>1, <2>1, <2>3, ReadKeeps
  <1>4. CASE ReadRA(s)
    <2> DEFINE r(in) == Resynced(s, in.b, in.p.serial, in.p.settings)
    <2>1. PICK in \in Received(s, {"RA"}) :
            Accept(s, in, [r(in) EXCEPT !.sb_flags = @ \ {"SB_RS"},
                                        !.sb_rsettings = in.p.settings], << >>)
      BY <1>4 DEF ReadRA
    <2>2. Up(r(in))
      BY <1>2, ResyncedUp
    <2> HIDE DEF r
    <2>3. Up([r(in) EXCEPT !.sb_flags = @ \ {"SB_RS"},
                           !.sb_rsettings = in.p.settings])
      BY <1>2, <2>2 DEF Up, ssapblk
    <2> QED
      BY <1>1, <2>1, <2>3, ReadKeeps
  <1>5. CASE ReadAS(s)
    <2>1. PICK in \in Received(s, {"AS"}) : Accept(s, in, Started(in.b, 1), << >>)
      BY <1>5 DEF ReadAS
    <2>2. Up(Started(in.b, 1))
      BY <1>2, StartedUp
    <2> QED
      BY <1>1, <2>1, <2>2, ReadKeeps
  <1>6. CASE ReadAR(s)
    <2>1. PICK in \in Received(s, {"AR"}) :
            Accept(s, in, Started(in.b, in.p.serial + 1), << >>)
      BY <1>6 DEF ReadAR
    <2>2. Up(Started(in.b, in.p.serial + 1))
      BY <1>2, StartedUp
    <2> QED
      BY <1>1, <2>1, <2>2, ReadKeeps
  <1>7. CASE ReadAI(s)
    <2>1. PICK in \in Received(s, {"AI", "AD"}) :
            Accept(s, in,
              [in.b EXCEPT !.sb_flags = (@ \ {"SB_RS", "SB_RA"}) \cup {"SB_AIA"},
                           !.sb_rs = "INTR"],
              << >>)
      BY <1>7 DEF ReadAI
    <2>2. Up([in.b EXCEPT !.sb_flags = (@ \ {"SB_RS", "SB_RA"}) \cup {"SB_AIA"},
                          !.sb_rs = "INTR"])
      <3>1. "SB_AIA" \in Flag /\ "INTR" \in SyncOp
        BY DEF Flag, SyncOp
      <3> QED
        BY <1>2, <3>1 DEF Up, ssapblk
    <2> QED
      BY <1>1, <2>1, <2>2, ReadKeeps
  <1>8. CASE ReadAIA(s)
    <2>1. PICK in \in Received(s, {"AIA", "ADA"}) :
            Accept(s, in,
              [in.b EXCEPT !.sb_flags = @ \ {"SB_AI", "SB_Vact"},
                           !.sb_owned = Available(in.b.sb_requirements)],
              << >>)
      BY <1>8 DEF ReadAIA
    <2>2. Up([in.b EXCEPT !.sb_flags = @ \ {"SB_AI", "SB_Vact"},
                          !.sb_owned = Available(in.b.sb_requirements)])
      BY <1>2, AvailableTokens DEF Up, ssapblk
    <2> QED
      BY <1>1, <2>1, <2>2, ReadKeeps
  <1> QED
    BY <1>3, <1>4, <1>5, <1>6, <1>7, <1>8

LEMMA ReadingKeeps ==
    ASSUME Inv, NEW s \in Side, Reading(s)
    PROVE  Inv'
  BY ReadingFrees, ReadFlagsKeeps, ReadSpinKeeps, ReadDataKeeps, ReadPointKeeps,
     ReadResyncKeeps DEF Reading

-----------------------------------------------------------------------------
(* The release loop, its timer, and the transport.                         *)

\* A user is in the release loop of a live block only.
LEMMA LoopUp ==
    ASSUME Inv, NEW s \in Side, inRelease[s]
    PROVE  Connected(s)
  BY DEF Inv, FreedIsGone

LEMMA ReleasingKeeps ==
    ASSUME Inv, NEW s \in Side, Releasing(s)
    PROVE  Inv'
  <1>1. ASSUME NEW codes, NEW in \in Awaited(s, codes)
        PROVE  /\ Connected(s) /\ in.p \in Spdu /\ Up(in.b)
               /\ in.q \in Seq(Spdu)
    <2>1. in \in sb2spkt(s) /\ Connected(s)
      BY <1>1, LoopUp DEF Awaited
    <2> QED
      BY <2>1, ReadType DEF Inv
  <1>2. << >> \in Seq(Spdu)
    OBVIOUS
  <1>3. <<newspkt("DN")>> \in Seq(Spdu)
    <2>1. newspkt("DN") \in Spdu
      BY NewspktType DEF SpduCode
    <2> QED
      BY <2>1
  <1>4. CASE SRelRetryRequest(s)
    <2>1. "SB_RELEASE" \in sb[s].sb_flags
      BY <1>4 DEF SRelRetryRequest
    <2>2. sb[s] # newsblk
      BY <2>1 DEF newsblk
    <2>3. Connected(s)
      BY <2>2 DEF Inv, FreedIsGone
    <2>4. /\ TypeOK' /\ UNCHANGED <<sb, outcome, net>>
          /\ \A r \in Side \ {s} : inRelease'[r] = inRelease[r]
      BY <1>4 DEF Inv, TypeOK, SRelRetryRequest
    <2> QED
      BY <2>3, <2>4 DEF Inv, FreedIsGone, Connected
  <1>5. CASE RelFN(s)
    BY <1>1, <1>3, <1>5, ResumeKeeps DEF RelFN
  <1>6. CASE RelNF(s)
    BY <1>1, <1>2, <1>6, ResumeKeeps DEF RelNF
  <1>7. CASE RelRS(s)
    <2>1. PICK in \in Awaited(s, {"RS"}) :
            Resume(s, in, [in.b EXCEPT !.sb_spdu = <<in.p>>], << >>, FALSE)
      BY <1>7 DEF RelRS
    <2>2. <<in.p>> \in Seq(Spdu)
      BY <1>1
    <2>3. Up([in.b EXCEPT !.sb_spdu = <<in.p>>])
      BY <1>1, <2>2 DEF Up, ssapblk
    <2> QED
      BY <1>1, <1>2, <2>1, <2>3, ResumeKeeps
  <1>8. CASE RelDN(s) \/ RelAB(s) \/ RelMangled(s)
    <2>1. {"released", "abort", "protocol"} \subseteq Outcome \ {"none"}
      BY DEF Outcome
    <2>2. <<AB>> \in Seq(Spdu)
      BY AbType
    <2> QED
      BY <1>2, <1>8, <2>1, <2>2, FreeKeeps DEF RelDN, RelAB, RelMangled
  <1> QED
    BY <1>4, <1>5, <1>6, <1>7, <1>8 DEF Releasing

LEMMA TimeoutKeeps ==
    ASSUME Inv, NEW s \in Side, SRelTimeout(s)
    PROVE  Inv'
  <1> DEFINE b == [sb[s] EXCEPT !.sb_flags = @ \cup {"SB_RELEASE"}]
  <1>1. Connected(s) /\ Up(sb[s])
    BY CallerUp DEF SRelTimeout
  <1>2. Up(b)
    <2>1. "SB_RELEASE" \in Flag
      BY DEF Flag
    <2> QED
      BY <1>1, <2>1 DEF Up, ssapblk
  <1>3. /\ sb' = [sb EXCEPT ![s] = b]
        /\ inRelease' = [inRelease EXCEPT ![s] = FALSE]
        /\ UNCHANGED <<outcome, net>>
    BY DEF SRelTimeout
  <1> HIDE DEF b
  <1>4. TypeOK'
    BY <1>2, <1>3 DEF Inv, TypeOK, Up
  <1>5. /\ sb'[s] = b /\ inRelease'[s] = FALSE
        /\ \A r \in Side \ {s} : sb'[r] = sb[r] /\ inRelease'[r] = inRelease[r]
    BY <1>3 DEF Inv, TypeOK
  <1> QED
    BY <1>1, <1>2, <1>3, <1>4, <1>5 DEF Inv, FreedIsGone, Connected, Up

LEMMA TransportKeeps ==
    ASSUME Inv, TransportFails
    PROVE  Inv'
  <1>1. \A s \in Side : Connected(s)
    BY DEF TransportFails, Uses
  <1>2. \A s \in Side : net[s] \in Seq(Spdu)
    BY DEF Inv, TypeOK
  <1>3. \A s \in Side : Append(net[s], TDISC) \in Seq(Spdu)
    BY <1>2, TdiscType
  <1>4. TypeOK'
    BY <1>3 DEF Inv, TypeOK, TransportFails
  <1> QED
    BY <1>1, <1>4 DEF Inv, FreedIsGone, Connected, TransportFails

-----------------------------------------------------------------------------
(* The theorems.                                                           *)

LEMMA InitInv == Init => Inv
  <1> SUFFICES ASSUME Init PROVE Inv
    OBVIOUS
  <1>0. PICK req \in Profiles, isn \in Isn :
          \E mine \in SUBSET Available(req) :
            sb = [s \in Side |->
                    ConnectedBlock(req, IF s = "init" THEN mine
                                        ELSE Available(req) \ mine, isn)]
    BY DEF Init
  <1>1. PICK mine \in SUBSET Available(req) :
          sb = [s \in Side |->
                  ConnectedBlock(req, IF s = "init" THEN mine
                                      ELSE Available(req) \ mine, isn)]
    BY <1>0
  <1>2. ASSUME NEW owned \in SUBSET Token
        PROVE  Up(ConnectedBlock(req, owned, isn))
    <2>1. /\ req \in SUBSET FunctionalUnits /\ isn \in Nat
          /\ {"SB_CONN"} \in SUBSET Flag
      BY ProfilesAssumption, IsnAssumption DEF Flag
    <2> QED
      BY <1>2, <2>1, NewsblkType DEF Up, ssapblk, ConnectedBlock
  <1>3. mine \in SUBSET Token /\ Available(req) \ mine \in SUBSET Token
    BY AvailableTokens
  <1>4. sb \in [Side -> ssapblk] /\ \A s \in Side : Connected(s)
    BY <1>1, <1>2, <1>3 DEF Up, Connected
  <1>5. << >> \in Seq(Spdu) /\ "none" \in Outcome
    BY DEF Outcome
  <1> QED
    BY <1>4, <1>5 DEF Init, Inv, TypeOK, FreedIsGone

LEMMA NextInv == Inv /\ [Next]_vars => Inv'
  <1> SUFFICES ASSUME Inv, [Next]_vars PROVE Inv'
    OBVIOUS
  <1>1. \A n \in 0 .. MaxSsn : n \in Nat
    BY BoundsAssumption
  <1>2. ASSUME NEW s \in Side, NEW ssn \in 0 .. MaxSsn, SMinSyncResponse(s, ssn)
        PROVE  Inv'
    BY <1>1, <1>2, MinSyncResponseKeeps
  <1>3. CASE UNCHANGED vars
    BY <1>3 DEF vars, Inv, TypeOK, FreedIsGone, Connected
  <1> QED
    BY <1>2, <1>3, RequestingKeeps, RespondingKeeps, ReadingKeeps,
       ReleasingKeeps, TimeoutKeeps, TransportKeeps DEF Next

\* Every block, queue and SPDU of a session keeps its type: no serial number
\* of a block or an SPDU (V_M - 1 in the MAA included) becomes negative,
\* whatever the users call and however many SPDUs are under way.
THEOREM TypeCorrect == Spec => []TypeOK
  <1>1. Inv => TypeOK
    BY DEF Inv
  <1> QED
    BY <1>1, InitInv, NextInv, PTL DEF Spec

\* The end of a session is final: after release, abort, protocol error or
\* disconnect the block is gone for good, its user has been told once, and
\* neither a late timer nor an SPDU under way touches it again.
THEOREM FreedForGood == Spec => []FreedIsGone
  <1>1. Inv => FreedIsGone
    BY DEF Inv
  <1> QED
    BY <1>1, InitInv, NextInv, PTL DEF Spec
=============================================================================
