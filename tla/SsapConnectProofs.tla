-------------------------- MODULE SsapConnectProofs --------------------------
(***************************************************************************)
(* Connection establishment, proved for all functional units, settings and *)
(* serial numbers: the two blocks are well formed, two connected ends      *)
(* agree on functional units and tokens, and no end is left connected to   *)
(* a peer that is gone.                                                    *)
(*                                                                         *)
(* ConnectAgree alone is not inductive.  The ends are never compared by    *)
(* the program: they agree because the CN under way is a copy of the       *)
(* initiator's block (CnOK), the responder's block only ever shrinks from  *)
(* it (RespOK), and the AC under way is a copy of the responder's (AcOK).  *)
(***************************************************************************)
EXTENDS SsapConnect, TLAPS

LEMMA Sides == Peer("init") = "resp" /\ Peer("resp") = "init"
               /\ "init" \in Side /\ "resp" \in Side
  BY DEF Peer, Side

LEMMA AvailableTokens ==
    ASSUME NEW req
    PROVE  Available(req) \subseteq Token
  BY DEF Available, Token

-----------------------------------------------------------------------------
(* Type correctness.                                                       *)

LEMMA BlockType == newsblk \in ssapblk
  BY DEF newsblk, ssapblk, NoSettings, Settings, Setting, SERIAL_NONE

LEMMA ShortType ==
    ASSUME NEW code \in {"CN", "AC", "RF", "AB", "TDISC"}
    PROVE  Short(code) \in Pdu
  BY DEF Short, Pdu, NoSettings, Settings, Setting, SERIAL_NONE

LEMMA FreeType ==
    ASSUME TypeOK, NEW s \in Side, NEW pdus \in SUBSET Pdu, Free(s, pdus)
    PROVE  TypeOK'
  <1>1. Peer(s) \in Side
    BY DEF Peer, Side
  <1>2. newsblk \in ssapblk /\ Short("TDISC") \in Pdu
    BY BlockType, ShortType
  <1> QED
    BY <1>1, <1>2 DEF TypeOK, Free, Phase

LEMMA StepType ==
    ASSUME TypeOK, NEW s \in Side, NEW ph \in Phase, NEW b \in ssapblk,
           NEW in, NEW out \in SUBSET Pdu, Step(s, ph, b, in, out)
    PROVE  TypeOK'
  <1>1. Peer(s) \in Side
    BY DEF Peer, Side
  <1> QED
    BY <1>1 DEF TypeOK, Step

\* What the users pass is of the right type.
LEMMA UserArguments ==
    ASSUME NEW req \in SUBSET Units, NEW settings \in Choices,
           NEW isn \in Isn \cup {SERIAL_NONE}
    PROVE  /\ req \in SUBSET FunctionalUnits /\ settings \in Settings
           /\ isn \in Nat \cup {SERIAL_NONE}
  BY UnitsAssumption, ChoicesAssumption, IsnAssumption

LEMMA TypeInductive == TypeOK /\ [Next]_vars => TypeOK'
  <1> SUFFICES ASSUME TypeOK, [Next]_vars
               PROVE  TypeOK'
    OBVIOUS
  <1> USE Sides, BlockType
  <1>1. \A s \in Side : sb[s] \in ssapblk /\ net[s] \subseteq Pdu
    BY DEF TypeOK
  <1>2. Phase = {"idle", "transport", "waiting", "indicated", "connected", "failed"}
    BY DEF Phase
  <1>3. ASSUME NEW req \in SUBSET Units, NEW settings \in Choices,
               NEW isn \in Isn \cup {SERIAL_NONE},
               SConnRequest(req, settings, isn)
        PROVE  TypeOK'
    <2>1. [newsblk EXCEPT !.sb_requirements = req, !.sb_settings = settings,
                          !.isn = isn] \in ssapblk
      BY UserArguments DEF ssapblk
    <2> QED
      BY <1>2, <1>3, <2>1, StepType DEF SConnRequest
  <1>4. CASE TConnectFails
    BY <1>2, <1>4, StepType DEF TConnectFails
  <1>5. CASE SAsynRetryAux1
    <2> DEFINE b == sb["init"]
               req == IF Expd THEN b.sb_requirements
                      ELSE b.sb_requirements \ {"EXPEDITED"}
               cn == [code |-> "CN", req |-> req, settings |-> b.sb_settings,
                      isn |-> b.isn]
    <2>1. req \in SUBSET FunctionalUnits
      BY <1>1 DEF ssapblk
    <2>2. [b EXCEPT !.sb_requirements = req] \in ssapblk /\ cn \in Pdu
      <3> HIDE DEF req
      <3> QED BY <1>1, <2>1 DEF ssapblk, Pdu
    <2>3. Step("init", "waiting", [b EXCEPT !.sb_requirements = req], {}, {cn})
      BY <1>5 DEF SAsynRetryAux1
    <2> HIDE DEF b, req, cn
    <2> QED
      BY <1>2, <2>2, <2>3, StepType
  <1>6. CASE ReadAC
    <2>1. PICK ac \in net["init"] :
            LET b == sb["init"] IN
            Step("init", "connected",
              [b EXCEPT !.sb_requirements = ac.req,
                        !.sb_owned = InitiatorOwns(b, ac),
                        !.sb_V_M = IF ac.isn # SERIAL_NONE THEN ac.isn ELSE @],
              {ac}, {})
      BY <1>6 DEF ReadAC
    <2>2. InitiatorOwns(sb["init"], ac) \subseteq Token
      BY AvailableTokens DEF InitiatorOwns
    <2>3. ac.req \in SUBSET FunctionalUnits /\ ac.isn \in Nat \cup {SERIAL_NONE}
      BY <1>1 DEF Pdu
    <2>4. [sb["init"] EXCEPT !.sb_requirements = ac.req,
             !.sb_owned = InitiatorOwns(sb["init"], ac),
             !.sb_V_M = IF ac.isn # SERIAL_NONE THEN ac.isn ELSE @] \in ssapblk
      BY <1>1, <2>2, <2>3 DEF ssapblk
    <2> QED
      BY <1>2, <2>1, <2>4, StepType
  <1>7. CASE ReadACMangled
    BY <1>7, FreeType, ShortType DEF ReadACMangled
  <1>8. CASE ReadRF
    BY <1>8, FreeType DEF ReadRF
  <1>9. CASE RemoteTimedOut
    BY <1>9, FreeType DEF RemoteTimedOut
  <1>10. CASE SInit
    <2>1. PICK cn \in net["resp"] :
            Step("resp", "indicated",
              [newsblk EXCEPT
                 !.sb_requirements = IF Expd THEN cn.req ELSE cn.req \ {"EXPEDITED"},
                 !.sb_settings = cn.settings,
                 !.sb_V_M = IF cn.isn # SERIAL_NONE THEN cn.isn ELSE @],
              {cn}, {})
      BY <1>10 DEF SInit
    <2>2. /\ cn.req \in SUBSET FunctionalUnits /\ cn.settings \in Settings
          /\ cn.isn \in Nat \cup {SERIAL_NONE}
      BY <1>1 DEF Pdu
    <2>3. [newsblk EXCEPT
             !.sb_requirements = IF Expd THEN cn.req ELSE cn.req \ {"EXPEDITED"},
             !.sb_settings = cn.settings,
             !.sb_V_M = IF cn.isn # SERIAL_NONE THEN cn.isn ELSE @] \in ssapblk
      BY <2>2 DEF ssapblk
    <2> QED
      BY <1>2, <2>1, <2>3, StepType
  <1>11. CASE SInitRefuses
    BY <1>11, FreeType, ShortType DEF SInitRefuses
  <1>12. CASE RespondingLost
    BY <1>12, FreeType DEF RespondingLost
  <1>13. ASSUME NEW req \in SUBSET Units, NEW settings \in Choices,
                NEW isn \in Isn \cup {SERIAL_NONE},
                SConnResponse(req, settings, isn)
         PROVE  TypeOK'
    <2> DEFINE b == sb["resp"]
               agreed == b.sb_requirements \cap req
               settled == Settled(b, settings)
               owned == {t \in Available(agreed) : settled[t] = "RESP"}
               ac == [code |-> "AC", req |-> agreed, settings |-> settled,
                      isn |-> isn]
    <2>1. agreed \in SUBSET FunctionalUnits /\ owned \in SUBSET Token
      BY <1>1, AvailableTokens DEF ssapblk
    <2>2. settled \in Settings
      BY <1>1, UserArguments DEF ssapblk, Settled, Settings
    <2>3. /\ [b EXCEPT !.sb_requirements = agreed, !.sb_owned = owned] \in ssapblk
          /\ ac \in Pdu
      <3> HIDE DEF agreed, settled, owned
      <3> QED BY <1>1, <2>1, <2>2, UserArguments DEF ssapblk, Pdu
    <2>4. Step("resp", "connected",
               [b EXCEPT !.sb_requirements = agreed, !.sb_owned = owned], {}, {ac})
      BY <1>13 DEF SConnResponse
    <2> HIDE DEF b, agreed, settled, owned, ac
    <2> QED
      BY <1>2, <2>3, <2>4, StepType
  <1>14. ASSUME NEW req \in SUBSET Units, NEW settings \in Choices,
                NEW isn \in Isn \cup {SERIAL_NONE},
                SConnResponseImproper(req, settings, isn)
         PROVE  TypeOK'
    <2>1. [sb["resp"] EXCEPT !.sb_requirements = sb["resp"].sb_requirements \cap req]
            \in ssapblk
      BY <1>1 DEF ssapblk
    <2> QED
      BY <1>2, <1>14, <2>1, StepType DEF SConnResponseImproper
  <1>15. CASE SConnReject
    BY <1>15, FreeType, ShortType DEF SConnReject
  <1>16. CASE UNCHANGED vars
    BY <1>16 DEF vars, TypeOK
  <1> QED
    BY <1>3, <1>4, <1>5, <1>6, <1>7, <1>8, <1>9, <1>10, <1>11, <1>12, <1>13,
       <1>14, <1>15, <1>16 DEF Next, Responding

\* Every state of connection establishment is well typed; in particular no
\* serial number is taken from an SPDU that carries none.
THEOREM TypeCorrect == Spec => []TypeOK
  <1>1. Init => TypeOK
    BY BlockType DEF Init, TypeOK, Phase
  <1> QED
    BY <1>1, TypeInductive, PTL DEF Spec

-----------------------------------------------------------------------------
(* Agreement.                                                              *)

\* The phases each end goes through, and which of them go together.
PhaseOK ==
    /\ phase["init"] # "indicated" /\ phase["resp"] \notin {"transport", "waiting"}
    /\ phase["init"] \in {"idle", "transport"} => phase["resp"] \in {"idle", "failed"}
    /\ phase["init"] = "connected" => phase["resp"] \in {"connected", "failed"}

\* The CN under way is the only one and a copy of the block of the initiator
\* that sent it.
CnOK ==
    \A p \in net["resp"] : p.code = "CN" =>
      /\ \A q \in net["resp"] : q.code = "CN" => q = p
      /\ phase["init"] \in {"waiting", "failed"} /\ phase["resp"] = "idle"
      /\ phase["init"] = "waiting" =>
           /\ p.settings = sb["init"].sb_settings
           /\ p.req = sb["init"].sb_requirements

\* The responder works on that proposal.
RespOK ==
    (phase["init"] = "waiting" /\ phase["resp"] \in {"indicated", "connected"}) =>
      /\ sb["resp"].sb_settings = sb["init"].sb_settings
      /\ sb["resp"].sb_requirements \subseteq sb["init"].sb_requirements

\* The AC under way is a copy of the block of the responder that sent it,
\* and settles what the proposal left open.
AcOK ==
    \A p \in net["init"] : p.code = "AC" =>
      /\ phase["resp"] \in {"connected", "failed"}
      /\ phase["resp"] = "connected" /\ phase["init"] = "waiting" =>
           /\ p.req = sb["resp"].sb_requirements
           /\ sb["resp"].sb_owned =
                {t \in Available(p.req) : p.settings[t] = "RESP"}
           /\ \A t \in Token : sb["init"].sb_settings[t] # "CALL" =>
                p.settings[t] = sb["init"].sb_settings[t]

AgreeInv == TypeOK /\ PhaseOK /\ CnOK /\ RespOK /\ AcOK /\ ConnectAgree

\* freesblk at either end keeps the agreement: the freed end is out of it.
LEMMA FreeAgrees ==
    ASSUME AgreeInv, NEW s \in Side, phase[s] # "transport",
           NEW pdus \in SUBSET Pdu, \A p \in pdus : p.code \notin {"CN", "AC"},
           Free(s, pdus)
    PROVE  AgreeInv'
  <1>1. TypeOK'
    BY FreeType DEF AgreeInv
  <1>2. \A p \in pdus \cup {Short("TDISC")} : p.code \notin {"CN", "AC"}
    BY DEF Short
  <1>3. CASE s = "init"
    <2>1. /\ phase' = [phase EXCEPT !["init"] = "failed"]
          /\ sb' = [sb EXCEPT !["init"] = newsblk]
          /\ net'["init"] = {}
          /\ net'["resp"] \subseteq net["resp"] \cup (pdus \cup {Short("TDISC")})
      BY <1>3, Sides DEF Free, AgreeInv, TypeOK
    <2>2. /\ phase'["init"] = "failed" /\ phase'["resp"] = phase["resp"]
      BY <2>1, Sides DEF AgreeInv, TypeOK
    <2>3. PhaseOK'
      BY <2>2 DEF AgreeInv, PhaseOK
    <2>4. CnOK'
      BY <1>2, <2>1, <2>2 DEF AgreeInv, CnOK
    <2> QED
      BY <1>1, <2>1, <2>2, <2>3, <2>4, Sides
      DEF AgreeInv, RespOK, AcOK, ConnectAgree
  <1>4. CASE s = "resp"
    <2>1. /\ phase' = [phase EXCEPT !["resp"] = "failed"]
          /\ net'["resp"] = {}
          /\ net'["init"] \subseteq net["init"] \cup (pdus \cup {Short("TDISC")})
      BY <1>4, Sides DEF Free, AgreeInv, TypeOK
    <2>2. /\ phase'["resp"] = "failed" /\ phase'["init"] = phase["init"]
      BY <2>1, Sides DEF AgreeInv, TypeOK
    <2>3. PhaseOK'
      BY <2>2 DEF AgreeInv, PhaseOK
    <2>4. AcOK'
      BY <1>2, <2>1, <2>2 DEF AgreeInv, AcOK
    <2> QED
      BY <1>1, <2>1, <2>2, <2>3, <2>4, Sides
      DEF AgreeInv, RespOK, CnOK, ConnectAgree
  <1> QED
    BY <1>3, <1>4 DEF Side

\* A token is settled by the proposal or by the answer, and each end reads
\* off the same settlement which tokens are its own.
LEMMA TokensShared ==
    ASSUME AgreeInv, NEW ac \in net["init"], ac.code = "AC",
           phase["init"] = "waiting", phase["resp"] = "connected"
    PROVE  LET mine == InitiatorOwns(sb["init"], ac)
               theirs == sb["resp"].sb_owned IN
           mine \cup theirs = Available(ac.req) /\ mine \cap theirs = {}
  <1>1. \A t \in Available(ac.req) :
          sb["init"].sb_settings[t] \in {"INIT", "RESP", "CALL"} /\ t \in Token
    BY AvailableTokens, Sides DEF AgreeInv, TypeOK, ssapblk, Settings, Setting
  <1>2. /\ sb["resp"].sb_owned = {t \in Available(ac.req) : ac.settings[t] = "RESP"}
        /\ \A t \in Token : sb["init"].sb_settings[t] # "CALL" =>
             ac.settings[t] = sb["init"].sb_settings[t]
    BY DEF AgreeInv, AcOK
  <1> QED
    BY <1>1, <1>2 DEF InitiatorOwns

LEMMA AgreeInductive == AgreeInv /\ [Next]_vars => AgreeInv'
  <1> SUFFICES ASSUME AgreeInv, [Next]_vars
               PROVE  AgreeInv'
    OBVIOUS
  <1>1. TypeOK'
    BY TypeInductive DEF AgreeInv
  <1>2. /\ DOMAIN phase = Side /\ DOMAIN sb = Side /\ DOMAIN net = Side
        /\ phase \in [Side -> Phase]
    BY DEF AgreeInv, TypeOK
  <1>3. ASSUME NEW req, NEW settings, NEW isn, SConnRequest(req, settings, isn)
        PROVE  AgreeInv'
    <2>1. /\ phase["init"] = "idle" /\ phase'["init"] = "transport"
          /\ phase'["resp"] = phase["resp"]
          /\ net'["init"] = net["init"]
          /\ net'["resp"] \subseteq net["resp"]
      BY <1>2, <1>3, Sides DEF SConnRequest, Step
    <2> QED
      BY <1>1, <2>1 DEF AgreeInv, PhaseOK, CnOK, RespOK, AcOK, ConnectAgree, Side
  <1>4. CASE TConnectFails
    <2>1. /\ phase["init"] = "transport" /\ phase'["init"] = "failed"
          /\ phase'["resp"] = phase["resp"]
          /\ net'["init"] = net["init"]
          /\ net'["resp"] \subseteq net["resp"]
      BY <1>2, <1>4, Sides DEF TConnectFails, Step
    <2> QED
      BY <1>1, <2>1 DEF AgreeInv, PhaseOK, CnOK, RespOK, AcOK, ConnectAgree, Side
  <1>5. CASE SAsynRetryAux1
    <2>1. PICK cn : /\ cn.settings = sb'["init"].sb_settings
                    /\ cn.req = sb'["init"].sb_requirements
                    /\ net'["resp"] \subseteq net["resp"] \cup {cn}
                    /\ phase["resp"] = "failed" => net'["resp"] = {}
      <3> DEFINE b == sb["init"]
                 req == IF Expd THEN b.sb_requirements
                        ELSE b.sb_requirements \ {"EXPEDITED"}
                 cn == [code |-> "CN", req |-> req, settings |-> b.sb_settings,
                        isn |-> b.isn]
      <3>1. Step("init", "waiting", [b EXCEPT !.sb_requirements = req], {}, {cn})
        BY <1>5 DEF SAsynRetryAux1
      <3>2. b \in ssapblk
        BY Sides DEF AgreeInv, TypeOK
      <3>3. cn.settings = b.sb_settings /\ cn.req = req
        OBVIOUS
      <3> HIDE DEF req, cn
      <3>4. /\ sb'["init"].sb_settings = b.sb_settings
            /\ sb'["init"].sb_requirements = req
        BY <1>2, <3>1, <3>2, Sides DEF Step, ssapblk
      <3>5. /\ net'["resp"] \subseteq net["resp"] \cup {cn}
            /\ phase["resp"] = "failed" => net'["resp"] = {}
        BY <1>2, <3>1, Sides DEF Step
      <3> QED
        BY <3>3, <3>4, <3>5
    <2>2. /\ phase["init"] = "transport" /\ phase'["init"] = "waiting"
          /\ phase'["resp"] = phase["resp"] /\ net'["init"] = net["init"]
      BY <1>2, <1>5, Sides DEF SAsynRetryAux1, Step
    <2>3. phase["resp"] \in {"idle", "failed"}
      BY <2>2 DEF AgreeInv, PhaseOK
    <2>4. \A p \in net["resp"] : p.code # "CN"
      BY <2>2 DEF AgreeInv, CnOK
    <2>5. CnOK'
      BY <2>1, <2>2, <2>3, <2>4 DEF CnOK
    <2> QED
      BY <1>1, <2>2, <2>3, <2>5 DEF AgreeInv, PhaseOK, RespOK, AcOK, ConnectAgree, Side
  <1>6. CASE ReadAC
    <2>1. PICK ac \in net["init"] :
            LET b == sb["init"] IN
            /\ phase["init"] = "waiting" /\ ac.code = "AC"
            /\ Negotiated(b.sb_requirements, ac.req)
            /\ Step("init", "connected",
                 [b EXCEPT !.sb_requirements = ac.req,
                           !.sb_owned = InitiatorOwns(b, ac),
                           !.sb_V_M = IF ac.isn # SERIAL_NONE THEN ac.isn ELSE @],
                 {ac}, {})
      BY <1>6 DEF ReadAC
    <2>2. /\ phase'["init"] = "connected" /\ phase'["resp"] = phase["resp"]
          /\ sb'["resp"] = sb["resp"]
          /\ net'["resp"] \subseteq net["resp"]
          /\ net'["init"] \subseteq net["init"]
      BY <1>2, <2>1, Sides DEF Step
    <2>3. /\ sb'["init"].sb_requirements = ac.req
          /\ sb'["init"].sb_owned = InitiatorOwns(sb["init"], ac)
      BY <1>2, <2>1, Sides DEF Step, AgreeInv, TypeOK, ssapblk
    <2>4. phase["resp"] \in {"connected", "failed"}
      BY <2>1 DEF AgreeInv, AcOK
    <2>5. ConnectAgree'
      <3> SUFFICES ASSUME phase["resp"] = "connected"
                   PROVE  ConnectAgree'
        BY <2>2, <2>4 DEF ConnectAgree, Side
      <3>1. sb["resp"].sb_requirements = ac.req
        BY <2>1 DEF AgreeInv, AcOK
      <3>2. Negotiated(ac.req, ac.req)
        BY <2>1 DEF Negotiated
      <3> QED
        BY <2>1, <2>2, <2>3, <3>1, <3>2, TokensShared DEF ConnectAgree
    <2>6. CnOK'
      BY <2>1, <2>2, <2>4 DEF AgreeInv, CnOK
    <2> QED
      BY <1>1, <2>2, <2>4, <2>5, <2>6 DEF AgreeInv, PhaseOK, RespOK, AcOK
  <1>7. CASE ReadACMangled
    <2>1. Short("AB") \in Pdu /\ Short("AB").code = "AB"
      BY ShortType DEF Short
    <2> QED
      BY <1>7, <2>1, FreeAgrees, Sides DEF ReadACMangled
  <1>8. CASE ReadRF
    BY <1>8, FreeAgrees, Sides DEF ReadRF
  <1>9. CASE RemoteTimedOut
    BY <1>9, FreeAgrees, Sides DEF RemoteTimedOut
  <1>10. CASE SInit
    <2>1. PICK cn \in net["resp"] :
            /\ phase["resp"] = "idle" /\ cn.code = "CN"
            /\ Step("resp", "indicated",
              [newsblk EXCEPT
                 !.sb_requirements = IF Expd THEN cn.req ELSE cn.req \ {"EXPEDITED"},
                 !.sb_settings = cn.settings,
                 !.sb_V_M = IF cn.isn # SERIAL_NONE THEN cn.isn ELSE @],
              {cn}, {})
      BY <1>10 DEF SInit
    <2>2. /\ phase'["resp"] = "indicated" /\ phase'["init"] = phase["init"]
          /\ sb'["init"] = sb["init"]
          /\ net'["resp"] = net["resp"] \ {cn}
          /\ net'["init"] \subseteq net["init"]
      BY <1>2, <2>1, Sides DEF Step
    <2>3. /\ sb'["resp"].sb_settings = cn.settings
          /\ sb'["resp"].sb_requirements \subseteq cn.req
      BY <1>2, <2>1, Sides DEF Step, newsblk
    <2>4. phase["init"] \in {"waiting", "failed"}
      BY <2>1 DEF AgreeInv, CnOK
    <2>5. RespOK'
      BY <2>1, <2>2, <2>3 DEF AgreeInv, CnOK, RespOK
    <2>6. CnOK'
      BY <2>1, <2>2 DEF AgreeInv, CnOK
    <2>7. AcOK'
      BY <2>1, <2>2 DEF AgreeInv, AcOK
    <2> QED
      BY <1>1, <2>2, <2>4, <2>5, <2>6, <2>7 DEF AgreeInv, PhaseOK, ConnectAgree, Side
  <1>11. CASE SInitRefuses
    <2>1. Short("AB") \in Pdu /\ Short("AB").code = "AB"
      BY ShortType DEF Short
    <2> QED
      BY <1>11, <2>1, FreeAgrees, Sides DEF SInitRefuses
  <1>12. CASE RespondingLost
    BY <1>12, FreeAgrees, Sides DEF RespondingLost
  <1>13. ASSUME NEW req, NEW settings, NEW isn, SConnResponse(req, settings, isn)
         PROVE  AgreeInv'
    <2> DEFINE b == sb["resp"]
               agreed == b.sb_requirements \cap req
               settled == Settled(b, settings)
               owned == {t \in Available(agreed) : settled[t] = "RESP"}
               ac == [code |-> "AC", req |-> agreed, settings |-> settled,
                      isn |-> isn]
    <2>1. /\ phase["resp"] = "indicated"
          /\ Step("resp", "connected",
               [b EXCEPT !.sb_requirements = agreed, !.sb_owned = owned], {}, {ac})
      BY <1>13 DEF SConnResponse
    <2>2. /\ ac.req = agreed /\ ac.settings = settled
          /\ \A t \in Token : b.sb_settings[t] # "CALL" =>
               settled[t] = b.sb_settings[t]
      BY DEF Settled
    <2>3. b \in ssapblk
      BY Sides DEF AgreeInv, TypeOK
    <2>4. agreed \subseteq b.sb_requirements
      OBVIOUS
    <2> HIDE DEF agreed, settled, ac
    <2>5. /\ sb'["resp"].sb_requirements = agreed /\ sb'["resp"].sb_owned = owned
          /\ sb'["resp"].sb_settings = b.sb_settings
      BY <1>2, <2>1, <2>3, Sides DEF Step, ssapblk
    <2>6. /\ phase'["resp"] = "connected" /\ phase'["init"] = phase["init"]
          /\ sb'["init"] = sb["init"] /\ net'["resp"] = net["resp"]
          /\ net'["init"] \subseteq net["init"] \cup {ac}
      BY <1>2, <2>1, Sides DEF Step
    <2>7. phase["init"] \in {"waiting", "failed"}
      BY <1>2, <2>1 DEF AgreeInv, PhaseOK, Phase, Side
    <2>8. \A p \in net["init"] : p.code # "AC"
      BY <2>1 DEF AgreeInv, AcOK
    <2>9. \A p \in net["resp"] : p.code # "CN"
      BY <2>1 DEF AgreeInv, CnOK
    <2>10. RespOK'
      BY <2>1, <2>4, <2>5, <2>6 DEF AgreeInv, RespOK
    <2>11. AcOK'
      <3> SUFFICES ASSUME NEW p \in net'["init"], p.code = "AC",
                          phase["init"] = "waiting"
                   PROVE  /\ p.req = sb'["resp"].sb_requirements
                          /\ sb'["resp"].sb_owned =
                               {t \in Available(p.req) : p.settings[t] = "RESP"}
                          /\ \A t \in Token : sb'["init"].sb_settings[t] # "CALL" =>
                               p.settings[t] = sb'["init"].sb_settings[t]
        BY <2>6 DEF AcOK
      <3>1. p = ac
        BY <2>6, <2>8
      <3>2. b.sb_settings = sb["init"].sb_settings
        BY <2>1 DEF AgreeInv, RespOK
      <3> QED
        BY <2>2, <2>5, <2>6, <3>1, <3>2
    <2> QED
      BY <1>1, <2>6, <2>7, <2>9, <2>10, <2>11
      DEF AgreeInv, PhaseOK, CnOK, ConnectAgree, Side
  <1>14. ASSUME NEW req, NEW settings, NEW isn,
                SConnResponseImproper(req, settings, isn)
         PROVE  AgreeInv'
    <2> DEFINE b == sb["resp"]
               agreed == b.sb_requirements \cap req
    <2>1. /\ phase["resp"] = "indicated"
          /\ Step("resp", "indicated", [b EXCEPT !.sb_requirements = agreed], {}, {})
      BY <1>14 DEF SConnResponseImproper
    <2>2. b \in ssapblk
      BY Sides DEF AgreeInv, TypeOK
    <2>3. /\ sb'["resp"].sb_requirements \subseteq b.sb_requirements
          /\ sb'["resp"].sb_settings = b.sb_settings
      BY <1>2, <2>1, <2>2, Sides DEF Step, ssapblk
    <2>4. /\ phase'["resp"] = "indicated" /\ phase'["init"] = phase["init"]
          /\ sb'["init"] = sb["init"] /\ net'["resp"] = net["resp"]
          /\ net'["init"] \subseteq net["init"]
      BY <1>2, <2>1, Sides DEF Step
    <2>5. \A p \in net["init"] : p.code # "AC"
      BY <2>1 DEF AgreeInv, AcOK
    <2>6. RespOK'
      BY <2>1, <2>3, <2>4 DEF AgreeInv, RespOK
    <2>7. CnOK'
      BY <2>1, <2>4 DEF AgreeInv, CnOK
    <2> QED
      BY <1>1, <2>1, <2>4, <2>5, <2>6, <2>7
      DEF AgreeInv, PhaseOK, AcOK, ConnectAgree, Side
  <1>15. CASE SConnReject
    <2>1. Short("RF") \in Pdu /\ Short("RF").code = "RF"
      BY ShortType DEF Short
    <2> QED
      BY <1>15, <2>1, FreeAgrees, Sides DEF SConnReject
  <1>16. CASE UNCHANGED vars
    BY <1>16
    DEF vars, AgreeInv, TypeOK, PhaseOK, CnOK, RespOK, AcOK, ConnectAgree
  <1> QED
    BY <1>3, <1>4, <1>5, <1>6, <1>7, <1>8, <1>9, <1>10, <1>11, <1>12, <1>13,
       <1>14, <1>15, <1>16 DEF Next, Responding

\* Whatever the two users propose and answer, and whenever the initiator
\* gives up: two ends that are both connected have the same functional
\* units, a coherent set, and share out the tokens.
THEOREM Agreement == Spec => []ConnectAgree
  <1>1. Init => AgreeInv
    <2>1. Init => TypeOK
      BY BlockType DEF Init, TypeOK, Phase
    <2> QED
      BY <2>1, Sides DEF Init, AgreeInv, PhaseOK, CnOK, RespOK, AcOK, ConnectAgree
  <1>2. AgreeInv => ConnectAgree
    BY DEF AgreeInv
  <1> QED
    BY <1>1, <1>2, AgreeInductive, PTL DEF Spec

-----------------------------------------------------------------------------
(* No connection is left half open.                                        *)

\* Whoever is gone has told the peer: its T-DISCONNECT is on its way, unless
\* the peer is gone too; and the AC of a connected responder is.  A CN may
\* outlive the initiator, who then must have sent a T-DISCONNECT behind it.
OpenOK ==
    /\ phase["resp"] = "failed" =>
         phase["init"] = "failed" \/ Short("TDISC") \in net["init"]
    /\ phase["init"] = "failed" =>
         \/ Short("TDISC") \in net["resp"]
         \/ /\ phase["resp"] \notin {"indicated", "connected"}
            /\ \A p \in net["resp"] : p.code # "CN"
    /\ phase["resp"] = "connected" /\ phase["init"] = "waiting" =>
         \E p \in net["init"] : p.code = "AC"

\* freesblk tells the peer.
LEMMA FreeOpen ==
    ASSUME AgreeInv, NEW s \in Side, NEW pdus, Free(s, pdus)
    PROVE  OpenOK'
  <1>1. /\ DOMAIN phase = Side /\ DOMAIN net = Side
    BY DEF AgreeInv, TypeOK
  <1>2. /\ phase'[s] = "failed" /\ phase'[Peer(s)] = phase[Peer(s)]
        /\ net'[s] = {}
        /\ phase[Peer(s)] # "failed" => Short("TDISC") \in net'[Peer(s)]
    BY <1>1, Sides DEF Free, Side
  <1>3. CASE s = "init"
    <2>1. phase["resp"] = "failed" => net'["resp"] = {}
      BY <1>1, <1>3, Sides DEF Free
    <2> QED
      BY <1>2, <1>3, <2>1, Sides DEF OpenOK
  <1>4. CASE s = "resp"
    BY <1>2, <1>4, Sides DEF OpenOK
  <1> QED
    BY <1>3, <1>4 DEF Side

\* A routine of the initiator or of the responder that goes on.
LEMMA StepInit ==
    ASSUME AgreeInv, NEW ph, NEW b, NEW in, NEW out, Step("init", ph, b, in, out)
    PROVE  /\ phase'["init"] = ph /\ phase'["resp"] = phase["resp"]
           /\ net'["init"] = net["init"] \ in
           /\ in = {} => net'["init"] = net["init"]
           /\ net'["resp"] = (IF phase["resp"] = "failed" THEN {} ELSE net["resp"] \cup out)
           /\ out = {} => net'["resp"] \subseteq net["resp"]
  BY Sides DEF AgreeInv, TypeOK, Step

LEMMA StepResp ==
    ASSUME AgreeInv, NEW ph, NEW b, NEW in, NEW out, Step("resp", ph, b, in, out)
    PROVE  /\ phase'["resp"] = ph /\ phase'["init"] = phase["init"]
           /\ net'["resp"] = net["resp"] \ in
           /\ in = {} => net'["resp"] = net["resp"]
           /\ net'["init"] = (IF phase["init"] = "failed" THEN {} ELSE net["init"] \cup out)
  BY Sides DEF AgreeInv, TypeOK, Step

LEMMA OpenInductive == AgreeInv /\ OpenOK /\ [Next]_vars => OpenOK'
  <1> SUFFICES ASSUME AgreeInv, OpenOK, [Next]_vars
               PROVE  OpenOK'
    OBVIOUS
  <1>1. PhaseOK /\ CnOK /\ AcOK
    BY DEF AgreeInv
  <1>2. Short("TDISC").code = "TDISC"
    BY DEF Short
  <1>3. ASSUME NEW req, NEW settings, NEW isn, SConnRequest(req, settings, isn)
        PROVE  OpenOK'
    <2>1. phase["init"] = "idle" /\ \E b : Step("init", "transport", b, {}, {})
      BY <1>3 DEF SConnRequest
    <2>2. /\ phase'["init"] = "transport" /\ phase'["resp"] = phase["resp"]
          /\ net'["init"] = net["init"]
      BY <2>1, StepInit
    <2> QED
      BY <2>1, <2>2 DEF OpenOK
  <1>4. CASE TConnectFails
    <2>1. phase["init"] = "transport" /\ Step("init", "failed", newsblk, {}, {})
      BY <1>4 DEF TConnectFails
    <2>2. /\ phase'["init"] = "failed" /\ phase'["resp"] = phase["resp"]
          /\ net'["resp"] \subseteq net["resp"]
      BY <2>1, StepInit
    <2>3. /\ phase["resp"] \in {"idle", "failed"}
          /\ \A p \in net["resp"] : p.code # "CN"
      BY <1>1, <2>1 DEF PhaseOK, CnOK
    <2> QED
      BY <2>2, <2>3 DEF OpenOK
  <1>5. CASE SAsynRetryAux1
    <2>1. phase["init"] = "transport" /\ \E b, out : Step("init", "waiting", b, {}, out)
      BY <1>5 DEF SAsynRetryAux1
    <2>2. /\ phase'["init"] = "waiting" /\ phase'["resp"] = phase["resp"]
          /\ net'["init"] = net["init"]
      BY <2>1, StepInit
    <2>3. phase["resp"] \in {"idle", "failed"}
      BY <1>1, <2>1 DEF PhaseOK
    <2> QED
      BY <2>1, <2>2, <2>3 DEF OpenOK
  <1>6. CASE ReadAC
    <2>1. PICK ac \in net["init"] :
            /\ phase["init"] = "waiting" /\ ac.code = "AC"
            /\ \E b : Step("init", "connected", b, {ac}, {})
      BY <1>6 DEF ReadAC
    <2>2. /\ phase'["init"] = "connected" /\ phase'["resp"] = phase["resp"]
          /\ net'["init"] = net["init"] \ {ac}
      BY <2>1, StepInit
    <2> QED
      BY <1>2, <2>1, <2>2 DEF OpenOK
  <1>7. CASE ReadACMangled \/ ReadRF \/ RemoteTimedOut
    BY <1>7, FreeOpen, Sides DEF ReadACMangled, ReadRF, RemoteTimedOut
  <1>8. CASE SInitRefuses \/ RespondingLost \/ SConnReject
    BY <1>8, FreeOpen, Sides DEF SInitRefuses, RespondingLost, SConnReject
  <1>9. CASE SInit
    <2>1. PICK cn \in net["resp"] :
            /\ phase["resp"] = "idle" /\ cn.code = "CN"
            /\ \E b : Step("resp", "indicated", b, {cn}, {})
      BY <1>9 DEF SInit
    <2>2. /\ phase'["resp"] = "indicated" /\ phase'["init"] = phase["init"]
          /\ net'["resp"] = net["resp"] \ {cn}
      BY <2>1, StepResp
    <2> QED
      BY <1>2, <2>1, <2>2 DEF OpenOK
  <1>10. ASSUME NEW req, NEW settings, NEW isn, SConnResponse(req, settings, isn)
         PROVE  OpenOK'
    <2>1. phase["resp"] = "indicated"
      BY <1>10 DEF SConnResponse
    <2>2. PICK b, ac : ac.code = "AC" /\ Step("resp", "connected", b, {}, {ac})
      BY <1>10 DEF SConnResponse
    <2>3. /\ phase'["resp"] = "connected" /\ phase'["init"] = phase["init"]
          /\ net'["resp"] = net["resp"]
      BY <2>2, StepResp
    <2>4. phase["init"] # "failed" => net'["init"] = net["init"] \cup {ac}
      BY <2>2, StepResp
    <2>5. phase["init"] # "failed" => ac \in net'["init"]
      BY <2>4
    <2> QED
      BY <2>1, <2>2, <2>3, <2>5 DEF OpenOK
  <1>11. ASSUME NEW req, NEW settings, NEW isn, SConnResponseImproper(req, settings, isn)
         PROVE  OpenOK'
    <2>1. phase["resp"] = "indicated" /\ \E b : Step("resp", "indicated", b, {}, {})
      BY <1>11 DEF SConnResponseImproper
    <2>2. /\ phase'["resp"] = "indicated" /\ phase'["init"] = phase["init"]
          /\ net'["resp"] = net["resp"]
      BY <2>1, StepResp
    <2> QED
      BY <2>1, <2>2 DEF OpenOK
  <1>12. CASE UNCHANGED vars
    BY <1>12 DEF vars, OpenOK
  <1> QED
    BY <1>3, <1>4, <1>5, <1>6, <1>7, <1>8, <1>9, <1>10, <1>11, <1>12
    DEF Next, Responding

\* Whichever end gives up, and whenever: once nothing is under way, an end
\* that SConnResponse or the AC has connected has a peer that is connected.
\* An AC that comes too late, or that SAsynRetryAux2 finds to be mangled,
\* leaves no responder behind.
THEOREM BothOpenOrNone == Spec => []NoHalfOpen
  <1>1. Init => AgreeInv /\ OpenOK
    <2>1. Init => TypeOK
      BY BlockType DEF Init, TypeOK, Phase
    <2> QED
      BY <2>1, Sides
      DEF Init, AgreeInv, PhaseOK, CnOK, RespOK, AcOK, ConnectAgree, OpenOK
  <1>2. AgreeInv /\ OpenOK => NoHalfOpen
    <2> SUFFICES ASSUME AgreeInv, OpenOK, \A s \in Side : net[s] = {},
                        NEW s \in Side, phase[s] = "connected"
                 PROVE  phase[Peer(s)] = "connected"
      BY DEF NoHalfOpen
    <2>1. net["init"] = {} /\ net["resp"] = {}
      BY Sides
    <2>2. phase["init"] \in Phase /\ PhaseOK
      BY Sides DEF AgreeInv, TypeOK
    <2>3. CASE s = "init"
      BY <2>1, <2>2, <2>3, Sides DEF OpenOK, PhaseOK
    <2>4. CASE s = "resp"
      BY <2>1, <2>2, <2>4, Sides DEF OpenOK, PhaseOK, Phase
    <2> QED
      BY <2>3, <2>4 DEF Side
  <1> QED
    BY <1>1, <1>2, AgreeInductive, OpenInductive, PTL DEF Spec
=============================================================================
