----------------------------- MODULE SsapConnect -----------------------------
(***************************************************************************)
(* Session connection establishment, ssap/ssapinitiate.c and               *)
(* ssap/ssaprespond.c: the functional units, the tokens and the initial    *)
(* serial number are negotiated by a CN SPDU and the AC SPDU that answers  *)
(* it, each end reducing its own block.  The initiator may be asynchronous *)
(* (S-ASYN-RETRY) and then gives up after sb_maxtime.                      *)
(*                                                                         *)
(* Addresses, references, protocol version, TSDU sizes and user data are   *)
(* left out.  The SPDUs under way to a side are a set: at most one CN, AC  *)
(* or RF is ever under way, and a T-DISCONNECT may overtake them.          *)
(***************************************************************************)
EXTENDS SPkt, Integers

CONSTANTS
    Units,      \* the functional units the users draw from
    Choices,    \* the token settings the users pass
    Isn,        \* the initial serial numbers the users pass
    Expd        \* does the transport connection carry expedited data

ASSUME UnitsAssumption == Units \subseteq FunctionalUnits
ASSUME ChoicesAssumption == Choices \subseteq Settings
ASSUME IsnAssumption == Isn \subseteq Nat
ASSUME ExpdAssumption == Expd \in BOOLEAN

VARIABLES
    phase,  \* where S-CONNECT has got to at each side
    sb,     \* the negotiated fields of struct ssapblk
    net     \* SPDUs under way to each side

vars == <<phase, sb, net>>

-----------------------------------------------------------------------------
(* State.  idle: no block; transport: CONNECTING_1; waiting: CN sent;      *)
(* indicated: SInit has returned; connected: SB_CONN; failed: freed.       *)

Phase == {"idle", "transport", "waiting", "indicated", "connected", "failed"}

SERIAL_NONE == -1
SERIAL_MAX == 999998

ssapblk == [sb_requirements : SUBSET FunctionalUnits, sb_settings : Settings,
            sb_owned : SUBSET Token, sb_V_M : Nat, isn : Nat \cup {SERIAL_NONE}]

\* isn holds the proposal until the CN is sent (s_isn of sb_retry).
newsblk == [sb_requirements |-> {}, sb_settings |-> NoSettings,
            sb_owned |-> {}, sb_V_M |-> 0, isn |-> SERIAL_NONE]

Pdu == [code : {"CN", "AC", "RF", "AB", "TDISC"}, req : SUBSET FunctionalUnits,
        settings : Settings, isn : Nat \cup {SERIAL_NONE}]

Short(code) == [code |-> code, req |-> {}, settings |-> NoSettings,
                isn |-> SERIAL_NONE]

Init ==
    /\ phase = [s \in Side |-> "idle"]
    /\ sb = [s \in Side |-> newsblk]
    /\ net = [s \in Side |-> {}]

\* freesblk(): the transport connection goes with the block.
Free(s, pdus) ==
    /\ phase' = [phase EXCEPT ![s] = "failed"]
    /\ sb' = [sb EXCEPT ![s] = newsblk]
    /\ net' = [net EXCEPT ![s] = {},
                 ![Peer(s)] = IF phase[Peer(s)] = "failed" THEN {}
                              ELSE @ \cup pdus \cup {Short("TDISC")}]

\* A routine that changes the block and phase of s, takes one SPDU and
\* sends one.
Step(s, ph, b, in, out) ==
    /\ phase' = [phase EXCEPT ![s] = ph]
    /\ sb' = [sb EXCEPT ![s] = b]
    /\ net' = [net EXCEPT ![s] = @ \ in,
                 ![Peer(s)] = IF phase[Peer(s)] = "failed" THEN {} ELSE @ \cup out]

SyncUnits == {"MINORSYNC", "MAJORSYNC", "RESYNC"}

\* The check of the isn argument against the requirements, at both ends.
IsnAllowed(req, isn) ==
    IF req \cap SyncUnits = {} THEN isn = SERIAL_NONE
    ELSE \/ isn \in 0 .. (SERIAL_MAX + 1)
         \/ "ACTIVITY" \in req /\ isn = SERIAL_NONE

-----------------------------------------------------------------------------
(* Initiator.                                                              *)

SConnRequest(req, settings, isn) ==
    /\ phase["init"] = "idle"
    /\ "EXCEPTIONS" \in req => "HALFDUPLEX" \in req
    /\ IsnAllowed(req, isn)
    /\ Step("init", "transport",
            [newsblk EXCEPT !.sb_requirements = req, !.sb_settings = settings,
                            !.isn = isn], {}, {})

\* TAsynConnRequest or TAsynRetryRequest fails.
TConnectFails ==
    /\ phase["init"] = "transport"
    /\ Step("init", "failed", newsblk, {}, {})

\* SAsynRetryAux1: the transport connection is up and the CN goes out.
SAsynRetryAux1 ==
    LET b == sb["init"]
        req == IF Expd THEN b.sb_requirements
               ELSE b.sb_requirements \ {"EXPEDITED"} IN
    /\ phase["init"] = "transport"
    /\ Step("init", "waiting", [b EXCEPT !.sb_requirements = req], {},
            {[code |-> "CN", req |-> req, settings |-> b.sb_settings,
              isn |-> b.isn]})

\* The checks of the requirements in an AC.
Negotiated(proposed, req) ==
    /\ req \subseteq proposed
    /\ "HALFDUPLEX" \in req <=> "DUPLEX" \notin req
    /\ "EXCEPTIONS" \in req => "HALFDUPLEX" \in req
    /\ "CAPABILITY" \in req => "ACTIVITY" \in req

\* Mutant of InitiatorOwns: a token left to the responder is taken as well.
InitiatorOwnsCalled(b, ac) ==
    {t \in Available(ac.req) : b.sb_settings[t] \in {"INIT", "CALL"}}

\* dotokens(): a token left to the responder goes where the AC says.
InitiatorOwns(b, ac) ==
    {t \in Available(ac.req) :
       \/ b.sb_settings[t] = "INIT"
       \/ b.sb_settings[t] = "CALL" /\ ac.settings[t] # "RESP"}

\* Mutant of ReadAC: a serial number is taken from an AC that has none.
ReadACAnyIsn ==
    \E ac \in net["init"] :
      LET b == sb["init"] IN
      /\ phase["init"] = "waiting" /\ ac.code = "AC"
      /\ Negotiated(b.sb_requirements, ac.req)
      /\ Step("init", "connected",
              [b EXCEPT !.sb_requirements = ac.req, !.sb_V_M = ac.isn,
                        !.sb_owned = InitiatorOwns(b, ac)], {ac}, {})

\* SAsynRetryAux2, case SPDU_AC.
ReadAC ==
    \E ac \in net["init"] :
      LET b == sb["init"] IN
      /\ phase["init"] = "waiting" /\ ac.code = "AC"
      /\ Negotiated(b.sb_requirements, ac.req)
      /\ Step("init", "connected",
              [b EXCEPT !.sb_requirements = ac.req,
                        !.sb_owned = InitiatorOwns(b, ac),
                        !.sb_V_M = IF ac.isn # SERIAL_NONE THEN ac.isn ELSE @],
              {ac}, {})

\* Mutant of ReadACMangled: the block is dropped and nobody is told.
ReadACSilent ==
    \E ac \in net["init"] :
      /\ phase["init"] = "waiting" /\ ac.code = "AC"
      /\ ~Negotiated(sb["init"].sb_requirements, ac.req)
      /\ Step("init", "failed", newsblk, net["init"], {})

\* spktlose: the responder, already connected, is sent an AB.
ReadACMangled ==
    \E ac \in net["init"] :
      /\ phase["init"] = "waiting" /\ ac.code = "AC"
      /\ ~Negotiated(sb["init"].sb_requirements, ac.req)
      /\ Free("init", {Short("AB")})

\* The other cases: refused, aborted or disconnected.
ReadRF ==
    \E p \in net["init"] :
      /\ phase["init"] = "waiting" /\ p.code \in {"RF", "AB", "TDISC"}
      /\ Free("init", {})

\* SC_TIMER: "remote SPM timed-out".
RemoteTimedOut == phase["init"] = "waiting" /\ Free("init", {})

-----------------------------------------------------------------------------
(* Responder.                                                              *)

\* A CN that SInit refuses.
Refused(cn) ==
    \/ "EXCEPTIONS" \in cn.req /\ "HALFDUPLEX" \notin cn.req
    \/ "CAPABILITY" \in cn.req /\ "ACTIVITY" \notin cn.req
    \/ cn.req \cap {"HALFDUPLEX", "DUPLEX"} = {}
    \/ IF cn.req \cap SyncUnits # {}
       THEN "ACTIVITY" \notin cn.req /\ cn.isn = SERIAL_NONE
       ELSE cn.isn # SERIAL_NONE

SInit ==
    \E cn \in net["resp"] :
      /\ phase["resp"] = "idle" /\ cn.code = "CN" /\ ~Refused(cn)
      /\ Step("resp", "indicated",
              [newsblk EXCEPT
                 !.sb_requirements = IF Expd THEN cn.req ELSE cn.req \ {"EXPEDITED"},
                 !.sb_settings = cn.settings,
                 !.sb_V_M = IF cn.isn # SERIAL_NONE THEN cn.isn ELSE @],
              {cn}, {})

SInitRefuses ==
    \E cn \in net["resp"] :
      /\ phase["resp"] = "idle" /\ cn.code = "CN" /\ Refused(cn)
      /\ Free("resp", {Short("AB")})

\* The requirements argument of SConnResponse.
Acceptable(req) ==
    /\ ~({"HALFDUPLEX", "DUPLEX"} \subseteq req)
    /\ "EXCEPTIONS" \in req => "HALFDUPLEX" \in req

\* dotokens(): the settings returned, and with CALL the responder's choice.
Settled(b, settings) ==
    [t \in Token |->
       IF b.sb_settings[t] = "CALL" THEN settings[t] ELSE b.sb_settings[t]]

Chosen(b, req, settings) ==
    \A t \in Available(req) : b.sb_settings[t] = "CALL" => settings[t] # "CALL"

SConnResponse(req, settings, isn) ==
    LET b == sb["resp"]
        agreed == b.sb_requirements \cap req
        settled == Settled(b, settings) IN
    /\ phase["resp"] = "indicated"
    /\ Acceptable(req)
    /\ Chosen(b, agreed, settings) /\ IsnAllowed(agreed, isn)
    /\ Step("resp", "connected",
            [b EXCEPT !.sb_requirements = agreed,
               !.sb_owned = {t \in Available(agreed) : settled[t] = "RESP"}],
            {}, {[code |-> "AC", req |-> agreed, settings |-> settled, isn |-> isn]})

\* SC_PARAMETER after the requirements have been reduced: the user may call
\* again, with what is left (sb_owned is then set anew).
SConnResponseImproper(req, settings, isn) ==
    LET b == sb["resp"]
        agreed == b.sb_requirements \cap req IN
    /\ phase["resp"] = "indicated"
    /\ Acceptable(req)
    /\ ~(Chosen(b, agreed, settings) /\ IsnAllowed(agreed, isn))
    /\ Step("resp", "indicated", [b EXCEPT !.sb_requirements = agreed], {}, {})

\* SConnResponse with any other status.
SConnReject ==
    /\ phase["resp"] = "indicated"
    /\ Free("resp", {Short("RF")})

\* The responder finds the connection aborted or gone.
RespondingLost ==
    \E p \in net["resp"] :
      /\ phase["resp"] \in {"idle", "indicated", "connected"}
      /\ p.code \in {"AB", "TDISC"}
      /\ Free("resp", {})

-----------------------------------------------------------------------------
Responding ==
    \/ \E req \in SUBSET Units, settings \in Choices,
          isn \in Isn \cup {SERIAL_NONE} :
         SConnResponse(req, settings, isn) \/ SConnResponseImproper(req, settings, isn)
    \/ SConnReject

Next ==
    \/ \E req \in SUBSET Units, settings \in Choices,
          isn \in Isn \cup {SERIAL_NONE} : SConnRequest(req, settings, isn)
    \/ TConnectFails \/ SAsynRetryAux1
    \/ ReadAC \/ ReadACMangled \/ ReadRF \/ RemoteTimedOut
    \/ SInit \/ SInitRefuses \/ RespondingLost
    \/ Responding

Spec == Init /\ [][Next]_vars

-----------------------------------------------------------------------------
(* Properties.                                                             *)

\* Every field of the two blocks and every SPDU stays in its range.
TypeOK ==
    /\ phase \in [Side -> Phase]
    /\ sb \in [Side -> ssapblk]
    /\ net \in [Side -> SUBSET Pdu]

\* Two connected ends have negotiated the same functional units, a coherent
\* set of them, and each token these bring into existence is owned by
\* exactly one end, whichever end settled it.
ConnectAgree ==
    (\A s \in Side : phase[s] = "connected") =>
      LET req == sb["init"].sb_requirements IN
      /\ sb["resp"].sb_requirements = req
      /\ Negotiated(req, req)
      /\ sb["init"].sb_owned \cup sb["resp"].sb_owned = Available(req)
      /\ sb["init"].sb_owned \cap sb["resp"].sb_owned = {}

\* Two connected ends that use serial numbers outside activities start from
\* the same next serial number.
SerialAgree ==
    (/\ \A s \in Side : phase[s] = "connected"
     /\ sb["init"].sb_requirements \cap SyncUnits # {}
     /\ "ACTIVITY" \notin sb["init"].sb_requirements)
    => sb["init"].sb_V_M = sb["resp"].sb_V_M

\* No connection is left half open: once nothing is under way, an end that
\* is connected has a peer that is, also when the AC came too late or was
\* found to be mangled.
NoHalfOpen ==
    (\A s \in Side : net[s] = {}) =>
      \A s \in Side : phase[s] = "connected" => phase[Peer(s)] = "connected"
=============================================================================
